-------------------------- MODULE ChainStoreProofs --------------------------
(***************************************************************************)
(* Proofs about ChainStore: the index on disk covers the chain of the      *)
(* coins on disk, whenever the process dies, and no undo data of it is     *)
(* ever stored over, nor any block but those that a start found beyond     *)
(* the size of the file; without such a block a node that does not replay  *)
(* comes up again; and to replay an index that is one chain gives coins of *)
(* that chain, which VerifyDB then turns down.                             *)
(***************************************************************************)
EXTENDS ChainStore, FiniteSetTheorems, TLAPS

Working == {"up", "fileinfo", "index", "coins", "flag"}

(***************************************************************************)
(* The inductive invariant.  While the process works, what is on disk is a *)
(* part of what is in memory, and all of it but for the blocks in          *)
(* setDirtyBlockIndex; a block gets its data with its first record.        *)
(***************************************************************************)

\* The databases alone.
DiskInv ==
    /\ Genesis \in disk.haveData
    /\ disk.haveUndo \subseteq disk.haveData \ {Genesis}
    /\ disk.haveData \subseteq disk.index
    /\ \A b \in disk.index : (Anc[b] \ {b}) \cap disk.index \subseteq disk.haveData

\* Every block in memory sits on a stored one, and the chain of the coins
\* can be disconnected.
MemoryInv ==
    stage \in Working =>
        /\ Genesis \notin haveUndo
        /\ \A b \in index : Anc[b] \ {b} \subseteq haveData
        /\ Exact(coins)
        /\ Anc[coins.best] \subseteq haveData
        /\ Anc[coins.best] \ {Genesis} \subseteq haveUndo

\* How the two differ.
DirtyInv ==
    stage \in Working =>
        /\ disk.index \subseteq index
        /\ disk.haveData \subseteq haveData
        /\ disk.haveUndo \subseteq haveUndo
        /\ disk.index \cap haveData \subseteq disk.haveData
        /\ index \ dirty \subseteq disk.index
        /\ haveUndo \ dirty \subseteq disk.haveUndo
        /\ Anc[coins.best] \subseteq disk.index
        /\ stage = "coins" => dirty = {}

\* The part of IndexCoversCoins that is about the records.
RecordsCover ==
    Healthy =>
        /\ Exact(disk.coins)
        /\ Anc[disk.coins.best] \subseteq disk.index \cap disk.haveData
        /\ Anc[disk.coins.best] \ {Genesis} \subseteq disk.haveUndo

IInv == TypeOK /\ DiskInv /\ MemoryInv /\ DirtyInv /\ RecordsCover /\ IndexClosed

LEMMA AncFacts ==
    /\ \A b \in Blocks : b \in Anc[b] /\ Anc[b] \subseteq Blocks
    /\ \A b \in Blocks \ {Genesis} : Parent[b] \in Blocks /\ Anc[b] = Anc[Parent[b]] \cup {b}
    /\ \A b \in Blocks \ {Genesis} : Anc[b] \ {b} = Anc[Parent[b]]
    /\ Genesis \in Blocks /\ Anc[Genesis] = {Genesis}
  BY StoreAssumption DEF StoreAssumption

LEMMA HeightNat == \A b \in Blocks : Height(b) \in Nat
<1> SUFFICES ASSUME NEW b \in Blocks PROVE Height(b) \in Nat
  OBVIOUS
<1>1. IsFiniteSet(Anc[b]) /\ Anc[b] # {}
  BY AncFacts, FS_Subset, StoreAssumption DEF StoreAssumption
<1>2. Cardinality(Anc[b]) \in Nat /\ Cardinality(Anc[b]) # 0
  BY <1>1, FS_CardinalityType, FS_EmptySet
<1> QED  BY <1>2 DEF Height

\* What the file information counts.
LEMMA InfoNat ==
    ASSUME TypeOK
    PROVE  /\ info.nHeightLast \in Nat /\ info.nSize \in Nat /\ info.nUndoSize \in Nat
           /\ disk.info.nHeightLast \in Nat /\ disk.info.nSize \in Nat
           /\ disk.info.nUndoSize \in Nat
  BY DEF TypeOK, CBlockFileInfo

-----------------------------------------------------------------------------
(***************************************************************************)
(* Every step keeps the types.                                             *)
(***************************************************************************)
Databases ==
    [index: SUBSET Blocks, haveData: SUBSET Blocks, haveUndo: SUBSET Blocks,
     info: CBlockFileInfo, coins: Coins, shutdown: BOOLEAN]

\* The positions, the files and the information about them.
FileTypes ==
    /\ dataPos \in [Blocks -> Nat] /\ undoPos \in [Blocks -> Nat]
    /\ blkFile \subseteq Blocks /\ revFile \subseteq Blocks
    /\ info \in CBlockFileInfo

\* Sizes are positive, positions add up to naturals.
LEMMA Sizes == \A b \in Blocks : Size[b] \in Nat \ {0} /\ UndoSize[b] \in Nat \ {0}
  BY StoreAssumption DEF StoreAssumption

LEMMA EmptyTypes ==
    Empty \in Databases /\ Fresh \in Coins /\ Empty.info \in CBlockFileInfo
  BY AncFacts, Sizes DEF Empty, Databases, Fresh, Coins, CBlockFileInfo, Nothing

LEMMA StoreTypes ==
    ASSUME TypeOK, NEW b \in Blocks, StoreBlock(b) \/ StoreUndo(b)
    PROVE  FileTypes'
<1>1. info \in CBlockFileInfo /\ Height(b) \in Nat /\ Size[b] \in Nat /\ UndoSize[b] \in Nat
  BY HeightNat, Sizes DEF TypeOK
<1>2. /\ info.nSize \in Nat /\ info.nUndoSize \in Nat /\ info.nHeightLast \in Nat
      /\ info.nSize + Size[b] \in Nat /\ info.nUndoSize + UndoSize[b] \in Nat
  BY <1>1 DEF CBlockFileInfo
<1>3. info' \in CBlockFileInfo
  BY <1>1, <1>2 DEF StoreBlock, StoreUndo, CBlockFileInfo
<1>4. \A file, pos, size, p : file \subseteq Blocks => Stored(file, pos, size, b, p) \subseteq Blocks
  BY DEF Stored
<1>5. blkFile' \subseteq Blocks /\ revFile' \subseteq Blocks
  BY <1>4 DEF StoreBlock, StoreUndo, TypeOK
<1>6. dataPos' \in [Blocks -> Nat] /\ undoPos' \in [Blocks -> Nat]
  BY <1>2 DEF StoreBlock, StoreUndo, TypeOK
<1> QED  BY <1>3, <1>5, <1>6 DEF FileTypes

LEMMA TypeInit == Init => TypeOK
<1> SUFFICES ASSUME Init PROVE TypeOK
  OBVIOUS
<1>1. Empty \in Databases /\ Fresh \in Coins /\ Empty.info \in CBlockFileInfo
  BY EmptyTypes
<1> QED  BY <1>1, AncFacts DEF Init, TypeOK, Databases, Stage

\* After the process has ended.
LEMMA TypeEnd ==
    ASSUME TypeOK, End, disk' \in Databases
    PROVE  TypeOK'
<1>1. Nothing \in CBlockFileInfo /\ Fresh \in Coins
  BY AncFacts DEF Nothing, CBlockFileInfo, Fresh, Coins
<1>2. FileTypes'
  BY <1>1 DEF End, TypeOK, FileTypes
<1> QED  BY <1>1, <1>2 DEF End, TypeOK, Databases, FileTypes, Stage

\* What is loaded has the types of the databases.
LEMMA TypeLoad ==
    ASSUME TypeOK, DiskInv, NEW c \in Coins, Load(c)
    PROVE  TypeOK'
<1>1. disk' \in Databases
  BY DEF Load, TypeOK, Databases
<1>2. exposed' \subseteq Blocks /\ FileTypes'
  BY DEF Load, TypeOK, Beyond, FileTypes, files
<1> QED  BY <1>1, <1>2 DEF Load, TypeOK, DiskInv, Databases, FileTypes, Stage

LEMMA ReplayType ==
    ASSUME TypeOK, NEW addr, NEW b \in Blocks
    PROVE  ReplayCoins(addr, b) \in Coins
<1>1. Replayed(addr) \subseteq Blocks
  BY AncFacts DEF Replayed, TypeOK
<1> QED  BY <1>1 DEF ReplayCoins, TypeOK, Coins

LEMMA TypeStep == ASSUME TypeOK, DiskInv, MemoryInv, Next PROVE TypeOK'
<1> USE DEF TypeOK
<1>1. ASSUME NEW b \in Blocks, RefuseBlock(b) PROVE TypeOK'
  BY <1>1 DEF RefuseBlock, Offered, AcceptHeader, files
<1>2. ASSUME NEW b \in Blocks, ReceiveBlock(b) PROVE TypeOK'
  <2>1. FileTypes'
    BY <1>2, StoreTypes DEF ReceiveBlock
  <2> QED  BY <1>2, <2>1 DEF ReceiveBlock, Offered, AcceptHeader, FileTypes
<1>3. ASSUME NEW b \in Blocks PROVE Written(b) \in Databases
  BY DEF Written, Databases
<1>4. ASSUME NEW b \in Blocks, Connect(b) PROVE TypeOK'
  <2>1. b \in haveData
    BY <1>4, AncFacts
    DEF Connect, Connectable, Better, MostWork, MemoryInv, Working
  <2>2. FileTypes'
    BY <1>4, StoreTypes DEF Connect, ConnectBlock, FileTypes, files
  <2>3. disk' \in Databases
    BY <1>3, <1>4 DEF Connect, ConnectBlock
  <2>4. coins' \in Coins
    BY <1>4 DEF Connect, Coins
  <2>5. /\ index' = index /\ haveData' = haveData /\ haveUndo' = haveUndo \cup {b}
        /\ dirty' \subseteq dirty \cup {b} /\ stage' = stage /\ closing' = closing
        /\ exposed' = exposed
    BY <1>4 DEF Connect, ConnectBlock
  <2> QED  BY <2>1, <2>2, <2>3, <2>4, <2>5 DEF Databases, FileTypes
<1>5. ASSUME NEW b \in Blocks, DieInConnect(b) PROVE TypeOK'
  BY <1>3, <1>5, TypeEnd DEF DieInConnect
<1>6. ASSUME Disconnect PROVE TypeOK'
  BY <1>6, AncFacts DEF Disconnect, Coins, Stage, MemoryInv, Working, files
<1>7. ASSUME BeginFlush \/ BeginShutdown \/ EndIndex PROVE TypeOK'
  BY <1>7 DEF BeginFlush, BeginShutdown, EndIndex, memory, files, Stage
<1>8. ASSUME WriteFileInfo \/ WriteCoins PROVE TypeOK'
  BY <1>8 DEF WriteFileInfo, WriteCoins, memory, files, Stage
<1>9. ASSUME NEW b \in Blocks, WriteRecord(b) PROVE TypeOK'
  BY <1>9 DEF WriteRecord, files
<1>10. ASSUME WriteFlag \/ Die PROVE TypeOK'
  <2>1. disk' \in Databases
    BY <1>10 DEF WriteFlag, Die, Databases
  <2> QED  BY <1>10, <2>1, TypeEnd DEF WriteFlag, Die
<1>11. ASSUME NEW addr \in Addresses, Restart(addr) PROVE TypeOK'
  BY <1>11, TypeLoad DEF Restart
<1>12. ASSUME NEW addr \in Addresses, Replay(addr) PROVE TypeOK'
  BY <1>12, TypeLoad, ReplayType DEF Replay
<1>13. ASSUME NEW addr \in Addresses, RefuseReplay(addr) PROVE TypeOK'
  BY <1>13 DEF RefuseReplay, memory, files, Stage
<1>14. ASSUME StartOver PROVE TypeOK'
  <2>1. Empty \in Databases /\ Fresh \in Coins /\ Empty.info \in CBlockFileInfo
    BY EmptyTypes
  <2> QED  BY <1>14, <2>1, AncFacts DEF StartOver, Databases, Stage
<1> QED
  BY <1>1, <1>2, <1>4, <1>5, <1>6, <1>7, <1>8, <1>9, <1>10, <1>11, <1>12,
     <1>13, <1>14 DEF Next, Work, Flush, StartUp

-----------------------------------------------------------------------------
(***************************************************************************)
(* The other parts, a step at a time.                                      *)
(***************************************************************************)
Others == DiskInv /\ MemoryInv /\ DirtyInv /\ RecordsCover /\ IndexClosed

LEMMA OthersInit == Init => Others
<1> SUFFICES ASSUME Init PROVE Others
  OBVIOUS
<1>1. /\ index = {Genesis} /\ haveData = {Genesis} /\ haveUndo = {} /\ dirty = {}
      /\ coins.best = Genesis /\ coins.done = {Genesis} /\ disk.coins = coins
      /\ disk.index = {Genesis} /\ disk.haveData = {Genesis} /\ disk.haveUndo = {}
  BY DEF Init, Fresh, Empty
<1>2. DiskInv /\ MemoryInv /\ DirtyInv
  BY <1>1, AncFacts DEF DiskInv, MemoryInv, DirtyInv, Exact
<1>3. RecordsCover /\ IndexClosed
  BY <1>1, AncFacts DEF RecordsCover, IndexClosed, Torn, Exact
<1> QED  BY <1>2, <1>3 DEF Others

\* A block taken into memory changes nothing on disk.
LEMMA AcceptStep ==
    ASSUME IInv, NEW b \in Blocks, RefuseBlock(b) \/ ReceiveBlock(b)
    PROVE  Others'
<1>1. /\ stage = "up" /\ stage' = "up"
      /\ b \notin index /\ b # Genesis /\ Parent[b] \in haveData
      /\ index' = index \cup {b} /\ dirty' = dirty \cup {b}
      /\ haveData \subseteq haveData' /\ haveData' \subseteq haveData \cup {b}
      /\ UNCHANGED <<haveUndo, coins, disk>>
  BY DEF RefuseBlock, ReceiveBlock, Offered, AcceptHeader, StoreBlock
<1>2. b \notin disk.index
  BY <1>1 DEF IInv, DirtyInv, Working
<1>3. DiskInv' /\ RecordsCover' /\ IndexClosed'
  BY <1>1 DEF IInv, DiskInv, RecordsCover, IndexClosed, Healthy, Torn, Exact
<1>4. Anc[b] \ {b} \subseteq haveData
  BY <1>1, AncFacts DEF IInv, TypeOK, MemoryInv, Working
<1>5. MemoryInv'
  BY <1>1, <1>4 DEF IInv, TypeOK, MemoryInv, Working, Exact
<1>6. DirtyInv'
  BY <1>1, <1>2 DEF IInv, TypeOK, DirtyInv, Working
<1> QED  BY <1>3, <1>5, <1>6 DEF Others

\* What ConnectBlock writes of a block that can be connected.
LEMMA WrittenFacts ==
    ASSUME IInv, NEW b \in Blocks, stage = "up", b # Genesis, Parent[b] = coins.best,
           NEW c \in Better, b \in Anc[c]
    PROVE  /\ b \in haveData /\ b \notin Anc[coins.best]
           /\ Anc[b] \subseteq Written(b).index
           /\ Written(b).coins = disk.coins
           /\ Written(b).index = disk.index \cup {b}
           /\ Written(b).haveData = disk.haveData \cup {b}
           /\ Written(b).haveUndo = (disk.haveUndo \ {b}) \cup ({b} \cap haveUndo)
<1>1. b \in haveData
  BY AncFacts DEF IInv, TypeOK, MemoryInv, Working, Better, MostWork
<1>2. Anc[b] = Anc[coins.best] \cup {b} /\ b \notin Anc[coins.best]
  BY StoreAssumption DEF StoreAssumption
<1>3. Anc[coins.best] \subseteq disk.index
  BY DEF IInv, DirtyInv, Working
<1> QED  BY <1>1, <1>2, <1>3 DEF Written, IInv, TypeOK

LEMMA ConnectStep == ASSUME IInv, NEW b \in Blocks, Connect(b) PROVE Others'
<1>1. PICK c \in Better : b \in Anc[c]
  BY DEF Connect, Connectable
<1>2. /\ b \in haveData /\ b \notin Anc[coins.best]
      /\ Anc[b] \subseteq Written(b).index
      /\ disk'.coins = disk.coins
      /\ disk'.index = disk.index \cup {b}
      /\ disk'.haveData = disk.haveData \cup {b}
      /\ disk'.haveUndo = (disk.haveUndo \ {b}) \cup ({b} \cap haveUndo)
      /\ disk' = Written(b)
  BY <1>1, WrittenFacts DEF Connect, Connectable, ConnectBlock
<1>3. /\ stage = "up" /\ stage' = "up" /\ b # Genesis /\ Parent[b] = coins.best
      /\ haveUndo' = haveUndo \cup {b} /\ dirty' = dirty \cup ({b} \ haveUndo)
      /\ coins'.best = b /\ coins'.done = coins.done \cup {b}
      /\ UNCHANGED <<index, haveData>>
  BY DEF Connect, Connectable, ConnectBlock
<1>4. Anc[b] = Anc[coins.best] \cup {b} /\ b \in index
  BY <1>2, <1>3, AncFacts DEF IInv, TypeOK
<1>5. disk.haveUndo \subseteq disk'.haveUndo /\ disk'.haveUndo \subseteq haveUndo
  BY <1>2, <1>3 DEF IInv, DirtyInv, Working
<1>6. DiskInv'
  <2>1. /\ Genesis \in disk'.haveData \ disk'.haveUndo
        /\ disk'.haveUndo \subseteq disk'.haveData
    BY <1>2, <1>3, <1>5 DEF IInv, DiskInv
  <2>2. disk'.haveData \subseteq disk'.index
    BY <1>2 DEF IInv, DiskInv
  <2>3. ASSUME NEW d \in disk'.index
        PROVE  (Anc[d] \ {d}) \cap disk'.index \subseteq disk'.haveData
    <3>1. d \in index /\ Anc[d] \ {d} \subseteq haveData
      BY <1>2, <1>3, <1>4 DEF IInv, DirtyInv, MemoryInv, Working
    <3>2. disk.index \cap haveData \subseteq disk.haveData
      BY <1>3 DEF IInv, DirtyInv, Working
    <3> QED  BY <1>2, <3>1, <3>2
  <2> QED  BY <2>1, <2>2, <2>3 DEF DiskInv
<1>7. MemoryInv'
  BY <1>2, <1>3, <1>4 DEF IInv, MemoryInv, Working, Exact
<1>8. DirtyInv'
  <2>1. Anc[b] \subseteq disk'.index
    BY <1>2
  <2>2. haveUndo' \ dirty' \subseteq disk'.haveUndo
    BY <1>2, <1>3, <1>5 DEF IInv, DirtyInv, Working
  <2> QED  BY <1>2, <1>3, <1>4, <1>5, <2>1, <2>2 DEF IInv, DirtyInv, Working
<1>9. RecordsCover'
  BY <1>2, <1>3, <1>5 DEF IInv, RecordsCover, Healthy, Exact
<1>10. IndexClosed'
  BY <1>2, <1>3 DEF IInv, IndexClosed, Torn
<1> QED  BY <1>6, <1>7, <1>8, <1>9, <1>10 DEF Others

LEMMA DieInConnectStep ==
    ASSUME IInv, NEW b \in Blocks, DieInConnect(b)
    PROVE  Others'
<1>1. PICK c \in Better : b \in Anc[c]
  BY DEF DieInConnect, Connectable
<1>2. /\ b \in haveData
      /\ disk'.coins = disk.coins
      /\ disk'.index = disk.index \cup {b}
      /\ disk'.haveData = disk.haveData \cup {b}
      /\ disk'.haveUndo = (disk.haveUndo \ {b}) \cup ({b} \cap haveUndo)
  BY <1>1, WrittenFacts DEF DieInConnect, Connectable
<1>3. stage = "up" /\ stage' = "down" /\ b # Genesis
  BY DEF DieInConnect, Connectable, End
<1>4. disk.haveUndo \subseteq disk'.haveUndo /\ disk'.haveUndo \subseteq disk.haveUndo \cup {b}
  BY <1>2, <1>3 DEF IInv, DirtyInv, Working
<1>5. DiskInv'
  <2>1. /\ Genesis \in disk'.haveData \ disk'.haveUndo
        /\ disk'.haveUndo \subseteq disk'.haveData
    BY <1>2, <1>3, <1>4 DEF IInv, DiskInv
  <2>2. disk'.haveData \subseteq disk'.index
    BY <1>2 DEF IInv, DiskInv
  <2>3. ASSUME NEW d \in disk'.index
        PROVE  (Anc[d] \ {d}) \cap disk'.index \subseteq disk'.haveData
    <3>1. d \in index /\ Anc[d] \ {d} \subseteq haveData
      BY <1>2, <1>3 DEF IInv, TypeOK, DirtyInv, MemoryInv, Working
    <3>2. disk.index \cap haveData \subseteq disk.haveData
      BY <1>3 DEF IInv, DirtyInv, Working
    <3> QED  BY <1>2, <3>1, <3>2
  <2> QED  BY <2>1, <2>2, <2>3 DEF DiskInv
<1>6. RecordsCover'
  BY <1>2, <1>3, <1>4 DEF IInv, RecordsCover, Healthy, Exact
<1> QED  BY <1>3, <1>5, <1>6 DEF Others, MemoryInv, DirtyInv, IndexClosed, Working

LEMMA DisconnectStep == ASSUME IInv, Disconnect PROVE Others'
<1>1. /\ stage = "up" /\ stage' = "fileinfo"
      /\ coins.best \in haveUndo
      /\ coins'.best = Parent[coins.best] /\ coins'.done = coins.done \ {coins.best}
      /\ UNCHANGED <<index, haveData, haveUndo, dirty, disk>>
  BY DEF Disconnect
<1>2. coins.best \in Blocks \ {Genesis}
  BY <1>1 DEF IInv, TypeOK, MemoryInv, Working, Coins
<1>3. Anc[coins.best] = Anc[coins'.best] \cup {coins.best}
      /\ Anc[coins.best] \ {coins.best} = Anc[coins'.best]
  BY <1>1, <1>2, AncFacts
<1>4. DiskInv' /\ RecordsCover' /\ IndexClosed'
  BY <1>1 DEF IInv, DiskInv, RecordsCover, IndexClosed, Healthy, Torn, Exact
<1>5. MemoryInv' /\ DirtyInv'
  BY <1>1, <1>3 DEF IInv, MemoryInv, DirtyInv, Working, Exact
<1> QED  BY <1>4, <1>5 DEF Others

\* The steps of FlushStateToDisk that write no block.
LEMMA FlushStep ==
    ASSUME IInv,
           BeginFlush \/ BeginShutdown \/ WriteFileInfo \/ EndIndex \/ WriteCoins
    PROVE  Others'
<1> USE DEF IInv
<1>1. UNCHANGED <<index, haveData, haveUndo, dirty, coins>>
  BY DEF BeginFlush, BeginShutdown, WriteFileInfo, EndIndex, WriteCoins, memory
<1>2. CASE BeginFlush \/ BeginShutdown \/ WriteFileInfo
  <2>1. /\ \/ stage = "up" /\ stage' = "fileinfo"
           \/ stage = "fileinfo" /\ stage' = "index"
        /\ disk'.index = disk.index /\ disk'.haveData = disk.haveData
        /\ disk'.haveUndo = disk.haveUndo /\ disk'.coins = disk.coins
    BY <1>2 DEF BeginFlush, BeginShutdown, WriteFileInfo, TypeOK
  <2>2. DiskInv' /\ RecordsCover' /\ IndexClosed'
    BY <2>1 DEF DiskInv, RecordsCover, IndexClosed, Healthy, Torn, Exact
  <2>3. MemoryInv' /\ DirtyInv'
    BY <1>1, <2>1 DEF MemoryInv, DirtyInv, Working, Exact
  <2> QED  BY <2>2, <2>3 DEF Others
<1>3. CASE EndIndex
  <2>1. stage = "index" /\ stage' = "coins" /\ dirty = {} /\ disk' = disk
    BY <1>3 DEF EndIndex
  <2>2. DiskInv' /\ RecordsCover'
    BY <2>1 DEF DiskInv, RecordsCover, Healthy, Exact
  <2>3. MemoryInv' /\ DirtyInv'
    BY <1>1, <2>1 DEF MemoryInv, DirtyInv, Working, Exact
  <2>4. ASSUME NEW b \in disk.index PROVE Anc[b] \subseteq disk.index
    BY <2>1 DEF MemoryInv, DirtyInv, Working, TypeOK
  <2>5. IndexClosed'
    BY <2>1, <2>4 DEF IndexClosed, Torn
  <2> QED  BY <2>2, <2>3, <2>5 DEF Others
<1>4. CASE WriteCoins
  <2>1. /\ stage = "coins" /\ stage' \in {"flag", "up"}
        /\ disk'.index = disk.index /\ disk'.haveData = disk.haveData
        /\ disk'.haveUndo = disk.haveUndo /\ disk'.coins = coins
    BY <1>4 DEF WriteCoins, TypeOK
  <2>2. DiskInv' /\ IndexClosed'
    BY <2>1 DEF DiskInv, IndexClosed, Torn
  <2>3. MemoryInv' /\ DirtyInv'
    BY <1>1, <2>1 DEF MemoryInv, DirtyInv, Working, Exact
  <2>4. RecordsCover'
    BY <2>1 DEF RecordsCover, Healthy, Exact, MemoryInv, DirtyInv, Working
  <2> QED  BY <2>2, <2>3, <2>4 DEF Others
<1> QED  BY <1>2, <1>3, <1>4

LEMMA WriteRecordStep == ASSUME IInv, NEW b \in Blocks, WriteRecord(b) PROVE Others'
<1> USE DEF IInv
<1>1. /\ stage = "index" /\ stage' = "index" /\ b \in dirty /\ dirty' = dirty \ {b}
      /\ UNCHANGED <<index, haveData, haveUndo, coins>>
      /\ disk'.index = disk.index \cup {b}
      /\ disk'.haveData = disk.haveData \cup ({b} \cap haveData)
      /\ disk'.haveUndo = disk.haveUndo \cup ({b} \cap haveUndo)
      /\ disk'.coins = disk.coins
  BY DEF WriteRecord, TypeOK
<1>2. b \in index
  BY <1>1 DEF TypeOK
<1>3. DirtyInv'
  BY <1>1, <1>2 DEF DirtyInv, Working
<1>4. MemoryInv'
  BY <1>1 DEF MemoryInv, Working, Exact
<1>5. DiskInv'
  <2>1. /\ Genesis \in disk'.haveData \ disk'.haveUndo
        /\ disk'.haveUndo \subseteq disk'.haveData /\ disk'.haveData \subseteq disk'.index
    BY <1>1 DEF DiskInv, TypeOK, MemoryInv, Working
  <2>2. ASSUME NEW d \in disk'.index
        PROVE  (Anc[d] \ {d}) \cap disk'.index \subseteq disk'.haveData
    <3>1. d \in index /\ Anc[d] \ {d} \subseteq haveData
      BY <1>1, <1>2 DEF DirtyInv, MemoryInv, Working
    <3> QED  BY <1>1, <3>1 DEF DirtyInv, Working
  <2> QED  BY <2>1, <2>2 DEF DiskInv
<1>6. RecordsCover' /\ IndexClosed'
  BY <1>1 DEF RecordsCover, IndexClosed, Healthy, Exact
<1> QED  BY <1>3, <1>4, <1>5, <1>6 DEF Others

LEMMA EndStep == ASSUME IInv, WriteFlag \/ Die PROVE Others'
<1>1. /\ stage # "broken" /\ stage' = "down"
      /\ disk'.index = disk.index /\ disk'.haveData = disk.haveData
      /\ disk'.haveUndo = disk.haveUndo /\ disk'.coins = disk.coins
  BY DEF WriteFlag, Die, End, IInv, TypeOK
<1>2. DiskInv' /\ RecordsCover'
  BY <1>1 DEF IInv, DiskInv, RecordsCover, Healthy, Exact
<1> QED  BY <1>1, <1>2 DEF Others, MemoryInv, DirtyInv, IndexClosed, Working

\* What is loaded, with coins that VerifyDB has or has not accepted.
LEMMA LoadStep == ASSUME IInv, NEW c \in Coins, Load(c) PROVE Others'
<1> USE DEF IInv
<1>1. /\ index' = disk.index /\ haveData' = disk.haveData /\ haveUndo' = disk.haveUndo
      /\ dirty' = {} /\ coins' = c
      /\ disk'.index = disk.index /\ disk'.haveData = disk.haveData
      /\ disk'.haveUndo = disk.haveUndo /\ disk'.coins = c
      /\ stage' = IF ~Torn /\ Verified(c) THEN "up" ELSE "broken"
  BY DEF Load, TypeOK
<1>2. DiskInv'
  BY <1>1 DEF DiskInv
<1>3. CASE ~(~Torn /\ Verified(c))
  BY <1>1, <1>2, <1>3
  DEF Others, MemoryInv, DirtyInv, RecordsCover, IndexClosed, Healthy, Working
<1>4. CASE ~Torn /\ Verified(c)
  <2>1. stage' = "up" /\ c.done = Anc[c.best] /\ Anc[c.best] \ {Genesis} \subseteq disk.haveUndo
    BY <1>1, <1>4 DEF Verified, Exact
  <2>2. Anc[c.best] \subseteq disk.haveData
    BY <2>1 DEF DiskInv
  <2>3. \A b \in disk.index : Anc[b] \subseteq disk.index
    BY <1>4 DEF Torn
  <2>4. MemoryInv'
    BY <1>1, <2>1, <2>2, <2>3 DEF DiskInv, MemoryInv, Exact
  <2>5. DirtyInv'
    BY <1>1, <2>1, <2>2 DEF DiskInv, DirtyInv
  <2>6. RecordsCover' /\ IndexClosed'
    BY <1>1, <2>1, <2>2, <2>3 DEF DiskInv, RecordsCover, IndexClosed, Torn, Exact
  <2> QED  BY <1>2, <2>4, <2>5, <2>6 DEF Others
<1> QED  BY <1>3, <1>4

LEMMA StartUpStep == ASSUME IInv, StartUp PROVE Others'
<1>1. PICK addr \in Addresses : Restart(addr) \/ Replay(addr) \/ RefuseReplay(addr)
  BY DEF StartUp
<1>2. CASE Restart(addr)
  BY <1>2, LoadStep DEF Restart, IInv, TypeOK
<1>3. CASE Replay(addr)
  BY <1>3, LoadStep, ReplayType DEF Replay, IInv
<1>4. CASE RefuseReplay(addr)
  BY <1>4
  DEF RefuseReplay, Others, IInv, DiskInv, MemoryInv, DirtyInv, RecordsCover,
      IndexClosed, Healthy, Working
<1> QED  BY <1>1, <1>2, <1>3, <1>4

LEMMA StartOverStep == ASSUME StartOver PROVE Others'
<1>1. /\ index' = {Genesis} /\ haveData' = {Genesis} /\ haveUndo' = {} /\ dirty' = {}
      /\ coins'.best = Genesis /\ coins'.done = {Genesis} /\ disk'.coins = coins'
      /\ disk'.index = {Genesis} /\ disk'.haveData = {Genesis} /\ disk'.haveUndo = {}
  BY DEF StartOver, Fresh, Empty
<1>2. DiskInv' /\ MemoryInv' /\ DirtyInv'
  BY <1>1, AncFacts DEF DiskInv, MemoryInv, DirtyInv, Exact
<1>3. RecordsCover' /\ IndexClosed'
  BY <1>1, AncFacts DEF RecordsCover, IndexClosed, Torn, Exact
<1> QED  BY <1>2, <1>3 DEF Others

-----------------------------------------------------------------------------
(***************************************************************************)
(* Chains of blocks.                                                       *)
(***************************************************************************)
\* What holds of the genesis block and of a block whenever it holds of its
\* parent holds of all: a smallest chain to one it fails of has no parent.
LEMMA ParentInduction ==
    ASSUME NEW S, Genesis \in S,
           \A b \in Blocks \ {Genesis} : Parent[b] \in S => b \in S
    PROVE  Blocks \subseteq S
<1> DEFINE T == {Anc[b] : b \in Blocks \ S}
           R == StrictSubsetOrdering(Blocks)
           F == FiniteSubsetsOf(Blocks)
<1>1. SUFFICES ASSUME T # {} PROVE FALSE
  OBVIOUS
<1>2. T \subseteq F
  BY AncFacts, FS_Subset, StoreAssumption DEF StoreAssumption, FiniteSubsetsOf
<1>3. IsWellFoundedOn(R, F)
  BY FS_StrictSubsetOrderingWellFounded
<1>4. \A x, y : <<y, x>> \in R <=> x \subseteq Blocks /\ y \subseteq x /\ y # x
  BY DEF StrictSubsetOrdering
<1> HIDE DEF R, F
<1>5. \E x \in T : \A y \in T : ~(<<y, x>> \in R)
  <2> HIDE DEF T
  <2> QED  BY <1>1, <1>2, <1>3, WFMin
<1>6. PICK b \in Blocks \ S : \A c \in Blocks \ S : ~(<<Anc[c], Anc[b]>> \in R)
  BY <1>5
<1>7. b # Genesis /\ Parent[b] \in Blocks \ S
  BY AncFacts
<1>8. Anc[Parent[b]] \subseteq Anc[b] /\ Anc[Parent[b]] # Anc[b] /\ Anc[b] \subseteq Blocks
  BY <1>7, AncFacts
<1>9. <<Anc[Parent[b]], Anc[b]>> \in R
  BY <1>4, <1>8
<1> QED  BY <1>6, <1>7, <1>9

\* A block is one higher than its parent.
LEMMA HeightFacts ==
    /\ Height(Genesis) = 0
    /\ \A b \in Blocks \ {Genesis} : Height(b) = Height(Parent[b]) + 1
<1>1. Height(Genesis) = 0
  <2>1. Cardinality({Genesis}) = 1
    BY FS_Singleton
  <2>2. Anc[Genesis] = {Genesis}
    BY AncFacts
  <2> QED  BY <2>1, <2>2 DEF Height
<1>2. ASSUME NEW b \in Blocks \ {Genesis} PROVE Height(b) = Height(Parent[b]) + 1
  <2>1. IsFiniteSet(Anc[Parent[b]]) /\ b \notin Anc[Parent[b]] /\ Parent[b] \in Blocks
    BY AncFacts, FS_Subset, StoreAssumption DEF StoreAssumption
  <2>2. Cardinality(Anc[Parent[b]] \cup {b}) = Cardinality(Anc[Parent[b]]) + 1
    BY <2>1, FS_AddElement
  <2>3. Cardinality(Anc[Parent[b]]) \in Nat
    BY <2>1, FS_CardinalityType
  <2>4. Anc[b] = Anc[Parent[b]] \cup {b}
    BY AncFacts
  <2> QED  BY <2>2, <2>3, <2>4 DEF Height
<1> QED  BY <1>1, <1>2

\* The blocks below a block are lower.
LEMMA LowerBelow == \A b \in Blocks : \A c \in Anc[b] : Height(c) <= Height(b)
<1> DEFINE S == {b \in Blocks : \A c \in Anc[b] : Height(c) <= Height(b)}
<1>1. Genesis \in S
  BY AncFacts, HeightNat
<1>2. ASSUME NEW b \in Blocks \ {Genesis}, Parent[b] \in S PROVE b \in S
  <2>1. ASSUME NEW c \in Anc[b] PROVE Height(c) <= Height(b)
    <3>1. c \in Blocks /\ (c = b \/ c \in Anc[Parent[b]]) /\ Parent[b] \in Blocks
      BY AncFacts
    <3>2. Height(c) \in Nat /\ Height(b) \in Nat /\ Height(Parent[b]) \in Nat
      BY <3>1, HeightNat
    <3> QED  BY <1>2, <3>1, <3>2, HeightFacts
  <2> QED  BY <2>1
<1>3. Blocks \subseteq S
  <2> HIDE DEF S
  <2> QED  BY <1>1, <1>2, ParentInduction
<1> QED  BY <1>3

\* A part of the block tree with one block of a height.
Single(I) == \A b, c \in I : Height(b) = Height(c) => b = c
Closed(I) == \A b \in I : Anc[b] \subseteq I

\* It has no more blocks than heights.
LEMMA SingleBound ==
    ASSUME NEW I \in SUBSET Blocks, Single(I), NEW n \in Nat, \A b \in I : Height(b) < n
    PROVE  Cardinality(I) <= n
<1> DEFINE f == [b \in I |-> Height(b)]
<1>1. IsFiniteSet(0 .. (n - 1)) /\ Cardinality(0 .. (n - 1)) = n
  BY FS_Interval
<1>2. f \in Injection(I, 0 .. (n - 1))
  <2>1. f \in [I -> 0 .. (n - 1)]
    BY HeightNat
  <2>2. \A b, c \in I : f[b] = f[c] => b = c
    BY DEF Single
  <2> QED  BY <2>1, <2>2 DEF Injection, IsInjective
<1> HIDE DEF f
<1> QED  BY <1>1, <1>2, FS_Injection

\* If it is closed it is a chain: a block has exactly the lower ones below it.
LEMMA SingleChain ==
    ASSUME NEW I \in SUBSET Blocks, Single(I), Closed(I)
    PROVE  \A b \in I : Anc[b] = {c \in I : Height(c) <= Height(b)}
<1> DEFINE S == {b \in Blocks : b \in I => \A c \in I : Height(c) <= Height(b) => c \in Anc[b]}
<1>1. Genesis \in S
  BY AncFacts, HeightNat, HeightFacts DEF Single
<1>2. ASSUME NEW b \in Blocks \ {Genesis}, Parent[b] \in S PROVE b \in S
  <2>1. SUFFICES ASSUME b \in I, NEW c \in I, Height(c) <= Height(b) PROVE c \in Anc[b]
    OBVIOUS
  <2>2. Parent[b] \in I /\ Parent[b] \in Blocks
    BY <2>1, AncFacts DEF Closed
  <2>3. Height(c) \in Nat /\ Height(b) \in Nat /\ Height(Parent[b]) \in Nat
    BY <2>2, HeightNat
  <2>4. c = b \/ Height(c) <= Height(Parent[b])
    BY <2>1, <2>3, HeightFacts DEF Single
  <2> QED  BY <1>2, <2>1, <2>2, <2>4, AncFacts
<1>3. Blocks \subseteq S
  <2> HIDE DEF S
  <2> QED  BY <1>1, <1>2, ParentInduction
<1> QED  BY <1>3, LowerBelow DEF Closed

\* ... with no height left out.
LEMMA SingleLevels ==
    ASSUME NEW I \in SUBSET Blocks, Closed(I)
    PROVE  \A b \in I : \A n \in 0 .. Height(b) : \E c \in I : Height(c) = n
<1> DEFINE S == {b \in Blocks : b \in I => \A n \in 0 .. Height(b) : \E c \in I : Height(c) = n}
<1>1. Genesis \in S
  BY AncFacts, HeightFacts
<1>2. ASSUME NEW b \in Blocks \ {Genesis}, Parent[b] \in S PROVE b \in S
  <2>1. SUFFICES ASSUME b \in I, NEW n \in 0 .. Height(b) PROVE \E c \in I : Height(c) = n
    OBVIOUS
  <2>2. Parent[b] \in I /\ Parent[b] \in Blocks
    BY <2>1, AncFacts DEF Closed
  <2>3. Height(b) \in Nat /\ Height(Parent[b]) \in Nat
    BY <2>2, HeightNat
  <2>4. n = Height(b) \/ n \in 0 .. Height(Parent[b])
    BY <2>3, HeightFacts
  <2> QED  BY <1>2, <2>1, <2>2, <2>4
<1>3. Blocks \subseteq S
  <2> HIDE DEF S
  <2> QED  BY <1>1, <1>2, ParentInduction
<1> QED  BY <1>3

-----------------------------------------------------------------------------
(***************************************************************************)
(* The replay of an index that is one chain.                               *)
(***************************************************************************)
OneChain == disk.index = disk.haveData /\ Single(disk.index)
Under(S, n) == \A b \in S : Height(b) <= n

\* The heights that the file information knows.  A block has undo data on disk
\* only after the file information has been written with its height; only
\* ConnectBlock writes a record ahead of it, one that has its chain below it
\* and no undo data.
HeightInv ==
    /\ stage = "up" => haveUndo \ disk.haveUndo \subseteq Anc[coins.best]
    /\ stage \in Working => ~disk.shutdown
    /\ stage \in {"index", "coins", "flag"} => disk.info.nHeightLast = info.nHeightLast
    /\ Healthy /\ OneChain =>
        /\ Under(disk.haveUndo, disk.info.nHeightLast)
        /\ stage \in Working => Under(haveData, info.nHeightLast)
        /\ Torn \/ disk.shutdown => Under(disk.haveData, disk.info.nHeightLast)

\* The coins on disk are no higher either.
LEMMA CoinsUnder ==
    ASSUME IInv, HeightInv, Healthy, OneChain
    PROVE  /\ disk.coins.best \in disk.index
           /\ Height(disk.coins.best) <= disk.info.nHeightLast
<1>1. disk.coins.best \in Blocks /\ disk.info.nHeightLast \in Nat
  BY InfoNat DEF IInv, TypeOK, Coins
<1>2. disk.coins.best \in Anc[disk.coins.best]
  BY <1>1, AncFacts
<1> QED  BY <1>1, <1>2, HeightFacts DEF IInv, RecordsCover, HeightInv, Under

\* vSortedByHeight of a chain is the chain.
LEMMA SortedChain ==
    ASSUME IInv, Single(disk.index), ~Torn, NEW addr \in Addresses
    PROVE  /\ Closed(disk.index)
           /\ \A b \in disk.index : Before(addr, b) = {c \in disk.index : Height(c) < Height(b)}
           /\ \A b \in disk.index : Pos(addr, b) = Height(b)
           /\ \A b \in disk.index : Height(b) \in Nat
<1> DEFINE I == disk.index
<1>1. I \subseteq Blocks /\ Closed(I)
  BY DEF IInv, TypeOK, Torn, Closed
<1>2. \A b \in I : Height(b) \in Nat
  BY <1>1, HeightNat
<1>3. ASSUME NEW b \in I
      PROVE  Before(addr, b) = {c \in I : Height(c) < Height(b)}
  <2>1. addr[b] \in Nat
    BY <1>1, StoreAssumption DEF StoreAssumption
  <2>2. \A c \in I : Height(c) = Height(b) => ~(addr[c] < addr[b])
    BY <2>1 DEF Single
  <2> QED  BY <2>2 DEF Before
<1>4. ASSUME NEW b \in I PROVE Pos(addr, b) = Height(b)
  <2>1. Anc[b] = {c \in I : Height(c) <= Height(b)}
    BY <1>1, SingleChain
  <2>2. Before(addr, b) = Anc[b] \ {b}
    BY <1>2, <1>3, <2>1 DEF Single
  <2>3. IsFiniteSet(Anc[b]) /\ b \in Anc[b]
    BY <1>1, AncFacts, FS_Subset, StoreAssumption DEF StoreAssumption
  <2>4. Cardinality(Anc[b] \ {b}) = Cardinality(Anc[b]) - 1
    BY <2>3, FS_RemoveElement
  <2> QED  BY <2>2, <2>4 DEF Pos, Height
<1> QED  BY <1>1, <1>2, <1>3, <1>4

\* A replay of one chain starts right above the coins, stops at the first
\* height that the file information does not know, and skips nothing.
LEMMA ReplayOfChain ==
    ASSUME IInv, HeightInv, Healthy, OneChain, NEW addr \in Addresses, NeedsReplay(addr),
           NEW b \in Blocks, Last(addr, b)
    PROVE  Exact(ReplayCoins(addr, b)) /\ Height(b) = disk.info.nHeightLast + 1
<1> DEFINE I == disk.index
           k == disk.info.nHeightLast + 1
           old == disk.coins.best
           top == Sorted(addr, k)
<1>1. I \in SUBSET Blocks /\ Single(I) /\ k \in Nat /\ ~disk.shutdown /\ Cardinality(I) > k
  BY DEF OneChain, NeedsReplay, IInv, TypeOK, CBlockFileInfo
<1>2. ~Torn
  <2>1. SUFFICES ASSUME Torn PROVE FALSE
    OBVIOUS
  <2>2. \A c \in I : Height(c) < k
    BY <1>1, <2>1, HeightNat, InfoNat DEF HeightInv, OneChain, Under, IInv, TypeOK
  <2>3. Cardinality(I) <= k
    BY <1>1, <2>2, SingleBound
  <2>4. Cardinality(I) \in Nat
    BY <1>1, FS_Subset, FS_CardinalityType, StoreAssumption DEF StoreAssumption
  <2> QED  BY <1>1, <2>3, <2>4
<1>3. /\ Closed(I)
      /\ \A c \in I : Before(addr, c) = {d \in I : Height(d) < Height(c)}
      /\ \A c \in I : Pos(addr, c) = Height(c) /\ Height(c) \in Nat
  BY <1>1, <1>2, SortedChain
<1>4. old \in I /\ Height(old) < k
  BY <1>1, <1>3, CoinsUnder, InfoNat DEF IInv, TypeOK
<1>5. \E c \in I : Height(c) = k
  <2>1. SUFFICES ASSUME \A c \in I : Height(c) # k PROVE FALSE
    OBVIOUS
  <2>2. \A c \in I : Height(c) < k
    <3>1. ASSUME NEW c \in I, k <= Height(c) PROVE FALSE
      <4>1. k \in 0 .. Height(c)
        BY <1>1, <1>3, <3>1
      <4> QED  BY <1>1, <1>3, <2>1, <4>1, SingleLevels
    <3> QED  BY <1>1, <1>3, <3>1
  <2>3. Cardinality(I) <= k
    BY <1>1, <2>2, SingleBound
  <2>4. Cardinality(I) \in Nat
    BY <1>1, FS_Subset, FS_CardinalityType, StoreAssumption DEF StoreAssumption
  <2> QED  BY <1>1, <2>3, <2>4
<1>6. top \in I /\ Height(top) = k
  <2>1. \E c \in I : Pos(addr, c) = k
    BY <1>3, <1>5
  <2>2. top \in I /\ Pos(addr, top) = k
    BY <2>1 DEF Sorted
  <2> QED  BY <1>3, <2>2
<1> HIDE DEF I, k, old, top
<1>7. Above # {} /\ Start(addr) \in I /\ Height(Start(addr)) = Height(old) + 1
  <2>1. Above = {c \in I : Height(c) = Height(old) + 1}
    BY DEF Above, I, old
  <2>2. Height(old) + 1 \in 0 .. Height(top)
    BY <1>1, <1>3, <1>4, <1>6
  <2>3. PICK u \in I : Height(u) = Height(old) + 1
    BY <1>1, <1>3, <1>6, <2>2, SingleLevels
  <2>4. Above = {u}
    BY <1>1, <2>1, <2>3 DEF Single
  <2>5. addr[u] \in Nat
    BY <1>1, StoreAssumption DEF StoreAssumption
  <2>6. Start(addr) = u
    BY <2>4, <2>5 DEF Start
  <2> QED  BY <2>3, <2>4, <2>6
<1>8. Replayed(addr) = {c \in I : Height(old) < Height(c) /\ Height(c) <= k}
  <2>1. Replayed(addr) =
            {c \in I : /\ Height(c) >= Height(old) + 1
                       /\ \A d \in I : Height(d) < Height(c) /\ Height(d) >= Height(old) + 1
                              => Height(d) < k}
    <3>1. /\ Replayed(addr) =
                {c \in I : /\ Pos(addr, c) >= Pos(addr, Start(addr))
                           /\ \A d \in {e \in Before(addr, c) :
                                           Pos(addr, e) >= Pos(addr, Start(addr))} :
                                  Height(d) < Height(top)}
      BY <1>7 DEF Replayed, I, k, top
    <3> QED  BY <1>3, <1>6, <1>7, <3>1
  <2> QED  BY <1>1, <1>3, <1>4, <1>6, <2>1
<1>9. b \in I /\ Height(b) = k
  <2>1. top \in Replayed(addr)
    BY <1>1, <1>4, <1>6, <1>8
  <2>2. b \in Replayed(addr) /\ Pos(addr, top) <= Pos(addr, b)
    BY <2>1 DEF Last
  <2> QED  BY <1>1, <1>3, <1>6, <1>8, <2>2
<1>10. /\ Anc[old] = {c \in I : Height(c) <= Height(old)}
       /\ Anc[b] = {c \in I : Height(c) <= k}
  BY <1>1, <1>3, <1>4, <1>9, SingleChain
<1>11. disk.coins.done = Anc[old]
  BY DEF IInv, RecordsCover, Exact, old
<1>12. Anc[old] \cup Replayed(addr) = Anc[b]
  BY <1>1, <1>3, <1>4, <1>8, <1>10
<1> QED  BY <1>9, <1>11, <1>12 DEF ReplayCoins, Exact, k

-----------------------------------------------------------------------------
(***************************************************************************)
(* Every step keeps the heights.                                           *)
(***************************************************************************)
\* A record that is written of a block in memory does not make one chain of
\* an index that was none.
LEMMA OneChainBefore ==
    ASSUME IInv, stage \in Working, NEW b \in index,
           disk'.index = disk.index \cup {b},
           disk'.haveData = disk.haveData \cup ({b} \cap haveData),
           OneChain'
    PROVE  OneChain
<1>1. disk.index \cap haveData \subseteq disk.haveData /\ disk.haveData \subseteq disk.index
      /\ disk.haveData \subseteq haveData
  BY DEF IInv, DirtyInv, DiskInv
<1>2. Single(disk.index)
  BY DEF OneChain, Single, Height
<1>3. disk.index \cup {b} = disk.haveData \cup ({b} \cap haveData)
  BY DEF OneChain
<1>4. disk.index = disk.haveData
  BY <1>1, <1>3
<1> QED  BY <1>2, <1>4 DEF OneChain

\* Steps that leave the databases alone.
LEMMA SameDisk ==
    ASSUME HeightInv, disk' = disk, Healthy' => Healthy,
           stage' \in Working => stage \in Working,
           stage' = "up" => haveUndo' \ disk.haveUndo \subseteq Anc[coins'.best],
           stage' \in {"index", "coins", "flag"} => disk.info.nHeightLast = info.nHeightLast',
           stage' \in Working /\ Under(haveData, info.nHeightLast) =>
               Under(haveData', info.nHeightLast')
    PROVE  HeightInv'
<1>1. OneChain' <=> OneChain
  BY DEF OneChain, Single, Height
<1>2. Torn' <=> Torn
  BY DEF Torn
<1>3. \A S, n : Under(S, n)' <=> Under(S, n)
  BY DEF Under, Height
<1> QED  BY <1>1, <1>2 DEF HeightInv, Under, Height

LEMMA HeightAccept ==
    ASSUME IInv, HeightInv, NEW b \in Blocks, RefuseBlock(b) \/ ReceiveBlock(b)
    PROVE  HeightInv'
<1>1. /\ stage = "up" /\ stage' = "up" /\ disk' = disk /\ UNCHANGED <<haveUndo, coins>>
  BY DEF RefuseBlock, ReceiveBlock, Offered
<1>2. ASSUME Under(haveData, info.nHeightLast) PROVE Under(haveData', info.nHeightLast')
  <2>1. info.nHeightLast \in Nat /\ Height(b) \in Nat /\ \A c \in haveData : Height(c) \in Nat
    BY HeightNat DEF IInv, TypeOK, CBlockFileInfo
  <2>2. CASE RefuseBlock(b)
    BY <1>2, <2>2 DEF RefuseBlock, Under, Height
  <2>3. CASE ReceiveBlock(b)
    <3>1. haveData' = haveData \cup {b}
          /\ info.nHeightLast' = IF Height(b) > info.nHeightLast THEN Height(b) ELSE info.nHeightLast
      BY <2>3 DEF ReceiveBlock, StoreBlock, IInv, TypeOK, CBlockFileInfo
    <3>2. \A c \in haveData' : Height(c) <= info.nHeightLast'
      BY <1>2, <2>1, <3>1 DEF Under
    <3> QED  BY <3>2 DEF Under, Height
  <2> QED  BY <2>2, <2>3
<1> QED  BY <1>1, <1>2, SameDisk DEF HeightInv, Healthy, Working

\* The record ConnectBlock writes brings no undo data to disk.
LEMMA WrittenUndo ==
    ASSUME IInv, HeightInv, NEW b \in Blocks, stage = "up", b # Genesis,
           Parent[b] = coins.best, NEW c \in Better, b \in Anc[c]
    PROVE  Written(b).haveUndo = disk.haveUndo
<1>1. /\ b \notin Anc[coins.best]
      /\ Written(b).haveUndo = (disk.haveUndo \ {b}) \cup ({b} \cap haveUndo)
  BY WrittenFacts
<1>2. b \in haveUndo => b \in disk.haveUndo
  BY <1>1 DEF HeightInv
<1>3. disk.haveUndo \subseteq haveUndo
  BY DEF IInv, DirtyInv, Working
<1> QED  BY <1>1, <1>2, <1>3

\* What ConnectBlock writes is a block on a chain of records.
LEMMA HeightWritten ==
    ASSUME IInv, HeightInv, NEW b \in Blocks, stage = "up", b # Genesis,
           Parent[b] = coins.best, NEW c \in Better, b \in Anc[c], disk' = Written(b),
           stage' \in {"up", "down"},
           stage' = "up" => /\ UNCHANGED <<haveData, info.nHeightLast>>
                            /\ haveUndo' = haveUndo \cup {b} /\ coins'.best = b
    PROVE  HeightInv'
<1>1. /\ b \in haveData /\ b \notin Anc[coins.best]
      /\ Anc[b] \subseteq disk'.index
      /\ disk'.index = disk.index \cup {b}
      /\ disk'.haveData = disk.haveData \cup {b}
      /\ disk'.haveUndo = (disk.haveUndo \ {b}) \cup ({b} \cap haveUndo)
  BY WrittenFacts
<1>2. disk'.info.nHeightLast = disk.info.nHeightLast /\ disk'.shutdown = disk.shutdown
  BY DEF Written, IInv, TypeOK
<1>3. disk'.haveUndo = disk.haveUndo
  BY WrittenUndo
<1>4. OneChain' => OneChain
  BY <1>1, OneChainBefore DEF IInv, TypeOK, Working
<1>5. ~Torn' /\ ~disk'.shutdown /\ Healthy
  <2>1. ~Torn /\ ~disk.shutdown
    BY DEF IInv, IndexClosed, HeightInv, Working
  <2> QED  BY <1>1, <1>2, <2>1 DEF Torn, Healthy
<1>6. OneChain' => Under(disk.haveUndo, disk.info.nHeightLast) /\ Under(haveData, info.nHeightLast)
  BY <1>4, <1>5 DEF HeightInv, Working
<1>7. stage' = "up" => haveUndo' \ disk'.haveUndo \subseteq Anc[coins'.best]
  <2>1. Anc[b] = Anc[coins.best] \cup {b}
    BY AncFacts
  <2> QED  BY <1>3, <2>1 DEF HeightInv
<1> QED  BY <1>2, <1>3, <1>5, <1>6, <1>7 DEF HeightInv, Under, Height, Working

LEMMA HeightConnect ==
    ASSUME IInv, HeightInv, NEW b \in Blocks, Connect(b) \/ DieInConnect(b)
    PROVE  HeightInv'
<1>1. /\ stage = "up" /\ b # Genesis /\ Parent[b] = coins.best
      /\ \E c \in Better : b \in Anc[c]
      /\ disk' = Written(b)
  BY DEF Connect, DieInConnect, Connectable, ConnectBlock
<1>2. stage' \in {"up", "down"}
  BY DEF Connect, DieInConnect, Connectable, End
<1>3. stage' = "up" => /\ UNCHANGED <<haveData, info.nHeightLast>>
                       /\ haveUndo' = haveUndo \cup {b} /\ coins'.best = b
  BY DEF IInv, TypeOK, CBlockFileInfo, Connect, DieInConnect, ConnectBlock, StoreUndo, files, End
<1> QED  BY <1>1, <1>2, <1>3, HeightWritten

LEMMA HeightDisconnect == ASSUME IInv, HeightInv, Disconnect PROVE HeightInv'
<1>1. stage = "up" /\ stage' = "fileinfo" /\ UNCHANGED <<haveData, info.nHeightLast, disk>>
  BY DEF Disconnect
<1> QED  BY <1>1, SameDisk DEF Healthy, Working, Under, Height

LEMMA HeightFlush ==
    ASSUME IInv, HeightInv,
           BeginFlush \/ BeginShutdown \/ WriteFileInfo \/ EndIndex \/ WriteCoins
    PROVE  HeightInv'
<1>1. UNCHANGED <<haveData, haveUndo, coins, info.nHeightLast>>
  BY DEF BeginFlush, BeginShutdown, WriteFileInfo, EndIndex, WriteCoins, memory
<1>2. CASE BeginFlush \/ BeginShutdown \/ EndIndex
  <2>1. /\ disk' = disk
        /\ \/ stage = "up" /\ stage' = "fileinfo"
           \/ stage = "index" /\ stage' = "coins"
    BY <1>2 DEF BeginFlush, BeginShutdown, EndIndex
  <2> QED  BY <1>1, <2>1, SameDisk DEF HeightInv, Healthy, Working, Under, Height
<1>3. CASE WriteFileInfo
  <2>1. /\ stage = "fileinfo" /\ stage' = "index"
        /\ disk'.index = disk.index /\ disk'.haveData = disk.haveData
        /\ disk'.haveUndo = disk.haveUndo /\ disk'.shutdown = disk.shutdown
        /\ disk'.info.nHeightLast = info.nHeightLast
    BY <1>3 DEF WriteFileInfo, IInv, TypeOK
  <2>2. (OneChain' <=> OneChain) /\ (Torn' <=> Torn)
    BY <2>1 DEF OneChain, Single, Height, Torn
  <2>3. ~Torn /\ ~disk.shutdown
    BY <2>1 DEF IInv, IndexClosed, HeightInv, Working
  <2>4. disk.haveUndo \subseteq haveData
    BY <2>1 DEF IInv, DiskInv, DirtyInv, Working
  <2>5. OneChain => Under(haveData, info.nHeightLast) /\ Under(disk.haveUndo, info.nHeightLast)
    BY <2>1, <2>4 DEF HeightInv, Healthy, Working, Under
  <2> QED  BY <1>1, <2>1, <2>2, <2>3, <2>5 DEF HeightInv, Working, Under, Height
<1>4. CASE WriteCoins
  <2>1. /\ stage = "coins" /\ stage' \in {"flag", "up"}
        /\ disk'.index = disk.index /\ disk'.haveData = disk.haveData
        /\ disk'.haveUndo = disk.haveUndo /\ disk'.shutdown = disk.shutdown
        /\ disk'.info.nHeightLast = disk.info.nHeightLast
    BY <1>4 DEF WriteCoins, IInv, TypeOK
  <2>2. (OneChain' <=> OneChain) /\ (Torn' <=> Torn)
    BY <2>1 DEF OneChain, Single, Height, Torn
  <2>3. haveUndo \subseteq disk.haveUndo
    BY <2>1 DEF IInv, DirtyInv, Working
  <2> QED  BY <1>1, <2>1, <2>2, <2>3 DEF HeightInv, Healthy, Working, Under, Height
<1> QED  BY <1>2, <1>3, <1>4

LEMMA HeightRecord ==
    ASSUME IInv, HeightInv, NEW b \in Blocks, WriteRecord(b)
    PROVE  HeightInv'
<1>1. /\ stage = "index" /\ stage' = "index" /\ b \in index
      /\ UNCHANGED <<haveData, haveUndo, info.nHeightLast>>
      /\ disk'.index = disk.index \cup {b}
      /\ disk'.haveData = disk.haveData \cup ({b} \cap haveData)
      /\ disk'.haveUndo = disk.haveUndo \cup ({b} \cap haveUndo)
      /\ disk'.info.nHeightLast = disk.info.nHeightLast /\ disk'.shutdown = disk.shutdown
  BY DEF WriteRecord, IInv, TypeOK
<1>2. OneChain' => OneChain
  BY <1>1, OneChainBefore DEF Working
<1>3. /\ disk'.haveUndo \subseteq haveData /\ disk'.haveData \subseteq haveData
      /\ disk.info.nHeightLast = info.nHeightLast
  BY <1>1 DEF IInv, TypeOK, DirtyInv, DiskInv, HeightInv, Working
<1>4. OneChain => Under(haveData, info.nHeightLast)
  BY <1>1 DEF HeightInv, Healthy, Working
<1> QED  BY <1>1, <1>2, <1>3, <1>4 DEF HeightInv, Working, Under, Height

LEMMA HeightEnd == ASSUME IInv, HeightInv, WriteFlag \/ Die PROVE HeightInv'
<1>1. /\ stage # "broken" /\ stage' = "down" /\ stage \in Working
      /\ disk'.index = disk.index /\ disk'.haveData = disk.haveData
      /\ disk'.haveUndo = disk.haveUndo /\ disk'.info.nHeightLast = disk.info.nHeightLast
      /\ disk'.shutdown => stage = "flag"
  BY DEF WriteFlag, Die, End, IInv, TypeOK, HeightInv, Stage, Working
<1>2. (OneChain' <=> OneChain) /\ (Torn' <=> Torn)
  BY <1>1 DEF OneChain, Single, Height, Torn
<1>3. Torn \/ disk'.shutdown => disk.info.nHeightLast = info.nHeightLast
  BY <1>1 DEF IInv, IndexClosed, HeightInv, Working
<1>4. disk.haveData \subseteq haveData
  BY <1>1 DEF IInv, DirtyInv
<1> QED  BY <1>1, <1>2, <1>3, <1>4 DEF HeightInv, Healthy, Working, Under, Height

\* After a replay the node does not come up: the last block it applied is too
\* high to have undo data on disk, and VerifyDB cannot disconnect it.
LEMMA ReplayNotVerified ==
    ASSUME IInv, HeightInv, Healthy, OneChain, NEW addr \in Addresses, Replay(addr)
    PROVE  stage' # "up"
<1>1. PICK b \in Blocks : Last(addr, b) /\ Load(ReplayCoins(addr, b))
  BY DEF Replay
<1>2. Height(b) = disk.info.nHeightLast + 1 /\ disk.info.nHeightLast \in Nat
  BY <1>1, ReplayOfChain, InfoNat DEF Replay, IInv
<1>3. b # Genesis /\ b \in Anc[b]
  BY <1>2, HeightFacts, AncFacts
<1>4. SUFFICES ASSUME stage' = "up" PROVE FALSE
  OBVIOUS
<1>5. Verified(ReplayCoins(addr, b))
  BY <1>1, <1>4 DEF Load
<1>6. b \in disk.haveUndo
  BY <1>3, <1>5 DEF Verified, ReplayCoins
<1>7. Height(b) <= disk.info.nHeightLast
  BY <1>6 DEF HeightInv, Under
<1> QED  BY <1>2, <1>7

\* A node that comes up without a replay has a file information that knows
\* every height.
LEMMA HeightStartUp == ASSUME IInv, HeightInv, stage = "down", StartUp PROVE HeightInv'
<1>1. PICK addr \in Addresses : Restart(addr) \/ Replay(addr) \/ RefuseReplay(addr)
  BY DEF StartUp
<1>2. CASE RefuseReplay(addr)
  BY <1>2 DEF RefuseReplay, HeightInv, Healthy, Working
<1>3. ASSUME NEW c \in Coins, Load(c),
             OneChain /\ stage' = "up" => Under(disk.haveData, disk.info.nHeightLast)
      PROVE  HeightInv'
  <2>1. /\ haveData' = disk.haveData /\ haveUndo' = disk.haveUndo
        /\ info.nHeightLast' = disk.info.nHeightLast
        /\ disk'.index = disk.index /\ disk'.haveData = disk.haveData
        /\ disk'.haveUndo = disk.haveUndo /\ disk'.info.nHeightLast = disk.info.nHeightLast
        /\ ~disk'.shutdown
        /\ stage' = IF ~Torn /\ Verified(c) THEN "up" ELSE "broken"
    BY <1>3 DEF Load, IInv, TypeOK
  <2>2. (OneChain' <=> OneChain) /\ (Torn' <=> Torn)
    BY <2>1 DEF OneChain, Single, Height, Torn
  <2>3. OneChain => Under(disk.haveUndo, disk.info.nHeightLast)
    BY DEF HeightInv, Healthy
  <2> QED  BY <1>3, <2>1, <2>2, <2>3 DEF HeightInv, Healthy, Working, Under, Height
<1>4. CASE Restart(addr)
  <2>1. ASSUME OneChain, stage' = "up", NEW b \in disk.haveData
        PROVE  Height(b) <= disk.info.nHeightLast
    <3>1. ~NeedsReplay(addr) /\ ~Torn
      BY <1>4, <2>1 DEF Restart, Load
    <3>2. /\ disk.index \in SUBSET Blocks /\ disk.info.nHeightLast \in Nat /\ b \in disk.index
          /\ disk.shutdown \in BOOLEAN
      BY <2>1, InfoNat DEF IInv, TypeOK, OneChain
    <3>3. CASE disk.shutdown
      BY <2>1, <3>3 DEF HeightInv, Healthy, Under
    <3>4. CASE Cardinality(disk.index) <= disk.info.nHeightLast + 1
      <4>1. Anc[b] \subseteq disk.index
        BY <3>1, <3>2 DEF Torn
      <4>2. IsFiniteSet(disk.index)
        BY <3>2, FS_Subset, StoreAssumption DEF StoreAssumption
      <4>3. Cardinality(Anc[b]) <= Cardinality(disk.index) /\ Cardinality(Anc[b]) \in Nat
            /\ Cardinality(disk.index) \in Nat
        BY <4>1, <4>2, FS_Subset, FS_CardinalityType
      <4> QED  BY <3>2, <3>4, <4>3 DEF Height
    <3>5. CASE /\ Cardinality(disk.index) > disk.info.nHeightLast + 1
               /\ disk.coins.best = Sorted(addr, disk.info.nHeightLast + 1)
      <4> DEFINE k == disk.info.nHeightLast + 1
      <4>1. /\ Closed(disk.index)
            /\ \A c \in disk.index : Pos(addr, c) = Height(c) /\ Height(c) \in Nat
        BY <2>1, <3>1, SortedChain DEF OneChain
      <4>2. SUFFICES ASSUME Height(b) > disk.info.nHeightLast PROVE FALSE
        BY <3>2, <4>1
      <4>3. k \in 0 .. Height(b)
        BY <3>2, <4>1, <4>2
      <4>4. \E c \in disk.index : Pos(addr, c) = k
        BY <3>2, <4>1, <4>3, SingleLevels
      <4>5. disk.coins.best \in disk.index /\ Pos(addr, disk.coins.best) = k
        BY <3>5, <4>4 DEF Sorted
      <4> QED  BY <2>1, <3>2, <4>1, <4>5, CoinsUnder DEF Healthy
    <3>6. Cardinality(disk.index) \in Nat
      BY <3>2, FS_Subset, FS_CardinalityType, StoreAssumption DEF StoreAssumption
    <3> QED  BY <3>1, <3>2, <3>3, <3>4, <3>5, <3>6 DEF NeedsReplay
  <2>2. disk.coins \in Coins /\ Load(disk.coins)
    BY <1>4 DEF Restart, IInv, TypeOK
  <2> QED  BY <1>3, <2>1, <2>2 DEF Under
<1>5. CASE Replay(addr)
  <2>1. PICK b \in Blocks : Last(addr, b) /\ Load(ReplayCoins(addr, b))
    BY <1>5 DEF Replay
  <2> DEFINE c == ReplayCoins(addr, b)
  <2>2. c \in Coins /\ c.best = b
    BY ReplayType DEF IInv, ReplayCoins
  <2>3. ~(OneChain /\ stage' = "up")
    BY <1>5, ReplayNotVerified DEF Healthy
  <2> QED  BY <1>3, <2>1, <2>2, <2>3
<1> QED  BY <1>1, <1>2, <1>4, <1>5

LEMMA HeightStartOver == ASSUME IInv, StartOver PROVE HeightInv'
<1>1. /\ stage' = "up" /\ haveData' = {Genesis} /\ haveUndo' = {} /\ info.nHeightLast' = 0
      /\ disk' = Empty /\ disk'.info.nHeightLast = 0
  BY DEF StartOver, Empty, Nothing
<1>2. Anc[Genesis] = {Genesis} /\ Height(Genesis) = 0
  BY AncFacts, HeightFacts
<1> QED  BY <1>1, <1>2 DEF HeightInv, Empty, Under, Height, Torn, Working

LEMMA InitHeights == Init => HeightInv
  BY AncFacts, HeightFacts DEF Init, HeightInv, Empty, Nothing, Under, Torn, Working

LEMMA StepHeights == IInv /\ HeightInv /\ [Next]_vars => HeightInv'
<1> SUFFICES ASSUME IInv, HeightInv, [Next]_vars PROVE HeightInv'
  OBVIOUS
<1>1. CASE UNCHANGED vars
  <2>1. /\ disk' = disk /\ stage' = stage
        /\ UNCHANGED <<haveData, haveUndo, coins, info.nHeightLast>>
    BY <1>1 DEF vars, memory
  <2> QED  BY <2>1, SameDisk DEF HeightInv, Healthy, Under, Height
<1>2. CASE StartUp
  <2>1. stage = "down"
    BY <1>2 DEF StartUp, Restart, Replay, RefuseReplay
  <2> QED  BY <1>2, <2>1, HeightStartUp
<1> QED  BY <1>1, <1>2, HeightAccept, HeightConnect, HeightDisconnect, HeightFlush,
            HeightRecord, HeightEnd, HeightStartOver
         DEF Next, Work, Flush

-----------------------------------------------------------------------------
(***************************************************************************)
(* The files.  Undo data reaches the records only through FlushStateToDisk,*)
(* after the file information that counts it; ConnectBlock writes a record *)
(* ahead of that, and its block is safe until a start reads the older one. *)
(***************************************************************************)
FileInv ==
    /\ disk.haveUndo \subseteq revFile
    /\ \A b \in disk.haveUndo : undoPos[b] + UndoSize[b] <= disk.info.nUndoSize
    /\ disk.haveData \ exposed \subseteq blkFile
    /\ stage \in Working =>
        /\ haveUndo \subseteq revFile
        /\ \A b \in haveUndo : undoPos[b] + UndoSize[b] <= info.nUndoSize
        /\ haveData \ exposed \subseteq blkFile
        /\ \A b \in haveData \ exposed : dataPos[b] + Size[b] <= info.nSize
        /\ stage \in {"index", "coins", "flag"} => disk.info = info

LEMMA InitFiles == Init => FileInv
  BY Sizes, AncFacts DEF Init, FileInv, Empty, Nothing, Working

LEMMA FilesStartOver == StartOver => FileInv'
  BY Sizes, AncFacts DEF StartOver, FileInv, Empty, Nothing, Working

\* A block is stored behind all those that no start found beyond the size.
LEMMA FilesReceive ==
    ASSUME IInv, FileInv, NEW b \in Blocks, ReceiveBlock(b)
    PROVE  FileInv'
<1>1. /\ stage = "up" /\ stage' = "up" /\ b \notin index
      /\ haveData' = haveData \cup {b}
      /\ UNCHANGED <<haveUndo, disk, exposed, undoPos, revFile>>
      /\ info' = [info EXCEPT !.nSize = @ + Size[b],
                              !.nHeightLast = IF Height(b) > @ THEN Height(b) ELSE @]
      /\ dataPos' = [dataPos EXCEPT ![b] = info.nSize]
      /\ blkFile' = Stored(blkFile, dataPos, Size, b, info.nSize)
  BY DEF ReceiveBlock, Offered, StoreBlock
<1>2. info'.nSize = info.nSize + Size[b] /\ info'.nUndoSize = info.nUndoSize
  BY <1>1 DEF IInv, TypeOK, CBlockFileInfo
<1>3. info.nSize \in Nat /\ Size[b] \in Nat
  BY InfoNat, Sizes DEF IInv
<1>4. /\ b \notin haveData /\ disk.haveData \subseteq haveData
      /\ haveData \subseteq Blocks /\ dataPos \in [Blocks -> Nat]
  BY <1>1 DEF IInv, TypeOK, DirtyInv, Working
<1>5. ASSUME NEW c \in haveData \ exposed
      PROVE  c \in blkFile' /\ dataPos'[c] + Size[c] <= info'.nSize
  <2>1. dataPos[c] + Size[c] <= info.nSize /\ c \in blkFile
    BY <1>1, <1>5 DEF FileInv, Working
  <2>2. c # b /\ dataPos'[c] = dataPos[c] /\ dataPos[c] \in Nat /\ Size[c] \in Nat
    BY <1>1, <1>4, <1>5, Sizes
  <2> QED  BY <1>1, <1>2, <1>3, <2>1, <2>2 DEF Stored
<1>6. b \in blkFile' /\ dataPos'[b] + Size[b] <= info'.nSize
  BY <1>1, <1>2, <1>3, <1>4 DEF Stored
<1> QED  BY <1>1, <1>2, <1>4, <1>5, <1>6 DEF FileInv, Working

\* Undo data is stored behind all the undo data there is.
LEMMA FilesConnect ==
    ASSUME IInv, HeightInv, FileInv, NEW b \in Blocks, Connect(b)
    PROVE  FileInv'
<1>1. /\ stage = "up" /\ stage' = "up" /\ b # Genesis /\ Parent[b] = coins.best
      /\ disk' = Written(b) /\ haveUndo' = haveUndo \cup {b}
      /\ UNCHANGED <<haveData, exposed, dataPos, blkFile>>
  BY DEF Connect, Connectable, ConnectBlock, StoreUndo, files
<1>2. PICK c \in Better : b \in Anc[c]
  BY DEF Connect, Connectable
<1>3. /\ b \in haveData /\ disk'.haveUndo = disk.haveUndo
      /\ disk'.haveData = disk.haveData \cup {b} /\ disk'.info = disk.info
  <2>1. Written(b).info = disk.info
    BY DEF Written, IInv, TypeOK
  <2> QED  BY <1>1, <1>2, <2>1, WrittenFacts, WrittenUndo
<1>4. disk.haveUndo \subseteq haveUndo /\ haveUndo \subseteq Blocks
  BY <1>1 DEF IInv, TypeOK, DirtyInv, Working
<1>5. CASE b \in haveUndo
  <2>1. UNCHANGED <<haveUndo, info, undoPos, revFile>>
    BY <1>1, <1>5 DEF Connect, ConnectBlock, files
  <2> QED  BY <1>1, <1>3, <2>1 DEF FileInv, Working
<1>6. CASE b \notin haveUndo
  <2>1. /\ info' = [info EXCEPT !.nUndoSize = @ + UndoSize[b]]
        /\ undoPos' = [undoPos EXCEPT ![b] = info.nUndoSize]
        /\ revFile' = Stored(revFile, undoPos, UndoSize, b, info.nUndoSize)
    BY <1>6 DEF Connect, ConnectBlock, StoreUndo
  <2>2. info'.nUndoSize = info.nUndoSize + UndoSize[b] /\ info'.nSize = info.nSize
    BY <2>1 DEF IInv, TypeOK, CBlockFileInfo
  <2>3. info.nUndoSize \in Nat /\ UndoSize[b] \in Nat /\ undoPos \in [Blocks -> Nat]
    BY InfoNat, Sizes DEF IInv, TypeOK
  <2>4. ASSUME NEW d \in haveUndo
        PROVE  /\ d \in revFile' /\ undoPos'[d] = undoPos[d]
               /\ undoPos'[d] + UndoSize[d] <= info'.nUndoSize
    <3>1. undoPos[d] + UndoSize[d] <= info.nUndoSize /\ d \in revFile
      BY <1>1 DEF FileInv, Working
    <3>2. d # b /\ undoPos'[d] = undoPos[d] /\ undoPos[d] \in Nat /\ UndoSize[d] \in Nat
      BY <1>4, <1>6, <2>1, <2>3, Sizes
    <3> QED  BY <2>1, <2>2, <2>3, <3>1, <3>2 DEF Stored
  <2>5. b \in revFile' /\ undoPos'[b] + UndoSize[b] <= info'.nUndoSize
    BY <2>1, <2>2, <2>3 DEF Stored
  <2> QED  BY <1>1, <1>3, <1>4, <2>2, <2>4, <2>5 DEF FileInv, Working
<1> QED  BY <1>5, <1>6

\* What a process that has ended leaves.
LEMMA FilesEnd ==
    ASSUME IInv, FileInv, stage \in Working, End,
           disk'.haveUndo = disk.haveUndo, disk'.info = disk.info,
           disk'.haveData \subseteq haveData
    PROVE  FileInv'
<1>1. disk.haveUndo \subseteq Blocks
  BY DEF IInv, TypeOK
<1>2. \A b \in disk.haveUndo : undoPos'[b] = undoPos[b]
  BY <1>1 DEF End
<1> QED  BY <1>2 DEF End, FileInv, Working

LEMMA FilesEnds ==
    ASSUME IInv, HeightInv, FileInv,
           WriteFlag \/ Die \/ (\E b \in Blocks : DieInConnect(b))
    PROVE  FileInv'
<1>1. CASE WriteFlag \/ Die
  <2>1. /\ stage \in Working /\ End
        /\ disk'.haveUndo = disk.haveUndo /\ disk'.info = disk.info
        /\ disk'.haveData = disk.haveData
    BY <1>1 DEF WriteFlag, Die, IInv, TypeOK, Stage, Working
  <2> QED  BY <2>1, FilesEnd DEF IInv, DirtyInv
<1>2. ASSUME NEW b \in Blocks, DieInConnect(b) PROVE FileInv'
  <2>1. /\ stage = "up" /\ b # Genesis /\ Parent[b] = coins.best
        /\ disk' = Written(b) /\ End
    BY <1>2 DEF DieInConnect, Connectable
  <2>2. PICK c \in Better : b \in Anc[c]
    BY <1>2 DEF DieInConnect, Connectable
  <2>3. Written(b).info = disk.info
    BY DEF Written, IInv, TypeOK
  <2>4. /\ b \in haveData /\ disk'.haveUndo = disk.haveUndo
        /\ disk'.haveData = disk.haveData \cup {b}
    BY <2>1, <2>2, WrittenFacts, WrittenUndo
  <2> QED  BY <2>1, <2>3, <2>4, FilesEnd DEF IInv, DirtyInv, Working
<1> QED  BY <1>1, <1>2

\* Steps that leave the files and their information alone.
LEMMA FilesSame ==
    ASSUME IInv, FileInv,
           \/ \E b \in Blocks : RefuseBlock(b)
           \/ Disconnect \/ BeginFlush \/ BeginShutdown \/ EndIndex \/ WriteCoins
           \/ \E addr \in Addresses : RefuseReplay(addr)
           \/ UNCHANGED vars
    PROVE  FileInv'
<1>1. /\ UNCHANGED <<files, exposed, info, haveData, haveUndo>>
      /\ disk'.haveUndo = disk.haveUndo /\ disk'.haveData = disk.haveData
      /\ disk'.info = disk.info
      /\ stage' \in Working => stage \in Working
      /\ stage' \in {"index", "coins", "flag"} => stage \in {"index", "coins", "flag"}
  BY DEF RefuseBlock, Offered, Disconnect, BeginFlush, BeginShutdown, EndIndex, WriteCoins,
         RefuseReplay, vars, memory, Working, IInv, TypeOK
<1> QED  BY <1>1 DEF FileInv, files

LEMMA FilesWrite ==
    ASSUME IInv, FileInv, WriteFileInfo \/ (\E b \in Blocks : WriteRecord(b))
    PROVE  FileInv'
<1>1. /\ UNCHANGED <<files, exposed, info, haveData, haveUndo>>
      /\ stage \in Working /\ disk'.info = info
      /\ disk'.haveData \subseteq haveData /\ disk'.haveUndo \subseteq haveUndo
  <2>1. disk.haveData \subseteq haveData /\ disk.haveUndo \subseteq haveUndo
    BY DEF WriteFileInfo, WriteRecord, IInv, DirtyInv, Working
  <2>2. CASE WriteFileInfo
    BY <2>1, <2>2 DEF WriteFileInfo, memory, Working, IInv, TypeOK
  <2>3. ASSUME NEW b \in Blocks, WriteRecord(b)
        PROVE  /\ UNCHANGED <<files, exposed, info, haveData, haveUndo>>
               /\ stage \in Working /\ disk'.info = info
               /\ disk'.haveData \subseteq haveData /\ disk'.haveUndo \subseteq haveUndo
    BY <2>1, <2>3 DEF WriteRecord, Working, IInv, TypeOK, FileInv
  <2> QED  BY <2>2, <2>3
<1> QED  BY <1>1 DEF FileInv, files, Working

\* A start takes the blocks that it finds beyond the size as exposed.
LEMMA FilesLoad == ASSUME IInv, FileInv, NEW c, Load(c) PROVE FileInv'
<1>1. /\ haveData' = disk.haveData /\ haveUndo' = disk.haveUndo /\ info' = disk.info
      /\ UNCHANGED files /\ exposed' = exposed \cup Beyond
      /\ disk'.haveData = disk.haveData /\ disk'.haveUndo = disk.haveUndo
      /\ disk'.info = disk.info /\ stage' \in {"up", "broken"}
  BY DEF Load, IInv, TypeOK
<1>2. ASSUME NEW b \in disk.haveData \ exposed'
      PROVE  dataPos[b] + Size[b] <= disk.info.nSize
  <2>1. dataPos[b] \in Nat /\ Size[b] \in Nat /\ disk.info.nSize \in Nat
    BY InfoNat, Sizes DEF IInv, TypeOK
  <2> QED  BY <1>1, <2>1 DEF Beyond
<1> QED  BY <1>1, <1>2 DEF FileInv, files, Working

LEMMA StepFiles == IInv /\ HeightInv /\ FileInv /\ [Next]_vars => FileInv'
<1> SUFFICES ASSUME IInv, HeightInv, FileInv, [Next]_vars PROVE FileInv'
  OBVIOUS
<1>1. CASE Work
  BY <1>1, FilesReceive, FilesConnect, FilesEnds, FilesSame DEF Work
<1>2. CASE Flush
  BY <1>2, FilesSame, FilesWrite, FilesEnds DEF Flush
<1>3. CASE StartUp
  BY <1>3, FilesLoad, FilesSame DEF StartUp, Restart, Replay
<1> QED  BY <1>1, <1>2, <1>3, FilesEnds, FilesStartOver, FilesSame DEF Next

\* Records and files together.
LEMMA CoversFiles == IInv /\ FileInv => IndexCoversCoins
  BY DEF IInv, RecordsCover, FileInv, IndexCoversCoins

-----------------------------------------------------------------------------
(***************************************************************************)
(* The theorems.                                                           *)
(***************************************************************************)
\* Where the process is down, it can only be started.
LEMMA OnlyStartUp == stage = "down" /\ Next => StartUp
  BY DEF Next, Work, Flush, RefuseBlock, ReceiveBlock, Offered, Connect, DieInConnect,
         Connectable, Disconnect, BeginFlush, BeginShutdown, WriteFileInfo, EndIndex, WriteCoins,
         WriteFlag, WriteRecord, Die, StartOver

\* Every step keeps the invariant.
LEMMA Inductive == IInv /\ [Next]_vars => IInv'
<1> SUFFICES ASSUME IInv, [Next]_vars PROVE IInv'
  OBVIOUS
<1>1. CASE UNCHANGED vars
  BY <1>1
  DEF IInv, vars, memory, files, TypeOK, DiskInv, MemoryInv, DirtyInv, RecordsCover,
      IndexClosed, Healthy, Torn, Exact
<1>2. CASE Next
  <2>1. Others'
    BY <1>2, AcceptStep, ConnectStep, DieInConnectStep, DisconnectStep, FlushStep,
       WriteRecordStep, EndStep, StartUpStep, StartOverStep
    DEF Next, Work, Flush
  <2>2. TypeOK'
    BY <1>2, TypeStep DEF IInv
  <2> QED  BY <2>1, <2>2 DEF IInv, Others
<1> QED  BY <1>1, <1>2

\* The inductive invariant holds of every state a node, alive or dead, is in.
THEOREM Invariance == Spec => []IInv
<1>1. Init => IInv
  BY TypeInit, OthersInit DEF IInv, Others
<1> QED  BY <1>1, Inductive, PTL DEF Spec

\* Memory and databases keep their shape through crashes, replays and starting over.
THEOREM TypeCorrect == Spec => []TypeOK
<1>1. IInv => TypeOK
  BY DEF IInv
<1> QED  BY <1>1, Invariance, PTL

\* The heights and the files, in every state a node is in.
LEMMA Kept == Spec => [](HeightInv /\ FileInv)
  BY InitHeights, InitFiles, StepHeights, StepFiles, Invariance, PTL DEF Spec

\* Whenever the process dies, the chain of the coins on disk has its records
\* and its undo data, which is never stored over.  It has its blocks too, but
\* for those that an earlier start found beyond the size of the blk file: for
\* them the order of the writes in ConnectBlock and FlushStateToDisk is not
\* enough.
THEOREM IndexAlwaysCoversCoins == Spec => []IndexCoversCoins
  BY CoversFiles, Invariance, Kept, PTL

\* The index on disk has no gap except while FlushStateToDisk writes records.
THEOREM IndexAlwaysClosed == Spec => []IndexClosed
<1>1. IInv => IndexClosed
  BY DEF IInv
<1> QED  BY <1>1, Invariance, PTL

\* A node that neither finds a gap nor replays blocks comes up, if its chain
\* has no block that may have been stored over.
THEOREM NodeStartsAgain == Spec => StartsAgain
<1>1. ASSUME IInv, FileInv, Next, stage = "down", ~Torn,
             \A addr \in Addresses : ~NeedsReplay(addr),
             Anc[disk.coins.best] \cap exposed = {}
      PROVE  stage' = "up"
  <2>1. StartUp
    BY <1>1, OnlyStartUp
  <2>2. PICK addr \in Addresses : Restart(addr)
    BY <1>1, <2>1 DEF StartUp, Replay, RefuseReplay
  <2>3. Verified(disk.coins)
    BY <1>1, CoversFiles DEF IndexCoversCoins, Healthy, Verified
  <2> QED  BY <1>1, <2>2, <2>3 DEF Restart, Load
<1>2. IInv /\ FileInv /\ [Next]_vars
      => [stage = "down" /\ ~Torn /\ (\A addr \in Addresses : ~NeedsReplay(addr))
            /\ Anc[disk.coins.best] \cap exposed = {}
          => stage' = "up"]_vars
  BY <1>1
<1> QED  BY <1>2, Invariance, Kept, PTL DEF Spec, StartsAgain

\* Where the index is one chain of stored blocks, a start leaves coins of that
\* chain in the database, replay or not.
THEOREM ReplayIsExact == Spec => ReplayExact
<1> DEFINE P == stage = "down" /\ disk.index = disk.haveData
                /\ (\A b, c \in disk.index : Height(b) = Height(c) => b = c)
                => Exact(disk'.coins)
<1>1. ASSUME IInv, HeightInv, Next, stage = "down", OneChain PROVE Exact(disk'.coins)
  <2>1. StartUp
    BY <1>1, OnlyStartUp
  <2>2. PICK addr \in Addresses : Restart(addr) \/ Replay(addr) \/ RefuseReplay(addr)
    BY <2>1 DEF StartUp
  <2>3. Exact(disk.coins)
    BY <1>1 DEF IInv, RecordsCover, Healthy
  <2>4. \A c : Load(c) => disk'.coins = c
    BY DEF Load, IInv, TypeOK
  <2>5. CASE Restart(addr)
    BY <2>3, <2>4, <2>5 DEF Restart
  <2>6. CASE RefuseReplay(addr)
    BY <2>3, <2>6 DEF RefuseReplay
  <2>7. CASE Replay(addr)
    <3>1. PICK b \in Blocks : Last(addr, b) /\ Load(ReplayCoins(addr, b))
      BY <2>7 DEF Replay
    <3>2. Exact(ReplayCoins(addr, b))
      BY <1>1, <2>7, <3>1, ReplayOfChain DEF Replay, Healthy
    <3> QED  BY <2>4, <3>1, <3>2
  <2> QED  BY <2>2, <2>5, <2>6, <2>7
<1>2. IInv /\ HeightInv /\ [Next]_vars => [P]_vars
  BY <1>1 DEF OneChain, Single
<1> QED  BY <1>2, InitHeights, StepHeights, Invariance, PTL DEF Spec, ReplayExact

\* ... and where that start replays blocks, the node does not come up with
\* them: VerifyDB finds the last one without undo data.
THEOREM ReplayIsRejected ==
    Spec => [][stage = "down" /\ OneChain /\ (\A addr \in Addresses : NeedsReplay(addr))
               => stage' # "up"]_vars
<1>1. ASSUME IInv, HeightInv, Next, stage = "down", OneChain,
             \A addr \in Addresses : NeedsReplay(addr)
      PROVE  stage' # "up"
  <2>1. PICK addr \in Addresses : Replay(addr) \/ RefuseReplay(addr)
    BY <1>1, OnlyStartUp DEF StartUp, Restart
  <2>2. CASE Replay(addr)
    BY <1>1, <2>2, ReplayNotVerified DEF Healthy
  <2>3. CASE RefuseReplay(addr)
    BY <2>3 DEF RefuseReplay
  <2> QED  BY <2>1, <2>2, <2>3
<1>2. IInv /\ HeightInv /\ [Next]_vars
      => [stage = "down" /\ OneChain /\ (\A addr \in Addresses : NeedsReplay(addr))
          => stage' # "up"]_vars
  BY <1>1
<1> QED  BY <1>2, InitHeights, StepHeights, Invariance, PTL DEF Spec
=============================================================================
