----------------------------- MODULE ChainStore -----------------------------
(***************************************************************************)
(* What a node has on disk of the block tree and of the coins, and what it *)
(* makes of it when it is started again (src/src/main.cpp, init.cpp).      *)
(*                                                                         *)
(* FlushStateToDisk writes the file information, the records of the block  *)
(* index one by one and the coins in one batch; ConnectBlock writes the    *)
(* record of its block at once.  The process may die between any two of    *)
(* these writes.  LoadBlockIndexDB repairs what it finds after that.       *)
(*                                                                         *)
(* The file information also says where the next block and the next undo   *)
(* data go in the blk and rev files.  After a crash it may be older than   *)
(* the records, and a block is then stored over another one.               *)
(*                                                                         *)
(* Coins are seen as the set of blocks whose transactions are in them.     *)
(* There is one blk file and its rev file.  What reaches a file survives   *)
(* the process, fsync is not modelled.  Blocks are valid and work is       *)
(* height; failing writes are in CoinsCache and ChainState.                *)
(***************************************************************************)
EXTENDS Integers, FiniteSets

CONSTANTS
    Blocks,     \* the blocks the node may ever receive
    Genesis,    \* Params().GenesisBlock()
    Parent,     \* hashPrevBlock of every block but Genesis
    Anc,        \* Anc[b]: b and the blocks below it
    Refused,    \* blocks ContextualCheckBlock refuses
    Size,       \* bytes of every block in the blk file
    UndoSize,   \* and of its undo data in the rev file
    MaxFile,    \* bound: the model fills no file further
    Addresses   \* addresses the CBlockIndex objects may get: they order
                \* blocks of one height

Height(b) == Cardinality(Anc[b]) - 1

ASSUME StoreAssumption ==
    /\ IsFiniteSet(Blocks) /\ Genesis \in Blocks
    /\ Refused \subseteq Blocks \ {Genesis}
    /\ Size \in [Blocks -> Nat \ {0}] /\ UndoSize \in [Blocks -> Nat \ {0}]
    /\ MaxFile \in Nat
    /\ Parent \in [Blocks \ {Genesis} -> Blocks]
    /\ Anc \in [Blocks -> SUBSET Blocks]
    /\ Anc[Genesis] = {Genesis}
    /\ \A b \in Blocks \ {Genesis} : Anc[b] = Anc[Parent[b]] \cup {b}
    /\ \A b \in Blocks : b \in Anc[b]
    /\ \A b \in Blocks \ {Genesis} : b \notin Anc[Parent[b]]
    /\ \A addr \in Addresses : addr \in [Blocks -> Nat]

VARIABLES
    haveData,      \* BLOCK_HAVE_DATA of mapBlockIndex, in memory, and
    haveUndo,      \* BLOCK_HAVE_UNDO,
    index,         \*   whose blocks these are
    dataPos,       \* nDataPos and
    undoPos,       \*   nUndoPos, the same in memory and in the records
    dirty,         \* setDirtyBlockIndex
    info,          \* vinfoBlockFile[nLastBlockFile]
    coins,         \* pcoinsTip
    stage,         \* where the process stands
    closing,       \* Shutdown is flushing
    disk,          \* the databases
    blkFile,       \* blocks that can be read at their dataPos, and
    revFile,       \*   those whose undo data can be at their undoPos
    exposed        \* history: blocks that a start found with data beyond the
                   \* size in the file information; no action looks at it

memory == <<index, haveData, haveUndo, dirty, info, coins, closing>>
files == <<dataPos, undoPos, blkFile, revFile>>
vars == <<memory, stage, disk, files, exposed>>

CBlockFileInfo == [nHeightLast: Nat, nSize: Nat, nUndoSize: Nat]
Coins == [best: Blocks, done: SUBSET Blocks]
Stage == {"up", "fileinfo", "index", "coins", "flag", "down", "broken"}

TypeOK ==
    /\ index \subseteq Blocks /\ haveData \subseteq index
    /\ haveUndo \subseteq haveData /\ dirty \subseteq index
    /\ dataPos \in [Blocks -> Nat] /\ undoPos \in [Blocks -> Nat]
    /\ blkFile \subseteq Blocks /\ revFile \subseteq Blocks
    /\ exposed \subseteq Blocks
    /\ info \in CBlockFileInfo
    /\ coins \in Coins
    /\ stage \in Stage /\ closing \in BOOLEAN
    /\ disk \in [index: SUBSET Blocks, haveData: SUBSET Blocks,
                 haveUndo: SUBSET Blocks, info: CBlockFileInfo, coins: Coins,
                 shutdown: BOOLEAN]

(***************************************************************************)
(* InitBlockIndex (main.cpp:4969): the genesis block, stored and flushed.  *)
(***************************************************************************)
Fresh == [best |-> Genesis, done |-> {Genesis}]
Nothing == [nHeightLast |-> 0, nSize |-> 0, nUndoSize |-> 0]

Empty ==
    [index |-> {Genesis}, haveData |-> {Genesis}, haveUndo |-> {},
     info |-> [Nothing EXCEPT !.nSize = Size[Genesis]],
     coins |-> Fresh, shutdown |-> FALSE]

Init ==
    /\ index = {Genesis} /\ haveData = {Genesis} /\ haveUndo = {}
    /\ dirty = {} /\ info = Empty.info
    /\ coins = Fresh
    /\ stage = "up" /\ closing = FALSE
    /\ disk = Empty
    /\ dataPos = [b \in Blocks |-> 0] /\ blkFile = {Genesis}
    /\ undoPos = [b \in Blocks |-> 0] /\ revFile = {}
    /\ exposed = {}

\* The process ends: what it had in memory is lost, and with it what only
\* the memory told of the files.
End ==
    /\ index' = {} /\ haveData' = {} /\ haveUndo' = {}
    /\ dirty' = {} /\ info' = Nothing
    /\ coins' = Fresh
    /\ stage' = "down" /\ closing' = FALSE
    /\ dataPos' = [b \in Blocks |-> IF b \in disk'.haveData THEN dataPos[b] ELSE 0]
    /\ undoPos' = [b \in Blocks |-> IF b \in disk'.haveUndo THEN undoPos[b] ELSE 0]
    /\ blkFile' = blkFile \cap disk'.haveData
    /\ revFile' = revFile \cap disk'.haveUndo
    /\ UNCHANGED exposed

-----------------------------------------------------------------------------
(***************************************************************************)
(* The node at work.                                                       *)
(***************************************************************************)

\* Mutant: the previous block is not looked up.
OfferedOrphan(b) == stage = "up" /\ b \in Blocks \ index /\ b # Genesis

\* A block the "block" handler passes to AcceptBlock: it is new, and its
\* parent is neither unknown nor refused.
Offered(b) ==
    stage = "up" /\ b \in Blocks \ index /\ b # Genesis /\ Parent[b] \in haveData

\* Mutant: the block is not in mapBlockIndex.
AcceptHeaderApart(b) == dirty' = dirty \cup {b} /\ UNCHANGED index

\* AcceptBlockHeader: AddToBlockIndex enters it in setDirtyBlockIndex.
AcceptHeader(b) == index' = index \cup {b} /\ dirty' = dirty \cup {b}

\* AcceptBlock that ends with ContextualCheckBlock: a record, but no data.
RefuseBlock(b) ==
    /\ Offered(b) /\ b \in Refused
    /\ AcceptHeader(b)
    /\ UNCHANGED <<haveData, haveUndo, info, coins, stage, closing, disk,
                   files, exposed>>

\* A file after the data of b has been written at p: whatever overlaps with
\* it can no longer be read, it fails the comparison of the hash in
\* ReadBlockFromDisk or that of the checksum in CBlockUndo::ReadFromDisk.
Stored(file, pos, size, b, p) ==
    {b} \cup {c \in file : pos[c] + size[c] <= p \/ p + size[b] <= pos[c]}

\* FindBlockPos and WriteBlockToDisk: the block goes where the file ends
\* according to the file information, which takes down its height.
StoreBlock(b) ==
    /\ info.nSize + Size[b] <= MaxFile
    /\ info' = [info EXCEPT !.nSize = @ + Size[b],
                            !.nHeightLast = IF Height(b) > @ THEN Height(b) ELSE @]
    /\ dataPos' = [dataPos EXCEPT ![b] = info.nSize]
    /\ blkFile' = Stored(blkFile, dataPos, Size, b, info.nSize)
    /\ UNCHANGED <<undoPos, revFile>>

\* AcceptBlock: the block is stored, ReceivedBlockTransactions marks it.
ReceiveBlock(b) ==
    /\ Offered(b) /\ b \notin Refused
    /\ AcceptHeader(b)
    /\ StoreBlock(b)
    /\ haveData' = haveData \cup {b}
    /\ UNCHANGED <<haveUndo, coins, stage, closing, disk, exposed>>

\* FindMostWorkChain: the blocks ActivateBestChain may head for.
MostWork == {b \in haveData : \A c \in haveData : Height(c) <= Height(b)}
Better == {b \in MostWork : Height(b) > Height(coins.best)}

\* The record ConnectBlock writes itself, before there is undo data.
Written(b) ==
    [disk EXCEPT !.index = @ \cup {b},
                 !.haveData = @ \cup {b},
                 !.haveUndo = (@ \ {b}) \cup ({b} \cap haveUndo)]

\* ConnectTip can have b: it is on the way to a better block, and it is read
\* back or is the very block that ProcessNewBlock was called with, which
\* submitblock also does with a block that is known already.
Connectable(b) ==
    /\ stage = "up" /\ b # Genesis /\ Parent[b] = coins.best
    /\ \E c \in Better : b \in Anc[c]
    /\ b \in blkFile \cup MostWork

\* FindUndoPos and CBlockUndo::WriteToDisk, for a block without undo data.
StoreUndo(b) ==
    /\ info.nUndoSize + UndoSize[b] <= MaxFile
    /\ info' = [info EXCEPT !.nUndoSize = @ + UndoSize[b]]
    /\ undoPos' = [undoPos EXCEPT ![b] = info.nUndoSize]
    /\ revFile' = Stored(revFile, undoPos, UndoSize, b, info.nUndoSize)
    /\ UNCHANGED <<dataPos, blkFile>>

\* What ConnectBlock does to the block index and the files.
ConnectBlock(b) ==
    /\ disk' = Written(b)
    /\ IF b \in haveUndo THEN UNCHANGED <<info, files>> ELSE StoreUndo(b)
    /\ haveUndo' = haveUndo \cup {b}

\* Mutant: the index entry is not entered in setDirtyBlockIndex again when
\* its undo data has been written.
ConnectClean(b) ==
    /\ Connectable(b) /\ ConnectBlock(b)
    /\ coins' = [best |-> b, done |-> coins.done \cup {b}]
    /\ UNCHANGED <<index, haveData, dirty, stage, closing, exposed>>

\* ConnectTip, the flush it may end with is BeginFlush.
Connect(b) ==
    /\ Connectable(b) /\ ConnectBlock(b)
    /\ dirty' = dirty \cup ({b} \ haveUndo)
    /\ coins' = [best |-> b, done |-> coins.done \cup {b}]
    /\ UNCHANGED <<index, haveData, stage, closing, exposed>>

\* The process dies after ConnectBlock has written the record.
DieInConnect(b) ==
    /\ Connectable(b)
    /\ disk' = Written(b)
    /\ End

\* DisconnectTip, up to its FlushStateToDisk(FLUSH_STATE_ALWAYS): it reads
\* the block and its undo data.
Disconnect ==
    /\ stage = "up"
    /\ \E c \in Better : coins.best \notin Anc[c]
    /\ coins.best \in haveUndo \cap blkFile \cap revFile
    /\ coins' = [best |-> Parent[coins.best], done |-> coins.done \ {coins.best}]
    /\ stage' = "fileinfo"
    /\ UNCHANGED <<index, haveData, haveUndo, dirty, info, closing, disk,
                   files, exposed>>

-----------------------------------------------------------------------------
(***************************************************************************)
(* FlushStateToDisk (main.cpp:3243), a write at a time.                    *)
(***************************************************************************)

\* The cache is over its limit or the last write is long ago.
BeginFlush ==
    /\ stage = "up" /\ stage' = "fileinfo"
    /\ UNCHANGED <<memory, disk, files, exposed>>

\* Shutdown (init.cpp:205), which a ConnectTip or DisconnectTip that cannot
\* read its block also leads to.
BeginShutdown ==
    /\ stage = "up" /\ stage' = "fileinfo" /\ closing' = TRUE
    /\ UNCHANGED <<index, haveData, haveUndo, dirty, info, coins, disk,
                   files, exposed>>

WriteFileInfo ==
    /\ stage = "fileinfo"
    /\ disk' = [disk EXCEPT !.info = info]
    /\ stage' = "index"
    /\ UNCHANGED <<memory, files, exposed>>

WriteRecord(b) ==
    /\ stage = "index" /\ b \in dirty
    /\ disk' = [disk EXCEPT !.index = @ \cup {b},
                            !.haveData = @ \cup ({b} \cap haveData),
                            !.haveUndo = @ \cup ({b} \cap haveUndo)]
    /\ dirty' = dirty \ {b}
    /\ UNCHANGED <<index, haveData, haveUndo, info, coins, stage, closing,
                   files, exposed>>

\* Mutant: the coins do not wait for the records.
EndIndexEarly ==
    /\ stage = "index"
    /\ stage' = "coins"
    /\ UNCHANGED <<memory, disk, files, exposed>>

EndIndex ==
    /\ stage = "index" /\ dirty = {}
    /\ stage' = "coins"
    /\ UNCHANGED <<memory, disk, files, exposed>>

\* pcoinsTip->Flush, one atomic batch.
WriteCoins ==
    /\ stage = "coins"
    /\ disk' = [disk EXCEPT !.coins = coins]
    /\ stage' = IF closing THEN "flag" ELSE "up"
    /\ UNCHANGED <<memory, files, exposed>>

WriteFlag ==
    /\ stage = "flag"
    /\ disk' = [disk EXCEPT !.shutdown = TRUE]
    /\ End

Die ==
    /\ stage \notin {"down", "broken"}
    /\ UNCHANGED disk
    /\ End

-----------------------------------------------------------------------------
(***************************************************************************)
(* LoadBlockIndexDB (main.cpp:4693) and VerifyDB (main.cpp:4877).          *)
(***************************************************************************)

\* Below some record one is missing: in its place InsertBlockIndex invents
\* an entry of height 0 that has no parent itself.
Torn == \E b \in disk.index : ~(Anc[b] \subseteq disk.index)

\* Position in vSortedByHeight, from 0.
Before(addr, b) ==
    {c \in disk.index : \/ Height(c) < Height(b)
                        \/ Height(c) = Height(b) /\ addr[c] < addr[b]}
Pos(addr, b) == Cardinality(Before(addr, b))
Sorted(addr, n) == CHOOSE b \in disk.index : Pos(addr, b) = n

NeedsReplay(addr) ==
    /\ ~disk.shutdown
    /\ Cardinality(disk.index) > disk.info.nHeightLast + 1
    /\ disk.coins.best # Sorted(addr, disk.info.nHeightLast + 1)

\* Mutant: off by one.
AboveByTwo == {b \in disk.index : Height(b) = Height(disk.coins.best) + 2}

\* Where the replay starts; if no block is higher than the coins, it has
\* run to the last position with pindex still the first.
Above == {b \in disk.index : Height(b) = Height(disk.coins.best) + 1}
Start(addr) == CHOOSE b \in Above : \A c \in Above : addr[b] <= addr[c]

\* The blocks it applies: from there on, in order, up to the first that is
\* as high as pindexLastMeta.
Replayed(addr) ==
    LET last == Height(Sorted(addr, disk.info.nHeightLast + 1))
        Rest(b) == {c \in Before(addr, b) : Pos(addr, c) >= Pos(addr, Start(addr))}
    IN  IF Above = {} THEN {Genesis}
        ELSE {b \in disk.index :
                 /\ Pos(addr, b) >= Pos(addr, Start(addr))
                 /\ \A c \in Rest(b) : Height(c) < last}

\* The last of them becomes the best block.
Last(addr, b) ==
    b \in Replayed(addr) /\ \A c \in Replayed(addr) : Pos(addr, c) <= Pos(addr, b)
ReplayCoins(addr, b) ==
    [best |-> b, done |-> disk.coins.done \cup Replayed(addr)]

\* ReadBlockFromDisk finds every block.
Readable(addr) == Replayed(addr) \subseteq disk.haveData \cap blkFile

\* VerifyDB reads the blocks of the chain and their undo data, and with them
\* disconnects the chain in memory; the genesis block is left alone.
Exact(c) == c.done = Anc[c.best]
Verified(c) ==
    /\ Exact(c)
    /\ Anc[c.best] \ {Genesis} \subseteq disk.haveUndo \cap blkFile \cap revFile

\* Blocks whose data the file information does not know of: the next block
\* goes where they are.
Beyond == {b \in disk.haveData : dataPos[b] + Size[b] > disk.info.nSize}

Load(c) ==
    /\ index' = disk.index /\ haveData' = disk.haveData
    /\ haveUndo' = disk.haveUndo /\ dirty' = {}
    /\ info' = disk.info
    /\ coins' = c /\ closing' = FALSE
    /\ disk' = [disk EXCEPT !.coins = c, !.shutdown = FALSE]
    /\ exposed' = exposed \cup Beyond
    /\ UNCHANGED files
    /\ stage' = IF ~Torn /\ Verified(c) THEN "up" ELSE "broken"

\* LoadBlockIndexDB without and with the replay.  A replay that cannot read
\* a block or spend a coin ends the process, with the databases as they are.
\* "broken" also stands for a node with coins of no chain or with two roots:
\* what such a node does is left out.
Restart(addr) ==
    /\ stage = "down" /\ ~NeedsReplay(addr)
    /\ Load(disk.coins)

Replay(addr) ==
    /\ stage = "down" /\ NeedsReplay(addr) /\ Readable(addr)
    /\ \E b \in Blocks : Last(addr, b) /\ Load(ReplayCoins(addr, b))

RefuseReplay(addr) ==
    /\ stage = "down" /\ NeedsReplay(addr)
    /\ \/ ~Readable(addr)
       \/ \E b \in Blocks : Last(addr, b) /\ ~Exact(ReplayCoins(addr, b))
    /\ stage' = "broken"
    /\ UNCHANGED <<memory, disk, files, exposed>>

\* The operator removes the data directory, InitBlockIndex makes it anew and
\* the blocks are received again.
StartOver ==
    /\ stage = "broken"
    /\ index' = {Genesis} /\ haveData' = {Genesis} /\ haveUndo' = {}
    /\ dirty' = {} /\ info' = Empty.info
    /\ coins' = Fresh /\ stage' = "up" /\ closing' = FALSE
    /\ disk' = Empty
    /\ dataPos' = [b \in Blocks |-> 0] /\ blkFile' = {Genesis}
    /\ undoPos' = [b \in Blocks |-> 0] /\ revFile' = {}
    /\ exposed' = {}

StartUp ==
    \E addr \in Addresses : Restart(addr) \/ Replay(addr) \/ RefuseReplay(addr)

Flush ==
    \/ BeginFlush \/ BeginShutdown \/ WriteFileInfo \/ EndIndex
    \/ WriteCoins \/ WriteFlag
    \/ \E b \in Blocks : WriteRecord(b)

Work ==
    \/ \E b \in Blocks : \/ RefuseBlock(b) \/ ReceiveBlock(b)
                         \/ Connect(b) \/ DieInConnect(b)
    \/ Disconnect

Next == Work \/ Flush \/ Die \/ StartUp \/ StartOver

Spec == Init /\ [][Next]_vars

-----------------------------------------------------------------------------
(***************************************************************************)
(* Properties.                                                             *)
(***************************************************************************)

Healthy == stage # "broken"

\* The coins on disk are those of one chain, and every block of that chain
\* has its record on disk with its data, and with the undo data that
\* DisconnectTip and VerifyDB need, whenever the process dies: the order of
\* the writes in FlushStateToDisk, and ConnectBlock's own write.  The undo
\* data is never stored over, and of the blocks only those that some start
\* found beyond the size of the file.
IndexCoversCoins ==
    Healthy =>
        /\ Exact(disk.coins)
        /\ Anc[disk.coins.best] \subseteq disk.index \cap disk.haveData
        /\ Anc[disk.coins.best] \ {Genesis} \subseteq disk.haveUndo \cap revFile
        /\ Anc[disk.coins.best] \ exposed \subseteq blkFile

\* Only a process that dies while FlushStateToDisk writes the records leaves
\* a record without one below it: whatever ConnectBlock writes out of turn,
\* those are there.
IndexClosed == stage \in {"up", "fileinfo", "coins", "flag"} => ~Torn

\* A node that finds its databases closed and does not take to the replay
\* comes up, unless its chain has a block that some start found beyond the
\* size of the file: nothing else than these three keeps it down.
StartsAgain ==
    [][stage = "down" /\ ~Torn /\ (\A addr \in Addresses : ~NeedsReplay(addr))
         /\ Anc[disk.coins.best] \cap exposed = {}
       => stage' = "up"]_vars

\* Where the index on disk is one chain of stored blocks, the replay puts
\* into the coins exactly the blocks up to the one it names: the first block
\* is that above the coins, and none is left out.
ReplayExact ==
    [][stage = "down" /\ disk.index = disk.haveData
         /\ (\A b, c \in disk.index : Height(b) = Height(c) => b = c)
         => Exact(disk'.coins)]_vars

\* What the comment in LoadBlockIndexDB says of the replay: it adds the
\* transactions of each block "up until the best known block".  It stops at
\* the height after the last one that the file information knew.
ReplayToBestKnown ==
    [][stage = "down" /\ disk.index = disk.haveData
         /\ (\A b, c \in disk.index : Height(b) = Height(c) => b = c)
         /\ (\A addr \in Addresses : NeedsReplay(addr))
         => \A b \in disk.index : Height(b) <= Height(disk'.coins.best)]_vars

\* What the comment on BLOCK_HAVE_DATA in chain.h says of a block that has it:
\* "full block available in blk*.dat".
FlaggedIsAvailable == stage = "up" => haveData \subseteq blkFile
=============================================================================
