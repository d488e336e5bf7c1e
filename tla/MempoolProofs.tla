---------------------------- MODULE MempoolProofs ----------------------------
(***************************************************************************)
(* Theorems about Mempool: types, what mapNextTx and the index of the      *)
(* orphans say, and why a transaction leaves the pool.                     *)
(***************************************************************************)
EXTENDS Mempool, FiniteSetTheorems, SequenceTheorems, TLAPS

\* The index idx is right for the orphans D.
Indexes(idx, D) ==
    /\ DOMAIN idx = UNION {Sources(x) : x \in D}
    /\ \A p \in DOMAIN idx : idx[p] = {x \in D : p \in Sources(x)}

\* The loop over the orphans is about orphans, since nothing else changes
\* them before it ends, and a block under way has a transaction left.
UnderWay ==
    /\ busy.at = "orphans" => busy.todo \subseteq DOMAIN orphans
    /\ busy.at = "connect" => busy.todo # <<>>

IInv ==
    /\ TypeOK
    /\ NextTxExact
    /\ OrphanIndexExact
    /\ IsFiniteSet(DOMAIN orphans)
    /\ UnderWay

-----------------------------------------------------------------------------
(***************************************************************************)
(* The pool.                                                               *)
(***************************************************************************)
PoolOK ==
    /\ mapTx \subseteq Tx \ (Base \cup Generated)
    /\ DOMAIN mapNextTx \subseteq Outpoint
    /\ \A o \in DOMAIN mapNextTx : mapNextTx[o] \in mapTx
    /\ NextTxExact

\* vin spends outputs of transactions.
LEMMA SourcesType == ASSUME NEW t \in Tx PROVE Sources(t) \subseteq Tx
  BY MempoolAssumption DEF Sources

\* Deleting transactions of the pool with their entries keeps it exact: no
\* output has two spenders.
LEMMA DeleteKeepsPool ==
  ASSUME PoolOK, NEW R \in SUBSET mapTx, Delete(R)
  PROVE  PoolOK'
<1>1. mapTx' = mapTx \ R
  BY DEF Delete
<1>2. DOMAIN mapNextTx' = DOMAIN mapNextTx \ Erased(R)
  BY DEF Delete, Restricted, PoolOK
<1>3. \A o \in DOMAIN mapNextTx' : mapNextTx'[o] = mapNextTx[o]
  BY DEF Delete, Restricted
<1>4. ASSUME NEW t \in mapTx', NEW o \in Ins[t]
      PROVE  o \in DOMAIN mapNextTx' /\ mapNextTx'[o] = t
  <2>1. o \in DOMAIN mapNextTx /\ mapNextTx[o] = t
    BY <1>1, <1>4 DEF PoolOK, NextTxExact
  <2>2. o \notin Erased(R)
    BY <1>1, <1>4, <2>1 DEF Erased, PoolOK, NextTxExact
  <2> QED BY <1>2, <1>3, <2>1, <2>2
<1>5. ASSUME NEW o \in DOMAIN mapNextTx'
      PROVE  mapNextTx'[o] \in mapTx' /\ o \in Ins[mapNextTx'[o]]
  <2>1. o \in DOMAIN mapNextTx /\ o \notin Erased(R)
    BY <1>2, <1>5
  <2>2. PICK t \in mapTx : o \in Ins[t]
    BY <2>1 DEF PoolOK, NextTxExact
  <2>3. mapNextTx[o] = t /\ t \notin R
    BY <2>1, <2>2 DEF Erased, PoolOK, NextTxExact
  <2> QED BY <1>1, <1>3, <1>5, <2>2, <2>3
<1>6. \A o : o \in DOMAIN mapNextTx' <=> \E t \in mapTx' : o \in Ins[t]
  BY <1>4, <1>5
<1>7. DOMAIN mapNextTx' = UNION {Ins[t] : t \in mapTx'}
  BY <1>6
<1> QED BY <1>1, <1>2, <1>4, <1>5, <1>7 DEF PoolOK, NextTxExact

\* What is accepted spends nothing that is marked.
LEMMA AcceptableIsFree ==
  ASSUME NEW t \in Tx, Acceptable(t)
  PROVE  /\ t \notin Base \cup Generated \cup mapTx
         /\ Ins[t] \cap DOMAIN mapNextTx = {}
  BY MempoolAssumption DEF Acceptable, Conflicted

\* addUnchecked keeps the pool exact, since what it marks was free.
LEMMA AddKeepsPool ==
  ASSUME PoolOK, NEW t \in Tx, Acceptable(t), AddUnchecked(t)
  PROVE  PoolOK'
<1>1. mapTx' = mapTx \cup {t} /\ t \notin mapTx \cup Base \cup Generated
  BY AcceptableIsFree DEF AddUnchecked
<1>2. DOMAIN mapNextTx' = DOMAIN mapNextTx \cup Ins[t]
  BY DEF AddUnchecked
<1>3. \A o \in Ins[t] : mapNextTx'[o] = t
  BY <1>2 DEF AddUnchecked
<1>4. \A o \in DOMAIN mapNextTx : o \notin Ins[t] /\ mapNextTx'[o] = mapNextTx[o]
  BY AcceptableIsFree DEF AddUnchecked
<1>5. Ins[t] \subseteq Outpoint
  BY MempoolAssumption
<1>6. DOMAIN mapNextTx' = UNION {Ins[u] : u \in mapTx'}
  BY <1>1, <1>2 DEF PoolOK, NextTxExact
<1>7. \A u \in mapTx' : \A o \in Ins[u] : mapNextTx'[o] = u
  BY <1>1, <1>3, <1>4 DEF PoolOK, NextTxExact
<1>8. mapTx' \subseteq Tx \ (Base \cup Generated)
  BY <1>1 DEF PoolOK
<1>9. \A o \in DOMAIN mapNextTx' : mapNextTx'[o] \in mapTx'
  BY <1>1, <1>2, <1>3, <1>4 DEF PoolOK
<1> QED BY <1>2, <1>5, <1>6, <1>7, <1>8, <1>9 DEF PoolOK, NextTxExact

\* "remove" takes transactions of the pool.
LEMMA RemovedInPool == \A S : Removed(S) \subseteq mapTx
  BY DEF Removed

-----------------------------------------------------------------------------
(***************************************************************************)
(* The orphans.                                                            *)
(***************************************************************************)
OrphansOK ==
    /\ DOMAIN orphans \subseteq Tx \ Zerocoin
    /\ \A x \in DOMAIN orphans : orphans[x] \in Peer
    /\ IsFiniteSet(DOMAIN orphans)
    /\ Cardinality(DOMAIN orphans) =< MaxOrphans
    /\ Indexes(byPrev, DOMAIN orphans)

\* From an exact index follow the types of TypeOK.
LEMMA IndexType ==
  ASSUME OrphansOK
  PROVE  /\ DOMAIN byPrev \subseteq Tx
         /\ \A p \in DOMAIN byPrev : byPrev[p] \subseteq DOMAIN orphans
         /\ \A p \in Tx : Prevs(p) \subseteq DOMAIN orphans
         /\ OrphanIndexExact
  BY SourcesType DEF OrphansOK, Indexes, Prevs, OrphanIndexExact

\* Erasing orphans from the index leaves that of the others.
LEMMA UnindexedIndexes ==
  ASSUME NEW D, NEW S \in SUBSET D, NEW idx, Indexes(idx, D)
  PROVE  Indexes(Unindexed(S, idx), D \ S)
<1> DEFINE left == [p \in DOMAIN idx |-> {x \in idx[p] : ~(x \in S /\ p \in Sources(x))}]
<1>1. \A p \in DOMAIN idx : left[p] = {x \in D \ S : p \in Sources(x)}
  BY DEF Indexes
<1> HIDE DEF left
<1>2. DOMAIN left = DOMAIN idx
  BY DEF left
<1>3. Unindexed(S, idx) = Restricted(left, {p \in DOMAIN idx : left[p] # {}})
  BY DEF Unindexed, left
<1>4. DOMAIN Unindexed(S, idx) = {p \in DOMAIN idx : left[p] # {}}
  BY <1>2, <1>3 DEF Restricted
<1>5. \A p \in DOMAIN Unindexed(S, idx) : Unindexed(S, idx)[p] = left[p]
  BY <1>2, <1>3, <1>4 DEF Restricted
<1>6. ASSUME NEW p
      PROVE  p \in DOMAIN Unindexed(S, idx) <=> \E x \in D \ S : p \in Sources(x)
  BY <1>1, <1>4 DEF Indexes
<1>7. DOMAIN Unindexed(S, idx) = UNION {Sources(x) : x \in D \ S}
  BY <1>6
<1>8. \A p \in DOMAIN Unindexed(S, idx) :
         Unindexed(S, idx)[p] = {x \in D \ S : p \in Sources(x)}
  BY <1>1, <1>4, <1>5
<1> QED BY <1>7, <1>8 DEF Indexes

\* EraseOrphanTx keeps the orphans and their index.
LEMMA EraseKeepsOrphans ==
  ASSUME OrphansOK, NEW S, EraseOrphans(S)
  PROVE  OrphansOK'
<1>1. DOMAIN orphans' = DOMAIN orphans \ S
  BY DEF EraseOrphans, Restricted, OrphansOK
<1>2. \A x \in DOMAIN orphans' : orphans'[x] = orphans[x]
  BY DEF EraseOrphans, Restricted
<1>3. IsFiniteSet(DOMAIN orphans') /\ Cardinality(DOMAIN orphans') =< Cardinality(DOMAIN orphans)
  BY <1>1, FS_Subset DEF OrphansOK
<1>4. Cardinality(DOMAIN orphans') =< MaxOrphans
  BY <1>3, FS_CardinalityType, MempoolAssumption DEF OrphansOK
<1>5. Indexes(byPrev', DOMAIN orphans \ (S \cap DOMAIN orphans))
  BY UnindexedIndexes DEF EraseOrphans, OrphansOK
<1>6. DOMAIN orphans \ (S \cap DOMAIN orphans) = DOMAIN orphans'
  BY <1>1
<1>7. Indexes(byPrev', DOMAIN orphans')
  BY <1>5, <1>6
<1>8. Indexes(byPrev, DOMAIN orphans)'
  BY <1>7 DEF Indexes, Sources
<1> QED BY <1>1, <1>2, <1>3, <1>4, <1>8 DEF OrphansOK

\* A new orphan, and the eviction that makes room for it.
LEMMA AddKeepsOrphans ==
  ASSUME OrphansOK, NEW t \in Tx \ Zerocoin, NEW peer \in Peer, AddOrphan(t, peer)
  PROVE  OrphansOK'
<1> DEFINE D == DOMAIN orphans \cup {t}
           with == [x \in D |-> IF x = t THEN peer ELSE orphans[x]]
           idx == [p \in DOMAIN byPrev \cup Sources(t) |->
                      Prevs(p) \cup (IF p \in Sources(t) THEN {t} ELSE {})]
<1>1. CASE t \in DOMAIN orphans
  <2>1. UNCHANGED orphanage
    BY <1>1 DEF AddOrphan
  <2> QED BY <2>1 DEF orphanage, OrphansOK, Indexes, Sources
<1>2. CASE t \notin DOMAIN orphans
  <2>1. IsFiniteSet(D) /\ Cardinality(D) = Cardinality(DOMAIN orphans) + 1
    BY <1>2, FS_AddElement DEF OrphansOK
  <2>2. D \subseteq Tx \ Zerocoin /\ \A x \in D : with[x] \in Peer
    BY DEF OrphansOK
  <2>3. Indexes(idx, D)
    <3>1. DOMAIN idx = UNION {Sources(x) : x \in D}
      BY DEF OrphansOK, Indexes
    <3>2. ASSUME NEW p \in DOMAIN idx
          PROVE  idx[p] = {x \in D : p \in Sources(x)}
      <4>1. Prevs(p) = {x \in DOMAIN orphans : p \in Sources(x)}
        BY DEF Prevs, OrphansOK, Indexes
      <4> QED BY <4>1, <3>2
    <3> QED BY <3>1, <3>2 DEF Indexes
  <2>4. \/ Cardinality(D) =< MaxOrphans /\ orphans' = with /\ byPrev' = idx
        \/ \E x \in D : /\ orphans' = Restricted(with, Tx \ {x})
                        /\ byPrev' = Unindexed({x}, idx)
    BY <1>2 DEF AddOrphan
  <2> HIDE DEF idx, D
  <2>5. CASE Cardinality(D) =< MaxOrphans /\ orphans' = with /\ byPrev' = idx
    <3>1. DOMAIN orphans' = D
      BY <2>5
    <3>2. Indexes(byPrev, DOMAIN orphans)'
      BY <2>3, <2>5, <3>1 DEF Indexes, Sources
    <3> QED BY <2>1, <2>2, <2>5, <3>1, <3>2 DEF OrphansOK
  <2>6. ASSUME NEW x \in D, orphans' = Restricted(with, Tx \ {x}),
               byPrev' = Unindexed({x}, idx)
        PROVE  OrphansOK'
    <3>1. DOMAIN orphans' = D \ {x} /\ \A y \in DOMAIN orphans' : orphans'[y] = with[y]
      BY <2>2, <2>6 DEF Restricted
    <3>2. IsFiniteSet(D \ {x}) /\ Cardinality(D \ {x}) = Cardinality(D) - 1
      BY <2>1, FS_RemoveElement
    <3>3. Cardinality(D \ {x}) =< MaxOrphans
      BY <2>1, <3>2, FS_CardinalityType, MempoolAssumption DEF OrphansOK
    <3>4. Indexes(byPrev', D \ {x})
      BY <2>3, <2>6, UnindexedIndexes
    <3>5. Indexes(byPrev', DOMAIN orphans')
      BY <3>1, <3>4
    <3>6. Indexes(byPrev, DOMAIN orphans)'
      BY <3>5 DEF Indexes, Sources
    <3> QED BY <2>2, <3>1, <3>2, <3>3, <3>6 DEF OrphansOK
  <2> QED BY <2>4, <2>5, <2>6
<1> QED BY <1>1, <1>2

-----------------------------------------------------------------------------
(***************************************************************************)
(* The inductive invariant.                                                *)
(***************************************************************************)
RestOK ==
    /\ chain \in Seq(Seq(Tx))
    /\ busy \in Busy
    /\ UnderWay

\* The invariant falls into one part for the pool, one for the orphans, and
\* the rest.
LEMMA Parts == IInv <=> PoolOK /\ OrphansOK /\ RestOK
<1>1. IInv => PoolOK /\ OrphansOK /\ RestOK
  BY DEF IInv, TypeOK, PoolOK, OrphansOK, Indexes, OrphanIndexExact, RestOK
<1>2. PoolOK /\ OrphansOK /\ RestOK => IInv
  BY IndexType DEF IInv, TypeOK, PoolOK, OrphansOK, RestOK
<1> QED BY <1>1, <1>2

\* The invariant holds when the node starts.
LEMMA InitIInv == Init => IInv
<1> SUFFICES ASSUME Init PROVE PoolOK /\ OrphansOK /\ RestOK
  BY Parts
<1>1. PoolOK
  BY DEF Init, PoolOK, NextTxExact
<1>2. OrphansOK
  BY FS_EmptySet, MempoolAssumption DEF Init, OrphansOK, Indexes
<1>3. RestOK
  BY DEF Init, RestOK, Busy, Free, UnderWay
<1> QED BY <1>1, <1>2, <1>3

\* Handlers that leave the pool or the orphans alone leave their parts alone.
LEMMA SamePool == ASSUME PoolOK, UNCHANGED pool PROVE PoolOK'
  BY DEF PoolOK, pool, NextTxExact

LEMMA SameOrphans == ASSUME OrphansOK, UNCHANGED orphanage PROVE OrphansOK'
  BY DEF OrphansOK, orphanage, Indexes, Sources

Loops ==
    [at: {"orphans"}, work: Seq(Tx), i: Nat \ {0}, todo: SUBSET Tx,
     erase: SUBSET Tx, misbehaving: SUBSET Peer]

\* The shape of "busy" in each handler.
LEMMA BusyShape ==
  ASSUME RestOK
  PROVE  /\ busy.at = "orphans" =>
               /\ busy \in Loops
               /\ busy.todo \subseteq DOMAIN orphans
         /\ busy.at = "connect" => busy.todo \in Seq(Tx) /\ busy.todo # <<>>
         /\ busy.at = "disconnect" => busy.todo \in Seq(Tx)
  BY DEF RestOK, Busy, Free, UnderWay, Loops

\* Every action keeps the invariant.
LEMMA StepIInv == IInv /\ [Next]_vars => IInv'
<1> SUFFICES ASSUME PoolOK, OrphansOK, RestOK, [Next]_vars
             PROVE  PoolOK' /\ OrphansOK' /\ RestOK'
  <2>1. IInv' <=> PoolOK' /\ OrphansOK' /\ RestOK'
    BY Parts, PTL
  <2> QED BY <2>1, Parts
<1>1. ASSUME NEW t \in Tx, ReceiveTx(t)
      PROVE  PoolOK' /\ OrphansOK' /\ RestOK'
  <2>1. PoolOK' /\ OrphansOK'
    BY <1>1, AddKeepsPool, SameOrphans DEF ReceiveTx
  <2>2. Prevs(t) \subseteq DOMAIN orphans /\ DOMAIN orphans \subseteq Tx
    BY IndexType DEF OrphansOK
  <2>3. RestOK'
    BY <1>1, <2>2 DEF ReceiveTx, RestOK, UnderWay, Busy, orphanage
  <2> QED BY <2>1, <2>3
<1>2. ASSUME NEW t \in Tx, NEW peer \in Peer, ReceiveOrphan(t, peer)
      PROVE  PoolOK' /\ OrphansOK' /\ RestOK'
  <2>1. PoolOK' /\ OrphansOK'
    BY <1>2, AddKeepsOrphans, SamePool DEF ReceiveOrphan, Orphaned
  <2>2. RestOK'
    BY <1>2 DEF ReceiveOrphan, RestOK, UnderWay, Free
  <2> QED BY <2>1, <2>2
<1>3. ASSUME NEW t \in Tx, AcceptElsewhere(t)
      PROVE  PoolOK' /\ OrphansOK' /\ RestOK'
  BY <1>3, AddKeepsPool, SameOrphans DEF AcceptElsewhere, RestOK, UnderWay, orphanage
<1>4. ASSUME NEW x \in Tx, SkipOrphan(x)
      PROVE  PoolOK' /\ OrphansOK' /\ RestOK'
  <2>1. PoolOK' /\ OrphansOK'
    BY <1>4, SamePool, SameOrphans DEF SkipOrphan
  <2>2. busy \in Loops /\ busy.todo \subseteq DOMAIN orphans
    BY <1>4, BusyShape DEF SkipOrphan
  <2>3. busy' \in Loops /\ busy'.todo \subseteq DOMAIN orphans /\ busy'.at = "orphans"
    BY <1>4, <2>2 DEF SkipOrphan, Loops
  <2>4. RestOK'
    BY <1>4, <2>3 DEF SkipOrphan, RestOK, UnderWay, Busy, Loops, orphanage
  <2> QED BY <2>1, <2>4
<1>5. ASSUME NEW x \in Tx, AcceptOrphan(x)
      PROVE  PoolOK' /\ OrphansOK' /\ RestOK'
  <2>1. PoolOK' /\ OrphansOK'
    BY <1>5, AddKeepsPool, SameOrphans DEF AcceptOrphan
  <2>2. busy \in Loops /\ busy.todo \subseteq DOMAIN orphans
    BY <1>5, BusyShape DEF AcceptOrphan
  <2>3. Append(busy.work, x) \in Seq(Tx)
    BY <2>2 DEF Loops
  <2>4. busy' \in Loops /\ busy'.todo \subseteq DOMAIN orphans /\ busy'.at = "orphans"
    BY <1>5, <2>2, <2>3 DEF AcceptOrphan, Loops
  <2>5. RestOK'
    BY <1>5, <2>4 DEF AcceptOrphan, RestOK, UnderWay, Busy, Loops, orphanage
  <2> QED BY <2>1, <2>5
<1>6. ASSUME NEW x \in Tx, RefuseOrphan(x)
      PROVE  PoolOK' /\ OrphansOK' /\ RestOK'
  <2>1. PoolOK' /\ OrphansOK'
    BY <1>6, SamePool, SameOrphans DEF RefuseOrphan
  <2>2. orphans[x] \in Peer
    BY <1>6, BusyShape DEF RefuseOrphan, OrphansOK
  <2>3. busy \in Loops /\ busy.todo \subseteq DOMAIN orphans
    BY <1>6, BusyShape DEF RefuseOrphan
  <2>4. PICK M \in {{}, {orphans[x]}} :
           busy' = [busy EXCEPT !.todo = @ \ {x}, !.erase = @ \cup {x},
                                !.misbehaving = @ \cup M]
    BY <1>6 DEF RefuseOrphan
  <2>5. M \subseteq Peer
    BY <2>2
  <2>6. busy' \in Loops /\ busy'.todo \subseteq DOMAIN orphans /\ busy'.at = "orphans"
    BY <2>3, <2>4, <2>5 DEF Loops
  <2>7. RestOK'
    BY <1>6, <2>6 DEF RefuseOrphan, RestOK, UnderWay, Busy, Loops, orphanage
  <2> QED BY <2>1, <2>7
<1>7. ASSUME NextWork
      PROVE  PoolOK' /\ OrphansOK' /\ RestOK'
  <2> DEFINE n == busy.i + 1
             next == Prevs(busy.work[n])
  <2>1. PoolOK' /\ OrphansOK'
    BY <1>7, SamePool, SameOrphans DEF NextWork
  <2>2. busy \in Loops /\ busy.i < Len(busy.work)
    BY <1>7, BusyShape DEF NextWork
  <2>3. busy.i \in Nat /\ busy.work \in Seq(Tx)
    BY <2>2 DEF Loops
  <2>4. n \in 1 .. Len(busy.work) /\ n \in Nat \ {0} /\ busy.work[n] \in Tx
    BY <2>2, <2>3
  <2>5. next \subseteq DOMAIN orphans /\ next \subseteq Tx
    BY <2>4, IndexType DEF OrphansOK
  <2>6. busy' = [busy EXCEPT !.i = n, !.todo = next]
    BY <1>7 DEF NextWork
  <2> HIDE DEF n, next
  <2>7. busy' \in Loops /\ busy'.todo \subseteq DOMAIN orphans /\ busy'.at = "orphans"
    BY <2>2, <2>4, <2>5, <2>6 DEF Loops
  <2>8. RestOK'
    BY <1>7, <2>7 DEF NextWork, RestOK, UnderWay, Busy, Loops, orphanage
  <2> QED BY <2>1, <2>8
<1>8. ASSUME EndOrphans
      PROVE  PoolOK' /\ OrphansOK' /\ RestOK'
  BY <1>8, SamePool, EraseKeepsOrphans DEF EndOrphans, RestOK, UnderWay, Busy, Free
<1>9. ASSUME NEW peer \in Peer, PeerGone(peer)
      PROVE  PoolOK' /\ OrphansOK' /\ RestOK'
  <2>1. PoolOK' /\ OrphansOK'
    BY <1>9, SamePool, EraseKeepsOrphans DEF PeerGone
  <2>2. RestOK'
    BY <1>9 DEF PeerGone, RestOK, UnderWay, Free
  <2> QED BY <2>1, <2>2
<1>10. ASSUME NEW B \in Blocks, ConnectTip(B)
       PROVE  PoolOK' /\ OrphansOK' /\ RestOK'
  <2>1. PoolOK' /\ OrphansOK'
    BY <1>10, SamePool, SameOrphans DEF ConnectTip
  <2>2. B \in Seq(Tx) /\ B # <<>>
    <3>1. PICK n \in 1 .. BlockSize : B \in [1 .. n -> Tx]
      BY DEF Blocks
    <3> QED BY <3>1, MempoolAssumption
  <2>3. RestOK'
    BY <1>10, <2>2 DEF ConnectTip, RestOK, UnderWay, Busy
  <2> QED BY <2>1, <2>3
<1>11. ASSUME RemoveForBlock
       PROVE  PoolOK' /\ OrphansOK' /\ RestOK'
  <2>1. (mapTx \cap {Head(busy.todo)}) \cup Conflicts(Head(busy.todo)) \subseteq mapTx
    BY RemovedInPool DEF Conflicts
  <2>2. PoolOK' /\ OrphansOK'
    BY <1>11, <2>1, DeleteKeepsPool, SameOrphans DEF RemoveForBlock
  <2>3. busy.todo \in Seq(Tx) /\ busy.todo # <<>>
    BY <1>11, BusyShape DEF RemoveForBlock
  <2>4. Tail(busy.todo) \in Seq(Tx) /\ Len(Tail(busy.todo)) = Len(busy.todo) - 1
    BY <2>3, HeadTailProperties
  <2>5. busy \in [at: {"connect", "disconnect"}, todo: Seq(Tx)]
    BY <1>11 DEF RemoveForBlock, RestOK, Busy, Free
  <2>6. Len(busy.todo) # 1 => Tail(busy.todo) # <<>>
    <3>1. Len(busy.todo) \in Nat /\ Len(<<>>) = 0
      BY <2>3
    <3>2. Len(busy.todo) # 1 => Len(Tail(busy.todo)) # 0
      BY <2>4, <3>1
    <3> QED BY <3>1, <3>2
  <2>7. RestOK'
    BY <1>11, <2>4, <2>5, <2>6
    DEF RemoveForBlock, Rest, RestOK, UnderWay, Busy, Free, orphanage
  <2> QED BY <2>2, <2>7
<1>12. ASSUME DisconnectTip
       PROVE  PoolOK' /\ OrphansOK' /\ RestOK'
  <2>1. PoolOK' /\ OrphansOK'
    BY <1>12, SamePool, SameOrphans DEF DisconnectTip
  <2>2. Len(chain) \in DOMAIN chain /\ chain[Len(chain)] \in Seq(Tx)
    BY <1>12 DEF DisconnectTip, RestOK
  <2>3. SubSeq(chain, 1, Len(chain) - 1) \in Seq(Seq(Tx))
    BY <1>12 DEF DisconnectTip, RestOK
  <2>4. RestOK'
    BY <1>12, <2>2, <2>3 DEF DisconnectTip, RestOK, UnderWay, Busy
  <2> QED BY <2>1, <2>4
<1>13. ASSUME busy.at = "disconnect", busy.todo # <<>>,
              busy' = [busy EXCEPT !.todo = Tail(@)], UNCHANGED chain
       PROVE  RestOK'
  <2>1. busy \in [at: {"connect", "disconnect"}, todo: Seq(Tx)]
    BY <1>13 DEF RestOK, Busy, Free
  <2>2. Tail(busy.todo) \in Seq(Tx) /\ Head(busy.todo) \in Tx
    BY <1>13, <2>1
  <2> QED BY <1>13, <2>1, <2>2 DEF RestOK, UnderWay, Busy
<1>14. CASE Resurrect
  <2>1. Head(busy.todo) \in Tx
    BY <1>14, BusyShape DEF Resurrect
  <2>2. PoolOK' /\ OrphansOK'
    BY <1>14, <2>1, AddKeepsPool, SameOrphans DEF Resurrect
  <2> QED BY <1>13, <1>14, <2>2 DEF Resurrect
<1>15. CASE Bury
  <2>1. PoolOK' /\ OrphansOK'
    BY <1>15, RemovedInPool, DeleteKeepsPool, SameOrphans DEF Bury, RemovedWith
  <2> QED BY <1>13, <1>15, <2>1 DEF Bury
<1>16. CASE RemoveCoinbaseSpends
  <2>1. PoolOK' /\ OrphansOK'
    BY <1>16, RemovedInPool, DeleteKeepsPool, SameOrphans DEF RemoveCoinbaseSpends
  <2>2. RestOK'
    BY <1>16 DEF RemoveCoinbaseSpends, RestOK, UnderWay, Busy, Free
  <2> QED BY <2>1, <2>2
<1>17. CASE Clear
  <2>1. PoolOK'
    BY <1>17 DEF Clear, PoolOK, NextTxExact
  <2>2. OrphansOK' /\ RestOK'
    BY <1>17, SameOrphans DEF Clear, RestOK, UnderWay, orphanage
  <2> QED BY <2>1, <2>2
<1>18. CASE UNCHANGED vars
  BY <1>18, SamePool, SameOrphans DEF vars, RestOK, UnderWay, orphanage
<1> QED
  BY <1>1, <1>2, <1>3, <1>4, <1>5, <1>6, <1>7, <1>8, <1>9, <1>10, <1>11, <1>12,
     <1>14, <1>15, <1>16, <1>17, <1>18 DEF Next

-----------------------------------------------------------------------------
(***************************************************************************)
(* Why transactions leave.                                                 *)
(***************************************************************************)
\* A transaction of the pool is in its own lineage.
LEMMA LineageSelf == \A t \in mapTx : t \in Lineage(t)
  BY DEF Lineage

\* A spender inherits the lineage of what it spends.
LEMMA LineageOfSpender ==
  ASSUME PoolOK, NEW c \in mapTx, NEW u \in SpendersOf(c)
  PROVE  u \in mapTx /\ Lineage(c) \subseteq Lineage(u)
<1>1. PICK o \in DOMAIN mapNextTx : Source[o] = c /\ mapNextTx[o] = u
  BY DEF SpendersOf
<1>2. u \in mapTx
  BY <1>1 DEF PoolOK
<1>3. PICK t \in mapTx : o \in Ins[t]
  BY <1>1 DEF PoolOK, NextTxExact
<1>4. t = u
  BY <1>1, <1>3 DEF PoolOK, NextTxExact
<1>5. c \in Parents(u)
  BY <1>1, <1>3, <1>4 DEF Parents, Sources
<1>6. ASSUME NEW x \in Lineage(c), NEW C \in SUBSET mapTx, u \in C,
             \A d \in C : Parents(d) \subseteq C
      PROVE  x \in C
  <2>1. c \in C
    BY <1>5, <1>6
  <2> QED BY <1>6, <2>1 DEF Lineage
<1> QED BY <1>2, <1>6 DEF Lineage

\* What is removed descends, in the pool, from where the removal begins.
LEMMA RemovedDescends ==
  ASSUME PoolOK, NEW S, NEW t \in Removed(S)
  PROVE  \E x \in Lineage(t) : x \in S
<1> DEFINE C == {c \in mapTx : \E x \in Lineage(c) : x \in S}
<1>1. S \cap mapTx \subseteq C
  BY LineageSelf
<1>2. \A c \in C : SpendersOf(c) \cap mapTx \subseteq C
  BY LineageOfSpender
<1>3. t \in C
  BY <1>1, <1>2 DEF Removed
<1> QED BY <1>3

Reasons ==
    \A t \in mapTx \ mapTx' :
       \/ /\ busy.at = "connect"
          /\ \/ t = Head(busy.todo)
             \/ \E x \in Lineage(t) \ {Head(busy.todo)} :
                   Ins[x] \cap Ins[Head(busy.todo)] # {}
       \/ /\ busy.at = "disconnect"
          /\ \E x \in Lineage(t) :
                IF busy.todo = <<>> THEN x \in Unripe
                ELSE Head(busy.todo) \in Sources(x) \cup {x}
       \/ busy = Free /\ mapTx' = {}

\* Every action that takes a transaction out of the pool has a reason to.
LEMMA StepReasons == IInv /\ [Next]_vars => Reasons
<1> SUFFICES ASSUME PoolOK, [Next]_vars, NEW t \in mapTx, t \notin mapTx'
             PROVE  \/ /\ busy.at = "connect"
                       /\ \/ t = Head(busy.todo)
                          \/ \E x \in Lineage(t) \ {Head(busy.todo)} :
                                Ins[x] \cap Ins[Head(busy.todo)] # {}
                    \/ /\ busy.at = "disconnect"
                       /\ \E x \in Lineage(t) :
                             IF busy.todo = <<>> THEN x \in Unripe
                             ELSE Head(busy.todo) \in Sources(x) \cup {x}
                    \/ busy = Free /\ mapTx' = {}
  BY Parts DEF Reasons
<1> DEFINE h == Head(busy.todo)
<1>1. RemoveForBlock \/ Bury \/ RemoveCoinbaseSpends \/ Clear
  BY DEF Next, vars, pool, AddUnchecked, ReceiveTx, ReceiveOrphan, AcceptElsewhere,
         SkipOrphan, AcceptOrphan, RefuseOrphan, NextWork, EndOrphans, PeerGone,
         ConnectTip, DisconnectTip, Resurrect
<1>2. CASE RemoveForBlock
  <2>1. busy.at = "connect" /\ (t = h \/ t \in Conflicts(h))
    BY <1>2 DEF RemoveForBlock, Delete
  <2>2. ASSUME t \in Conflicts(h)
        PROVE  \E x \in Lineage(t) \ {h} : Ins[x] \cap Ins[h] # {}
    <3>1. PICK x \in Lineage(t) :
             x \in {mapNextTx[o] : o \in Ins[h] \cap DOMAIN mapNextTx} \ {h}
      BY <2>2, RemovedDescends DEF Conflicts
    <3>2. PICK o \in Ins[h] \cap DOMAIN mapNextTx : x = mapNextTx[o]
      BY <3>1
    <3>3. o \in Ins[x]
      BY <3>2 DEF PoolOK, NextTxExact
    <3> QED BY <3>1, <3>2, <3>3
  <2> QED BY <2>1, <2>2
<1>3. CASE Bury
  <2>1. /\ busy.at = "disconnect" /\ busy.todo # <<>>
        /\ t \in Removed({h} \cup (IF h \in mapTx THEN {} ELSE SpendersOf(h)))
    BY <1>3 DEF Bury, Delete, RemovedWith
  <2>2. PICK x \in Lineage(t) : x = h \/ x \in SpendersOf(h)
    BY <2>1, RemovedDescends
  <2>3. ASSUME x \in SpendersOf(h)
        PROVE  h \in Sources(x)
    <3>1. PICK o \in DOMAIN mapNextTx : Source[o] = h /\ mapNextTx[o] = x
      BY <2>3 DEF SpendersOf
    <3>2. o \in Ins[x]
      BY <3>1 DEF PoolOK, NextTxExact
    <3> QED BY <3>1, <3>2 DEF Sources
  <2> QED BY <2>1, <2>2, <2>3
<1>4. CASE RemoveCoinbaseSpends
  <2>1. busy.at = "disconnect" /\ busy.todo = <<>> /\ t \in Removed(Unripe)
    BY <1>4 DEF RemoveCoinbaseSpends, Delete
  <2> QED BY <2>1, RemovedDescends
<1>5. CASE Clear
  BY <1>5 DEF Clear
<1> QED BY <1>1, <1>2, <1>3, <1>4, <1>5

-----------------------------------------------------------------------------
\* The invariant holds in every state: of the pool, the orphans, and what the
\* handlers rely on while they hold cs_main.
THEOREM Invariance == Spec => []IInv
  BY InitIInv, StepIInv, PTL DEF Spec

\* The variables have their types, and the orphans never exceed the limit of
\* LimitOrphanTxSize.
THEOREM TypeCorrect == Spec => []TypeOK
  BY Invariance, PTL DEF IInv

\* mapNextTx marks exactly the inputs of the pool, through acceptance,
\* conflicts, blocks that connect and blocks that are taken back.
THEOREM MarksAreExact == Spec => []NextTxExact
  BY Invariance, PTL DEF IInv

\* mapOrphanTransactionsByPrev is the index of mapOrphanTransactions.
THEOREM OrphanIndexIsExact == Spec => []OrphanIndexExact
  BY Invariance, PTL DEF IInv
\* A transaction leaves the pool only when it, or something it descends from
\* there, is confirmed, conflicts with what is, or is taken back.
THEOREM RemovalHasReason == Spec => LeavesForReason
<1>1. IInv /\ [Next]_vars => [Reasons]_vars
  BY StepReasons
<1> QED BY <1>1, Invariance, PTL DEF Spec, LeavesForReason, Reasons
=============================================================================
