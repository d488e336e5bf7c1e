-------------------------- MODULE InstantTXProofs --------------------------
(***************************************************************************)
(* Proofs about InstantTX for any transactions, masternodes and votes: no  *)
(* masternode counts twice towards a lock, and an input locked by a        *)
(* complete lock keeps that lock behind it until it is released.           *)
(***************************************************************************)
EXTENDS InstantTX, FiniteSetTheorems, TLAPS

(***************************************************************************)
(* The inductive invariant.  The height of a lock is either missing or the *)
(* one CreateNewLock computes, so a complete lock stays complete; the vote *)
(* being handled is not in its lock yet, so it cannot be counted twice     *)
(* whatever is cleaned up meanwhile.                                       *)
(***************************************************************************)
LocksSound ==
    \A t \in DOMAIN mapTxLocks :
        /\ mapTxLocks[t].height \in {0, LockHeight[t]}
        /\ IsFiniteSet(mapTxLocks[t].votes)

Pending ==
    msg.cmd = "txlvote" =>
        /\ <<msg.mn, msg.tx>> \in mapTxLockVote
        /\ msg.tx \in DOMAIN mapTxLocks =>
              \A e \in mapTxLocks[msg.tx].votes : e[1] # msg.mn

IInv == TypeOK /\ LocksSound /\ Pending /\ OneVoteEach /\ LockBehindInput

LEMMA MessageFields ==
    ASSUME msg \in Message
    PROVE  /\ msg.cmd = "ix" => msg.tx \in Requests
           /\ msg.cmd = "txlvote" =>
                 msg.tx \in Requests /\ msg.mn \in Mn /\ msg.height \in Height
  BY DEF Message, Idle

LEMMA CompleteHeight == ASSUME NEW l, Complete(l) PROVE l.height # 0
<1> SUFFICES ASSUME l.height = 0 PROVE FALSE
  OBVIOUS
<1>1. CountSignatures(l) = -1
  BY DEF CountSignatures
<1> QED  BY <1>1, InstantAssumption DEF Complete, InstantAssumption

-----------------------------------------------------------------------------
(***************************************************************************)
(* How the locks change.                                                   *)
(***************************************************************************)
\* CreateNewLock adds an empty lock or sets the height of one.
LEMMA WithLockFacts ==
    ASSUME IInv, NEW t \in Requests, NEW h \in {0, LockHeight[t]}
    PROVE  /\ DOMAIN mapTxLocks \subseteq DOMAIN WithLock(t, h)
           /\ DOMAIN WithLock(t, h) \subseteq DOMAIN mapTxLocks \cup {t}
           /\ \A u \in DOMAIN WithLock(t, h) :
                 /\ WithLock(t, h)[u] \in Lock
                 /\ WithLock(t, h)[u].height \in {0, LockHeight[u]}
                 /\ u \in DOMAIN mapTxLocks => WithLock(t, h)[u].votes = mapTxLocks[u].votes
                 /\ u \notin DOMAIN mapTxLocks => WithLock(t, h)[u].votes = {}
                 /\ u \in DOMAIN mapTxLocks /\ Complete(mapTxLocks[u])
                       => Complete(WithLock(t, h)[u])
<1>1. t \in Tx /\ LockHeight[t] \in Height /\ Height \subseteq Nat \ {0}
  BY InstantAssumption DEF InstantAssumption
<1>2. CASE h = 0
  BY <1>2 DEF WithLock, IInv, TypeOK, LocksSound
<1>3. CASE h # 0 /\ t \in DOMAIN mapTxLocks
  <2>1. WithLock(t, h) = [mapTxLocks EXCEPT ![t].height = h]
    BY <1>3 DEF WithLock
  <2>2. mapTxLocks[t] \in [height: Height \cup {0}, votes: SUBSET Entry]
    BY <1>3 DEF IInv, TypeOK, Lock
  <2>3. DOMAIN WithLock(t, h) = DOMAIN mapTxLocks
    BY <2>1
  <2>4. WithLock(t, h)[t] = [height |-> h, votes |-> mapTxLocks[t].votes]
    BY <1>3, <2>1, <2>2
  <2>5. \A u \in DOMAIN mapTxLocks : u # t => WithLock(t, h)[u] = mapTxLocks[u]
    BY <2>1
  <2>6. Complete(mapTxLocks[t]) => mapTxLocks[t].height = h
    BY <1>3, CompleteHeight DEF IInv, LocksSound
  <2>7. Complete(mapTxLocks[t]) => WithLock(t, h)[t] = mapTxLocks[t]
    BY <2>2, <2>4, <2>6
  <2> QED
    BY <1>1, <1>3, <2>2, <2>3, <2>4, <2>5, <2>7 DEF IInv, TypeOK, LocksSound, Lock
<1>4. CASE h # 0 /\ t \notin DOMAIN mapTxLocks
  <2>1. WithLock(t, h) = [u \in DOMAIN mapTxLocks \cup {t} |->
                             IF u = t THEN NewLock(h) ELSE mapTxLocks[u]]
    BY <1>4 DEF WithLock
  <2>2. NewLock(h) \in Lock /\ NewLock(h).height = h /\ NewLock(h).votes = {}
    BY <1>1 DEF NewLock, Lock
  <2> QED  BY <1>4, <2>1, <2>2 DEF IInv, TypeOK, LocksSound
<1> QED  BY <1>2, <1>3, <1>4

\* The lock a vote is for, before and after it is counted.
Lock0(t) == IF t \in DOMAIN mapTxLocks THEN mapTxLocks[t] ELSE NewLock(0)

\* AddSignature adds one entry to one lock; a complete lock stays complete.
LEMMA VotedFacts ==
    ASSUME IInv, msg.cmd = "txlvote"
    PROVE  /\ DOMAIN Voted = DOMAIN mapTxLocks \cup {msg.tx}
           /\ \A u \in DOMAIN mapTxLocks \ {msg.tx} : Voted[u] = mapTxLocks[u]
           /\ Voted[msg.tx] \in Lock
           /\ Voted[msg.tx].height \in {0, LockHeight[msg.tx]}
           /\ IsFiniteSet(Voted[msg.tx].votes)
           /\ \E e \in Entry :
                 e[1] = msg.mn /\ Voted[msg.tx].votes = Lock0(msg.tx).votes \cup {e}
           /\ Complete(Lock0(msg.tx)) => Complete(Voted[msg.tx])
<1> DEFINE t == msg.tx
           L == IF t \in DOMAIN mapTxLocks THEN mapTxLocks
                ELSE [u \in DOMAIN mapTxLocks \cup {t} |->
                         IF u = t THEN NewLock(0) ELSE mapTxLocks[u]]
           n == Cardinality({e \in L[t].votes : e[1] = msg.mn})
           new == <<msg.mn, msg.height, n>>
<1>1. t \in Requests /\ msg.mn \in Mn /\ msg.height \in Height
  BY MessageFields DEF IInv, TypeOK
<1>2. L[t] = Lock0(t) /\ DOMAIN L = DOMAIN mapTxLocks \cup {t}
      /\ \A u \in DOMAIN mapTxLocks \ {t} : L[u] = mapTxLocks[u]
  BY DEF Lock0
<1>3. /\ Lock0(t) \in [height: Height \cup {0}, votes: SUBSET Entry]
      /\ Lock0(t).height \in {0, LockHeight[t]}
      /\ IsFiniteSet(Lock0(t).votes)
  <2>1. CASE t \in DOMAIN mapTxLocks
    BY <2>1 DEF Lock0, IInv, TypeOK, LocksSound, Lock
  <2>2. CASE t \notin DOMAIN mapTxLocks
    BY <2>2, FS_EmptySet DEF Lock0, NewLock
  <2> QED  BY <2>1, <2>2
<1>4. n \in Nat
  <2>1. {e \in L[t].votes : e[1] = msg.mn} \subseteq Lock0(t).votes
    BY <1>2
  <2> QED  BY <1>3, <2>1, FS_Subset, FS_CardinalityType
<1>5. new \in Entry /\ new[1] = msg.mn
  BY <1>1, <1>4 DEF Entry
<1> HIDE DEF n, new
<1>6. Voted = [L EXCEPT ![t].votes = @ \cup {new}]
  BY DEF Voted, n, new
<1> HIDE DEF L
<1>7. Voted[t] = [Lock0(t) EXCEPT !.votes = @ \cup {new}]
      /\ DOMAIN Voted = DOMAIN L /\ \A u \in DOMAIN L : u # t => Voted[u] = L[u]
  BY <1>2, <1>6
<1>8. Voted[t] \in Lock /\ Voted[t].height = Lock0(t).height
      /\ Voted[t].votes = Lock0(t).votes \cup {new}
  BY <1>3, <1>5, <1>7 DEF Lock
<1>9. IsFiniteSet(Voted[t].votes)
  BY <1>3, <1>8, FS_AddElement
<1>10. ASSUME Complete(Lock0(t)) PROVE Complete(Voted[t])
  <2> DEFINE h == Lock0(t).height
             A == {e \in Lock0(t).votes : e[2] = h}
             B == {e \in Voted[t].votes : e[2] = h}
  <2>1. h # 0 /\ Voted[t].height # 0
    BY <1>8, <1>10, CompleteHeight
  <2>2. CountSignatures(Lock0(t)) = Cardinality(A)
        /\ CountSignatures(Voted[t]) = Cardinality(B)
    BY <1>8, <2>1 DEF CountSignatures
  <2>3. A \subseteq B /\ B \subseteq Voted[t].votes
    BY <1>8
  <2>4. IsFiniteSet(B)
    BY <1>9, <2>3, FS_Subset
  <2>5. Cardinality(A) \in Nat /\ Cardinality(B) \in Nat /\ Cardinality(A) <= Cardinality(B)
    BY <2>3, <2>4, FS_Subset, FS_CardinalityType
  <2>6. Cardinality(A) >= Required
    BY <1>10, <2>2 DEF Complete
  <2> QED  BY <2>2, <2>5, <2>6, InstantAssumption DEF Complete, InstantAssumption
<1> QED  BY <1>2, <1>3, <1>5, <1>7, <1>8, <1>9, <1>10

\* insert keeps the holder of an input that has one.
LEMMA HoldingFacts ==
    ASSUME IInv, NEW t \in Requests
    PROVE  /\ DOMAIN Holding(t) = DOMAIN mapLockedInputs \cup Ins[t]
           /\ DOMAIN Holding(t) \subseteq Outpoint
           /\ \A o \in DOMAIN mapLockedInputs : Holding(t)[o] = mapLockedInputs[o]
           /\ \A o \in Ins[t] \ DOMAIN mapLockedInputs : Holding(t)[o] = t
           /\ \A o \in DOMAIN Holding(t) : Holding(t)[o] \in Requests
<1>1. Ins[t] \subseteq Outpoint
  BY InstantAssumption DEF InstantAssumption
<1> QED  BY <1>1 DEF Holding, Locked, IInv, TypeOK

-----------------------------------------------------------------------------
(***************************************************************************)
(* One lemma for each action.                                              *)
(***************************************************************************)
\* The locks become those of WithLock, and no request is dropped.
LEMMA WithLockStep ==
    ASSUME IInv, NEW t \in Requests, NEW h \in {0, LockHeight[t]},
           mapTxLocks' = WithLock(t, h),
           UNCHANGED <<hollow, mapTxLockVote, expired, mapLockedInputs, byRefusal>>,
           mapTxLockReq \subseteq mapTxLockReq'
    PROVE  /\ DOMAIN mapTxLocks' \subseteq Requests
           /\ \A u \in DOMAIN mapTxLocks' : mapTxLocks'[u] \in Lock
           /\ expired' \subseteq DOMAIN mapTxLocks'
           /\ \A u \in DOMAIN mapTxLocks' :
                 \/ mapTxLocks'[u].votes = {}
                 \/ u \in DOMAIN mapTxLocks /\ mapTxLocks'[u].votes = mapTxLocks[u].votes
           /\ LocksSound' /\ OneVoteEach' /\ LockBehindInput'
<1>1. /\ DOMAIN mapTxLocks' \subseteq Requests
      /\ \A u \in DOMAIN mapTxLocks' : mapTxLocks'[u] \in Lock
      /\ expired' \subseteq DOMAIN mapTxLocks'
  BY WithLockFacts DEF IInv, TypeOK
<1>2. \A u \in DOMAIN mapTxLocks' :
         \/ mapTxLocks'[u].votes = {}
         \/ u \in DOMAIN mapTxLocks /\ mapTxLocks'[u].votes = mapTxLocks[u].votes
  <2> SUFFICES ASSUME NEW u \in DOMAIN WithLock(t, h)
               PROVE  \/ WithLock(t, h)[u].votes = {}
                      \/ u \in DOMAIN mapTxLocks /\ WithLock(t, h)[u].votes = mapTxLocks[u].votes
    OBVIOUS
  <2>1. u \in DOMAIN mapTxLocks => WithLock(t, h)[u].votes = mapTxLocks[u].votes
    BY WithLockFacts
  <2>2. u \notin DOMAIN mapTxLocks => WithLock(t, h)[u].votes = {}
    BY WithLockFacts
  <2> QED  BY <2>1, <2>2
<1>3. LocksSound'
  <2> SUFFICES ASSUME NEW u \in DOMAIN mapTxLocks'
               PROVE  mapTxLocks'[u].height \in {0, LockHeight[u]} /\ IsFiniteSet(mapTxLocks'[u].votes)
    BY DEF LocksSound
  <2>1. mapTxLocks'[u].height \in {0, LockHeight[u]}
    BY WithLockFacts
  <2>2. IsFiniteSet(mapTxLocks'[u].votes)
    BY <1>2, FS_EmptySet DEF IInv, LocksSound
  <2> QED  BY <2>1, <2>2
<1>4. OneVoteEach'
  <2> SUFFICES ASSUME NEW u \in DOMAIN mapTxLocks',
                      NEW e \in mapTxLocks'[u].votes, NEW f \in mapTxLocks'[u].votes
               PROVE  (e[1] = f[1] => e = f) /\ <<e[1], u>> \in mapTxLockVote'
    BY DEF OneVoteEach
  <2>1. u \in DOMAIN mapTxLocks /\ mapTxLocks'[u].votes = mapTxLocks[u].votes
    BY <1>2
  <2> QED  BY <2>1 DEF IInv, OneVoteEach
<1>5. LockBehindInput'
  <2>1. \A u \in DOMAIN mapTxLocks : u \in DOMAIN mapTxLocks'
           /\ (Complete(mapTxLocks[u]) => Complete(mapTxLocks'[u]))
    BY WithLockFacts
  <2> QED  BY <2>1 DEF IInv, LockBehindInput
<1> QED  BY <1>1, <1>2, <1>3, <1>4, <1>5

LEMMA ReceiveIXInv == ASSUME IInv, NEW t \in Requests, ReceiveIX(t) PROVE IInv'
<1>1. PICK h \in {0, LockHeight[t]} : mapTxLocks' = WithLock(t, h)
  BY DEF ReceiveIX
<1>2. UNCHANGED <<mapTxLockReq, hollow, mapTxLockReqRejected, mapTxLockVote, expired,
                  mapLockedInputs, byRefusal, pool, mined>>
      /\ msg' = [cmd |-> "ix", tx |-> t]
  BY DEF ReceiveIX, maps, chain
<1>3. msg' \in Message /\ msg'.cmd # "txlvote"
  BY <1>2 DEF Message
<1>4. /\ DOMAIN mapTxLocks' \subseteq Requests
      /\ \A u \in DOMAIN mapTxLocks' : mapTxLocks'[u] \in Lock
      /\ expired' \subseteq DOMAIN mapTxLocks'
      /\ LocksSound' /\ OneVoteEach' /\ LockBehindInput'
  BY <1>1, <1>2, WithLockStep
<1>5. TypeOK'
  BY <1>2, <1>3, <1>4 DEF IInv, TypeOK
<1>6. Pending'
  BY <1>3 DEF Pending
<1> QED  BY <1>4, <1>5, <1>6 DEF IInv

LEMMA CommitIXInv == ASSUME IInv, NEW t \in Requests, CommitIX(t) PROVE IInv'
<1>1. PICK h \in {0, LockHeight[t]} : mapTxLocks' = WithLock(t, h)
  BY DEF CommitIX
<1>2. /\ UNCHANGED <<hollow, mapTxLockReqRejected, mapTxLockVote, expired,
                     mapLockedInputs, byRefusal, mined, msg>>
      /\ mapTxLockReq' = mapTxLockReq \cup {t}
      /\ pool' = pool \cup {t}
  BY DEF CommitIX
<1>3. /\ DOMAIN mapTxLocks' \subseteq Requests
      /\ \A u \in DOMAIN mapTxLocks' : mapTxLocks'[u] \in Lock
      /\ expired' \subseteq DOMAIN mapTxLocks'
      /\ LocksSound' /\ OneVoteEach' /\ LockBehindInput'
  BY <1>1, <1>2, WithLockStep
<1>4. TypeOK'
  BY <1>2, <1>3, InstantAssumption DEF IInv, TypeOK, InstantAssumption
<1>5. Pending'
  <2>1. \A u \in DOMAIN mapTxLocks' :
           \/ mapTxLocks'[u].votes = {}
           \/ u \in DOMAIN mapTxLocks /\ mapTxLocks'[u].votes = mapTxLocks[u].votes
    BY <1>1, <1>2, WithLockStep
  <2> QED  BY <1>2, <2>1 DEF IInv, Pending
<1> QED  BY <1>3, <1>4, <1>5 DEF IInv

LEMMA AcceptIXInv == ASSUME IInv, AcceptIX PROVE IInv'
<1>1. msg.tx \in Requests /\ msg.tx \in Tx
  BY MessageFields, InstantAssumption DEF IInv, TypeOK, AcceptIX, InstantAssumption
<1>2. /\ pool' = pool \cup {msg.tx}
      /\ mapTxLockReq' = mapTxLockReq \cup {msg.tx}
      /\ mapTxLockVote \subseteq mapTxLockVote'
      /\ mapTxLockVote' \subseteq (Mn \cup {Self}) \X Requests
      /\ msg' = Idle
      /\ UNCHANGED <<hollow, mapTxLockReqRejected, mapTxLocks, expired,
                     mapLockedInputs, byRefusal, mined>>
  BY <1>1 DEF AcceptIX, locks, IInv, TypeOK
<1>3. TypeOK'
  BY <1>1, <1>2 DEF IInv, TypeOK, Message
<1>5. Pending'
  BY <1>2 DEF Pending, Idle
<1>4. LocksSound' /\ OneVoteEach' /\ LockBehindInput'
  BY <1>2 DEF IInv, LocksSound, OneVoteEach, LockBehindInput
<1> QED  BY <1>3, <1>4, <1>5 DEF IInv

LEMMA RejectIXInv == ASSUME IInv, RejectIX PROVE IInv'
<1> DEFINE t == msg.tx
           complete == t \in DOMAIN mapTxLocks /\ Complete(mapTxLocks[t])
<1>1. t \in Requests
  BY MessageFields DEF IInv, TypeOK, RejectIX
<1>2. /\ mapTxLockReqRejected' = mapTxLockReqRejected \cup {t}
      /\ mapLockedInputs' = Holding(t)
      /\ byRefusal' = byRefusal \cup FreeIns(t)
      /\ msg' = Idle
      /\ UNCHANGED <<hollow, mapTxLockVote, mapTxLocks, pool, mined>>
  BY DEF RejectIX, chain
<1>3. expired' \subseteq DOMAIN mapTxLocks
  BY DEF RejectIX, ExpireBoth, IInv, TypeOK
<1>4. mapTxLockReq' \in {mapTxLockReq, mapTxLockReq \cup {t}}
  BY DEF RejectIX
<1>5. TypeOK'
  <2>1. /\ DOMAIN mapLockedInputs' \subseteq Outpoint
        /\ \A o \in DOMAIN mapLockedInputs' : mapLockedInputs'[o] \in Requests
        /\ byRefusal' \subseteq DOMAIN mapLockedInputs'
    <3>1. /\ DOMAIN mapLockedInputs' \subseteq Outpoint
          /\ DOMAIN mapLockedInputs' = DOMAIN mapLockedInputs \cup Ins[t]
          /\ \A o \in DOMAIN mapLockedInputs' : mapLockedInputs'[o] \in Requests
      BY <1>1, <1>2, HoldingFacts
    <3>2. byRefusal \subseteq DOMAIN mapLockedInputs /\ FreeIns(t) \subseteq Ins[t]
      BY DEF IInv, TypeOK, FreeIns
    <3> QED  BY <1>2, <3>1, <3>2
  <2>2. mapTxLockReq' \subseteq Requests /\ hollow' \subseteq mapTxLockReq'
        /\ mapTxLockReqRejected' \subseteq Requests /\ msg' \in Message
    BY <1>1, <1>2, <1>4 DEF IInv, TypeOK, Message
  <2> QED  BY <1>2, <1>3, <2>1, <2>2 DEF IInv, TypeOK
<1>8. Pending'
  BY <1>2 DEF Pending, Idle
<1>6. LocksSound' /\ OneVoteEach'
  BY <1>2 DEF IInv, LocksSound, OneVoteEach
<1>7. LockBehindInput'
  <2>1. ASSUME NEW o \in DOMAIN mapLockedInputs' \ byRefusal'
        PROVE  o \in DOMAIN mapLockedInputs \ byRefusal /\ mapLockedInputs'[o] = mapLockedInputs[o]
    BY <1>1, <1>2, <2>1, HoldingFacts DEF FreeIns
  <2> QED  BY <1>2, <1>4, <2>1 DEF IInv, LockBehindInput
<1> QED  BY <1>5, <1>6, <1>7, <1>8 DEF IInv

LEMMA ReceiveVoteInv ==
    ASSUME IInv, NEW v \in Ballots, ReceiveVote(v[1], v[2], v[3]) PROVE IInv'
<1>1. v[1] \in Mn /\ v[2] \in Requests /\ v[3] \in Height
  BY InstantAssumption DEF InstantAssumption
<1>2. /\ <<v[1], v[2]>> \notin mapTxLockVote
      /\ mapTxLockVote' = mapTxLockVote \cup {<<v[1], v[2]>>}
      /\ msg' = [cmd |-> "txlvote", tx |-> v[2], mn |-> v[1], height |-> v[3]]
      /\ UNCHANGED <<mapTxLockReq, hollow, mapTxLockReqRejected, mapTxLocks, expired,
                     mapLockedInputs, byRefusal, pool, mined>>
  BY DEF ReceiveVote, locks, chain
<1>3. TypeOK'
  BY <1>1, <1>2 DEF IInv, TypeOK, Message
<1>4. LocksSound' /\ OneVoteEach' /\ LockBehindInput'
  BY <1>2 DEF IInv, LocksSound, OneVoteEach, LockBehindInput
<1>5. Pending'
  BY <1>2 DEF IInv, Pending, OneVoteEach
<1> QED  BY <1>3, <1>4, <1>5 DEF IInv

LEMMA RefuseVoteInv == ASSUME IInv, RefuseVote PROVE IInv'
<1>1. msg' = Idle /\ UNCHANGED <<maps, locks, chain>>
  BY DEF RefuseVote
<1>2. TypeOK'
  BY <1>1 DEF IInv, TypeOK, Message, maps, locks, chain
<1>3. Pending'
  BY <1>1 DEF Pending, Idle
<1>4. LocksSound' /\ OneVoteEach' /\ LockBehindInput'
  BY <1>1 DEF IInv, LocksSound, OneVoteEach, LockBehindInput, maps, locks, chain
<1> QED  BY <1>2, <1>3, <1>4 DEF IInv

\* The locks become those of Voted.
LEMMA VotedStep ==
    ASSUME IInv, msg.cmd = "txlvote", mapTxLocks' = Voted, mapTxLockVote' = mapTxLockVote
    PROVE  /\ DOMAIN mapTxLocks' = DOMAIN mapTxLocks \cup {msg.tx}
           /\ DOMAIN mapTxLocks' \subseteq Requests
           /\ \A u \in DOMAIN mapTxLocks' : mapTxLocks'[u] \in Lock
           /\ \A u \in DOMAIN mapTxLocks : Complete(mapTxLocks[u]) => Complete(mapTxLocks'[u])
           /\ LocksSound' /\ OneVoteEach'
<1> DEFINE t == msg.tx
<1>1. t \in Requests
  BY MessageFields DEF IInv, TypeOK
<1>2. DOMAIN mapTxLocks' = DOMAIN mapTxLocks \cup {t}
      /\ \A u \in DOMAIN mapTxLocks \ {t} : mapTxLocks'[u] = mapTxLocks[u]
  BY VotedFacts
<1>3. mapTxLocks'[t] \in Lock /\ mapTxLocks'[t].height \in {0, LockHeight[t]}
      /\ IsFiniteSet(mapTxLocks'[t].votes)
  BY VotedFacts
<1>4. t \in DOMAIN mapTxLocks /\ Complete(mapTxLocks[t]) => Complete(mapTxLocks'[t])
  BY VotedFacts DEF Lock0
<1>5. PICK e \in Entry : e[1] = msg.mn /\ mapTxLocks'[t].votes = Lock0(t).votes \cup {e}
  BY VotedFacts
<1>6. DOMAIN mapTxLocks' \subseteq Requests
      /\ \A u \in DOMAIN mapTxLocks' : mapTxLocks'[u] \in Lock
  BY <1>1, <1>2, <1>3 DEF IInv, TypeOK
<1>7. \A u \in DOMAIN mapTxLocks : Complete(mapTxLocks[u]) => Complete(mapTxLocks'[u])
  BY <1>2, <1>4
<1>8. LocksSound'
  BY <1>2, <1>3 DEF IInv, LocksSound
<1>9. OneVoteEach'
  <2> SUFFICES ASSUME NEW u \in DOMAIN mapTxLocks',
                      NEW f \in mapTxLocks'[u].votes, NEW g \in mapTxLocks'[u].votes
               PROVE  (f[1] = g[1] => f = g) /\ <<f[1], u>> \in mapTxLockVote'
    BY DEF OneVoteEach
  <2>1. CASE u # t
    BY <1>2, <2>1 DEF IInv, OneVoteEach
  <2>2. CASE u = t
    <3>1. <<msg.mn, t>> \in mapTxLockVote
      BY DEF IInv, Pending
    <3>2. \A k \in Lock0(t).votes : k[1] # msg.mn /\ <<k[1], t>> \in mapTxLockVote
      BY DEF IInv, Pending, OneVoteEach, Lock0, NewLock
    <3>3. \A k, l \in Lock0(t).votes : k[1] = l[1] => k = l
      BY DEF IInv, OneVoteEach, Lock0, NewLock
    <3> QED  BY <1>5, <2>2, <3>1, <3>2, <3>3
  <2> QED  BY <2>1, <2>2
<1> QED  BY <1>2, <1>6, <1>7, <1>8, <1>9

LEMMA CountVoteInv == ASSUME IInv, CountVote PROVE IInv'
<1>1. /\ msg.cmd = "txlvote" /\ mapTxLocks' = Voted /\ msg' = Idle
      /\ UNCHANGED <<mapTxLockReq, hollow, mapTxLockReqRejected, mapTxLockVote, expired,
                     mapLockedInputs, byRefusal, pool, mined>>
  BY DEF CountVote, maps, chain
<1>2. TypeOK'
  BY <1>1, VotedStep DEF IInv, TypeOK, Message
<1>3. Pending'
  BY <1>1 DEF Pending, Idle
<1>4. LocksSound' /\ OneVoteEach'
  BY <1>1, VotedStep
<1>5. LockBehindInput'
  <2>1. \A u \in DOMAIN mapTxLocks : u \in DOMAIN mapTxLocks'
           /\ (Complete(mapTxLocks[u]) => Complete(mapTxLocks'[u]))
    BY <1>1, VotedStep
  <2> QED  BY <1>1, <2>1 DEF IInv, LockBehindInput
<1> QED  BY <1>2, <1>3, <1>4, <1>5 DEF IInv

LEMMA CompleteLockInv == ASSUME IInv, CompleteLock PROVE IInv'
<1> DEFINE t == msg.tx
           vin == RequestIns(t)
<1>1. /\ msg.cmd = "txlvote" /\ mapTxLocks' = Voted /\ msg' = Idle
      /\ mapTxLockReq' = mapTxLockReq \cup {t}
      /\ hollow' = hollow \cup ({t} \ mapTxLockReq)
      /\ UNCHANGED <<mapTxLockReqRejected, mapTxLockVote, byRefusal, pool, mined>>
  BY DEF CompleteLock, chain
<1>2. t \in Requests
  BY <1>1, MessageFields DEF IInv, TypeOK
<1>3. expired' \subseteq DOMAIN mapTxLocks'
  <2>1. expired' = expired \/ ExpireBoth(t, vin, Voted)
    BY DEF CompleteLock
  <2>2. expired' \subseteq expired \cup DOMAIN Voted
    BY <2>1 DEF ExpireBoth
  <2> QED  BY <1>1, <2>2, VotedStep DEF IInv, TypeOK
<1>4. \/ mapLockedInputs' = mapLockedInputs
      \/ vin # {} /\ mapLockedInputs' = Holding(t)
  BY DEF CompleteLock
<1>5. TypeOK'
  <2>1. mapTxLockReq' \subseteq Requests /\ hollow' \subseteq mapTxLockReq' /\ msg' \in Message
    BY <1>1, <1>2 DEF IInv, TypeOK, Message
  <2>2. DOMAIN mapTxLocks' \subseteq Requests
        /\ \A u \in DOMAIN mapTxLocks' : mapTxLocks'[u] \in Lock
    BY <1>1, VotedStep
  <2>3. /\ DOMAIN mapLockedInputs' \subseteq Outpoint
        /\ \A o \in DOMAIN mapLockedInputs' : mapLockedInputs'[o] \in Requests
        /\ DOMAIN mapLockedInputs \subseteq DOMAIN mapLockedInputs'
    BY <1>2, <1>4, HoldingFacts DEF IInv, TypeOK
  <2> QED  BY <1>1, <1>3, <2>1, <2>2, <2>3 DEF IInv, TypeOK
<1>6. Pending'
  BY <1>1 DEF Pending, Idle
<1>7. LocksSound' /\ OneVoteEach'
  BY <1>1, VotedStep
<1>8. LockBehindInput'
  <2> SUFFICES ASSUME NEW o \in DOMAIN mapLockedInputs' \ byRefusal'
               PROVE  LET u == mapLockedInputs'[o]
                      IN  /\ o \in Ins[u]
                          /\ u \in mapTxLockReq' \ hollow'
                          /\ u \in DOMAIN mapTxLocks'
                          /\ Complete(mapTxLocks'[u])
    BY DEF LockBehindInput
  <2>1. CASE o \in DOMAIN mapLockedInputs
    <3> DEFINE u == mapLockedInputs[o]
    <3>1. mapLockedInputs'[o] = u
      BY <1>2, <1>4, <2>1, HoldingFacts
    <3>2. o \in Ins[u] /\ u \in mapTxLockReq \ hollow /\ u \in DOMAIN mapTxLocks
          /\ Complete(mapTxLocks[u])
      BY <1>1, <2>1 DEF IInv, LockBehindInput
    <3>3. u \in DOMAIN mapTxLocks' /\ Complete(mapTxLocks'[u])
      BY <1>1, <3>2, VotedStep
    <3>4. u \in mapTxLockReq' \ hollow'
      BY <1>1, <3>2
    <3> QED  BY <3>1, <3>2, <3>3, <3>4
  <2>2. CASE o \notin DOMAIN mapLockedInputs
    <3>1. vin # {} /\ mapLockedInputs' = Holding(t)
      BY <1>4, <2>2
    <3>2. mapLockedInputs'[o] = t /\ o \in Ins[t]
      BY <1>2, <2>2, <3>1, HoldingFacts
    <3>3. t \in mapTxLockReq \ hollow
      BY <3>1 DEF RequestIns
    <3>4. t \in DOMAIN mapTxLocks' /\ Complete(mapTxLocks'[t])
      <4>1. Complete(Voted[t])
        BY DEF CompleteLock
      <4> QED  BY <1>1, <4>1, VotedStep
    <3> QED  BY <1>1, <3>2, <3>3, <3>4
  <2> QED  BY <2>1, <2>2
<1> QED  BY <1>5, <1>6, <1>7, <1>8 DEF IInv

LEMMA HourPassesInv == ASSUME IInv, NEW t \in Requests, HourPasses(t) PROVE IInv'
<1>1. /\ expired' \subseteq DOMAIN mapTxLocks
      /\ UNCHANGED <<mapTxLockReq, hollow, mapTxLockReqRejected, mapTxLockVote, mapTxLocks,
                     mapLockedInputs, byRefusal, pool, mined, msg>>
  BY DEF HourPasses, maps, chain, IInv, TypeOK
<1>2. TypeOK'
  BY <1>1 DEF IInv, TypeOK
<1>3. LocksSound' /\ OneVoteEach' /\ LockBehindInput' /\ Pending'
  BY <1>1 DEF IInv, LocksSound, OneVoteEach, LockBehindInput, Pending
<1> QED  BY <1>2, <1>3 DEF IInv

\* The lock of t goes; if t is a request, so do its votes and its inputs.
LEMMA CleanLockInv == ASSUME IInv, NEW t \in Requests, CleanLock(t) PROVE IInv'
<1>1. /\ mapTxLocks' = [u \in DOMAIN mapTxLocks \ {t} |-> mapTxLocks[u]]
      /\ expired' = expired \ {t}
      /\ UNCHANGED <<pool, mined, msg>>
  BY DEF CleanLock, chain
<1>2. DOMAIN mapTxLocks' = DOMAIN mapTxLocks \ {t}
      /\ \A u \in DOMAIN mapTxLocks' : mapTxLocks'[u] = mapTxLocks[u]
  BY <1>1
<1>3. /\ mapTxLockReq' \in {mapTxLockReq, mapTxLockReq \ {t}}
      /\ hollow' = hollow \ {t}
      /\ mapTxLockReqRejected' \subseteq mapTxLockReqRejected
      /\ DOMAIN mapLockedInputs' \subseteq DOMAIN mapLockedInputs
      /\ \A o \in DOMAIN mapLockedInputs' : mapLockedInputs'[o] = mapLockedInputs[o]
      /\ byRefusal' = byRefusal \cap DOMAIN mapLockedInputs'
  BY DEF CleanLock, maps, IInv, TypeOK
<1>4. /\ mapTxLockVote' \subseteq mapTxLockVote
      /\ \A v \in mapTxLockVote \ mapTxLockVote' :
            v[2] = t /\ \E e \in mapTxLocks[t].votes : e[1] = v[1]
  BY DEF CleanLock, Forgotten, maps
<1>5. TypeOK'
  <2>1. hollow' \subseteq mapTxLockReq'
    BY <1>3 DEF IInv, TypeOK
  <2>2. \A u \in DOMAIN mapTxLocks' : mapTxLocks'[u] \in Lock
    BY <1>2 DEF IInv, TypeOK
  <2>3. expired' \subseteq DOMAIN mapTxLocks' /\ DOMAIN mapTxLocks' \subseteq Requests
    BY <1>1, <1>2 DEF IInv, TypeOK
  <2> QED  BY <1>1, <1>3, <1>4, <2>1, <2>2, <2>3 DEF IInv, TypeOK
<1>6. LocksSound'
  BY <1>2 DEF IInv, LocksSound
<1>7. Pending'
  <2> SUFFICES ASSUME msg.cmd = "txlvote"
               PROVE  /\ <<msg.mn, msg.tx>> \in mapTxLockVote'
                      /\ msg.tx \in DOMAIN mapTxLocks' =>
                            \A e \in mapTxLocks'[msg.tx].votes : e[1] # msg.mn
    BY <1>1 DEF Pending
  <2>1. <<msg.mn, msg.tx>> \in mapTxLockVote
    BY DEF IInv, Pending
  <2>2. t \in DOMAIN mapTxLocks
    BY DEF CleanLock, IInv, TypeOK
  <2>3. <<msg.mn, msg.tx>> \in mapTxLockVote'
    BY <1>4, <2>1, <2>2 DEF IInv, Pending
  <2>4. msg.tx \in DOMAIN mapTxLocks' => \A e \in mapTxLocks'[msg.tx].votes : e[1] # msg.mn
    BY <1>2 DEF IInv, Pending
  <2> QED  BY <2>3, <2>4
<1>8. OneVoteEach'
  <2> SUFFICES ASSUME NEW u \in DOMAIN mapTxLocks',
                      NEW f \in mapTxLocks'[u].votes, NEW g \in mapTxLocks'[u].votes
               PROVE  (f[1] = g[1] => f = g) /\ <<f[1], u>> \in mapTxLockVote'
    BY DEF OneVoteEach
  <2>1. u # t /\ u \in DOMAIN mapTxLocks /\ mapTxLocks'[u] = mapTxLocks[u]
    BY <1>2
  <2>2. (f[1] = g[1] => f = g) /\ <<f[1], u>> \in mapTxLockVote
    BY <2>1 DEF IInv, OneVoteEach
  <2> QED  BY <1>4, <2>1, <2>2
<1>9. LockBehindInput'
  <2> SUFFICES ASSUME NEW o \in DOMAIN mapLockedInputs' \ byRefusal'
               PROVE  LET u == mapLockedInputs'[o]
                      IN  /\ o \in Ins[u]
                          /\ u \in mapTxLockReq' \ hollow'
                          /\ u \in DOMAIN mapTxLocks'
                          /\ Complete(mapTxLocks'[u])
    BY DEF LockBehindInput
  <2> DEFINE u == mapLockedInputs[o]
  <2>1. o \in DOMAIN mapLockedInputs \ byRefusal /\ mapLockedInputs'[o] = u
    BY <1>3
  <2>2. o \in Ins[u] /\ u \in mapTxLockReq \ hollow /\ u \in DOMAIN mapTxLocks
        /\ Complete(mapTxLocks[u])
    BY <2>1 DEF IInv, LockBehindInput
  <2>3. u # t
    <3> SUFFICES ASSUME u = t PROVE FALSE
      OBVIOUS
    <3>1. DOMAIN mapLockedInputs' = DOMAIN mapLockedInputs \ Ins[t]
      BY <2>2 DEF CleanLock, Unlocked, RequestIns
    <3> QED  BY <2>2, <3>1
  <2> QED  BY <1>2, <1>3, <2>1, <2>2, <2>3
<1> QED  BY <1>5, <1>6, <1>7, <1>8, <1>9 DEF IInv

\* The pool and the chain change, InstantTX does not.
LEMMA ChainStep ==
    ASSUME IInv, UNCHANGED <<maps, locks, msg>>, pool' \subseteq Tx, mined' \subseteq Tx
    PROVE  IInv'
<1>1. TypeOK'
  BY DEF IInv, TypeOK, maps, locks
<1>2. LocksSound' /\ OneVoteEach' /\ LockBehindInput' /\ Pending'
  BY DEF IInv, LocksSound, OneVoteEach, LockBehindInput, Pending, maps, locks
<1> QED  BY <1>1, <1>2 DEF IInv

-----------------------------------------------------------------------------
LEMMA InitIInv == Init => IInv
<1> SUFFICES ASSUME Init PROVE IInv
  OBVIOUS
<1>1. TypeOK
  BY DEF Init, TypeOK, Message
<1>2. LocksSound /\ OneVoteEach /\ LockBehindInput
  BY DEF Init, LocksSound, OneVoteEach, LockBehindInput
<1>3. Pending
  BY DEF Init, Pending, Idle
<1> QED  BY <1>1, <1>2, <1>3 DEF IInv

LEMMA NextIInv == IInv /\ [Next]_vars => IInv'
<1> SUFFICES ASSUME IInv, [Next]_vars PROVE IInv'
  OBVIOUS
<1>1. CASE UNCHANGED vars
  BY <1>1, ChainStep DEF vars, chain, IInv, TypeOK
<1>2. ASSUME NEW t \in Requests, ReceiveIX(t) PROVE IInv'
  BY <1>2, ReceiveIXInv
<1>3. CASE AcceptIX
  BY <1>3, AcceptIXInv
<1>4. CASE RejectIX
  BY <1>4, RejectIXInv
<1>5. ASSUME NEW v \in Ballots, ReceiveVote(v[1], v[2], v[3]) PROVE IInv'
  BY <1>5, ReceiveVoteInv
<1>6. CASE RefuseVote
  BY <1>6, RefuseVoteInv
<1>7. CASE CountVote
  BY <1>7, CountVoteInv
<1>8. CASE CompleteLock
  BY <1>8, CompleteLockInv
<1>9. ASSUME NEW t \in Requests, HourPasses(t) PROVE IInv'
  BY <1>9, HourPassesInv
<1>10. ASSUME NEW t \in Requests, CleanLock(t) PROVE IInv'
  BY <1>10, CleanLockInv
<1>11. ASSUME NEW t \in Requests, CommitIX(t) PROVE IInv'
  BY <1>11, CommitIXInv
<1>12. ASSUME NEW t \in Tx, ReceiveTx(t) \/ ConnectBlock(t) \/ DisconnectBlock(t)
       PROVE  IInv'
  <2>1. UNCHANGED <<maps, locks, msg>>
    BY <1>12 DEF ReceiveTx, ConnectBlock, DisconnectBlock
  <2>2. pool' \subseteq Tx /\ mined' \subseteq Tx
    BY <1>12 DEF ReceiveTx, ConnectBlock, DisconnectBlock, IInv, TypeOK
  <2> QED  BY <2>1, <2>2, ChainStep
<1> QED
  BY <1>1, <1>2, <1>3, <1>4, <1>5, <1>6, <1>7, <1>8, <1>9, <1>10, <1>11, <1>12 DEF Next

-----------------------------------------------------------------------------
\* The invariant above holds throughout (all of instanttx.cpp).
THEOREM Invariance == Spec => []IInv
  BY InitIInv, NextIInv, PTL DEF Spec

\* The maps of instanttx.cpp are what their types say, an expired lock is
\* there, and an empty request is one of the requests.
THEOREM TypeCorrect == Spec => []TypeOK
<1>1. IInv => TypeOK
  BY DEF IInv
<1> QED  BY <1>1, Invariance, PTL

\* ProcessConsensusVote counts a masternode once for each lock, whatever
\* expires between the entry in mapTxLockVote and AddSignature.
THEOREM VotesCountOnce == Spec => []OneVoteEach
<1>1. IInv => OneVoteEach
  BY DEF IInv
<1> QED  BY <1>1, Invariance, PTL

\* An input in mapLockedInputs that no refused request put there has the
\* complete lock and the request that CleanTransactionLocksList needs to
\* release it.
THEOREM LockedInputsBacked == Spec => []LockBehindInput
<1>1. IInv => LockBehindInput
  BY DEF IInv
<1> QED  BY <1>1, Invariance, PTL

\* insert never overwrites an entry of mapLockedInputs, and only
\* CleanTransactionLocksList erases one.
THEOREM HoldersKeepTheirInputs == Spec => HolderStable
<1> DEFINE Kept ==
        \A o \in DOMAIN mapLockedInputs :
          \/ o \in DOMAIN mapLockedInputs' /\ mapLockedInputs'[o] = mapLockedInputs[o]
          \/ /\ o \notin DOMAIN mapLockedInputs'
             /\ \E t \in expired \cap (mapTxLockReq \ mapTxLockReq') : o \in Ins[t]
<1>1. ASSUME IInv, [Next]_vars PROVE [Kept]_vars
  <2>1. CASE mapLockedInputs' = mapLockedInputs
    BY <2>1
  <2>2. ASSUME NEW t \in Requests, mapLockedInputs' = Holding(t) PROVE Kept
    BY <1>1, <2>2, HoldingFacts
  <2>3. CASE RejectIX
    <3>1. msg.tx \in Requests /\ mapLockedInputs' = Holding(msg.tx)
      BY <1>1, <2>3, MessageFields DEF RejectIX, IInv, TypeOK
    <3> QED  BY <2>2, <3>1
  <2>4. CASE CompleteLock
    <3>1. msg.tx \in Requests
      BY <1>1, <2>4, MessageFields DEF CompleteLock, IInv, TypeOK
    <3>2. mapLockedInputs' \in {mapLockedInputs, Holding(msg.tx)}
      BY <2>4 DEF CompleteLock
    <3> QED  BY <2>1, <2>2, <3>1, <3>2
  <2>5. ASSUME NEW t \in Requests, CleanLock(t) PROVE Kept
    <3>1. CASE t \notin mapTxLockReq
      BY <2>1, <2>5, <3>1 DEF CleanLock
    <3>2. CASE t \in mapTxLockReq
      <4>1. /\ mapLockedInputs' = [o \in DOMAIN mapLockedInputs \ Unlocked(t) |-> mapLockedInputs[o]]
            /\ t \in expired \cap (mapTxLockReq \ mapTxLockReq')
        BY <2>5, <3>2 DEF CleanLock
      <4>2. Unlocked(t) \subseteq Ins[t]
        BY DEF Unlocked, RequestIns
      <4> QED  BY <4>1, <4>2
    <3> QED  BY <3>1, <3>2
  <2>6. CASE \/ \E t \in Requests : ReceiveIX(t) \/ HourPasses(t) \/ CommitIX(t)
             \/ AcceptIX \/ RefuseVote \/ CountVote
             \/ \E v \in Ballots : ReceiveVote(v[1], v[2], v[3])
             \/ \E t \in Tx : ReceiveTx(t) \/ ConnectBlock(t) \/ DisconnectBlock(t)
    BY <2>1, <2>6 DEF ReceiveIX, HourPasses, CommitIX, AcceptIX, RefuseVote, CountVote,
                      ReceiveVote, ReceiveTx, ConnectBlock, DisconnectBlock, locks
  <2> QED  BY <1>1, <2>3, <2>4, <2>5, <2>6 DEF Next
<1> QED  BY <1>1, Invariance, PTL DEF Spec, HolderStable
=============================================================================
