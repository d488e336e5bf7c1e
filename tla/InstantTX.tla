------------------------------ MODULE InstantTX ------------------------------
(***************************************************************************)
(* InstantTX (instanttx.cpp, src/src): a request "ix" asks to lock the     *)
(* inputs of a transaction, masternodes answer with votes "txlvote", and   *)
(* enough votes lock the inputs against other transactions until the lock  *)
(* expires.  Requests and votes come in any order and more than once, one  *)
(* thread handles them, the obfuscation thread cleans up without any lock, *)
(* and the wallet and the block tree change the maps and the memory pool   *)
(* under cs_main.                                                          *)
(*                                                                         *)
(* A handler is cut where it waits for another thread's lock: before       *)
(* AcceptToMemoryPool takes cs_main, and before ProcessConsensusVote asks  *)
(* the masternode list for a rank.  It is not cut where ReprocessBlocks    *)
(* and the wallet take their locks (instanttx.cpp:116, 354): what is left  *)
(* to do after that goes into the same action.  CheckBlock looks at the    *)
(* locks, as under SPORK_3_INSTANTTX_BLOCK_FILTERING (main.cpp:4103).      *)
(***************************************************************************)
EXTENDS Integers, FiniteSets

CONSTANTS
    Tx,          \* transactions
    Outpoint,    \* the confirmed outputs they spend
    Ins,         \* vin: the outpoints of a transaction
    Requests,    \* the transactions somebody asks a lock for or votes on
    Mn,          \* masternodes, each with its vinMasternode
    Self,        \* activeMasternode, or none of Mn
    Height,      \* values of nBlockHeight
    Ballots,     \* the votes that go around: masternode, transaction, height
    LockHeight,  \* what CreateNewLock computes for a transaction
    Required     \* INSTANTTX_SIGNATURES_REQUIRED

ASSUME InstantAssumption ==
    /\ Requests \subseteq Tx
    /\ Ins \in [Tx -> SUBSET Outpoint]
    /\ LockHeight \in [Tx -> Height]
    /\ Height \subseteq Nat \ {0}
    /\ Ballots \subseteq Mn \X Requests \X Height
    /\ Required \in Nat \ {0}

VARIABLES
    mapTxLockReq,          \* keys of the map
    hollow,                \* those whose value is the empty transaction
    mapTxLockReqRejected,
    mapTxLockVote,         \* keys: masternode and transaction
    mapTxLocks,            \* locks by transaction
    expired,               \* locks whose nExpiration has passed
    mapLockedInputs,       \* holder of a locked outpoint
    byRefusal,             \* history: the outpoints a refused request locked
    pool,                  \* mempool
    mined,                 \* transactions of the active chain
    msg                    \* what the message thread is in the middle of

maps == <<mapTxLockReq, hollow, mapTxLockReqRejected, mapTxLockVote>>
locks == <<mapTxLocks, expired, mapLockedInputs, byRefusal>>
chain == <<pool, mined>>
vars == <<maps, locks, chain, msg>>

Idle == [cmd |-> "none"]

\* CTransactionLock: nBlockHeight, and vecConsensusVotes as the set of its
\* entries, those of one masternode being numbered.
Entry == Mn \X Height \X Nat
Lock == [height: Height \cup {0}, votes: SUBSET Entry]
NewLock(h) == [height |-> h, votes |-> {}]

Message ==
    {Idle} \cup [cmd: {"ix"}, tx: Requests]
           \cup [cmd: {"txlvote"}, tx: Requests, mn: Mn, height: Height]

TypeOK ==
    /\ mapTxLockReq \subseteq Requests
    /\ hollow \subseteq mapTxLockReq
    /\ mapTxLockReqRejected \subseteq Requests
    /\ mapTxLockVote \subseteq (Mn \cup {Self}) \X Requests
    /\ DOMAIN mapTxLocks \subseteq Requests
    /\ \A t \in DOMAIN mapTxLocks : mapTxLocks[t] \in Lock
    /\ expired \subseteq DOMAIN mapTxLocks
    /\ DOMAIN mapLockedInputs \subseteq Outpoint
    /\ \A o \in DOMAIN mapLockedInputs : mapLockedInputs[o] \in Requests
    /\ byRefusal \subseteq DOMAIN mapLockedInputs
    /\ pool \subseteq Tx
    /\ mined \subseteq Tx
    /\ msg \in Message

-----------------------------------------------------------------------------
Locked(o) == o \in DOMAIN mapLockedInputs
HeldByOther(t, o) == Locked(o) /\ mapLockedInputs[o] # t
Conflicting(t, u) == t # u /\ Ins[t] \cap Ins[u] # {}

\* CountSignatures: the votes for the height of the lock, -1 without one.
CountSignatures(l) ==
    IF l.height = 0 THEN -1
    ELSE Cardinality({e \in l.votes : e[2] = l.height})

Complete(l) == CountSignatures(l) >= Required

\* The conditions of AcceptToMemoryPool that depend on locks, the pool and
\* the chain; the others may fail too.
Acceptable(t) ==
    /\ t \notin pool \cup mined
    /\ \A o \in Ins[t] : ~HeldByOther(t, o)
    /\ \A u \in pool \cup mined : ~Conflicting(t, u)

\* CreateNewLock: no effect when an input is too new (height 0).
WithLock(t, h) ==
    IF h = 0 THEN mapTxLocks
    ELSE IF t \in DOMAIN mapTxLocks THEN [mapTxLocks EXCEPT ![t].height = h]
    ELSE [u \in DOMAIN mapTxLocks \cup {t} |->
             IF u = t THEN NewLock(h) ELSE mapTxLocks[u]]

\* Mutant of Holding: the input goes to the last one who asks.
HoldingLast(t) ==
    [o \in DOMAIN mapLockedInputs \cup Ins[t] |->
        IF o \in Ins[t] THEN t ELSE mapLockedInputs[o]]

\* mapLockedInputs.insert for the inputs of t; one that is locked stays.
FreeIns(t) == Ins[t] \ DOMAIN mapLockedInputs
Holding(t) ==
    [o \in DOMAIN mapLockedInputs \cup Ins[t] |->
        IF Locked(o) THEN mapLockedInputs[o] ELSE t]

\* CheckForConflictingLocks on the inputs vin: it returns at the first one
\* another transaction holds and lets both locks expire, those there are.
NoConflict(t, vin) == \A o \in vin : ~HeldByOther(t, o)

\* Mutant of ExpireBoth: mapTxLocks[...] without asking whether it is there.
ExpireUnchecked(t, vin, L) ==
    \E o \in vin : /\ HeldByOther(t, o)
                   /\ expired' = expired \cup {t, mapLockedInputs[o]}

ExpireBoth(t, vin, L) ==
    \E o \in vin : /\ HeldByOther(t, o)
                   /\ expired' = expired \cup ({t, mapLockedInputs[o]} \cap DOMAIN L)

Init ==
    /\ mapTxLockReq = {}
    /\ hollow = {}
    /\ mapTxLockReqRejected = {}
    /\ mapTxLockVote = {}
    /\ mapTxLocks = <<>>
    /\ expired = {}
    /\ mapLockedInputs = <<>>
    /\ byRefusal = {}
    /\ pool = {}
    /\ mined = {}
    /\ msg = Idle

(***************************************************************************)
(* The message thread: "ix".                                               *)
(***************************************************************************)
\* Up to CreateNewLock.
ReceiveIX(t) ==
    /\ msg = Idle
    /\ t \notin mapTxLockReq \cup mapTxLockReqRejected
    /\ \E h \in {0, LockHeight[t]} : mapTxLocks' = WithLock(t, h)
    /\ msg' = [cmd |-> "ix", tx |-> t]
    /\ UNCHANGED <<maps, expired, mapLockedInputs, byRefusal, chain>>

\* AcceptToMemoryPool takes it: DoConsensusVote and mapTxLockReq.insert.
AcceptIX ==
    /\ msg.cmd = "ix"
    /\ Acceptable(msg.tx)
    /\ pool' = pool \cup {msg.tx}
    /\ mapTxLockReq' = mapTxLockReq \cup {msg.tx}
    /\ mapTxLockVote' \in {mapTxLockVote,
                           mapTxLockVote \cup ({Self} \cap Mn) \X {msg.tx}}
    /\ msg' = Idle
    /\ UNCHANGED <<hollow, mapTxLockReqRejected, locks, mined>>

\* AcceptToMemoryPool refuses it, for the locks, the pool, the chain or
\* anything else: the inputs nobody holds are locked, and a lock that is
\* complete already is honoured.
RejectIX ==
    /\ msg.cmd = "ix"
    /\ LET t == msg.tx
           complete == t \in DOMAIN mapTxLocks /\ Complete(mapTxLocks[t])
       IN  /\ mapTxLockReqRejected' = mapTxLockReqRejected \cup {t}
           /\ mapLockedInputs' = Holding(t)
           /\ byRefusal' = byRefusal \cup FreeIns(t)
           /\ IF complete /\ ~NoConflict(t, Ins[t])
              THEN ExpireBoth(t, Ins[t], mapTxLocks)
              ELSE UNCHANGED expired
           /\ mapTxLockReq' = IF complete /\ NoConflict(t, Ins[t])
                              THEN mapTxLockReq \cup {t} ELSE mapTxLockReq
    /\ msg' = Idle
    /\ UNCHANGED <<hollow, mapTxLockVote, mapTxLocks, chain>>

(***************************************************************************)
(* The message thread: "txlvote".                                          *)
(***************************************************************************)
\* Mutant of ReceiveVote: a vote that was received before is not ignored.
ReceiveVoteAgain(m, t, h) ==
    /\ msg = Idle
    /\ mapTxLockVote' = mapTxLockVote \cup {<<m, t>>}
    /\ msg' = [cmd |-> "txlvote", tx |-> t, mn |-> m, height |-> h]
    /\ UNCHANGED <<mapTxLockReq, hollow, mapTxLockReqRejected, locks, chain>>

ReceiveVote(m, t, h) ==
    /\ msg = Idle
    /\ <<m, t>> \notin mapTxLockVote
    /\ mapTxLockVote' = mapTxLockVote \cup {<<m, t>>}
    /\ msg' = [cmd |-> "txlvote", tx |-> t, mn |-> m, height |-> h]
    /\ UNCHANGED <<mapTxLockReq, hollow, mapTxLockReqRejected, locks, chain>>

\* ProcessConsensusVote returns false: the masternode is not known, not
\* among the first ten or its signature is wrong.
RefuseVote ==
    /\ msg.cmd = "txlvote"
    /\ msg' = Idle
    /\ UNCHANGED <<maps, locks, chain>>

\* AddSignature in the lock, which is made without a height if need be.
Voted ==
    LET t == msg.tx
        L == IF t \in DOMAIN mapTxLocks THEN mapTxLocks
             ELSE [u \in DOMAIN mapTxLocks \cup {t} |->
                      IF u = t THEN NewLock(0) ELSE mapTxLocks[u]]
        n == Cardinality({e \in L[t].votes : e[1] = msg.mn})
    IN  [L EXCEPT ![t].votes = @ \cup {<<msg.mn, msg.height, n>>}]

CountVote ==
    /\ msg.cmd = "txlvote"
    /\ mapTxLocks' = Voted
    /\ ~Complete(Voted[msg.tx])
    /\ msg' = Idle
    /\ UNCHANGED <<maps, expired, mapLockedInputs, byRefusal, chain>>

\* Mutant of RequestIns: the inputs of the request are there when its votes are.
RequestInsAlways(t) == Ins[t]

\* The lock is complete.  mapTxLockReq[txHash] makes an entry with an empty
\* transaction if there is none; such a transaction has no inputs.
RequestIns(t) == IF t \in mapTxLockReq \ hollow THEN Ins[t] ELSE {}

CompleteLock ==
    /\ msg.cmd = "txlvote"
    /\ mapTxLocks' = Voted
    /\ Complete(Voted[msg.tx])
    /\ LET t == msg.tx
           vin == RequestIns(t)
       IN  /\ mapTxLockReq' = mapTxLockReq \cup {t}
           /\ hollow' = hollow \cup ({t} \ mapTxLockReq)
           /\ IF ~NoConflict(t, vin)
              THEN ExpireBoth(t, vin, Voted) /\ UNCHANGED mapLockedInputs
              ELSE /\ mapLockedInputs' = IF vin = {} THEN mapLockedInputs ELSE Holding(t)
                   /\ UNCHANGED expired
    /\ msg' = Idle
    /\ UNCHANGED <<mapTxLockReqRejected, mapTxLockVote, byRefusal, chain>>

(***************************************************************************)
(* Time, and one iteration of CleanTransactionLocksList in the obfuscation *)
(* thread.                                                                 *)
(***************************************************************************)
HourPasses(t) ==
    /\ t \in DOMAIN mapTxLocks \ expired
    /\ expired' = expired \cup {t}
    /\ UNCHANGED <<maps, mapTxLocks, mapLockedInputs, byRefusal, chain, msg>>

\* The votes that go with the lock of t.
Forgotten(t) ==
    {v \in mapTxLockVote : v[2] = t /\ \E e \in mapTxLocks[t].votes : e[1] = v[1]}

\* Mutant of Unlocked: a request that was refused once unlocks nothing.
UnlockedUnlessRejected(t) == IF t \in mapTxLockReqRejected THEN {} ELSE RequestIns(t)

\* The inputs that are unlocked with t, whoever holds them.
Unlocked(t) == RequestIns(t)

CleanLock(t) ==
    /\ t \in expired
    /\ IF t \in mapTxLockReq
       THEN /\ mapLockedInputs' = [o \in DOMAIN mapLockedInputs \ Unlocked(t) |->
                                      mapLockedInputs[o]]
            /\ byRefusal' = byRefusal \ Unlocked(t)
            /\ mapTxLockReq' = mapTxLockReq \ {t}
            /\ hollow' = hollow \ {t}
            /\ mapTxLockReqRejected' = mapTxLockReqRejected \ {t}
            /\ mapTxLockVote' = mapTxLockVote \ Forgotten(t)
       ELSE UNCHANGED <<maps, mapLockedInputs, byRefusal>>
    /\ mapTxLocks' = [u \in DOMAIN mapTxLocks \ {t} |-> mapTxLocks[u]]
    /\ expired' = expired \ {t}
    /\ UNCHANGED <<chain, msg>>

(***************************************************************************)
(* Other threads, under cs_main.                                           *)
(***************************************************************************)
\* The wallet commits a transaction of its own and asks for a lock:
\* CommitTransaction and RelayWalletTransaction("ix").
CommitIX(t) ==
    /\ Acceptable(t)
    /\ pool' = pool \cup {t}
    /\ mapTxLockReq' = mapTxLockReq \cup {t}
    /\ \E h \in {0, LockHeight[t]} : mapTxLocks' = WithLock(t, h)
    /\ UNCHANGED <<hollow, mapTxLockReqRejected, mapTxLockVote,
                   expired, mapLockedInputs, byRefusal, mined, msg>>

\* A transaction that comes without a request for a lock.
ReceiveTx(t) ==
    /\ Acceptable(t)
    /\ pool' = pool \cup {t}
    /\ UNCHANGED <<maps, locks, mined, msg>>

\* A block with t is connected: CheckBlock lets no other spender of a locked
\* input pass, removeForBlock takes t and what conflicts with it off the pool.
ConnectBlock(t) ==
    /\ t \notin mined
    /\ \A u \in mined : ~Conflicting(t, u)
    /\ NoConflict(t, Ins[t])
    /\ mined' = mined \cup {t}
    /\ pool' = {u \in pool \ {t} : ~Conflicting(t, u)}
    /\ UNCHANGED <<maps, locks, msg>>

\* DisconnectTip: t goes back to the pool if that takes it.
DisconnectBlock(t) ==
    /\ t \in mined
    /\ mined' = mined \ {t}
    /\ pool' \in {pool} \cup
                (IF NoConflict(t, Ins[t]) THEN {pool \cup {t}} ELSE {})
    /\ UNCHANGED <<maps, locks, msg>>

Next ==
    \/ \E t \in Requests : ReceiveIX(t)
    \/ AcceptIX
    \/ RejectIX
    \/ \E v \in Ballots : ReceiveVote(v[1], v[2], v[3])
    \/ RefuseVote
    \/ CountVote
    \/ CompleteLock
    \/ \E t \in Requests : HourPasses(t)
    \/ \E t \in Requests : CleanLock(t)
    \/ \E t \in Requests : CommitIX(t)
    \/ \E t \in Tx : ReceiveTx(t)
    \/ \E t \in Tx : ConnectBlock(t)
    \/ \E t \in Tx : DisconnectBlock(t)

(***************************************************************************)
(* Time passes, and the obfuscation thread cleans up every minute.  The    *)
(* network and the wallet owe the node nothing.                            *)
(***************************************************************************)
Fairness ==
    \A t \in Requests : WF_vars(HourPasses(t)) /\ WF_vars(CleanLock(t))

Spec == Init /\ [][Next]_vars /\ Fairness

-----------------------------------------------------------------------------
\* A masternode counts once towards a lock however often and with whatever
\* heights its vote is received, also when the lock expires in between:
\* mapTxLockVote and vecConsensusVotes are filled and emptied apart.
OneVoteEach ==
    \A t \in DOMAIN mapTxLocks : \A e, f \in mapTxLocks[t].votes :
        /\ e[1] = f[1] => e = f
        /\ <<e[1], t>> \in mapTxLockVote

\* An input that was locked by a complete lock has that lock and its request
\* behind it as long as it is locked, so that it is released when the lock
\* expires.  (An input locked by a refused request need not be: RejectIX.)
LockBehindInput ==
    \A o \in DOMAIN mapLockedInputs \ byRefusal :
        LET t == mapLockedInputs[o]
        IN  /\ o \in Ins[t]
            /\ t \in mapTxLockReq \ hollow
            /\ t \in DOMAIN mapTxLocks
            /\ Complete(mapTxLocks[t])

\* A locked input never changes hands, and is only released by the clean-up
\* of an expired request that spends it.
HolderStable ==
    [][\A o \in DOMAIN mapLockedInputs :
          \/ o \in DOMAIN mapLockedInputs' /\ mapLockedInputs'[o] = mapLockedInputs[o]
          \/ /\ o \notin DOMAIN mapLockedInputs'
             /\ \E t \in expired \cap (mapTxLockReq \ mapTxLockReq') : o \in Ins[t]]_vars

\* No complete lock holds an input for ever.
LocksReleased ==
    \A o \in Outpoint :
        (Locked(o) /\ o \notin byRefusal) ~> (~Locked(o) \/ o \in byRefusal)
=============================================================================
