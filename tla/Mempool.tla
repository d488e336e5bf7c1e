------------------------------- MODULE Mempool -------------------------------
(***************************************************************************)
(* The memory pool (txmempool.cpp) and the orphan transactions (main.cpp,  *)
(* both in src/src): how they follow what peers send and what blocks       *)
(* confirm and give back.                                                  *)
(*                                                                         *)
(* cs_main is held through a handler and through ConnectTip and            *)
(* DisconnectTip; an action is one transaction's turn in them, and "busy"  *)
(* says which of them is under way.  A transaction is its identity; what   *)
(* it spends and creates are constants.                                    *)
(***************************************************************************)
EXTENDS Integers, FiniteSets, Sequences

CONSTANTS
    Tx,           \* transactions
    Base,         \* those of old blocks; they are not sent again
    Generated,    \* coinbases and coinstakes: only valid in a block
    Zerocoin,     \* zerocoin spends
    Outpoint,     \* outputs
    Source,       \* the transaction of an output
    Ins,          \* vin: the outputs a transaction spends
    Serial,       \* the serial number of a zerocoin spend
    Peer,         \* nodes that send transactions
    Maturity,     \* COINBASE_MATURITY
    MaxOrphans,   \* -maxorphantx
    MaxBlocks,    \* bound: blocks above the old ones
    BlockSize     \* bound: transactions of a block

ASSUME MempoolAssumption ==
    /\ Base \subseteq Tx /\ Generated \subseteq Tx /\ Zerocoin \subseteq Tx
    /\ Source \in [Outpoint -> Tx]
    /\ Ins \in [Tx -> SUBSET Outpoint]
    /\ \A z \in Zerocoin : Ins[z] = {}
    /\ \A t \in Tx \ (Base \cup Generated \cup Zerocoin) : Ins[t] # {}
    /\ Maturity \in Nat /\ MaxOrphans \in Nat
    /\ MaxBlocks \in Nat /\ BlockSize \in Nat

VARIABLES
    mapTx,         \* the pool
    mapNextTx,     \* spender in the pool, by output
    orphans,       \* mapOrphanTransactions: the peer of each
    byPrev,        \* mapOrphanTransactionsByPrev
    chain,         \* the blocks whose coins are in pcoinsTip, oldest first
    busy           \* the handler that holds cs_main, and where it is

pool == <<mapTx, mapNextTx>>
orphanage == <<orphans, byPrev>>
vars == <<pool, orphanage, chain, busy>>

Free == [at |-> "free"]

Busy ==
    {Free} \cup [at: {"connect", "disconnect"}, todo: Seq(Tx)]
           \cup [at: {"orphans"}, work: Seq(Tx), i: Nat \ {0}, todo: SUBSET Tx,
                 erase: SUBSET Tx, misbehaving: SUBSET Peer]

TypeOK ==
    /\ mapTx \subseteq Tx \ (Base \cup Generated)
    /\ DOMAIN mapNextTx \subseteq Outpoint
    /\ \A o \in DOMAIN mapNextTx : mapNextTx[o] \in mapTx
    /\ DOMAIN orphans \subseteq Tx \ Zerocoin
    /\ \A x \in DOMAIN orphans : orphans[x] \in Peer
    /\ Cardinality(DOMAIN orphans) =< MaxOrphans
    /\ DOMAIN byPrev \subseteq Tx
    /\ \A p \in DOMAIN byPrev : byPrev[p] \subseteq Tx
    /\ chain \in Seq(Seq(Tx))
    /\ busy \in Busy

-----------------------------------------------------------------------------
(***************************************************************************)
(* Transactions and coins.                                                 *)
(***************************************************************************)
Sources(t) == {Source[o] : o \in Ins[t]}

Txs(s) == {s[i] : i \in DOMAIN s}
Confirmed == UNION {Txs(chain[i]) : i \in DOMAIN chain}
Spent == UNION {Ins[t] : t \in Confirmed}

\* What pcoinsTip has: IsAvailable, and HaveCoins.
Unspent(o) == Source[o] \in Base \cup Confirmed /\ o \notin Spent
HaveCoins(t) == \E o \in Outpoint : Source[o] = t /\ Unspent(o)

\* Whether a generated output is too young to be spent in the next block.
Immature(o) ==
    \E i \in DOMAIN chain : /\ Source[o] \in Txs(chain[i]) \cap Generated
                            /\ Len(chain) + 1 - i < Maturity

SerialUsed(z) == \E y \in Zerocoin \cap Confirmed : Serial[y] = Serial[z]

(***************************************************************************)
(* CTxMemPool.                                                             *)
(***************************************************************************)
Restricted(f, S) == [x \in DOMAIN f \cap S |-> f[x]]

\* addUnchecked; a zerocoin spend leaves no mark in mapNextTx (its inputs
\* are no outputs of transactions).
AddUnchecked(t) ==
    /\ mapTx' = mapTx \cup {t}
    /\ mapNextTx' = [o \in DOMAIN mapNextTx \cup Ins[t] |->
                        IF o \in Ins[t] THEN t ELSE mapNextTx[o]]

\* The transactions of the pool that spend an output of t.
SpendersOf(t) == {mapNextTx[o] : o \in {x \in DOMAIN mapNextTx : Source[x] = t}}

\* What "remove" takes away, beginning with S and following mapNextTx.
Removed(S) ==
    {t \in mapTx : \A C \in SUBSET mapTx :
        /\ S \cap mapTx \subseteq C
        /\ \A c \in C : SpendersOf(c) \cap mapTx \subseteq C
        => t \in C}

\* Mutant of RemovedWith: the children of a transaction that is not in the
\* pool stay.
RemovedIfPresent(t) == Removed({t})

\* remove(t, fRecursive = true).
RemovedWith(t) ==
    Removed({t} \cup (IF t \in mapTx THEN {} ELSE SpendersOf(t)))

\* Mutant of Erased: the inputs of what was removed stay marked.
ErasedNone(R) == {}

\* The entries of mapNextTx that go with the transactions R.
Erased(R) == UNION {Ins[t] : t \in R}

Delete(R) ==
    /\ mapTx' = mapTx \ R
    /\ mapNextTx' = Restricted(mapNextTx, Outpoint \ Erased(R))

\* Mutant of Conflicts: a confirmed transaction conflicts with itself.
ConflictsWithSelf(t) == Removed({mapNextTx[o] : o \in Ins[t] \cap DOMAIN mapNextTx})

\* removeConflicts(t).
Conflicts(t) ==
    Removed({mapNextTx[o] : o \in Ins[t] \cap DOMAIN mapNextTx} \ {t})

(***************************************************************************)
(* AcceptToMemoryPool.                                                     *)
(***************************************************************************)
MissingInputs(t) == \E p \in Sources(t) : p \notin mapTx /\ ~HaveCoins(p)

Conflicted(t) == Ins[t] \cap DOMAIN mapNextTx # {}

\* IsTransactionInChain, with the transaction index: a block that is being
\* disconnected is in chainActive until UpdateTip, when its coins are gone.
InChain(t) == t \in Confirmed \/ (busy.at = "disconnect" /\ t \in Txs(busy.todo))

\* Its conditions on the pool and the chain.
Acceptable(t) ==
    /\ t \notin Base \cup Generated \cup mapTx
    /\ IF t \in Zerocoin
       THEN ~InChain(t) /\ ~SerialUsed(t)
       ELSE /\ ~Conflicted(t)
            /\ ~HaveCoins(t)
            /\ \A o \in Ins[t] : Source[o] \in mapTx \/ Unspent(o)
            /\ \A o \in Ins[t] : ~Immature(o)

\* It fails with fMissingInputs.
Orphaned(t) ==
    /\ t \notin Base \cup Generated \cup mapTx \cup Zerocoin
    /\ ~Conflicted(t)
    /\ ~HaveCoins(t)
    /\ MissingInputs(t)

Init ==
    /\ mapTx = {}
    /\ mapNextTx = <<>>
    /\ orphans = <<>>
    /\ byPrev = <<>>
    /\ chain = <<>>
    /\ busy = Free

(***************************************************************************)
(* Orphans.                                                                *)
(***************************************************************************)
Prevs(p) == IF p \in DOMAIN byPrev THEN byPrev[p] ELSE {}

\* Mutant of Unindexed: an entry of the index stays.
UnindexedNothing(S, idx) == idx

\* The index without the orphans S; empty entries go.
Unindexed(S, idx) ==
    LET left == [p \in DOMAIN idx |-> {x \in idx[p] : ~(x \in S /\ p \in Sources(x))}]
    IN  Restricted(left, {p \in DOMAIN idx : left[p] # {}})

\* EraseOrphanTx for each of S.
EraseOrphans(S) ==
    /\ orphans' = Restricted(orphans, Tx \ S)
    /\ byPrev' = Unindexed(S \cap DOMAIN orphans, byPrev)

\* Mutant of AddOrphan: the limit is checked before the orphan is added.
AddOrphanLate(t, peer) ==
    LET with == [x \in DOMAIN orphans \cup {t} |-> IF x = t THEN peer ELSE orphans[x]]
        idx == [p \in DOMAIN byPrev \cup Sources(t) |->
                   Prevs(p) \cup (IF p \in Sources(t) THEN {t} ELSE {})]
    IN  IF t \in DOMAIN orphans THEN UNCHANGED orphanage
        ELSE IF Cardinality(DOMAIN orphans) =< MaxOrphans
        THEN orphans' = with /\ byPrev' = idx
        ELSE \E x \in DOMAIN with : /\ orphans' = Restricted(with, Tx \ {x})
                                    /\ byPrev' = Unindexed({x}, idx)

\* AddOrphanTx, and LimitOrphanTxSize, which evicts any of them.
AddOrphan(t, peer) ==
    LET with == [x \in DOMAIN orphans \cup {t} |-> IF x = t THEN peer ELSE orphans[x]]
        idx == [p \in DOMAIN byPrev \cup Sources(t) |->
                   Prevs(p) \cup (IF p \in Sources(t) THEN {t} ELSE {})]
    IN  IF t \in DOMAIN orphans THEN UNCHANGED orphanage
        ELSE IF Cardinality(DOMAIN with) =< MaxOrphans
        THEN orphans' = with /\ byPrev' = idx
        ELSE \E x \in DOMAIN with : /\ orphans' = Restricted(with, Tx \ {x})
                                    /\ byPrev' = Unindexed({x}, idx)

(***************************************************************************)
(* The "tx" message.                                                       *)
(***************************************************************************)
\* Accepted: the orphans that waited for it come next.
ReceiveTx(t) ==
    /\ busy = Free
    /\ t \notin Zerocoin
    /\ Acceptable(t)
    /\ AddUnchecked(t)
    /\ busy' = [at |-> "orphans", work |-> <<t>>, i |-> 1, todo |-> Prevs(t),
                erase |-> {}, misbehaving |-> {}]
    /\ UNCHANGED <<orphanage, chain>>

\* Its inputs are not known.
ReceiveOrphan(t, peer) ==
    /\ busy = Free
    /\ Orphaned(t)
    /\ AddOrphan(t, peer)
    /\ UNCHANGED <<pool, chain, busy>>

\* A zerocoin spend, or a transaction that comes by "ix", from the wallet or
\* by RPC: nobody looks for orphans.
AcceptElsewhere(t) ==
    /\ busy = Free
    /\ Acceptable(t)
    /\ AddUnchecked(t)
    /\ UNCHANGED <<orphanage, chain, busy>>

\* One orphan in the loop over mapOrphanTransactionsByPrev: it is accepted,
\* still misses inputs, or is refused for the pool, the chain or its fee.
SkipOrphan(x) ==
    /\ busy.at = "orphans"
    /\ x \in busy.todo
    /\ orphans[x] \in busy.misbehaving \/ Orphaned(x)
    /\ busy' = [busy EXCEPT !.todo = @ \ {x}]
    /\ UNCHANGED <<pool, orphanage, chain>>

AcceptOrphan(x) ==
    /\ busy.at = "orphans"
    /\ x \in busy.todo
    /\ orphans[x] \notin busy.misbehaving
    /\ Acceptable(x)
    /\ AddUnchecked(x)
    /\ busy' = [busy EXCEPT !.todo = @ \ {x}, !.work = Append(@, x), !.erase = @ \cup {x}]
    /\ UNCHANGED <<orphanage, chain>>

RefuseOrphan(x) ==
    /\ busy.at = "orphans"
    /\ x \in busy.todo
    /\ orphans[x] \notin busy.misbehaving
    /\ \E M \in {{}, {orphans[x]}} :
          busy' = [busy EXCEPT !.todo = @ \ {x}, !.erase = @ \cup {x},
                               !.misbehaving = @ \cup M]
    /\ UNCHANGED <<pool, orphanage, chain>>

\* Mutant of NextWork: the orphans of an orphan that was accepted are left.
SkipWork ==
    /\ busy.at = "orphans"
    /\ busy.todo = {}
    /\ busy.i < Len(busy.work)
    /\ busy' = [busy EXCEPT !.i = @ + 1]
    /\ UNCHANGED <<pool, orphanage, chain>>

NextWork ==
    /\ busy.at = "orphans"
    /\ busy.todo = {}
    /\ busy.i < Len(busy.work)
    /\ busy' = [busy EXCEPT !.i = @ + 1, !.todo = Prevs(busy.work[busy.i + 1])]
    /\ UNCHANGED <<pool, orphanage, chain>>

WorkDone == busy.at = "orphans" /\ busy.todo = {} /\ busy.i = Len(busy.work)

EndOrphans ==
    /\ WorkDone
    /\ EraseOrphans(busy.erase)
    /\ busy' = Free
    /\ UNCHANGED <<pool, chain>>

\* FinalizeNode: EraseOrphansFor.
PeerGone(peer) ==
    /\ busy = Free
    /\ \E x \in DOMAIN orphans : orphans[x] = peer
    /\ EraseOrphans({x \in DOMAIN orphans : orphans[x] = peer})
    /\ UNCHANGED <<pool, chain, busy>>

(***************************************************************************)
(* ConnectTip and DisconnectTip.                                           *)
(***************************************************************************)
\* What ConnectBlock asks of the n-th transaction of block B.
ConnectsAt(B, n) ==
    LET before == {B[i] : i \in 1 .. (n - 1)}
        t == B[n]
    IN  /\ t \notin before \cup Base \cup Confirmed
        /\ t \in Generated => n = 1
        /\ \A o \in Ins[t] :
              /\ Unspent(o) \/ Source[o] \in before
              /\ ~Immature(o) /\ Source[o] \notin Generated \cap before
              /\ \A u \in before : o \notin Ins[u]
        /\ t \in Zerocoin => /\ ~SerialUsed(t)
                             /\ \A u \in before \cap Zerocoin : Serial[u] # Serial[t]

Blocks == UNION {[1 .. n -> Tx] : n \in 1 .. BlockSize}

\* The coins of the block are in pcoinsTip; removeForBlock comes next.
ConnectTip(B) ==
    /\ busy = Free
    /\ Len(chain) < MaxBlocks
    /\ \A n \in DOMAIN B : ConnectsAt(B, n)
    /\ chain' = Append(chain, B)
    /\ busy' = [at |-> "connect", todo |-> B]
    /\ UNCHANGED <<pool, orphanage>>

\* When the block is through, cs_main is given back.
Rest(todo) == IF Len(todo) = 1 THEN Free ELSE [busy EXCEPT !.todo = Tail(@)]

\* removeForBlock, one transaction.
RemoveForBlock ==
    /\ busy.at = "connect"
    /\ Delete((mapTx \cap {Head(busy.todo)}) \cup Conflicts(Head(busy.todo)))
    /\ busy' = Rest(busy.todo)
    /\ UNCHANGED <<orphanage, chain>>

\* The coins of the block are taken back.
DisconnectTip ==
    /\ busy = Free
    /\ chain # <<>>
    /\ busy' = [at |-> "disconnect", todo |-> chain[Len(chain)]]
    /\ chain' = SubSeq(chain, 1, Len(chain) - 1)
    /\ UNCHANGED <<pool, orphanage>>

\* One transaction of the block goes back to the pool, if it is accepted.
Resurrect ==
    /\ busy.at = "disconnect"
    /\ busy.todo # <<>>
    /\ Acceptable(Head(busy.todo))
    /\ AddUnchecked(Head(busy.todo))
    /\ busy' = [busy EXCEPT !.todo = Tail(@)]
    /\ UNCHANGED <<orphanage, chain>>

Bury ==
    /\ busy.at = "disconnect"
    /\ busy.todo # <<>>
    /\ Delete(RemovedWith(Head(busy.todo)))
    /\ busy' = [busy EXCEPT !.todo = Tail(@)]
    /\ UNCHANGED <<orphanage, chain>>

\* Mutant of Unripe: only immature inputs count, not those that are gone.
UnripeNone == {}

\* removeCoinbaseSpends: inputs that are neither of the pool nor in the
\* chain, or not mature any more.
Unripe ==
    {t \in mapTx : \E o \in Ins[t] :
        Source[o] \notin mapTx /\ (~HaveCoins(Source[o]) \/ Immature(o))}

RemoveCoinbaseSpends ==
    /\ busy.at = "disconnect"
    /\ busy.todo = <<>>
    /\ Delete(Removed(Unripe))
    /\ busy' = Free
    /\ UNCHANGED <<orphanage, chain>>

\* CreateNewBlock empties the pool when the block it made is not valid.
Clear ==
    /\ busy = Free
    /\ mapTx' = {}
    /\ mapNextTx' = <<>>
    /\ UNCHANGED <<orphanage, chain, busy>>

Next ==
    \/ \E t \in Tx : ReceiveTx(t)
    \/ \E t \in Tx, peer \in Peer : ReceiveOrphan(t, peer)
    \/ \E t \in Tx : AcceptElsewhere(t)
    \/ \E x \in Tx : SkipOrphan(x)
    \/ \E x \in Tx : AcceptOrphan(x)
    \/ \E x \in Tx : RefuseOrphan(x)
    \/ NextWork
    \/ EndOrphans
    \/ \E peer \in Peer : PeerGone(peer)
    \/ \E B \in Blocks : ConnectTip(B)
    \/ RemoveForBlock
    \/ DisconnectTip
    \/ Resurrect
    \/ Bury
    \/ RemoveCoinbaseSpends
    \/ Clear

Spec == Init /\ [][Next]_vars

-----------------------------------------------------------------------------
(***************************************************************************)
(* Properties.  The first three are what CTxMemPool::check asserts, which  *)
(* runs only with -checkmempool; zerocoin spends, which it does not know   *)
(* about, are left out of them.                                            *)
(***************************************************************************)
\* mapNextTx marks exactly the inputs of the ordinary transactions of the
\* pool, each with its one spender, at every moment mempool.cs is free.
NextTxExact ==
    /\ DOMAIN mapNextTx = UNION {Ins[t] : t \in mapTx}
    /\ \A t \in mapTx : \A o \in Ins[t] : mapNextTx[o] = t

\* Between two moves of the tip, while orphans are tried, and when
\* removeCoinbaseSpends asserts it, an input of the pool is an output of the
\* pool or an unspent coin of the chain, and what is confirmed is not in the
\* pool: blocks may connect, disconnect, confirm conflicting transactions
\* and give some of theirs back.
AtRest == busy.at \in {"free", "orphans"}

InputsAvailable ==
    AtRest \/ (busy.at = "disconnect" /\ busy.todo = <<>>) =>
        /\ mapTx \cap Confirmed = {}
        /\ \A t \in mapTx : \A o \in Ins[t] : Source[o] \in mapTx \/ Unspent(o)

\* Nothing in the pool spends a generated output that is not mature for the
\* next block, also after blocks were disconnected.
InputsMature ==
    AtRest => \A t \in mapTx : \A o \in Ins[t] : ~Immature(o)

\* mapOrphanTransactionsByPrev names the orphans of every transaction they
\* spend and nothing else, through evictions and leaving peers.
OrphanIndexExact ==
    /\ DOMAIN byPrev = UNION {Sources(x) : x \in DOMAIN orphans}
    /\ \A p \in DOMAIN byPrev : byPrev[p] = {x \in DOMAIN orphans : p \in Sources(x)}

\* When the loop over the orphans ends, every orphan of a transaction that
\* was accepted in it still misses an input, will be erased, or came from a
\* peer that misbehaved.
OrphansTried ==
    WorkDone =>
        \A x \in DOMAIN orphans \ busy.erase :
            Sources(x) \cap Txs(busy.work) # {} =>
                MissingInputs(x) \/ orphans[x] \in busy.misbehaving

\* A transaction leaves the pool only when it is confirmed, or when it or
\* something it descends from in the pool conflicts with a confirmed one,
\* spends what is given up when a block is disconnected, or is not mature.
Parents(t) == Sources(t) \cap mapTx
Lineage(t) ==
    {x \in mapTx : \A C \in SUBSET mapTx :
        /\ t \in C
        /\ \A c \in C : Parents(c) \subseteq C
        => x \in C}

LeavesForReason ==
    [][\A t \in mapTx \ mapTx' :
          \/ /\ busy.at = "connect"
             /\ \/ t = Head(busy.todo)
                \/ \E x \in Lineage(t) \ {Head(busy.todo)} :
                      Ins[x] \cap Ins[Head(busy.todo)] # {}
          \/ /\ busy.at = "disconnect"
             /\ \E x \in Lineage(t) :
                   IF busy.todo = <<>> THEN x \in Unripe
                   ELSE Head(busy.todo) \in Sources(x) \cup {x}
          \/ busy = Free /\ mapTx' = {}]_vars
=============================================================================
