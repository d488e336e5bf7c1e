----------------------------- MODULE CoinsCache -----------------------------
(***************************************************************************)
(* The layers of CCoinsViews that hold the unspent outputs (coins.cpp and  *)
(* CCoinsViewDB in txdb.cpp, src/src): the view in which ConnectTip and    *)
(* DisconnectTip change coins, pcoinsTip below it and the database below   *)
(* that.  cs_main is held, so that a call of a view is one action.         *)
(*                                                                         *)
(* A CCoins is its set of unspent outputs; the empty set is a pruned one.  *)
(* A cache is a record: the keys of cacheCoins, their coins, the keys that *)
(* are DIRTY and FRESH, and hashBlock.                                     *)
(***************************************************************************)
EXTENDS FiniteSets

CONSTANTS
    Txs,         \* transaction ids
    Outs,        \* output positions
    Blocks,      \* block hashes
    NullHash     \* uint256(0)

ASSUME CoinsAssumption == NullHash \notin Blocks

VARIABLES
    db,          \* 'c' records: coins by transaction; no record for {}
    dbBest,      \* 'B' record
    tip,         \* pcoinsTip
    view,        \* the view on top of it
    open,        \* that view exists
    committed,   \* history: coins and block the tip was last given
    failed,      \* history: a write has failed since the process started
    crashed      \* the assert in BatchWrite failed

disk == <<db, dbBest>>
vars == <<db, dbBest, tip, view, open, committed, failed, crashed>>

NoCoins == [t \in Txs |-> {}]

Empty(h) == [has |-> {}, coins |-> NoCoins, dirty |-> {}, fresh |-> {}, hash |-> h]

\* What GetCoins and GetBestBlock answer on each layer.
TipCoins(t) == IF t \in tip.has THEN tip.coins[t] ELSE db[t]
TipFinds(t) == t \in tip.has \/ db[t] # {}
TipBest == IF tip.hash = NullHash THEN dbBest ELSE tip.hash
ViewCoins(t) == IF t \in view.has THEN view.coins[t] ELSE TipCoins(t)
ViewBest == IF view.hash = NullHash THEN TipBest ELSE view.hash

\* Mutant of Fetch: what is fetched counts as new.
FetchFresh(c, t, found, coins) ==
    IF t \in c.has \/ ~found THEN c
    ELSE [c EXCEPT !.has = @ \cup {t}, !.coins[t] = coins, !.fresh = @ \cup {t}]

\* FetchCoins on cache c, the base answering found and coins.
Fetch(c, t, found, coins) ==
    IF t \in c.has \/ ~found THEN c
    ELSE [c EXCEPT !.has = @ \cup {t},
                   !.coins[t] = coins,
                   !.fresh = IF coins = {} THEN @ \cup {t} ELSE @]

\* Mutant of FreshIn: an entry nobody had before is not marked.
KeptFresh(c, t, found, coins) == t \in c.fresh

\* Whether ModifyCoins makes the entry of t in c FRESH.
FreshIn(c, t, found, coins) ==
    t \in c.fresh \/ (t \notin c.has /\ (~found \/ coins = {}))

\* ModifyCoins on c, the caller leaving v in the entry, and the end of the
\* CCoinsModifier.
Modify(c, t, found, coins, v) ==
    IF FreshIn(c, t, found, coins) /\ v = {}
    THEN [c EXCEPT !.has = @ \ {t}, !.coins[t] = {}, !.dirty = @ \ {t}, !.fresh = @ \ {t}]
    ELSE [c EXCEPT !.has = @ \cup {t},
                   !.coins[t] = v,
                   !.dirty = @ \cup {t},
                   !.fresh = IF FreshIn(c, t, found, coins) THEN @ \cup {t} ELSE @]

-----------------------------------------------------------------------------
Init ==
    /\ db = NoCoins
    /\ dbBest = NullHash
    /\ tip = Empty(NullHash)
    /\ view = Empty(NullHash)
    /\ open = FALSE
    /\ committed = [coins |-> NoCoins, best |-> NullHash]
    /\ failed = FALSE
    /\ crashed = FALSE

\* ConnectTip and DisconnectTip make a view and first compare its
\* GetBestBlock, which each cache remembers.
OpenView ==
    /\ ~crashed
    /\ ~open
    /\ open' = TRUE
    /\ view' = Empty(TipBest)
    /\ tip' = [tip EXCEPT !.hash = TipBest]
    /\ UNCHANGED <<disk, committed, failed, crashed>>

\* GetCoins, AccessCoins or HaveCoins on pcoinsTip.
ReadTip(t) ==
    /\ ~crashed
    /\ tip' = Fetch(tip, t, db[t] # {}, db[t])
    /\ UNCHANGED <<disk, view, open, committed, failed, crashed>>

\* The same on the view, which asks pcoinsTip for what it has not got.
Fetched(t) == IF t \in view.has THEN tip ELSE Fetch(tip, t, db[t] # {}, db[t])

ReadView(t) ==
    /\ ~crashed
    /\ open
    /\ view' = Fetch(view, t, TipFinds(t), TipCoins(t))
    /\ tip' = Fetched(t)
    /\ UNCHANGED <<disk, open, committed, failed, crashed>>

\* A transaction of the block is applied or undone.
ModifyView(t, v) ==
    /\ ~crashed
    /\ open
    /\ view' = Modify(view, t, TipFinds(t), TipCoins(t), v)
    /\ tip' = Fetched(t)
    /\ UNCHANGED <<disk, open, committed, failed, crashed>>

SetBestBlock(b) ==
    /\ ~crashed
    /\ open
    /\ view' = [view EXCEPT !.hash = b]
    /\ UNCHANGED <<disk, tip, open, committed, failed, crashed>>

(***************************************************************************)
(* CCoinsViewCache::BatchWrite, from the view to pcoinsTip.                *)
(***************************************************************************)
\* DIRTY entries pcoinsTip does not have; a pruned one is ignored, any other
\* asserted to be FRESH.
Created == {t \in view.dirty \ tip.has : view.coins[t] # {}}

\* Mutant of Erased: a pruned entry always goes.
ErasedPruned == {t \in view.dirty \cap tip.has : view.coins[t] = {}}

\* Entries that are deleted because the database has none.
Erased == {t \in view.dirty \cap tip.fresh : view.coins[t] = {}}

Updated == (view.dirty \cap tip.has) \ Erased

Merged ==
    [has   |-> (tip.has \cup Created) \ Erased,
     coins |-> [t \in Txs |-> IF t \in Created \cup Updated THEN view.coins[t]
                              ELSE IF t \in Erased THEN {}
                              ELSE tip.coins[t]],
     dirty |-> (tip.dirty \cup Created \cup Updated) \ Erased,
     fresh |-> (tip.fresh \cup Created) \ Erased,
     hash  |-> view.hash]

FlushView ==
    /\ ~crashed
    /\ open
    /\ tip' = Merged
    /\ view' = Empty(view.hash)
    /\ open' = FALSE
    /\ committed' = [coins |-> [t \in Txs |-> ViewCoins(t)], best |-> view.hash]
    /\ crashed' = ~(Created \subseteq view.fresh)
    /\ UNCHANGED <<disk, failed>>

\* The block fails, or was only tried: the view goes out of scope.
DropView ==
    /\ ~crashed
    /\ open
    /\ open' = FALSE
    /\ view' = Empty(tip.hash)
    /\ UNCHANGED <<disk, tip, committed, failed, crashed>>

(***************************************************************************)
(* CCoinsViewDB::BatchWrite, from pcoinsTip to the database, in            *)
(* FlushStateToDisk; no view is open then.                                 *)
(***************************************************************************)
\* Mutant of Written: all the cache is written, except what is pruned.
WrittenUnpruned(t) == IF t \in tip.dirty /\ tip.coins[t] # {} THEN tip.coins[t] ELSE db[t]

Written(t) == IF t \in tip.dirty THEN tip.coins[t] ELSE db[t]

FlushTip ==
    /\ ~crashed
    /\ ~open
    /\ db' = [t \in Txs |-> Written(t)]
    /\ dbBest' = IF tip.hash = NullHash THEN dbBest ELSE tip.hash
    /\ tip' = Empty(tip.hash)
    /\ UNCHANGED <<view, open, committed, failed, crashed>>

\* WriteBatch throws: the entries are already gone from cacheCoins, while
\* hashBlock stays.  The node requests a shutdown, which flushes again.
FlushTipFails ==
    /\ ~crashed
    /\ ~open
    /\ tip' = Empty(tip.hash)
    /\ failed' = TRUE
    /\ UNCHANGED <<disk, view, open, committed, crashed>>

\* The process dies and starts again on the database.
Crash ==
    /\ tip' = Empty(NullHash)
    /\ view' = Empty(NullHash)
    /\ open' = FALSE
    /\ committed' = [coins |-> db, best |-> dbBest]
    /\ failed' = FALSE
    /\ crashed' = FALSE
    /\ UNCHANGED disk

Next ==
    \/ OpenView
    \/ \E t \in Txs : ReadTip(t) \/ ReadView(t)
                      \/ \E v \in SUBSET Outs : ModifyView(t, v)
    \/ \E b \in Blocks : SetBestBlock(b)
    \/ FlushView \/ DropView
    \/ FlushTip \/ FlushTipFails
    \/ Crash

Spec == Init /\ [][Next]_vars

-----------------------------------------------------------------------------
CacheType ==
    [has: SUBSET Txs, coins: [Txs -> SUBSET Outs], dirty: SUBSET Txs,
     fresh: SUBSET Txs, hash: Blocks \cup {NullHash}]

\* The types of coins.h; an entry that is not there has no coins and no flags.
TypeOK ==
    /\ db \in [Txs -> SUBSET Outs]
    /\ dbBest \in Blocks \cup {NullHash}
    /\ tip \in CacheType /\ view \in CacheType
    /\ open \in BOOLEAN
    /\ committed \in [coins: [Txs -> SUBSET Outs], best: Blocks \cup {NullHash}]
    /\ failed \in BOOLEAN
    /\ crashed \in BOOLEAN

\* DIRTY and FRESH mean what coins.h says of them: an entry that is not DIRTY
\* agrees with the layer below, and below a FRESH one there is nothing.
FlagsTell ==
    /\ \A t \in tip.has : /\ t \notin tip.dirty => tip.coins[t] = db[t]
                          /\ t \in tip.fresh => db[t] = {}
    /\ \A t \in view.has : /\ t \notin view.dirty => view.coins[t] = TipCoins(t)
                           /\ t \in view.fresh => TipCoins(t) = {}

\* The assert of BatchWrite never fails: the grandparent was asked for every
\* entry that is not FRESH.
NoAssertion == ~crashed

\* The layers behave as three plain sets of coins: fetching, flags, erasing
\* and flushing never show.
Flat == INSTANCE FlatCoins WITH
    disk <- [coins |-> db, best |-> dbBest],
    tip  <- [coins |-> [t \in Txs |-> TipCoins(t)], best |-> TipBest],
    work <- [coins |-> [t \in Txs |-> ViewCoins(t)], best |-> ViewBest]

Implements == Flat!Spec

\* The database only ever takes on the coins the tip was given together with
\* the block it was given them for, so that a restart finds the two in
\* agreement ("Writes do not need similar protection, as failure to write is
\* handled by the caller", CCoinsViewErrorCatcher).
DiskTakesCommitted ==
    [][disk' # disk => /\ db' = committed.coins
                       /\ dbBest' = committed.best]_disk

\* So it does as long as no write has failed.
DiskTakesCommittedUnlessFailed ==
    [][disk' # disk /\ ~failed => /\ db' = committed.coins
                                  /\ dbBest' = committed.best]_vars
=============================================================================
