-------------------------- MODULE CoinsCacheProofs --------------------------
(***************************************************************************)
(* Theorems about CoinsCache for any transactions, outputs and blocks.     *)
(*                                                                         *)
(* The flags mean what coins.h says (FlagsTell) only together with two     *)
(* facts: an entry that is not there has no flags (Canonical), and an      *)
(* entry of the view that is not FRESH has pulled its parent's copy into   *)
(* pcoinsTip (Backed).  From them a flush never changes what the layer     *)
(* above it answers, which is the refinement of FlatCoins.                 *)
(***************************************************************************)
EXTENDS CoinsCache, TLAPS

\* Only entries have coins and flags.
Clean(c) ==
    /\ c.dirty \subseteq c.has
    /\ c.fresh \subseteq c.has
    /\ \A t \in Txs \ c.has : c.coins[t] = {}

Canonical == Clean(tip) /\ Clean(view) /\ (~open => view.has = {})

\* pcoinsTip has what the view has not created.
Backed == view.has \ view.fresh \subseteq tip.has

\* Until a write fails the tip answers what it was given.
TipAsCommitted ==
    ~failed => /\ committed.coins = [t \in Txs |-> TipCoins(t)]
               /\ committed.best = TipBest

\* A closed view has the tip's block or none, and an open one only has none
\* if there is none at all.
Hashes ==
    /\ ~open => view.hash \in {tip.hash, NullHash}
    /\ open /\ view.hash = NullHash => TipBest = NullHash

IInv ==
    /\ TypeOK
    /\ Canonical
    /\ FlagsTell
    /\ Backed
    /\ NoAssertion
    /\ TipAsCommitted
    /\ Hashes

-----------------------------------------------------------------------------
\* What is there has a type.
LEMMA AnswerTypes ==
    ASSUME IInv, NEW t \in Txs
    PROVE  /\ db[t] \in SUBSET Outs /\ (db[t] # {}) \in BOOLEAN
           /\ TipCoins(t) \in SUBSET Outs /\ TipFinds(t) \in BOOLEAN
           /\ ViewCoins(t) \in SUBSET Outs
           /\ TipBest \in Blocks \cup {NullHash}
           /\ tip \in CacheType /\ view \in CacheType
           /\ tip.coins \in [Txs -> SUBSET Outs] /\ view.coins \in [Txs -> SUBSET Outs]
           /\ tip.has \subseteq Txs /\ view.has \subseteq Txs
           /\ tip.hash \in Blocks \cup {NullHash} /\ view.hash \in Blocks \cup {NullHash}
BY DEF IInv, TypeOK, CacheType, TipCoins, TipFinds, ViewCoins, TipBest

\* Fetching into pcoinsTip shows nowhere.
LEMMA FetchTip ==
    ASSUME IInv, NEW t \in Txs, UNCHANGED disk,
           tip' = Fetch(tip, t, db[t] # {}, db[t])
    PROVE  /\ tip' \in CacheType /\ Clean(tip)'
           /\ tip.has \subseteq tip'.has /\ tip'.hash = tip.hash /\ TipBest' = TipBest
           /\ TipFinds(t) => t \in tip'.has
           /\ \A u \in Txs : TipCoins(u)' = TipCoins(u)
           /\ \A u \in tip'.has : /\ u \notin tip'.dirty => tip'.coins[u] = db[u]
                                  /\ u \in tip'.fresh => db[u] = {}
<1>1. /\ tip' \in CacheType
      /\ tip'.dirty = tip.dirty /\ tip'.hash = tip.hash
      /\ t \in tip.has \/ db[t] = {} => tip' = tip
      /\ t \notin tip.has /\ db[t] # {} =>
             /\ tip'.has = tip.has \cup {t}
             /\ tip'.coins = [tip.coins EXCEPT ![t] = db[t]]
             /\ tip'.fresh = tip.fresh
  <2>1. tip \in CacheType /\ db[t] \in SUBSET Outs /\ (db[t] # {}) \in BOOLEAN
    BY AnswerTypes
  <2> QED BY <2>1 DEF Fetch, CacheType
<1>2. db' = db /\ dbBest' = dbBest
  BY DEF disk
<1>3. CASE tip' = tip
  BY <1>1, <1>2, <1>3, AnswerTypes
     DEF IInv, Canonical, Clean, FlagsTell, TipCoins, TipBest, TipFinds
<1>4. CASE t \notin tip.has /\ db[t] # {}
  <2>1. \A u \in Txs : tip'.coins[u] = IF u = t THEN db[t] ELSE tip.coins[u]
    BY <1>1, <1>4, AnswerTypes
  <2>2. Clean(tip)'
    BY <1>1, <1>4, <2>1 DEF IInv, Canonical, Clean
  <2>3. \A u \in Txs : TipCoins(u)' = TipCoins(u)
    BY <1>1, <1>2, <1>4, <2>1 DEF TipCoins
  <2>4. \A u \in tip'.has : /\ u \notin tip'.dirty => tip'.coins[u] = db[u]
                            /\ u \in tip'.fresh => db[u] = {}
    BY <1>1, <1>4, <2>1, AnswerTypes DEF IInv, FlagsTell, Canonical, Clean
  <2> QED BY <1>1, <1>2, <1>4, <2>2, <2>3, <2>4 DEF TipBest
<1> QED BY <1>1, <1>3, <1>4

\* The same when the view asks: it only asks for what it has not got.
LEMMA FetchedTip ==
    ASSUME IInv, NEW t \in Txs, UNCHANGED disk, tip' = Fetched(t)
    PROVE  /\ tip' \in CacheType /\ Clean(tip)'
           /\ tip.has \subseteq tip'.has /\ tip'.hash = tip.hash /\ TipBest' = TipBest
           /\ t \notin view.has /\ TipFinds(t) => t \in tip'.has
           /\ \A u \in Txs : TipCoins(u)' = TipCoins(u)
           /\ \A u \in tip'.has : /\ u \notin tip'.dirty => tip'.coins[u] = db[u]
                                  /\ u \in tip'.fresh => db[u] = {}
<1>1. CASE t \in view.has
  <2>1. tip' = tip
    BY <1>1 DEF Fetched
  <2> QED BY <1>1, <2>1, AnswerTypes
          DEF IInv, Canonical, Clean, FlagsTell, TipCoins, TipBest, disk
<1>2. CASE t \notin view.has
  <2>1. tip' = Fetch(tip, t, db[t] # {}, db[t])
    BY <1>2 DEF Fetched
  <2> QED BY <2>1, FetchTip
<1> QED BY <1>1, <1>2

LEMMA InitIInv == Init => IInv
<1> SUFFICES ASSUME Init PROVE IInv
  OBVIOUS
<1>1. TypeOK
  <2>1. NoCoins \in [Txs -> SUBSET Outs] /\ Empty(NullHash) \in CacheType
    BY DEF NoCoins, Empty, CacheType
  <2>2. open \in BOOLEAN /\ failed \in BOOLEAN /\ crashed \in BOOLEAN
    BY DEF Init
  <2>3. committed \in [coins: [Txs -> SUBSET Outs], best: Blocks \cup {NullHash}]
    BY <2>1 DEF Init
  <2> QED BY <2>1, <2>2, <2>3 DEF Init, TypeOK
<1>2. \A t \in Txs : TipCoins(t) = {}
  BY DEF Init, Empty, NoCoins, TipCoins
<1>3. Canonical /\ FlagsTell /\ Backed
  BY DEF Init, Empty, NoCoins, Canonical, Clean, FlagsTell, Backed
<1>4. NoAssertion /\ Hashes
  BY DEF Init, Empty, NoAssertion, Hashes
<1>5. TipAsCommitted
  BY <1>2 DEF Init, Empty, NoCoins, TipBest, TipAsCommitted
<1> QED BY <1>1, <1>3, <1>4, <1>5 DEF IInv

\* A step that leaves the view alone and what the tip answers.
LEMMA ReadTipStep == ASSUME IInv, NEW t \in Txs, ReadTip(t) PROVE IInv'
<1>0. /\ tip' = Fetch(tip, t, db[t] # {}, db[t]) /\ UNCHANGED disk
      /\ UNCHANGED <<db, dbBest, view, open, committed, failed, crashed>>
  BY DEF ReadTip, disk
<1>1. /\ tip' \in CacheType /\ Clean(tip)'
      /\ tip.has \subseteq tip'.has /\ tip'.hash = tip.hash /\ TipBest' = TipBest
      /\ \A u \in Txs : TipCoins(u)' = TipCoins(u)
      /\ \A u \in tip'.has : /\ u \notin tip'.dirty => tip'.coins[u] = db[u]
                             /\ u \in tip'.fresh => db[u] = {}
  BY <1>0, FetchTip
<1>2. TypeOK' /\ NoAssertion'
  BY <1>0, <1>1 DEF IInv, TypeOK, NoAssertion
<1>3. Canonical' /\ Backed' /\ Hashes'
  BY <1>0, <1>1 DEF IInv, Canonical, Clean, Backed, Hashes
<1>4. FlagsTell'
  BY <1>0, <1>1, AnswerTypes DEF IInv, FlagsTell
<1>5. TipAsCommitted'
  BY <1>0, <1>1 DEF IInv, TipAsCommitted
<1> QED BY <1>2, <1>3, <1>4, <1>5 DEF IInv

\* What a step of an open view must do for the invariant to hold: pcoinsTip
\* only fetches, and the view changes at t.
LEMMA ViewStep ==
    ASSUME IInv, NEW t \in Txs, open, UNCHANGED disk, tip' = Fetched(t),
           UNCHANGED <<db, dbBest, open, committed, failed, crashed>>,
           view' \in CacheType, Clean(view)', view'.hash = view.hash,
           \A u \in Txs \ {t} : /\ u \in view'.has <=> u \in view.has
                                /\ u \in view'.dirty <=> u \in view.dirty
                                /\ u \in view'.fresh <=> u \in view.fresh
                                /\ view'.coins[u] = view.coins[u],
           t \in view'.has =>
               /\ t \notin view'.dirty => view'.coins[t] = TipCoins(t)
               /\ t \in view'.fresh => TipCoins(t) = {}
               /\ t \notin view'.fresh => \/ t \in view.has \ view.fresh
                                          \/ t \notin view.has /\ TipFinds(t)
    PROVE  IInv'
<1>1. /\ tip' \in CacheType /\ Clean(tip)'
      /\ tip.has \subseteq tip'.has /\ tip'.hash = tip.hash /\ TipBest' = TipBest
      /\ t \notin view.has /\ TipFinds(t) => t \in tip'.has
      /\ \A u \in Txs : TipCoins(u)' = TipCoins(u)
      /\ \A u \in tip'.has : /\ u \notin tip'.dirty => tip'.coins[u] = db[u]
                             /\ u \in tip'.fresh => db[u] = {}
  BY FetchedTip
<1>2. TypeOK' /\ NoAssertion'
  BY <1>1 DEF IInv, TypeOK, NoAssertion
<1>3. Canonical'
  BY <1>1 DEF IInv, Canonical
<1>4. Hashes'
  BY <1>1 DEF IInv, Hashes
<1>5. FlagsTell'
  <2>1. \A u \in view'.has : /\ u \notin view'.dirty => view'.coins[u] = TipCoins(u)
                             /\ u \in view'.fresh => TipCoins(u) = {}
    BY <1>1, AnswerTypes DEF IInv, FlagsTell, CacheType
  <2>2. view'.has \subseteq Txs
    BY DEF CacheType
  <2> QED BY <1>1, <2>1, <2>2 DEF FlagsTell
<1>6. Backed'
  <2>1. ASSUME NEW u \in view'.has, u \notin view'.fresh PROVE u \in tip'.has
    <3>1. u \in Txs
      BY DEF CacheType
    <3>2. CASE u # t
      BY <1>1, <2>1, <3>1, <3>2 DEF IInv, Backed
    <3>3. CASE u = t /\ t \in view.has \ view.fresh
      BY <1>1, <3>3 DEF IInv, Backed
    <3>4. CASE u = t /\ t \notin view.has /\ TipFinds(t)
      BY <1>1, <3>4
    <3> QED BY <2>1, <3>2, <3>3, <3>4
  <2> QED BY <2>1 DEF Backed
<1>7. TipAsCommitted'
  BY <1>1 DEF IInv, TipAsCommitted
<1> QED BY <1>2, <1>3, <1>4, <1>5, <1>6, <1>7 DEF IInv

LEMMA ReadViewStep == ASSUME IInv, NEW t \in Txs, ReadView(t) PROVE IInv'
<1>0. /\ open /\ tip' = Fetched(t) /\ UNCHANGED disk
      /\ UNCHANGED <<db, dbBest, open, committed, failed, crashed>>
      /\ view' = Fetch(view, t, TipFinds(t), TipCoins(t))
  BY DEF ReadView, disk
<1>1. /\ view \in CacheType /\ Clean(view) /\ TipCoins(t) \in SUBSET Outs
      /\ view.coins \in [Txs -> SUBSET Outs]
  BY AnswerTypes DEF IInv, Canonical
<1>2. CASE t \in view.has \/ ~TipFinds(t)
  <2>1. view' = view
    BY <1>0, <1>2 DEF Fetch
  <2>2. /\ view' \in CacheType /\ Clean(view)' /\ view'.hash = view.hash
    BY <1>1, <2>1 DEF Clean
  <2>3. t \in view'.has =>
               /\ t \notin view'.dirty => view'.coins[t] = TipCoins(t)
               /\ t \in view'.fresh => TipCoins(t) = {}
    BY <2>1 DEF IInv, FlagsTell
  <2>4. CASE t \in view.has /\ t \in view.fresh
    BY <1>0, <2>1, <2>2, <2>3, <2>4, ViewStep
  <2>5. CASE t \notin view.has \/ t \notin view.fresh
    BY <1>0, <2>1, <2>2, <2>3, <2>5, ViewStep
  <2> QED BY <2>4, <2>5
<1>3. CASE t \notin view.has /\ TipFinds(t)
  <2>1. /\ view'.has = view.has \cup {t} /\ view'.dirty = view.dirty
        /\ view'.coins = [view.coins EXCEPT ![t] = TipCoins(t)]
        /\ view'.fresh = IF TipCoins(t) = {} THEN view.fresh \cup {t} ELSE view.fresh
        /\ view'.hash = view.hash /\ view' \in CacheType
    <3>1. view' = [view EXCEPT !.has = @ \cup {t}, !.coins[t] = TipCoins(t),
                               !.fresh = IF TipCoins(t) = {} THEN @ \cup {t} ELSE @]
      BY <1>0, <1>3 DEF Fetch
    <3> QED BY <1>1, <3>1 DEF CacheType
  <2>2. t \notin view.dirty /\ t \notin view.fresh
    BY <1>1, <1>3 DEF Clean
  <2>3. \A u \in Txs : view'.coins[u] = IF u = t THEN TipCoins(t) ELSE view.coins[u]
    BY <1>1, <2>1
  <2>4. Clean(view)'
    BY <1>1, <2>1, <2>3 DEF Clean
  <2> QED BY <1>0, <1>3, <2>1, <2>2, <2>3, <2>4, ViewStep
<1> QED BY <1>2, <1>3

LEMMA ModifyViewStep ==
    ASSUME IInv, NEW t \in Txs, NEW v \in SUBSET Outs, ModifyView(t, v)
    PROVE  IInv'
<1>0. /\ open /\ tip' = Fetched(t) /\ UNCHANGED disk
      /\ UNCHANGED <<db, dbBest, open, committed, failed, crashed>>
      /\ view' = Modify(view, t, TipFinds(t), TipCoins(t), v)
  BY DEF ModifyView, disk
<1>1. /\ view \in CacheType /\ Clean(view) /\ TipCoins(t) \in SUBSET Outs
      /\ view.coins \in [Txs -> SUBSET Outs]
  BY AnswerTypes DEF IInv, Canonical
<1> DEFINE isFresh == FreshIn(view, t, TipFinds(t), TipCoins(t))
<1>2. ASSUME isFresh PROVE TipCoins(t) = {}
  <2>1. CASE t \in view.fresh
    BY <1>1, <2>1 DEF IInv, FlagsTell, Clean
  <2>2. CASE ~TipFinds(t)
    BY <2>2 DEF TipFinds, TipCoins
  <2> QED BY <1>2, <2>1, <2>2 DEF FreshIn
<1>3. CASE isFresh /\ v = {}
  <2>1. /\ view'.has = view.has \ {t} /\ view'.dirty = view.dirty \ {t}
        /\ view'.coins = [view.coins EXCEPT ![t] = {}]
        /\ view'.fresh = view.fresh \ {t}
        /\ view'.hash = view.hash /\ view' \in CacheType
    <3>1. view' = [view EXCEPT !.has = @ \ {t}, !.coins[t] = {}, !.dirty = @ \ {t},
                               !.fresh = @ \ {t}]
      BY <1>0, <1>3 DEF Modify
    <3> QED BY <1>1, <3>1 DEF CacheType
  <2>3. \A u \in Txs : view'.coins[u] = IF u = t THEN {} ELSE view.coins[u]
    BY <1>1, <2>1
  <2>4. Clean(view)'
    BY <1>1, <2>1, <2>3 DEF Clean
  <2> QED BY <1>0, <2>1, <2>3, <2>4, ViewStep
<1>4. CASE ~(isFresh /\ v = {})
  <2>1. /\ view'.has = view.has \cup {t} /\ view'.dirty = view.dirty \cup {t}
        /\ view'.coins = [view.coins EXCEPT ![t] = v]
        /\ isFresh => view'.fresh = view.fresh \cup {t}
        /\ ~isFresh => view'.fresh = view.fresh
        /\ view'.hash = view.hash /\ view' \in CacheType
    <3>1. view' = [view EXCEPT !.has = @ \cup {t}, !.coins[t] = v,
                               !.dirty = @ \cup {t},
                               !.fresh = IF isFresh THEN @ \cup {t} ELSE @]
      BY <1>0, <1>4 DEF Modify
    <3> HIDE DEF isFresh
    <3> QED BY <1>1, <3>1 DEF CacheType
  <2>2. ~isFresh => t \notin view.fresh /\ (t \in view.has \/ TipFinds(t))
    BY DEF FreshIn
  <2>3. \A u \in Txs : view'.coins[u] = IF u = t THEN v ELSE view.coins[u]
    BY <1>1, <2>1
  <2> HIDE DEF isFresh
  <2>4. Clean(view)'
    BY <1>1, <2>1, <2>3 DEF Clean
  <2>5. CASE isFresh
    BY <1>0, <1>2, <2>1, <2>3, <2>4, <2>5, ViewStep
  <2>6. CASE ~isFresh
    BY <1>0, <2>1, <2>2, <2>3, <2>4, <2>6, ViewStep
  <2> QED BY <2>5, <2>6
<1> QED BY <1>3, <1>4

LEMMA OpenViewStep == ASSUME IInv, OpenView PROVE IInv'
<1>0. /\ ~open /\ open' = TRUE /\ tip' = [tip EXCEPT !.hash = TipBest]
      /\ view' = Empty(TipBest)
      /\ UNCHANGED <<db, dbBest, committed, failed, crashed>>
  BY DEF OpenView, disk
<1>1. /\ tip \in CacheType /\ TipBest \in Blocks \cup {NullHash}
  BY DEF IInv, TypeOK, CacheType, TipBest
<1>2. /\ tip' \in CacheType /\ tip'.hash = TipBest
      /\ tip'.has = tip.has /\ tip'.coins = tip.coins
      /\ tip'.dirty = tip.dirty /\ tip'.fresh = tip.fresh
  BY <1>0, <1>1 DEF CacheType
<1>3. /\ view' \in CacheType /\ view'.hash = TipBest
      /\ view'.has = {} /\ view'.coins = NoCoins
      /\ view'.dirty = {} /\ view'.fresh = {}
  BY <1>0, <1>1 DEF CacheType, Empty, NoCoins
<1>4. TipBest' = TipBest
  BY <1>0, <1>2 DEF TipBest
<1>5. \A u \in Txs : TipCoins(u)' = TipCoins(u)
  BY <1>0, <1>2 DEF TipCoins
<1>6. TypeOK'
  <2>1. open' \in BOOLEAN
    BY <1>0
  <2> QED BY <1>0, <1>2, <1>3, <2>1 DEF IInv, TypeOK
<1>7. Canonical'
  BY <1>0, <1>2, <1>3 DEF IInv, Canonical, Clean, NoCoins
<1>8. FlagsTell' /\ Backed'
  BY <1>0, <1>2, <1>3 DEF IInv, FlagsTell, Backed
<1>9. NoAssertion' /\ Hashes'
  BY <1>0, <1>3, <1>4 DEF IInv, NoAssertion, Hashes
<1>10. TipAsCommitted'
  BY <1>0, <1>4, <1>5 DEF IInv, TipAsCommitted
<1> QED BY <1>6, <1>7, <1>8, <1>9, <1>10 DEF IInv

LEMMA SetBestBlockStep ==
    ASSUME IInv, NullHash \notin Blocks, NEW b \in Blocks, SetBestBlock(b)
    PROVE  IInv'
<1>0. /\ open /\ view' = [view EXCEPT !.hash = b]
      /\ UNCHANGED <<db, dbBest, tip, open, committed, failed, crashed>>
  BY DEF SetBestBlock, disk
<1>1. /\ view' \in CacheType /\ view'.hash = b
      /\ view'.has = view.has /\ view'.coins = view.coins
      /\ view'.dirty = view.dirty /\ view'.fresh = view.fresh
  BY <1>0 DEF IInv, TypeOK, CacheType
<1>2. TypeOK' /\ NoAssertion'
  BY <1>0, <1>1 DEF IInv, TypeOK, NoAssertion
<1>3. Canonical' /\ Backed'
  BY <1>0, <1>1 DEF IInv, Canonical, Clean, Backed
<1>4. FlagsTell'
  BY <1>0, <1>1 DEF IInv, FlagsTell, TipCoins
<1>5. Hashes' /\ TipAsCommitted'
  BY <1>0, <1>1 DEF IInv, Hashes, TipAsCommitted, TipCoins, TipBest
<1> QED BY <1>2, <1>3, <1>4, <1>5 DEF IInv

LEMMA DropViewStep == ASSUME IInv, DropView PROVE IInv'
<1>0. /\ open' = FALSE /\ view' = Empty(tip.hash)
      /\ UNCHANGED <<db, dbBest, tip, committed, failed, crashed>>
  BY DEF DropView, disk
<1>1. /\ view' \in CacheType /\ view'.hash = tip.hash
      /\ view'.has = {} /\ view'.coins = NoCoins
      /\ view'.dirty = {} /\ view'.fresh = {}
  BY <1>0 DEF IInv, TypeOK, CacheType, Empty, NoCoins
<1>2. TypeOK' /\ NoAssertion'
  <2>1. open' \in BOOLEAN
    BY <1>0
  <2> QED BY <1>0, <1>1, <2>1 DEF IInv, TypeOK, NoAssertion
<1>3. Canonical' /\ Backed' /\ Hashes'
  BY <1>0, <1>1 DEF IInv, Canonical, Clean, NoCoins, Backed, Hashes
<1>4. FlagsTell' /\ TipAsCommitted'
  BY <1>0, <1>1 DEF IInv, FlagsTell, TipAsCommitted, TipCoins, TipBest
<1> QED BY <1>2, <1>3, <1>4 DEF IInv

-----------------------------------------------------------------------------
\* After a flush of the view pcoinsTip answers what the view answered, with
\* the right flags, and the assert has not failed.
LEMMA MergedRight ==
    ASSUME IInv, open
    PROVE  /\ Merged \in CacheType /\ Clean(Merged) /\ Created \subseteq view.fresh
           /\ Merged.hash = view.hash
           /\ \A t \in Txs : (IF t \in Merged.has THEN Merged.coins[t] ELSE db[t])
                                 = ViewCoins(t)
           /\ \A t \in Merged.has : /\ t \notin Merged.dirty => Merged.coins[t] = db[t]
                                    /\ t \in Merged.fresh => db[t] = {}
<1>1. /\ tip \in CacheType /\ view \in CacheType /\ db \in [Txs -> SUBSET Outs]
      /\ Clean(tip) /\ Clean(view) /\ FlagsTell
      /\ view.has \ view.fresh \subseteq tip.has
      /\ view.coins \in [Txs -> SUBSET Outs] /\ tip.coins \in [Txs -> SUBSET Outs]
      /\ view.hash \in Blocks \cup {NullHash}
  BY DEF IInv, TypeOK, Canonical, Backed, CacheType
<1>2. /\ tip.has \subseteq Txs /\ tip.dirty \subseteq tip.has /\ tip.fresh \subseteq tip.has
      /\ view.has \subseteq Txs /\ view.dirty \subseteq view.has
      /\ view.fresh \subseteq view.has
  BY <1>1 DEF Clean, CacheType
<1>3. Created \subseteq view.fresh /\ Created \subseteq view.dirty /\ Created \cap tip.has = {}
  BY <1>1, <1>2 DEF Created
<1>4. Erased \subseteq view.dirty \cap tip.fresh /\ Updated = (view.dirty \cap tip.has) \ Erased
  BY DEF Erased, Updated
<1>5. /\ Merged.has = (tip.has \cup Created) \ Erased
      /\ Merged.dirty = (tip.dirty \cup Created \cup Updated) \ Erased
      /\ Merged.fresh = (tip.fresh \cup Created) \ Erased
      /\ Merged.hash = view.hash
      /\ \A t \in Txs : Merged.coins[t] = IF t \in Created \cup Updated THEN view.coins[t]
                                          ELSE IF t \in Erased THEN {}
                                          ELSE tip.coins[t]
      /\ Merged.coins \in [Txs -> SUBSET Outs]
  BY <1>1 DEF Merged
<1>6. Merged \in CacheType
  <2>1. /\ Merged.has \subseteq Txs /\ Merged.dirty \subseteq Txs
        /\ Merged.fresh \subseteq Txs /\ Merged.hash \in Blocks \cup {NullHash}
    BY <1>1, <1>2, <1>3, <1>4, <1>5
  <2>2. Merged = [has |-> Merged.has, coins |-> Merged.coins, dirty |-> Merged.dirty,
                  fresh |-> Merged.fresh, hash |-> Merged.hash]
    BY DEF Merged
  <2> HIDE DEF Merged
  <2> QED BY <1>5, <2>1, <2>2 DEF CacheType
<1>7. Clean(Merged)
  <2>1. \A t \in Txs \ Merged.has : Merged.coins[t] = {}
    BY <1>1, <1>2, <1>3, <1>4, <1>5 DEF Clean
  <2> QED BY <1>2, <1>3, <1>4, <1>5, <2>1 DEF Clean
<1>8. ASSUME NEW t \in Txs
      PROVE  (IF t \in Merged.has THEN Merged.coins[t] ELSE db[t]) = ViewCoins(t)
  <2>1. CASE t \in Created
    BY <1>2, <1>3, <1>4, <1>5, <2>1 DEF ViewCoins
  <2>2. CASE t \in Erased
    BY <1>1, <1>2, <1>3, <1>4, <1>5, <2>2 DEF ViewCoins, FlagsTell, Erased
  <2>3. CASE t \in Updated
    BY <1>2, <1>3, <1>4, <1>5, <2>3 DEF ViewCoins
  <2>4. CASE t \notin Created \cup Erased \cup Updated
    <3>1. /\ t \in Merged.has <=> t \in tip.has
          /\ Merged.coins[t] = tip.coins[t]
      BY <1>5, <2>4
    <3>2. CASE t \in view.has /\ t \notin view.dirty
      BY <1>1, <3>1, <3>2 DEF ViewCoins, TipCoins, FlagsTell
    <3>3. CASE t \in view.dirty
      <4>1. t \notin tip.has /\ view.coins[t] = {}
        BY <2>4, <3>3 DEF Created, Updated
      <4>2. t \in view.fresh
        BY <1>1, <1>2, <3>3, <4>1
      <4>3. db[t] = {}
        BY <1>1, <1>2, <4>1, <4>2 DEF FlagsTell, TipCoins
      <4> QED BY <1>2, <3>1, <3>3, <4>1, <4>3 DEF ViewCoins
    <3>4. CASE t \notin view.has
      BY <3>1, <3>4 DEF ViewCoins, TipCoins
    <3> QED BY <3>2, <3>3, <3>4
  <2> QED BY <2>1, <2>2, <2>3, <2>4
<1>9. ASSUME NEW t \in Merged.has
      PROVE  /\ t \notin Merged.dirty => Merged.coins[t] = db[t]
             /\ t \in Merged.fresh => db[t] = {}
  <2>0. t \in Txs
    BY <1>2, <1>3, <1>5
  <2>1. CASE t \in Created
    <3>1. t \in Merged.dirty /\ t \notin tip.has /\ t \in view.fresh
      BY <1>3, <1>4, <1>5, <1>9, <2>1
    <3> QED BY <1>1, <1>2, <3>1 DEF FlagsTell, TipCoins
  <2>2. CASE t \notin Created
    <3>1. t \in tip.has /\ t \notin Erased
      BY <1>5, <1>9, <2>2
    <3>2. t \in Merged.fresh => db[t] = {}
      BY <1>1, <1>5, <2>2, <3>1 DEF FlagsTell
    <3>3. t \notin Merged.dirty => Merged.coins[t] = db[t]
      BY <1>1, <1>5, <2>0, <2>2, <3>1 DEF FlagsTell
    <3> QED BY <3>2, <3>3
  <2> QED BY <2>1, <2>2
<1> QED BY <1>3, <1>5, <1>6, <1>7, <1>8, <1>9

LEMMA FlushViewStep == ASSUME IInv, FlushView PROVE IInv'
<1>0. /\ open /\ open' = FALSE /\ tip' = Merged /\ view' = Empty(view.hash)
      /\ committed' = [coins |-> [t \in Txs |-> ViewCoins(t)], best |-> view.hash]
      /\ crashed' = ~(Created \subseteq view.fresh)
      /\ UNCHANGED <<db, dbBest, failed>>
  BY DEF FlushView, disk
<1>1. /\ tip' \in CacheType /\ Clean(tip)' /\ Created \subseteq view.fresh
      /\ tip'.hash = view.hash
      /\ \A t \in Txs : TipCoins(t)' = ViewCoins(t)
      /\ \A t \in tip'.has : /\ t \notin tip'.dirty => tip'.coins[t] = db[t]
                             /\ t \in tip'.fresh => db[t] = {}
  BY <1>0, MergedRight DEF TipCoins, Clean
<1>2. /\ view' \in CacheType /\ view'.hash = view.hash
      /\ view'.has = {} /\ view'.coins = NoCoins
      /\ view'.dirty = {} /\ view'.fresh = {}
  BY <1>0 DEF IInv, TypeOK, CacheType, Empty, NoCoins
<1>3. /\ view.hash \in Blocks \cup {NullHash}
      /\ [t \in Txs |-> ViewCoins(t)] \in [Txs -> SUBSET Outs]
  BY AnswerTypes DEF IInv, TypeOK, CacheType
<1>4. TypeOK'
  <2>1. open' \in BOOLEAN /\ crashed' \in BOOLEAN
    BY <1>0
  <2>2. committed' \in [coins: [Txs -> SUBSET Outs], best: Blocks \cup {NullHash}]
    BY <1>0, <1>3
  <2> QED BY <1>0, <1>1, <1>2, <2>1, <2>2 DEF IInv, TypeOK
<1>5. NoAssertion'
  BY <1>0, <1>1 DEF NoAssertion
<1>6. Canonical' /\ Backed' /\ Hashes'
  BY <1>0, <1>1, <1>2 DEF Canonical, Clean, NoCoins, Backed, Hashes
<1>7. FlagsTell'
  BY <1>0, <1>1, <1>2 DEF FlagsTell
<1>8. TipAsCommitted'
  <2>1. TipBest' = view.hash \/ view.hash = NullHash
    BY <1>1 DEF TipBest
  <2>2. view.hash = NullHash => TipBest' = NullHash
    BY <1>0, <1>1 DEF IInv, Hashes, TipBest, TipAsCommitted
  <2> QED BY <1>0, <1>1, <2>1, <2>2 DEF TipAsCommitted
<1> QED BY <1>4, <1>5, <1>6, <1>7, <1>8 DEF IInv

LEMMA FlushTipStep == ASSUME IInv, FlushTip PROVE IInv'
<1>0. /\ ~open /\ tip' = Empty(tip.hash)
      /\ db' = [t \in Txs |-> Written(t)]
      /\ dbBest' = IF tip.hash = NullHash THEN dbBest ELSE tip.hash
      /\ UNCHANGED <<view, open, committed, failed, crashed>>
  BY DEF FlushTip
<1>1. /\ tip \in CacheType /\ tip' \in CacheType /\ tip'.hash = tip.hash
      /\ tip'.has = {} /\ tip'.coins = NoCoins
      /\ tip'.dirty = {} /\ tip'.fresh = {}
  BY <1>0 DEF IInv, TypeOK, CacheType, Empty, NoCoins
<1>2. \A t \in Txs : TipCoins(t)' = TipCoins(t) /\ db'[t] = TipCoins(t)
  BY <1>0, <1>1 DEF IInv, FlagsTell, Canonical, Clean, TipCoins, Written, CacheType
<1>3. TipBest' = TipBest /\ dbBest' = TipBest
  BY <1>0, <1>1 DEF TipBest
<1>4. TypeOK' /\ NoAssertion'
  <2>1. db' \in [Txs -> SUBSET Outs]
    BY <1>0, <1>1 DEF IInv, TypeOK, CacheType, Written
  <2>2. dbBest' \in Blocks \cup {NullHash}
    BY <1>3 DEF IInv, TypeOK, CacheType, TipBest
  <2> QED BY <1>0, <1>1, <2>1, <2>2 DEF IInv, TypeOK, NoAssertion
<1>5. Canonical' /\ Backed' /\ Hashes'
  BY <1>0, <1>1, <1>3 DEF IInv, Canonical, Clean, NoCoins, Backed, Hashes
<1>6. FlagsTell' /\ TipAsCommitted'
  BY <1>0, <1>1, <1>2, <1>3 DEF IInv, FlagsTell, Canonical, TipAsCommitted
<1> QED BY <1>4, <1>5, <1>6 DEF IInv

LEMMA FlushTipFailsStep == ASSUME IInv, FlushTipFails PROVE IInv'
<1>0. /\ ~open /\ tip' = Empty(tip.hash) /\ failed' = TRUE
      /\ UNCHANGED <<db, dbBest, view, open, committed, crashed>>
  BY DEF FlushTipFails, disk
<1>1. /\ tip' \in CacheType /\ tip'.hash = tip.hash
      /\ tip'.has = {} /\ tip'.coins = NoCoins
      /\ tip'.dirty = {} /\ tip'.fresh = {}
  BY <1>0 DEF IInv, TypeOK, CacheType, Empty, NoCoins
<1>2. TypeOK' /\ NoAssertion'
  <2>1. failed' \in BOOLEAN
    BY <1>0
  <2> QED BY <1>0, <1>1, <2>1 DEF IInv, TypeOK, NoAssertion
<1>3. Canonical' /\ Backed' /\ Hashes' /\ TipAsCommitted'
  BY <1>0, <1>1 DEF IInv, Canonical, Clean, NoCoins, Backed, Hashes, TipAsCommitted
<1>4. FlagsTell'
  BY <1>0, <1>1 DEF IInv, Canonical, FlagsTell
<1> QED BY <1>2, <1>3, <1>4 DEF IInv

LEMMA CrashStep == ASSUME IInv, Crash PROVE IInv'
<1>0. /\ tip' = Empty(NullHash) /\ view' = Empty(NullHash) /\ open' = FALSE
      /\ committed' = [coins |-> db, best |-> dbBest]
      /\ failed' = FALSE /\ crashed' = FALSE
      /\ UNCHANGED <<db, dbBest>>
  BY DEF Crash, disk
<1>1. /\ Empty(NullHash) \in CacheType /\ Empty(NullHash).has = {}
      /\ Empty(NullHash).dirty = {} /\ Empty(NullHash).fresh = {}
      /\ Empty(NullHash).coins = NoCoins /\ Empty(NullHash).hash = NullHash
  BY DEF CacheType, Empty, NoCoins
<1>2. TypeOK' /\ NoAssertion'
  <2>1. open' \in BOOLEAN /\ failed' \in BOOLEAN /\ crashed' \in BOOLEAN
    BY <1>0
  <2>2. committed' \in [coins: [Txs -> SUBSET Outs], best: Blocks \cup {NullHash}]
    BY <1>0 DEF IInv, TypeOK
  <2> QED BY <1>0, <1>1, <2>1, <2>2 DEF IInv, TypeOK, NoAssertion
<1>3. Canonical' /\ Backed' /\ FlagsTell' /\ Hashes'
  BY <1>0, <1>1 DEF Canonical, Clean, NoCoins, Backed, FlagsTell, Hashes
<1>4. TipAsCommitted'
  BY <1>0, <1>1 DEF IInv, TypeOK, TipAsCommitted, TipCoins, TipBest
<1> QED BY <1>2, <1>3, <1>4 DEF IInv

LEMMA NextIInv == IInv /\ NullHash \notin Blocks /\ [Next]_vars => IInv'
<1> SUFFICES ASSUME IInv, NullHash \notin Blocks, [Next]_vars PROVE IInv'
  OBVIOUS
<1>1. CASE OpenView
  BY <1>1, OpenViewStep
<1>2. ASSUME NEW t \in Txs, ReadTip(t) PROVE IInv'
  BY <1>2, ReadTipStep
<1>3. ASSUME NEW t \in Txs, ReadView(t) PROVE IInv'
  BY <1>3, ReadViewStep
<1>4. ASSUME NEW t \in Txs, NEW v \in SUBSET Outs, ModifyView(t, v) PROVE IInv'
  BY <1>4, ModifyViewStep
<1>5. ASSUME NEW b \in Blocks, SetBestBlock(b) PROVE IInv'
  BY <1>5, SetBestBlockStep
<1>6. CASE FlushView
  BY <1>6, FlushViewStep
<1>7. CASE DropView
  BY <1>7, DropViewStep
<1>8. CASE FlushTip
  BY <1>8, FlushTipStep
<1>9. CASE FlushTipFails
  BY <1>9, FlushTipFailsStep
<1>10. CASE Crash
  BY <1>10, CrashStep
<1>11. CASE UNCHANGED vars
  BY <1>11 DEF IInv, TypeOK, Canonical, Clean, FlagsTell, Backed, NoAssertion,
               TipAsCommitted, Hashes, TipCoins, TipBest, vars
<1> QED BY <1>1, <1>2, <1>3, <1>4, <1>5, <1>6, <1>7, <1>8, <1>9, <1>10, <1>11 DEF Next

\* The invariant of the coin views holds whatever the chain code asks of them.
THEOREM Invariance == Spec => []IInv
BY CoinsAssumption, InitIInv, NextIInv, PTL DEF Spec

\* The flags of the entries of both caches always mean what coins.h says.
THEOREM FlagsAreRight == Spec => []FlagsTell
<1>1. IInv => FlagsTell
  BY DEF IInv
<1> QED BY <1>1, Invariance, PTL

\* The assert in CCoinsViewCache::BatchWrite, that an entry new to pcoinsTip
\* is FRESH, never fails.
THEOREM AssertHolds == Spec => []NoAssertion
<1>1. IInv => NoAssertion
  BY DEF IInv
<1> QED BY <1>1, Invariance, PTL

-----------------------------------------------------------------------------
\* Every action maps to one of FlatCoins or to a stutter.
LEMMA InitFlat == Init => Flat!Init
<1> SUFFICES ASSUME Init PROVE Flat!Init
  OBVIOUS
<1>1. \A t \in Txs : TipCoins(t) = {} /\ ViewCoins(t) = {} /\ db[t] = {}
  BY DEF Init, Empty, NoCoins, TipCoins, ViewCoins
<1>2. TipBest = NullHash /\ ViewBest = NullHash /\ dbBest = NullHash /\ open = FALSE
  BY DEF Init, Empty, TipBest, ViewBest
<1>3. db = [t \in Txs |-> {}]
  BY DEF Init, NoCoins
<1> QED BY <1>1, <1>2, <1>3 DEF Flat!Init, Flat!Nothing

\* The abstract state is what the layers answer: equal answers, equal states.
LEMMA SameAnswers ==
    ASSUME \A t \in Txs : TipCoins(t)' = TipCoins(t) /\ ViewCoins(t)' = ViewCoins(t),
           TipBest' = TipBest, ViewBest' = ViewBest,
           UNCHANGED <<db, dbBest, open>>
    PROVE  UNCHANGED Flat!vars
BY DEF Flat!vars

\* A closed view answers what pcoinsTip answers.
LEMMA ClosedView ==
    ASSUME IInv, ~open
    PROVE  ViewBest = TipBest /\ \A t \in Txs : ViewCoins(t) = TipCoins(t)
BY DEF IInv, Canonical, Hashes, ViewBest, TipBest, ViewCoins

LEMMA ReadTipFlat == ASSUME IInv, NEW t \in Txs, ReadTip(t) PROVE UNCHANGED Flat!vars
<1>0. /\ tip' = Fetch(tip, t, db[t] # {}, db[t])
      /\ UNCHANGED disk /\ UNCHANGED <<db, dbBest, view, open>>
  BY DEF ReadTip, disk
<1>1. TipBest' = TipBest /\ \A u \in Txs : TipCoins(u)' = TipCoins(u)
  BY <1>0, FetchTip
<1>2. ViewBest' = ViewBest /\ \A u \in Txs : ViewCoins(u)' = ViewCoins(u)
  BY <1>0, <1>1 DEF ViewBest, ViewCoins
<1> QED BY <1>0, <1>1, <1>2, SameAnswers

LEMMA ReadViewFlat == ASSUME IInv, NEW t \in Txs, ReadView(t) PROVE UNCHANGED Flat!vars
<1>0. /\ view' = Fetch(view, t, TipFinds(t), TipCoins(t)) /\ tip' = Fetched(t)
      /\ UNCHANGED disk /\ UNCHANGED <<db, dbBest, open>>
  BY DEF ReadView, disk
<1>1. TipBest' = TipBest /\ \A u \in Txs : TipCoins(u)' = TipCoins(u)
  BY <1>0, FetchedTip
<1>2. /\ view \in CacheType /\ TipCoins(t) \in SUBSET Outs
      /\ view.coins \in [Txs -> SUBSET Outs]
  BY AnswerTypes
<1>3. view'.hash = view.hash /\ \A u \in Txs : ViewCoins(u)' = ViewCoins(u)
  <2>1. CASE t \in view.has \/ ~TipFinds(t)
    BY <1>0, <1>1, <2>1 DEF Fetch, ViewCoins
  <2>2. CASE t \notin view.has /\ TipFinds(t)
    <3>1. /\ view'.has = view.has \cup {t} /\ view'.hash = view.hash
          /\ view'.coins = [view.coins EXCEPT ![t] = TipCoins(t)]
      <4>1. view' = [view EXCEPT !.has = @ \cup {t}, !.coins[t] = TipCoins(t),
                                 !.fresh = IF TipCoins(t) = {} THEN @ \cup {t} ELSE @]
        BY <1>0, <2>2 DEF Fetch
      <4> QED BY <1>2, <4>1 DEF CacheType
    <3>2. \A u \in Txs : view'.coins[u] = IF u = t THEN TipCoins(t) ELSE view.coins[u]
      BY <1>2, <3>1
    <3> QED BY <1>1, <2>2, <3>1, <3>2 DEF ViewCoins
  <2> QED BY <2>1, <2>2
<1>4. ViewBest' = ViewBest
  BY <1>1, <1>3 DEF ViewBest
<1> QED BY <1>0, <1>1, <1>3, <1>4, SameAnswers

LEMMA ModifyViewFlat ==
    ASSUME IInv, NEW t \in Txs, NEW v \in SUBSET Outs, ModifyView(t, v)
    PROVE  Flat!Change
<1>0. /\ open /\ view' = Modify(view, t, TipFinds(t), TipCoins(t), v)
      /\ tip' = Fetched(t)
      /\ UNCHANGED disk /\ UNCHANGED <<db, dbBest, open>>
  BY DEF ModifyView, disk
<1>1. TipBest' = TipBest /\ \A u \in Txs : TipCoins(u)' = TipCoins(u)
  BY <1>0, FetchedTip
<1>2. /\ view \in CacheType /\ view.coins \in [Txs -> SUBSET Outs]
      /\ TipCoins(t) \in SUBSET Outs /\ FlagsTell /\ Clean(view)
  BY AnswerTypes DEF IInv, Canonical
<1> DEFINE isFresh == FreshIn(view, t, TipFinds(t), TipCoins(t))
<1>3. view'.hash = view.hash /\ \A u \in Txs : ViewCoins(u)' = IF u = t THEN v ELSE ViewCoins(u)
  <2>1. CASE isFresh /\ v = {}
    <3>1. view' = [view EXCEPT !.has = @ \ {t}, !.coins[t] = {}, !.dirty = @ \ {t},
                               !.fresh = @ \ {t}]
      BY <1>0, <2>1 DEF Modify
    <3>2. TipCoins(t) = {}
      BY <1>2, <2>1 DEF FreshIn, FlagsTell, Clean, TipFinds, TipCoins
    <3>3. /\ view'.has = view.has \ {t} /\ view'.hash = view.hash
          /\ view'.coins = [view.coins EXCEPT ![t] = {}]
      BY <1>2, <3>1 DEF CacheType
    <3>4. \A u \in Txs : view'.coins[u] = IF u = t THEN {} ELSE view.coins[u]
      BY <1>2, <3>3
    <3> QED BY <1>1, <2>1, <3>2, <3>3, <3>4 DEF ViewCoins
  <2>2. CASE ~(isFresh /\ v = {})
    <3>1. view' = [view EXCEPT !.has = @ \cup {t}, !.coins[t] = v,
                               !.dirty = @ \cup {t},
                               !.fresh = IF isFresh THEN @ \cup {t} ELSE @]
      BY <1>0, <2>2 DEF Modify
    <3> HIDE DEF isFresh
    <3>3. /\ view'.has = view.has \cup {t} /\ view'.hash = view.hash
          /\ view'.coins = [view.coins EXCEPT ![t] = v]
      BY <1>2, <3>1 DEF CacheType
    <3>4. \A u \in Txs : view'.coins[u] = IF u = t THEN v ELSE view.coins[u]
      BY <1>2, <3>3
    <3> QED BY <1>1, <3>3, <3>4 DEF ViewCoins
  <2> QED BY <2>1, <2>2
<1>4. ViewBest' = ViewBest
  BY <1>1, <1>3 DEF ViewBest
<1> DEFINE coins == [u \in Txs |-> ViewCoins(u)]
           work == [coins |-> coins, best |-> ViewBest]
<1>5. work' = [work EXCEPT !.coins[t] = v]
  <2>1. coins' = [u \in Txs |-> ViewCoins(u)']
    OBVIOUS
  <2>2. coins' = [coins EXCEPT ![t] = v]
    BY <1>3, <2>1
  <2> HIDE DEF coins
  <2> QED BY <1>4, <2>2
<1> QED BY <1>0, <1>1, <1>5 DEF Flat!Change

LEMMA NextFlat == IInv /\ IInv' /\ NullHash \notin Blocks /\ [Next]_vars => [Flat!Next]_(Flat!vars)
<1> DEFINE Good == [Flat!Next]_(Flat!vars)
<1> SUFFICES ASSUME IInv, IInv', NullHash \notin Blocks, [Next]_vars PROVE Good
  OBVIOUS
<1>1. ASSUME OpenView PROVE Good
  <2>1. /\ ~open /\ open' = TRUE /\ tip' = [tip EXCEPT !.hash = TipBest]
        /\ view' = Empty(TipBest) /\ UNCHANGED <<db, dbBest>>
    BY <1>1 DEF OpenView, disk
  <2>2. /\ tip'.hash = TipBest /\ tip'.has = tip.has /\ tip'.coins = tip.coins
        /\ view'.hash = TipBest /\ view'.has = {}
    BY <2>1 DEF IInv, TypeOK, CacheType, Empty
  <2>3. TipBest' = TipBest /\ \A t \in Txs : TipCoins(t)' = TipCoins(t)
    BY <2>1, <2>2 DEF TipBest, TipCoins
  <2>4. ViewBest' = ViewBest /\ \A t \in Txs : ViewCoins(t)' = ViewCoins(t)
    <3>1. ViewBest' = TipBest /\ \A t \in Txs : ViewCoins(t)' = TipCoins(t)
      BY <2>2, <2>3 DEF ViewBest, ViewCoins
    <3> QED BY <2>1, <3>1, ClosedView
  <2> QED BY <2>1, <2>3, <2>4 DEF Flat!Next, Flat!Open
<1>2. ASSUME NEW t \in Txs, ReadTip(t) PROVE Good
  BY <1>2, ReadTipFlat
<1>3. ASSUME NEW t \in Txs, ReadView(t) PROVE Good
  BY <1>3, ReadViewFlat
<1>4. ASSUME NEW t \in Txs, NEW v \in SUBSET Outs, ModifyView(t, v)
      PROVE  Good
  BY <1>4, ModifyViewFlat DEF Flat!Next
<1>5. ASSUME NEW b \in Blocks, SetBestBlock(b) PROVE Good
  <2>1. /\ open /\ view' = [view EXCEPT !.hash = b]
        /\ UNCHANGED <<db, dbBest, tip, open>>
    BY <1>5 DEF SetBestBlock, disk
  <2>2. view'.hash = b /\ view'.has = view.has /\ view'.coins = view.coins
    BY <2>1 DEF IInv, TypeOK, CacheType
  <2>3. TipBest' = TipBest /\ \A t \in Txs : TipCoins(t)' = TipCoins(t)
    BY <2>1 DEF TipBest, TipCoins
  <2>4. ViewBest' = b /\ \A t \in Txs : ViewCoins(t)' = ViewCoins(t)
    BY <2>2, <2>3 DEF ViewBest, ViewCoins
  <2> DEFINE coins == [u \in Txs |-> ViewCoins(u)]
             work == [coins |-> coins, best |-> ViewBest]
  <2>5. work' = [work EXCEPT !.best = b]
    <3>1. coins' = [u \in Txs |-> ViewCoins(u)']
      OBVIOUS
    <3>2. coins' = coins
      BY <2>4, <3>1
    <3> HIDE DEF coins
    <3> QED BY <2>4, <3>2
  <2> QED BY <2>1, <2>3, <2>5 DEF Flat!Next, Flat!Change
<1>6. ASSUME FlushView PROVE Good
  <2>1. /\ open /\ open' = FALSE /\ tip' = Merged /\ UNCHANGED <<db, dbBest>>
    BY <1>6 DEF FlushView, disk
  <2>2. tip'.hash = view.hash /\ \A t \in Txs : TipCoins(t)' = ViewCoins(t)
    BY <2>1, MergedRight DEF TipCoins
  <2>3. TipBest' = ViewBest
    BY <2>1, <2>2 DEF IInv, Hashes, TipBest, ViewBest
  <2>4. ViewBest' = ViewBest /\ \A t \in Txs : ViewCoins(t)' = ViewCoins(t)
    <3>1. ViewBest' = TipBest' /\ \A t \in Txs : ViewCoins(t)' = TipCoins(t)'
      BY <2>1 DEF IInv, Canonical, Hashes, ViewBest, TipBest, ViewCoins
    <3> QED BY <2>2, <2>3, <3>1
  <2> QED BY <2>1, <2>2, <2>3, <2>4 DEF Flat!Next, Flat!Keep
<1>7. ASSUME DropView PROVE Good
  <2>1. open /\ open' = FALSE /\ UNCHANGED <<db, dbBest, tip>>
    BY <1>7 DEF DropView, disk
  <2>2. TipBest' = TipBest /\ \A t \in Txs : TipCoins(t)' = TipCoins(t)
    BY <2>1 DEF TipBest, TipCoins
  <2>3. ViewBest' = TipBest' /\ \A t \in Txs : ViewCoins(t)' = TipCoins(t)'
    BY <2>1 DEF IInv, Canonical, Hashes, ViewBest, TipBest, ViewCoins
  <2> QED BY <2>1, <2>2, <2>3 DEF Flat!Next, Flat!Drop
<1>8. ASSUME FlushTip PROVE Good
  <2>1. /\ ~open /\ open' = FALSE /\ tip' = Empty(tip.hash)
        /\ db' = [t \in Txs |-> Written(t)]
        /\ dbBest' = IF tip.hash = NullHash THEN dbBest ELSE tip.hash
    BY <1>8 DEF FlushTip, IInv, TypeOK
  <2>2. \A t \in Txs : Written(t) = TipCoins(t)
    BY DEF IInv, FlagsTell, Canonical, Clean, TipCoins, Written
  <2>3. dbBest' = TipBest /\ TipBest' = TipBest
    BY <2>1 DEF TipBest, Empty
  <2>4. \A t \in Txs : TipCoins(t)' = TipCoins(t)
    BY <2>1, <2>2 DEF TipCoins, Empty
  <2>5. ViewBest' = TipBest' /\ \A t \in Txs : ViewCoins(t)' = TipCoins(t)'
    BY <2>1 DEF IInv, Canonical, Hashes, ViewBest, TipBest, ViewCoins
  <2>6. ViewBest = TipBest /\ \A t \in Txs : ViewCoins(t) = TipCoins(t)
    BY <2>1, ClosedView
  <2>7. open' = open
    BY <1>8 DEF FlushTip
  <2> QED BY <2>1, <2>2, <2>3, <2>4, <2>5, <2>6, <2>7 DEF Flat!Next, Flat!Write
<1>9. ASSUME FlushTipFails PROVE Good
  <2>1. /\ ~open /\ tip' = Empty(tip.hash) /\ UNCHANGED <<db, dbBest, view, open>>
    BY <1>9 DEF FlushTipFails, disk
  <2>2. TipBest' = TipBest /\ \A t \in Txs : TipCoins(t)' = db[t]
    BY <2>1 DEF TipBest, TipCoins, Empty
  <2>3. ViewBest' = TipBest' /\ \A t \in Txs : ViewCoins(t)' = TipCoins(t)'
    BY <2>1 DEF IInv, Canonical, Hashes, ViewBest, TipBest, ViewCoins
  <2>4. [t \in Txs |-> TipCoins(t)]' = db
    BY <2>2 DEF IInv, TypeOK
  <2>5. [t \in Txs |-> ViewCoins(t)]' = [t \in Txs |-> TipCoins(t)]'
    BY <2>3
  <2>6. Flat!WriteFails
    <3> DEFINE coins == [t \in Txs |-> TipCoins(t)]
               below == [t \in Txs |-> ViewCoins(t)]
    <3>1. coins' = db /\ below' = coins'
      BY <2>4, <2>5
    <3>2. [coins |-> coins, best |-> TipBest]'
             = [[coins |-> coins, best |-> TipBest] EXCEPT !.coins = db]
      <4> HIDE DEF coins
      <4> QED BY <2>2, <3>1
    <3>3. [coins |-> below, best |-> ViewBest]' = [coins |-> coins, best |-> TipBest]'
      <4> HIDE DEF coins, below
      <4> QED BY <2>3, <3>1
    <3> QED BY <2>1, <3>2, <3>3 DEF Flat!WriteFails
  <2> QED BY <2>6 DEF Flat!Next
<1>10. ASSUME Crash PROVE Good
  <2>1. /\ open' = FALSE /\ tip' = Empty(NullHash) /\ view' = Empty(NullHash)
        /\ UNCHANGED <<db, dbBest>>
    BY <1>10 DEF Crash, disk
  <2>2. /\ TipBest' = dbBest /\ ViewBest' = dbBest
        /\ \A t \in Txs : TipCoins(t)' = db[t] /\ ViewCoins(t)' = db[t]
    BY <2>1 DEF TipBest, TipCoins, ViewBest, ViewCoins, Empty
  <2>3. /\ [t \in Txs |-> TipCoins(t)]' = db
        /\ [t \in Txs |-> ViewCoins(t)]' = db
    BY <2>2 DEF IInv, TypeOK
  <2> QED BY <2>1, <2>2, <2>3 DEF Flat!Next, Flat!Crash
<1>11. ASSUME UNCHANGED vars PROVE Good
  BY <1>11, SameAnswers DEF vars, TipCoins, ViewCoins, TipBest, ViewBest
<1> HIDE DEF Good
<1> QED BY <1>1, <1>2, <1>3, <1>4, <1>5, <1>6, <1>7, <1>8, <1>9, <1>10, <1>11 DEF Next

\* The caches are invisible: with their flags, their fetching and their
\* erasing they implement three plain sets of coins.
THEOREM Implementation == Spec => Implements
<1>1. Init => Flat!Init
  BY InitFlat
<1>2. IInv /\ IInv' /\ [Next]_vars => [Flat!Next]_(Flat!vars)
  BY CoinsAssumption, NextFlat
<1> QED BY <1>1, <1>2, Invariance, PTL DEF Spec, Implements, Flat!Spec

\* Unless a write has failed before, the database takes on exactly the coins
\* and the block that were given to pcoinsTip together.
THEOREM DiskIsCommitted == Spec => DiskTakesCommittedUnlessFailed
<1>1. IInv /\ [Next]_vars =>
        [disk' # disk /\ ~failed => /\ db' = committed.coins
                                    /\ dbBest' = committed.best]_vars
  <2> SUFFICES ASSUME IInv, [Next]_vars, disk' # disk, ~failed
               PROVE  db' = committed.coins /\ dbBest' = committed.best
    OBVIOUS
  <2>1. FlushTip
    BY DEF Next, vars, disk, OpenView, ReadTip, ReadView, ModifyView, SetBestBlock,
           FlushView, DropView, FlushTipFails, Crash
  <2>2. \A t \in Txs : Written(t) = TipCoins(t)
    BY DEF IInv, FlagsTell, Canonical, Clean, TipCoins, Written
  <2>3. /\ db' = [t \in Txs |-> TipCoins(t)]
        /\ dbBest' = TipBest
    BY <2>1, <2>2 DEF FlushTip, TipBest
  <2> QED BY <2>3 DEF IInv, TipAsCommitted
<1> QED BY <1>1, Invariance, PTL DEF Spec, DiskTakesCommittedUnlessFailed
=============================================================================
