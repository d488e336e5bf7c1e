-------------------------- MODULE MempoolCoinsProofs --------------------------
(***************************************************************************)
(* Theorems about Mempool: the inputs of the pool are there and mature,    *)
(* whatever blocks connect and are taken back, and the loop over the       *)
(* orphans leaves none that it could have settled.                         *)
(***************************************************************************)
EXTENDS MempoolProofs

-----------------------------------------------------------------------------
(***************************************************************************)
(* The coins the pool spends.                                              *)
(***************************************************************************)
\* What a block under way still explains: an input that one of its
\* transactions to come spends, or an output of one that is to go back to the
\* pool or be buried.
Pending(o) ==
    \/ busy.at = "connect" /\ \E u \in Txs(busy.todo) : o \in Ins[u]
    \/ busy.at = "disconnect" /\ Source[o] \in Txs(busy.todo)

\* A confirmed transaction is in the pool only until its block gets to it.
OnlyPending ==
    mapTx \cap Confirmed \subseteq IF busy.at = "connect" THEN Txs(busy.todo) ELSE {}

HaveInputs ==
    \A t \in mapTx : \A o \in Ins[t] : Source[o] \in mapTx \/ Unspent(o) \/ Pending(o)

\* A block spends outputs of its own or of earlier blocks.
ChainClosed ==
    \A i \in DOMAIN chain : \A t \in Txs(chain[i]) : \A o \in Ins[t] :
        Source[o] \in Base \/ \E j \in 1 .. i : Source[o] \in Txs(chain[j])

\* A block that is connected is in the chain already, and in it a spender comes
\* after what it spends.
SpendersFollow ==
    busy.at = "connect" =>
        /\ Txs(busy.todo) \subseteq Confirmed
        /\ \A i \in DOMAIN busy.todo : \A o \in Outpoint :
               Source[o] = busy.todo[i] /\ o \in Spent =>
                   \E j \in DOMAIN busy.todo : i < j /\ o \in Ins[busy.todo[j]]

\* Inputs are mature, also while a block connects: it only adds depth.
Mature == busy.at # "disconnect" => \A t \in mapTx : \A o \in Ins[t] : ~Immature(o)

CoinsInv == OnlyPending /\ HaveInputs /\ ChainClosed /\ SpendersFollow /\ Mature

\* What is confirmed is in some block.
LEMMA ConfirmedIn ==
  /\ \A t : t \in Confirmed <=> \E i \in DOMAIN chain : t \in Txs(chain[i])
  /\ \A o : o \in Spent <=> \E t \in Confirmed : o \in Ins[t]
  BY DEF Confirmed, Spent

\* What a confirmed transaction spends is confirmed or old.
LEMMA ConfirmedClosed ==
  ASSUME RestOK, ChainClosed, NEW t \in Confirmed, NEW o \in Ins[t]
  PROVE  Source[o] \in Base \cup Confirmed
<1>1. PICK i \in DOMAIN chain : t \in Txs(chain[i])
  BY ConfirmedIn
<1>2. i \in Nat /\ 1 .. i \subseteq DOMAIN chain
  BY DEF RestOK
<1> QED BY <1>1, <1>2, ConfirmedIn DEF ChainClosed

\* Removal takes what it begins with and every spender of what it takes.
LEMMA RemovedClosed ==
  ASSUME PoolOK, NEW S
  PROVE  /\ S \cap mapTx \subseteq Removed(S)
         /\ \A c \in Removed(S) : \A t \in mapTx : \A o \in Ins[t] :
                Source[o] = c => t \in Removed(S)
<1>1. S \cap mapTx \subseteq Removed(S)
  BY DEF Removed
<1>2. ASSUME NEW c \in Removed(S), NEW t \in mapTx, NEW o \in Ins[t], Source[o] = c
      PROVE  t \in Removed(S)
  <2>1. t \in SpendersOf(c)
    BY <1>2 DEF PoolOK, NextTxExact, SpendersOf
  <2>2. ASSUME NEW C \in SUBSET mapTx, S \cap mapTx \subseteq C,
               \A d \in C : SpendersOf(d) \cap mapTx \subseteq C
        PROVE  t \in C
    <3>1. c \in C
      BY <1>2, <2>2 DEF Removed
    <3> QED BY <2>1, <2>2, <3>1
  <2> QED BY <2>2 DEF Removed
<1> QED BY <1>1, <1>2

\* What the pool accepts is not confirmed already: its inputs would be spent.
LEMMA AcceptableIsNew ==
  ASSUME PoolOK, RestOK, ChainClosed, mapTx \cap Confirmed = {}, NEW t \in Tx, Acceptable(t)
  PROVE  t \notin Confirmed
<1>1. CASE t \in Zerocoin
  BY <1>1 DEF Acceptable, InChain
<1>2. CASE t \notin Zerocoin
  <2>1. SUFFICES ASSUME t \in Confirmed PROVE FALSE
    OBVIOUS
  <2>2. PICK o \in Ins[t] : TRUE
    BY <1>2, MempoolAssumption DEF Acceptable
  <2>3. Source[o] \in mapTx \/ Unspent(o)
    BY <1>2 DEF Acceptable
  <2>4. ~Unspent(o)
    BY <2>1, ConfirmedIn DEF Unspent
  <2>5. Source[o] \in Base \cup Confirmed
    BY <2>1, ConfirmedClosed
  <2> QED BY <2>3, <2>4, <2>5 DEF PoolOK
<1> QED BY <1>1, <1>2

\* A step that leaves the chain and the pool alone, or takes transactions of
\* the pool with all that spend them, with no block under way that connects.
LEMMA ShrinkKeepsCoins ==
  ASSUME PoolOK, CoinsInv, UNCHANGED chain, NEW R, mapTx' = mapTx \ R,
         \A t \in mapTx' : \A o \in Ins[t] : Source[o] \notin R,
         busy.at # "connect", busy'.at # "connect",
         \A t \in mapTx' : \A o \in Ins[t] : Pending(o) => Pending(o)',
         busy'.at # "disconnect" =>
             \/ busy.at # "disconnect"
             \/ \A t \in mapTx' : \A o \in Ins[t] : ~Immature(o)
  PROVE  CoinsInv'
<1>1. Confirmed' = Confirmed /\ Spent' = Spent
  BY DEF Confirmed, Spent
<1>2. \A o : Unspent(o)' <=> Unspent(o)
  BY <1>1 DEF Unspent
<1>3. \A o : Immature(o)' <=> Immature(o)
  BY DEF Immature
<1>4. OnlyPending'
  BY <1>1 DEF CoinsInv, OnlyPending
<1>5. HaveInputs'
  BY <1>2 DEF CoinsInv, HaveInputs
<1>6. ChainClosed' /\ SpendersFollow'
  BY DEF CoinsInv, ChainClosed, SpendersFollow
<1>7. Mature'
  BY <1>3 DEF CoinsInv, Mature
<1> QED BY <1>4, <1>5, <1>6, <1>7 DEF CoinsInv

\* A transaction that is accepted, into the pool or back into it.
LEMMA AddKeepsCoins ==
  ASSUME PoolOK, RestOK, CoinsInv, NEW t \in Tx, Acceptable(t), AddUnchecked(t),
         UNCHANGED chain, busy.at # "connect", busy'.at # "connect",
         \A o : Pending(o) => Pending(o)' \/ Source[o] = t,
         busy'.at # "disconnect" => busy.at # "disconnect"
  PROVE  CoinsInv'
<1>1. Confirmed' = Confirmed /\ Spent' = Spent
  BY DEF Confirmed, Spent
<1>2. \A o : Unspent(o)' <=> Unspent(o)
  BY <1>1 DEF Unspent
<1>3. \A o : Immature(o)' <=> Immature(o)
  BY DEF Immature
<1>4. mapTx' = mapTx \cup {t} /\ mapTx \cap Confirmed = {}
  BY DEF AddUnchecked, CoinsInv, OnlyPending
<1>5. OnlyPending'
  BY <1>1, <1>4, AcceptableIsNew DEF CoinsInv, OnlyPending
<1>6. \A o \in Ins[t] : (Source[o] \in mapTx \/ Unspent(o)) /\ ~Immature(o)
  BY MempoolAssumption DEF Acceptable
<1>7. HaveInputs'
  BY <1>2, <1>4, <1>6 DEF CoinsInv, HaveInputs
<1>8. ChainClosed' /\ SpendersFollow'
  BY DEF CoinsInv, ChainClosed, SpendersFollow
<1>9. Mature'
  BY <1>3, <1>4, <1>6 DEF CoinsInv, Mature
<1> QED BY <1>5, <1>7, <1>8, <1>9 DEF CoinsInv

\* A new block: what its transactions spend was unspent or is created before
\* them in it, and they are new.
LEMMA ConnectFacts ==
  ASSUME RestOK, NEW B \in Blocks, ConnectTip(B)
  PROVE  /\ B \in Seq(Tx) /\ Len(chain) \in Nat
         /\ DOMAIN chain' = 1 .. (Len(chain) + 1) /\ Len(chain') = Len(chain) + 1
         /\ DOMAIN chain = 1 .. Len(chain)
         /\ \A i \in DOMAIN chain : chain'[i] = chain[i]
         /\ chain'[Len(chain) + 1] = B
         /\ Confirmed' = Confirmed \cup Txs(B)
         /\ \A o : o \in Spent' <=> o \in Spent \/ \E u \in Txs(B) : o \in Ins[u]
         /\ \A i \in DOMAIN B : B[i] \notin Base \cup Confirmed
         /\ \A i, j \in DOMAIN B : i < j => B[i] # B[j]
         /\ \A j \in DOMAIN B : \A o \in Ins[B[j]] :
                Unspent(o) \/ \E i \in DOMAIN B : i < j /\ Source[o] = B[i]
<1>1. B \in Seq(Tx)
  <2>1. PICK n \in 1 .. BlockSize : B \in [1 .. n -> Tx]
    BY DEF Blocks
  <2> QED BY <2>1, MempoolAssumption
<1>2. /\ chain \in Seq(Seq(Tx)) /\ chain' = Append(chain, B)
      /\ \A n \in DOMAIN B : ConnectsAt(B, n)
  BY DEF RestOK, ConnectTip
<1>3. /\ Len(chain) \in Nat
      /\ DOMAIN chain' = 1 .. (Len(chain) + 1) /\ Len(chain') = Len(chain) + 1
      /\ DOMAIN chain = 1 .. Len(chain)
      /\ \A i \in DOMAIN chain : chain'[i] = chain[i]
      /\ chain'[Len(chain) + 1] = B
  BY <1>1, <1>2
<1>4. \A t : t \in Confirmed' <=> \E i \in DOMAIN chain' : t \in Txs(chain'[i])
  BY DEF Confirmed, Txs
<1>5. \A t : t \in Confirmed' <=> t \in Confirmed \/ t \in Txs(B)
  BY <1>3, <1>4, ConfirmedIn
<1>6. \A o : o \in Spent' <=> \E t \in Confirmed' : o \in Ins[t]
  BY DEF Spent
<1>7. \A o : o \in Spent' <=> o \in Spent \/ \E u \in Txs(B) : o \in Ins[u]
  BY <1>5, <1>6, ConfirmedIn
<1>8. \A i \in DOMAIN B : B[i] \notin Base \cup Confirmed
  BY <1>2 DEF ConnectsAt
<1>9. DOMAIN B = 1 .. Len(B) /\ Len(B) \in Nat
  BY <1>1
<1>10. ASSUME NEW i \in DOMAIN B, NEW j \in DOMAIN B, i < j PROVE B[i] # B[j]
  <2>1. i \in 1 .. (j - 1)
    BY <1>9, <1>10
  <2> QED BY <1>2, <2>1 DEF ConnectsAt
<1>11. ASSUME NEW j \in DOMAIN B, NEW o \in Ins[B[j]], ~Unspent(o)
       PROVE  \E i \in DOMAIN B : i < j /\ Source[o] = B[i]
  <2>1. Source[o] \in {B[i] : i \in 1 .. (j - 1)}
    BY <1>2, <1>11 DEF ConnectsAt
  <2>2. PICK i \in 1 .. (j - 1) : Source[o] = B[i]
    BY <2>1
  <2>3. i \in DOMAIN B /\ i < j
    BY <1>9
  <2> QED BY <2>2, <2>3
<1> QED BY <1>1, <1>3, <1>5, <1>7, <1>8, <1>10, <1>11

LEMMA ConnectKeepsCoins ==
  ASSUME PoolOK, RestOK, CoinsInv, NEW B \in Blocks, ConnectTip(B)
  PROVE  CoinsInv'
<1> DEFINE N == Len(chain)
<1>0. /\ busy = Free /\ mapTx' = mapTx /\ busy'.at = "connect" /\ busy'.todo = B
      /\ mapTx \cap Confirmed = {} /\ \A o : ~Pending(o)
      /\ busy'.at # "disconnect"
  BY DEF ConnectTip, pool, CoinsInv, OnlyPending, Free, Pending
<1>1. /\ B \in Seq(Tx) /\ N \in Nat
      /\ DOMAIN chain' = 1 .. (N + 1) /\ Len(chain') = N + 1 /\ DOMAIN chain = 1 .. N
      /\ \A i \in DOMAIN chain : chain'[i] = chain[i]
      /\ chain'[N + 1] = B
  BY ConnectFacts
<1>2. /\ Confirmed' = Confirmed \cup Txs(B)
      /\ \A o : o \in Spent' <=> o \in Spent \/ \E u \in Txs(B) : o \in Ins[u]
      /\ \A i \in DOMAIN B : B[i] \notin Base \cup Confirmed
      /\ \A i, j \in DOMAIN B : i < j => B[i] # B[j]
  BY ConnectFacts
<1> HIDE DEF N
<1>3. OnlyPending'
  BY <1>0, <1>2 DEF OnlyPending, Txs
<1>4. ASSUME NEW t \in mapTx', NEW o \in Ins[t]
      PROVE  Source[o] \in mapTx' \/ Unspent(o)' \/ Pending(o)'
  <2>1. Source[o] \in mapTx \/ Unspent(o)
    BY <1>0, <1>4 DEF CoinsInv, HaveInputs
  <2>2. CASE \E u \in Txs(B) : o \in Ins[u]
    BY <1>0, <2>2 DEF Pending, Txs
  <2>3. CASE Unspent(o) /\ ~\E u \in Txs(B) : o \in Ins[u]
    BY <1>2, <2>3 DEF Unspent
  <2> QED BY <1>0, <2>1, <2>2, <2>3
<1>5. ChainClosed'
  <2>1. ASSUME NEW i \in DOMAIN chain', NEW t \in Txs(chain'[i]), NEW o \in Ins[t],
               Source[o] \notin Base
        PROVE  \E j \in 1 .. i : Source[o] \in Txs(chain'[j])
    <3>1. CASE i \in DOMAIN chain
      <4>1. PICK j \in 1 .. i : Source[o] \in Txs(chain[j])
        BY <1>1, <2>1, <3>1 DEF CoinsInv, ChainClosed
      <4>2. j \in DOMAIN chain
        BY <1>1, <3>1
      <4> QED BY <1>1, <4>1, <4>2
    <3>2. CASE i = N + 1
      <4>1. PICK n \in DOMAIN B : t = B[n]
        BY <1>1, <2>1, <3>2 DEF Txs
      <4>2. Unspent(o) \/ Source[o] \in Txs(B)
        BY <2>1, <4>1, ConnectFacts DEF Txs
      <4>3. Source[o] \in Confirmed \/ Source[o] \in Txs(B)
        BY <2>1, <4>2 DEF Unspent
      <4>4. CASE Source[o] \in Txs(B)
        BY <1>1, <3>2, <4>4
      <4>5. CASE Source[o] \in Confirmed
        <5>1. PICK j \in DOMAIN chain : Source[o] \in Txs(chain[j])
          BY <4>5, ConfirmedIn
        <5> QED BY <1>1, <3>2, <5>1
      <4> QED BY <4>3, <4>4, <4>5
    <3> QED BY <1>1, <3>1, <3>2
  <2> QED BY <2>1 DEF ChainClosed, Txs
<1>6. SpendersFollow'
  <2>1. ASSUME NEW i \in DOMAIN B, NEW o \in Outpoint, Source[o] = B[i], o \in Spent'
        PROVE  \E j \in DOMAIN B : i < j /\ o \in Ins[B[j]]
    <3>1. B[i] \notin Base \cup Confirmed
      BY <1>2
    <3>2. o \notin Spent
      BY <2>1, <3>1, ConfirmedIn, ConfirmedClosed DEF CoinsInv
    <3>3. PICK j \in DOMAIN B : o \in Ins[B[j]]
      BY <1>2, <2>1, <3>2 DEF Txs
    <3>4. ~Unspent(o)
      BY <2>1, <3>1 DEF Unspent
    <3>5. PICK k \in DOMAIN B : k < j /\ Source[o] = B[k]
      BY <3>3, <3>4, ConnectFacts
    <3>6. i \in Nat /\ j \in Nat /\ k \in Nat
      BY <1>1
    <3>7. ~(i < k) /\ ~(k < i)
      BY <1>2, <2>1, <3>5
    <3> QED BY <3>3, <3>5, <3>6, <3>7
  <2>2. Txs(busy'.todo) \subseteq Confirmed'
    BY <1>0, <1>2
  <2> QED BY <1>0, <2>1, <2>2 DEF SpendersFollow, Txs
<1>7. Mature'
  <2>1. ASSUME NEW t \in mapTx, NEW o \in Ins[t], NEW i \in DOMAIN chain',
               Source[o] \in Txs(chain'[i]) \cap Generated, Len(chain') + 1 - i < Maturity
        PROVE  FALSE
    <3>1. ~Immature(o) /\ (Source[o] \in mapTx \/ Unspent(o))
      BY <1>0, <2>1 DEF CoinsInv, Mature, HaveInputs, Free
    <3>2. CASE i \in DOMAIN chain
      <4>1. N + 1 - i < Maturity
        BY <1>1, <2>1, <3>2, MempoolAssumption
      <4> QED BY <1>1, <2>1, <3>1, <3>2, <4>1 DEF Immature, N
    <3>3. CASE i = N + 1
      <4>1. Source[o] \notin Base \cup Confirmed
        BY <1>1, <1>2, <2>1, <3>3 DEF Txs
      <4> QED BY <2>1, <3>1, <4>1 DEF PoolOK, Unspent
    <3> QED BY <1>1, <3>2, <3>3
  <2> QED BY <1>0, <2>1 DEF Mature, Immature, Txs
<1> QED BY <1>3, <1>4, <1>5, <1>6, <1>7 DEF CoinsInv, HaveInputs

\* What is left of a sequence of transactions.
LEMMA TailFacts ==
  ASSUME NEW s \in Seq(Tx), s # <<>>
  PROVE  /\ Tail(s) \in Seq(Tx) /\ Head(s) \in Tx
         /\ Txs(s) = {Head(s)} \cup Txs(Tail(s))
         /\ \A i \in DOMAIN Tail(s) : i + 1 \in DOMAIN s /\ Tail(s)[i] = s[i + 1]
         /\ \A j \in DOMAIN s : j > 1 => j - 1 \in DOMAIN Tail(s) /\ Tail(s)[j - 1] = s[j]
         /\ Len(s) = 1 => DOMAIN Tail(s) = {}
<1>1. /\ Len(s) \in Nat /\ Len(s) > 0 /\ DOMAIN s = 1 .. Len(s) /\ Head(s) = s[1]
      /\ Head(s) \in Tx
  BY HeadTailProperties, EmptySeq
<1>2. /\ Tail(s) \in Seq(Tx) /\ Len(Tail(s)) = Len(s) - 1
      /\ \A i \in 1 .. Len(Tail(s)) : Tail(s)[i] = s[i + 1]
  BY HeadTailProperties
<1>3. DOMAIN Tail(s) = 1 .. (Len(s) - 1)
  BY <1>1, <1>2
<1>4. \A i \in DOMAIN Tail(s) : i + 1 \in DOMAIN s /\ Tail(s)[i] = s[i + 1]
  BY <1>1, <1>2, <1>3
<1>5. \A j \in DOMAIN s : j > 1 => j - 1 \in DOMAIN Tail(s) /\ Tail(s)[j - 1] = s[j]
  BY <1>1, <1>2, <1>3
<1>6. \A t : t \in Txs(s) <=> t = Head(s) \/ t \in Txs(Tail(s))
  <2>1. ASSUME NEW j \in DOMAIN s PROVE s[j] = Head(s) \/ s[j] \in Txs(Tail(s))
    <3>1. CASE j = 1
      BY <1>1, <3>1
    <3>2. CASE j > 1
      BY <1>5, <3>2 DEF Txs
    <3> QED BY <1>1, <3>1, <3>2
  <2>2. Head(s) \in Txs(s) /\ \A i \in DOMAIN Tail(s) : Tail(s)[i] \in Txs(s)
    BY <1>1, <1>4 DEF Txs
  <2> QED BY <2>1, <2>2 DEF Txs
<1> QED BY <1>1, <1>2, <1>3, <1>4, <1>5, <1>6

LEMMA RemoveForBlockKeepsCoins ==
  ASSUME PoolOK, RestOK, CoinsInv, RemoveForBlock
  PROVE  CoinsInv'
<1> DEFINE h == Head(busy.todo)
           tl == Tail(busy.todo)
           S == {mapNextTx[o] : o \in Ins[h] \cap DOMAIN mapNextTx} \ {h}
           R == (mapTx \cap {h}) \cup Removed(S)
<1>1. busy.at = "connect" /\ busy.todo \in Seq(Tx) /\ busy.todo # <<>>
  BY BusyShape DEF RemoveForBlock
<1>2. /\ Txs(busy.todo) = {h} \cup Txs(tl)
      /\ \A i \in DOMAIN tl : i + 1 \in DOMAIN busy.todo /\ tl[i] = busy.todo[i + 1]
      /\ \A j \in DOMAIN busy.todo : j > 1 => j - 1 \in DOMAIN tl /\ tl[j - 1] = busy.todo[j]
      /\ tl \in Seq(Tx)
  BY <1>1, TailFacts
<1>3. DOMAIN busy.todo \subseteq Nat /\ DOMAIN tl \subseteq Nat /\ 1 \in DOMAIN busy.todo
      /\ h = busy.todo[1]
  BY <1>1, <1>2, EmptySeq
<1>4. \/ busy'.at = "connect" /\ busy'.todo = tl
      \/ busy'.at = "free" /\ DOMAIN tl = {}
  <2>1. busy \in [at: {"connect", "disconnect"}, todo: Seq(Tx)]
    BY <1>1 DEF RestOK, Busy, Free
  <2>2. Len(busy.todo) = 1 => DOMAIN tl = {}
    BY <1>1, TailFacts
  <2> QED BY <1>1, <2>1, <2>2 DEF RemoveForBlock, Rest, Free
<1>5. mapTx' = mapTx \ R /\ UNCHANGED chain
  BY DEF RemoveForBlock, Delete, Conflicts
<1>6. S \cap mapTx \subseteq Removed(S)
      /\ \A c \in Removed(S) : \A t \in mapTx : \A o \in Ins[t] : Source[o] = c => t \in Removed(S)
  BY RemovedClosed
<1>7. \A t \in mapTx : \A o \in Ins[t] : o \in Ins[h] => t = h \/ t \in S
  BY DEF PoolOK, NextTxExact
<1> HIDE DEF h, tl, S, R
<1>8. Confirmed' = Confirmed /\ Spent' = Spent
  BY <1>5 DEF Confirmed, Spent
<1>9. \A o : (Unspent(o)' <=> Unspent(o)) /\ (Immature(o)' <=> Immature(o))
  BY <1>5, <1>8 DEF Unspent, Immature
<1>10. OnlyPending'
  <2>1. mapTx' \cap Confirmed \subseteq Txs(tl)
    BY <1>1, <1>2, <1>5 DEF CoinsInv, OnlyPending, R
  <2>2. DOMAIN tl = {} => Txs(tl) = {}
    BY DEF Txs
  <2> QED BY <1>4, <1>8, <2>1, <2>2 DEF OnlyPending, Txs
<1>11. ASSUME NEW t \in mapTx', NEW o \in Ins[t]
       PROVE  Source[o] \in mapTx' \/ Unspent(o) \/ \E u \in Txs(tl) : o \in Ins[u]
  <2>1. t \in mapTx /\ t \notin R
    BY <1>5
  <2>2. Source[o] \in mapTx \/ Unspent(o) \/ \E u \in Txs(busy.todo) : o \in Ins[u]
    BY <1>1, <2>1 DEF CoinsInv, HaveInputs, Pending
  <2>3. o \notin Ins[h]
    BY <1>6, <1>7, <2>1 DEF R
  <2>4. Source[o] \notin Removed(S)
    BY <1>6, <2>1 DEF R
  <2>5. CASE Source[o] = h /\ ~Unspent(o) /\ h \in mapTx'
    BY <2>5
  <2>6. CASE Source[o] = h /\ ~Unspent(o) /\ h \in mapTx /\ h \notin mapTx'
    <3>1. h \in Confirmed
      BY <1>1, <1>2 DEF CoinsInv, SpendersFollow
    <3>2. o \in Spent /\ o \in Outpoint
      BY <2>1, <2>6, <3>1, MempoolAssumption DEF Unspent, PoolOK
    <3>3. PICK j \in DOMAIN busy.todo : 1 < j /\ o \in Ins[busy.todo[j]]
      BY <1>1, <1>3, <2>6, <3>2 DEF CoinsInv, SpendersFollow
    <3>4. tl[j - 1] \in Txs(tl) /\ o \in Ins[tl[j - 1]]
      BY <1>2, <1>3, <3>3 DEF Txs
    <3> QED BY <3>4
  <2>7. Source[o] \in mapTx => Source[o] \in mapTx' \/ Source[o] = h
    BY <1>5, <2>4 DEF R
  <2>8. (\E u \in Txs(busy.todo) : o \in Ins[u]) => \E u \in Txs(tl) : o \in Ins[u]
    BY <1>2, <2>3
  <2> QED BY <2>2, <2>5, <2>6, <2>7, <2>8
<1>12. HaveInputs'
  <2>1. DOMAIN tl = {} => Txs(tl) = {}
    BY DEF Txs
  <2> QED BY <1>4, <1>9, <1>11, <2>1 DEF HaveInputs, Pending, Txs
<1>13. ChainClosed'
  BY <1>5 DEF CoinsInv, ChainClosed
<1>14. SpendersFollow'
  <2>1. ASSUME NEW i \in DOMAIN tl, NEW o \in Outpoint, Source[o] = tl[i], o \in Spent
        PROVE  \E j \in DOMAIN tl : i < j /\ o \in Ins[tl[j]]
    <3>1. i + 1 \in DOMAIN busy.todo /\ Source[o] = busy.todo[i + 1]
      BY <1>2, <2>1
    <3>2. PICK j \in DOMAIN busy.todo : i + 1 < j /\ o \in Ins[busy.todo[j]]
      BY <1>1, <2>1, <3>1 DEF CoinsInv, SpendersFollow
    <3>3. i \in Nat /\ j \in Nat
      BY <1>3
    <3>4. j - 1 \in DOMAIN tl /\ tl[j - 1] = busy.todo[j] /\ i < j - 1
      BY <1>2, <3>2, <3>3
    <3> QED BY <3>2, <3>4
  <2>2. Txs(tl) \subseteq Confirmed /\ (DOMAIN tl = {} => Txs(tl) = {})
    BY <1>1, <1>2 DEF CoinsInv, SpendersFollow, Txs
  <2> QED BY <1>4, <1>8, <2>1, <2>2 DEF SpendersFollow, Txs
<1>15. Mature'
  BY <1>1, <1>5, <1>9 DEF CoinsInv, Mature
<1> QED BY <1>10, <1>12, <1>13, <1>14, <1>15 DEF CoinsInv

LEMMA DisconnectKeepsCoins ==
  ASSUME PoolOK, RestOK, CoinsInv, DisconnectTip
  PROVE  CoinsInv'
<1> DEFINE N == Len(chain)
<1>0. /\ busy = Free /\ mapTx' = mapTx /\ busy'.at = "disconnect" /\ busy'.todo = chain[N]
      /\ mapTx \cap Confirmed = {} /\ \A o : ~Pending(o)
  BY DEF DisconnectTip, pool, CoinsInv, OnlyPending, Free, Pending
<1>1. /\ N \in Nat \ {0} /\ DOMAIN chain = 1 .. N
      /\ DOMAIN chain' = 1 .. (N - 1)
      /\ \A i \in DOMAIN chain' : chain'[i] = chain[i]
  <2>1. chain \in Seq(Seq(Tx)) /\ chain # <<>> /\ chain' = SubSeq(chain, 1, N - 1)
    BY DEF DisconnectTip, RestOK
  <2>2. N \in Nat \ {0} /\ DOMAIN chain = 1 .. N
    BY <2>1, EmptySeq
  <2> QED BY <2>1, <2>2
<1> HIDE DEF N
<1>2. \A t : t \in Confirmed' <=> \E i \in DOMAIN chain' : t \in Txs(chain'[i])
  BY DEF Confirmed, Txs
<1>3. \A t \in Confirmed : t \in Confirmed' \/ t \in Txs(chain[N])
  <2>1. ASSUME NEW i \in DOMAIN chain, NEW t \in Txs(chain[i])
        PROVE  t \in Confirmed' \/ t \in Txs(chain[N])
    <3>1. CASE i = N
      BY <2>1, <3>1
    <3>2. CASE i # N
      <4>1. i \in DOMAIN chain'
        BY <1>1, <3>2
      <4> QED BY <1>1, <1>2, <2>1, <4>1
    <3> QED BY <3>1, <3>2
  <2> QED BY <2>1, ConfirmedIn
<1>4. Confirmed' \subseteq Confirmed
  BY <1>1, <1>2, ConfirmedIn
<1>5. Spent' \subseteq Spent
  BY <1>4 DEF Spent
<1>6. OnlyPending'
  BY <1>0, <1>4 DEF OnlyPending
<1>7. HaveInputs'
  <2>1. ASSUME NEW t \in mapTx', NEW o \in Ins[t]
        PROVE  Source[o] \in mapTx' \/ Unspent(o)' \/ Pending(o)'
    <3>1. Source[o] \in mapTx \/ Unspent(o)
      BY <1>0, <2>1 DEF CoinsInv, HaveInputs
    <3>2. CASE Unspent(o) /\ Source[o] \notin Txs(chain[N])
      BY <1>3, <1>5, <3>2 DEF Unspent
    <3>3. CASE Source[o] \in Txs(chain[N])
      BY <1>0, <3>3 DEF Pending, Txs
    <3> QED BY <1>0, <3>1, <3>2, <3>3
  <2> QED BY <2>1 DEF HaveInputs
<1>8. ChainClosed'
  <2>1. ASSUME NEW i \in DOMAIN chain', NEW t \in Txs(chain'[i]), NEW o \in Ins[t],
               Source[o] \notin Base
        PROVE  \E j \in 1 .. i : Source[o] \in Txs(chain'[j])
    <3>1. i \in DOMAIN chain /\ t \in Txs(chain[i])
      BY <1>1, <2>1
    <3>2. PICK j \in 1 .. i : Source[o] \in Txs(chain[j])
      BY <2>1, <3>1 DEF CoinsInv, ChainClosed
    <3>3. j \in DOMAIN chain'
      BY <1>1
    <3> QED BY <1>1, <3>2, <3>3
  <2> QED BY <2>1 DEF ChainClosed, Txs
<1>9. SpendersFollow' /\ Mature'
  BY <1>0 DEF SpendersFollow, Mature
<1> QED BY <1>6, <1>7, <1>8, <1>9 DEF CoinsInv

\* Steps that change neither the pool nor the chain while no block is under way.
LEMMA QuietKeepsCoins ==
  ASSUME PoolOK, CoinsInv, UNCHANGED <<pool, chain>>,
         busy.at \in {"free", "orphans"}, busy'.at \in {"free", "orphans"}
  PROVE  CoinsInv'
<1> DEFINE R == {}
<1>1. mapTx' = mapTx \ R /\ UNCHANGED chain
  BY DEF pool
<1>2. \A o : ~Pending(o)
  BY DEF Pending
<1>3. \A t \in mapTx' : \A o \in Ins[t] : Source[o] \notin R
  OBVIOUS
<1>4. \A t \in mapTx' : \A o \in Ins[t] : Pending(o) => Pending(o)'
  BY <1>2
<1>5. /\ busy.at # "connect" /\ busy'.at # "connect" /\ busy.at # "disconnect"
  OBVIOUS
<1> HIDE DEF R
<1> QED BY <1>1, <1>3, <1>4, <1>5, ShrinkKeepsCoins

\* A block that is given back loses the spenders of what does not come back.
LEMMA BuryKeepsCoins ==
  ASSUME PoolOK, RestOK, CoinsInv, Bury
  PROVE  CoinsInv'
<1> DEFINE h == Head(busy.todo)
           R == RemovedWith(h)
<1>1. busy.at = "disconnect" /\ busy.todo \in Seq(Tx) /\ busy.todo # <<>>
  BY BusyShape DEF Bury
<1>2. Txs(busy.todo) = {h} \cup Txs(Tail(busy.todo))
  BY <1>1, TailFacts
<1>3. busy'.at = "disconnect" /\ busy'.todo = Tail(busy.todo)
  <2>1. busy \in [at: {"connect", "disconnect"}, todo: Seq(Tx)]
    BY <1>1 DEF RestOK, Busy, Free
  <2> QED BY <1>1, <2>1 DEF Bury
<1>4. mapTx' = mapTx \ R /\ UNCHANGED chain
  BY DEF Bury, Delete
<1> HIDE DEF h
<1>5. \A t \in mapTx' : \A o \in Ins[t] : Source[o] \notin R
  BY <1>4, RemovedClosed DEF RemovedWith
<1>6. ASSUME NEW t \in mapTx', NEW o \in Ins[t] PROVE Source[o] # h
  <2>1. t \in mapTx /\ t \notin R
    BY <1>4
  <2>2. CASE h \in mapTx
    <3>1. h \in R
      BY <2>2, RemovedClosed DEF RemovedWith
    <3> QED BY <1>5, <3>1
  <2>3. CASE h \notin mapTx
    <3>1. Source[o] = h => t \in SpendersOf(h)
      BY <2>1 DEF PoolOK, NextTxExact, SpendersOf
    <3>2. SpendersOf(h) \cap mapTx \subseteq R
      BY <2>3, RemovedClosed DEF RemovedWith
    <3> QED BY <2>1, <3>1, <3>2
  <2> QED BY <2>2, <2>3
<1>7. \A t \in mapTx' : \A o \in Ins[t] : Pending(o) => Pending(o)'
  <2>1. Txs(busy'.todo) = Txs(Tail(busy.todo))
    BY <1>3
  <2> QED BY <1>1, <1>2, <1>3, <1>6, <2>1 DEF Pending, Txs
<1> HIDE DEF R
<1> QED BY <1>1, <1>3, <1>4, <1>5, <1>7, ShrinkKeepsCoins

\* removeCoinbaseSpends takes what is not mature without the block.
LEMMA RemoveCoinbaseSpendsKeepsCoins ==
  ASSUME PoolOK, CoinsInv, RemoveCoinbaseSpends
  PROVE  CoinsInv'
<1> DEFINE R == Removed(Unripe)
<1>1. busy.at = "disconnect" /\ Txs(busy.todo) = {} /\ busy'.at = "free"
  BY DEF RemoveCoinbaseSpends, Txs, Free
<1>2. mapTx' = mapTx \ R /\ UNCHANGED chain
  BY DEF RemoveCoinbaseSpends, Delete
<1>3. \A t \in mapTx' : \A o \in Ins[t] : Source[o] \notin R
  BY <1>2, RemovedClosed
<1>4. ASSUME NEW t \in mapTx', NEW o \in Ins[t] PROVE ~Immature(o)
  <2>1. t \in mapTx /\ t \notin Unripe
    BY <1>2, RemovedClosed
  <2>2. Source[o] \in mapTx => ~Immature(o)
    BY DEF PoolOK, Immature
  <2> QED BY <2>1, <2>2 DEF Unripe
<1>5. \A o : ~Pending(o)
  BY <1>1 DEF Pending
<1> HIDE DEF R
<1> QED BY <1>1, <1>2, <1>3, <1>4, <1>5, ShrinkKeepsCoins

\* Every action keeps the coins of the pool.
LEMMA StepCoins == IInv /\ CoinsInv /\ [Next]_vars => CoinsInv'
<1> SUFFICES ASSUME PoolOK, RestOK, CoinsInv, [Next]_vars PROVE CoinsInv'
  BY Parts
<1>0. busy.at = "orphans" => busy \in Loops
  BY BusyShape
<1>1. ASSUME NEW t \in Tx, ReceiveTx(t) \/ AcceptElsewhere(t) PROVE CoinsInv'
  <2>1. /\ Acceptable(t) /\ AddUnchecked(t) /\ UNCHANGED chain
        /\ busy.at = "free" /\ busy'.at \in {"free", "orphans"}
    BY <1>1 DEF ReceiveTx, AcceptElsewhere, Free
  <2> QED BY <2>1, AddKeepsCoins DEF Pending
<1>2. ASSUME NEW x \in Tx, AcceptOrphan(x) PROVE CoinsInv'
  <2>1. Acceptable(x) /\ AddUnchecked(x) /\ UNCHANGED chain /\ busy.at = "orphans"
    BY <1>2 DEF AcceptOrphan
  <2>2. busy'.at = "orphans"
    BY <1>0, <1>2, <2>1 DEF AcceptOrphan, Loops
  <2> QED BY <2>1, <2>2, AddKeepsCoins DEF Pending
<1>3. ASSUME Resurrect PROVE CoinsInv'
  <2>1. busy.at = "disconnect" /\ busy.todo \in Seq(Tx) /\ busy.todo # <<>>
    BY <1>3, BusyShape DEF Resurrect
  <2>2. /\ Txs(busy.todo) = {Head(busy.todo)} \cup Txs(Tail(busy.todo))
        /\ Head(busy.todo) \in Tx
    BY <2>1, TailFacts
  <2>3. busy \in [at: {"connect", "disconnect"}, todo: Seq(Tx)]
    BY <2>1 DEF RestOK, Busy, Free
  <2>4. busy'.at = "disconnect" /\ busy'.todo = Tail(busy.todo)
    BY <1>3, <2>1, <2>3 DEF Resurrect
  <2>5. \A o : Pending(o) => Pending(o)' \/ Source[o] = Head(busy.todo)
    BY <2>1, <2>2, <2>4 DEF Pending, Txs
  <2>6. Acceptable(Head(busy.todo)) /\ AddUnchecked(Head(busy.todo)) /\ UNCHANGED chain
    BY <1>3 DEF Resurrect
  <2> HIDE DEF Pending
  <2> QED BY <2>1, <2>2, <2>4, <2>5, <2>6, AddKeepsCoins
<1>4. ASSUME NEW t \in Tx, NEW peer \in Peer, ReceiveOrphan(t, peer) PROVE CoinsInv'
  BY <1>4, QuietKeepsCoins DEF ReceiveOrphan, Free
<1>5. ASSUME NEW x \in Tx, SkipOrphan(x) \/ RefuseOrphan(x) PROVE CoinsInv'
  <2>1. busy.at = "orphans" /\ UNCHANGED <<pool, chain>>
    BY <1>5 DEF SkipOrphan, RefuseOrphan
  <2>2. busy'.at = "orphans"
    BY <1>0, <1>5, <2>1 DEF SkipOrphan, RefuseOrphan, Loops
  <2> QED BY <2>1, <2>2, QuietKeepsCoins
<1>6. ASSUME NextWork PROVE CoinsInv'
  <2>1. busy.at = "orphans" /\ UNCHANGED <<pool, chain>>
    BY <1>6 DEF NextWork
  <2>2. busy'.at = "orphans"
    BY <1>0, <1>6, <2>1 DEF NextWork, Loops
  <2> QED BY <2>1, <2>2, QuietKeepsCoins
<1>7. ASSUME EndOrphans PROVE CoinsInv'
  BY <1>7, QuietKeepsCoins DEF EndOrphans, WorkDone, Free
<1>8. ASSUME NEW peer \in Peer, PeerGone(peer) PROVE CoinsInv'
  BY <1>8, QuietKeepsCoins DEF PeerGone, Free
<1>9. ASSUME Clear PROVE CoinsInv'
  <2>1. mapTx' = mapTx \ mapTx /\ UNCHANGED <<chain, busy>> /\ busy.at = "free"
    BY <1>9 DEF Clear, Free
  <2>2. mapTx' = {}
    BY <2>1
  <2> QED BY <2>1, <2>2, ShrinkKeepsCoins
<1>10. ASSUME UNCHANGED vars PROVE CoinsInv'
  <2>1. UNCHANGED <<mapTx, chain, busy>>
    BY <1>10 DEF vars, pool
  <2>2. Confirmed' = Confirmed /\ Spent' = Spent
    BY <2>1 DEF Confirmed, Spent
  <2>3. \A o : (Unspent(o)' <=> Unspent(o)) /\ (Immature(o)' <=> Immature(o))
    BY <2>1, <2>2 DEF Unspent, Immature
  <2>4. \A o : Pending(o)' <=> Pending(o)
    BY <2>1 DEF Pending
  <2>5. OnlyPending' /\ SpendersFollow'
    BY <2>1, <2>2 DEF CoinsInv, OnlyPending, SpendersFollow
  <2>6. HaveInputs' /\ Mature'
    BY <2>1, <2>3, <2>4 DEF CoinsInv, HaveInputs, Mature
  <2>7. ChainClosed'
    BY <2>1 DEF CoinsInv, ChainClosed
  <2> QED BY <2>5, <2>6, <2>7 DEF CoinsInv
<1> QED BY <1>1, <1>2, <1>3, <1>4, <1>5, <1>6, <1>7, <1>8, <1>9, <1>10, ConnectKeepsCoins,
           RemoveForBlockKeepsCoins, DisconnectKeepsCoins, BuryKeepsCoins,
           RemoveCoinbaseSpendsKeepsCoins
    DEF Next

\* An empty pool over an empty chain.
LEMMA InitCoins == Init => CoinsInv
  BY DEF Init, Free, CoinsInv, OnlyPending, HaveInputs, ChainClosed, SpendersFollow, Mature

-----------------------------------------------------------------------------
(***************************************************************************)
(* The orphans that waited.                                                *)
(***************************************************************************)
\* An orphan of a transaction that had its turn in the loop still misses an
\* input, came from a peer that misbehaved, or waits for a turn to come.
Tried ==
    busy.at = "orphans" =>
        /\ busy.i =< Len(busy.work)
        /\ \A x \in DOMAIN orphans \ (busy.erase \cup busy.todo) :
              (\E j \in 1 .. busy.i : busy.work[j] \in Sources(x)) =>
                  \/ MissingInputs(x)
                  \/ orphans[x] \in busy.misbehaving
                  \/ \E j \in (busy.i + 1) .. Len(busy.work) : busy.work[j] \in Sources(x)

\* The index finds every orphan of p.
LEMMA PrevsFind ==
  ASSUME OrphansOK, NEW x \in DOMAIN orphans, NEW p \in Sources(x)
  PROVE  x \in Prevs(p)
  BY DEF OrphansOK, Indexes, Prevs

\* One turn of the loop that leaves the pool alone: what it takes off the list
\* is to be erased, came from a peer that misbehaves, or misses an input.
LEMMA TurnKeepsTried ==
  ASSUME RestOK, Tried, busy.at = "orphans", UNCHANGED <<pool, orphanage, chain>>,
         busy'.work = busy.work, busy'.i = busy.i,
         busy.misbehaving \subseteq busy'.misbehaving,
         \A x \in DOMAIN orphans \ (busy'.erase \cup busy'.todo) :
             \/ x \notin busy.erase \cup busy.todo
             \/ MissingInputs(x)
             \/ orphans[x] \in busy'.misbehaving
  PROVE  Tried'
<1>1. \A x : MissingInputs(x)' <=> MissingInputs(x)
  BY DEF MissingInputs, HaveCoins, Unspent, Spent, Confirmed, Txs, Sources, pool
<1>2. orphans' = orphans
  BY DEF orphanage
<1> QED BY <1>1, <1>2 DEF Tried, Sources

\* Every action keeps track of the orphans that wait.
LEMMA StepTried == IInv /\ Tried /\ [Next]_vars => Tried'
<1> SUFFICES ASSUME PoolOK, OrphansOK, RestOK, Tried, [Next]_vars PROVE Tried'
  BY Parts
<1>0. busy.at = "orphans" => busy \in Loops /\ busy.todo \subseteq DOMAIN orphans
  BY BusyShape
<1>1. ASSUME NEW t \in Tx, ReceiveTx(t) PROVE Tried'
  <2>1. orphans' = orphans
    BY <1>1 DEF ReceiveTx, orphanage
  <2>2. busy'.work = <<t>> /\ busy'.i = 1 /\ busy'.todo = Prevs(t) /\ busy'.erase = {}
    BY <1>1 DEF ReceiveTx
  <2>3. ASSUME NEW x \in DOMAIN orphans' \ (busy'.erase \cup busy'.todo),
               NEW j \in 1 .. busy'.i, busy'.work[j] \in Sources(x)
        PROVE  FALSE
    <3>1. busy'.work[j] = t
      BY <2>2
    <3> QED BY <2>1, <2>2, <2>3, <3>1, PrevsFind
  <2>4. busy'.i =< Len(busy'.work)
    BY <2>2
  <2> QED BY <2>3, <2>4 DEF Tried, Sources
<1>2. ASSUME NEW y \in Tx, SkipOrphan(y) PROVE Tried'
  <2>1. busy.at = "orphans" /\ busy \in Loops /\ UNCHANGED <<pool, orphanage, chain>>
    BY <1>0, <1>2 DEF SkipOrphan
  <2>2. /\ busy'.work = busy.work /\ busy'.i = busy.i
        /\ busy'.misbehaving = busy.misbehaving /\ busy'.erase = busy.erase
        /\ busy'.todo = busy.todo \ {y}
    BY <1>2, <2>1 DEF SkipOrphan, Loops
  <2>3. orphans[y] \in busy.misbehaving \/ MissingInputs(y)
    BY <1>2 DEF SkipOrphan, Orphaned
  <2> QED BY <2>1, <2>2, <2>3, TurnKeepsTried
<1>3. ASSUME NEW y \in Tx, RefuseOrphan(y) PROVE Tried'
  <2>1. busy.at = "orphans" /\ busy \in Loops /\ UNCHANGED <<pool, orphanage, chain>>
    BY <1>0, <1>3 DEF RefuseOrphan
  <2>2. PICK M \in {{}, {orphans[y]}} :
           busy' = [busy EXCEPT !.todo = @ \ {y}, !.erase = @ \cup {y},
                                !.misbehaving = @ \cup M]
    BY <1>3 DEF RefuseOrphan
  <2>3. /\ busy'.work = busy.work /\ busy'.i = busy.i
        /\ busy'.misbehaving = busy.misbehaving \cup M /\ busy'.erase = busy.erase \cup {y}
        /\ busy'.todo = busy.todo \ {y}
    BY <2>1, <2>2 DEF Loops
  <2> QED BY <2>1, <2>3, TurnKeepsTried
<1>4. ASSUME NEW y \in Tx, AcceptOrphan(y) PROVE Tried'
  <2> DEFINE w == busy.work
             n == Len(busy.work)
  <2>1. busy.at = "orphans" /\ busy \in Loops /\ mapTx' = mapTx \cup {y}
    BY <1>0, <1>4 DEF AcceptOrphan, AddUnchecked
  <2>2. /\ busy'.work = Append(w, y) /\ busy'.i = busy.i
        /\ busy'.misbehaving = busy.misbehaving /\ busy'.erase = busy.erase \cup {y}
        /\ busy'.todo = busy.todo \ {y}
    BY <1>4, <2>1 DEF AcceptOrphan, Loops
  <2>3. w \in Seq(Tx) /\ busy.i \in Nat \ {0} /\ n \in Nat
    BY <2>1 DEF Loops
  <2>4. /\ Len(busy'.work) = n + 1 /\ busy'.work[n + 1] = y
        /\ \A j \in 1 .. n : busy'.work[j] = w[j]
    BY <2>2, <2>3
  <2>5. orphans' = orphans /\ chain' = chain
    BY <1>4 DEF AcceptOrphan, orphanage
  <2>6. \A x : MissingInputs(x) => MissingInputs(x)' \/ y \in Sources(x)
    BY <2>1, <2>5
    DEF MissingInputs, HaveCoins, Unspent, Spent, Confirmed, Txs, Sources
  <2>7. busy.i =< n
    BY <2>1 DEF Tried
  <2> HIDE DEF w, n
  <2>8. ASSUME NEW x \in DOMAIN orphans \ (busy'.erase \cup busy'.todo),
               NEW k \in 1 .. busy.i, busy'.work[k] \in Sources(x)
        PROVE  \/ MissingInputs(x)'
               \/ orphans[x] \in busy.misbehaving
               \/ \E j \in (busy.i + 1) .. (n + 1) : busy'.work[j] \in Sources(x)
    <3>1. w[k] \in Sources(x)
      BY <2>3, <2>4, <2>7, <2>8
    <3>2. x \notin busy.erase \cup busy.todo
      BY <2>2, <2>8
    <3>3. \/ MissingInputs(x)
          \/ orphans[x] \in busy.misbehaving
          \/ \E j \in (busy.i + 1) .. n : w[j] \in Sources(x)
      BY <2>1, <3>1, <3>2 DEF Tried, w, n
    <3>4. CASE y \in Sources(x)
      <4>1. n + 1 \in (busy.i + 1) .. (n + 1)
        BY <2>3, <2>7
      <4> QED BY <2>4, <3>4, <4>1
    <3>5. ASSUME NEW j \in (busy.i + 1) .. n, w[j] \in Sources(x)
          PROVE  \E m \in (busy.i + 1) .. (n + 1) : busy'.work[m] \in Sources(x)
      <4>1. j \in 1 .. n /\ j \in (busy.i + 1) .. (n + 1)
        BY <2>3
      <4> QED BY <2>4, <3>5, <4>1
    <3> QED BY <2>6, <3>3, <3>4, <3>5
  <2>9. busy'.i =< Len(busy'.work)
    BY <2>2, <2>3, <2>4, <2>7
  <2> QED BY <2>2, <2>4, <2>5, <2>8, <2>9 DEF Tried, Sources
<1>5. ASSUME NextWork PROVE Tried'
  <2> DEFINE w == busy.work
             n == busy.i + 1
  <2>1. /\ busy.at = "orphans" /\ busy \in Loops /\ UNCHANGED <<pool, orphanage, chain>>
        /\ busy.todo = {} /\ busy.i < Len(w)
    BY <1>0, <1>5 DEF NextWork
  <2>2. /\ busy'.work = w /\ busy'.i = n /\ busy'.misbehaving = busy.misbehaving
        /\ busy'.erase = busy.erase /\ busy'.todo = Prevs(w[n])
    BY <1>5, <2>1 DEF NextWork, Loops
  <2>3. w \in Seq(Tx) /\ busy.i \in Nat \ {0} /\ n \in Nat /\ Len(w) \in Nat
    BY <2>1 DEF Loops
  <2>4. \A x : MissingInputs(x)' <=> MissingInputs(x)
    BY <2>1 DEF MissingInputs, HaveCoins, Unspent, Spent, Confirmed, Txs, Sources, pool
  <2>5. orphans' = orphans
    BY <2>1 DEF orphanage
  <2>6. n =< Len(w)
    BY <2>1, <2>3
  <2>7. ASSUME NEW x \in DOMAIN orphans \ (busy'.erase \cup busy'.todo),
               NEW k \in 1 .. n, w[k] \in Sources(x)
        PROVE  \/ MissingInputs(x)
               \/ orphans[x] \in busy.misbehaving
               \/ \E j \in (n + 1) .. Len(w) : w[j] \in Sources(x)
    <3>1. w[n] \notin Sources(x)
      BY <2>2, <2>7, PrevsFind
    <3>2. k \in 1 .. busy.i
      BY <2>3, <2>7, <3>1
    <3>3. x \notin busy.erase \cup busy.todo
      BY <2>1, <2>2, <2>7
    <3>4. \/ MissingInputs(x)
          \/ orphans[x] \in busy.misbehaving
          \/ \E j \in (busy.i + 1) .. Len(w) : w[j] \in Sources(x)
      BY <2>1, <2>7, <3>2, <3>3 DEF Tried
    <3>5. ASSUME NEW j \in (busy.i + 1) .. Len(w), w[j] \in Sources(x)
          PROVE  j \in (n + 1) .. Len(w)
      <4>1. j # n
        BY <3>1, <3>5
      <4> QED BY <2>3, <4>1
    <3> QED BY <3>4, <3>5
  <2> HIDE DEF n
  <2> QED BY <2>2, <2>4, <2>5, <2>6, <2>7 DEF Tried, Sources
<1>6. ASSUME UNCHANGED vars PROVE Tried'
  <2>1. UNCHANGED <<mapTx, orphans, chain, busy>>
    BY <1>6 DEF vars, pool, orphanage
  <2>2. \A x : MissingInputs(x)' <=> MissingInputs(x)
    BY <2>1 DEF MissingInputs, HaveCoins, Unspent, Spent, Confirmed, Txs, Sources
  <2> QED BY <2>1, <2>2 DEF Tried, Sources
<1>7. ASSUME \/ EndOrphans \/ RemoveCoinbaseSpends \/ Clear \/ DisconnectTip
             \/ \E t \in Tx, peer \in Peer : ReceiveOrphan(t, peer)
             \/ \E t \in Tx : AcceptElsewhere(t)
             \/ \E peer \in Peer : PeerGone(peer)
             \/ \E B \in Blocks : ConnectTip(B)
      PROVE  Tried'
  <2>1. EndOrphans \/ RemoveCoinbaseSpends => busy' = Free
    BY DEF EndOrphans, RemoveCoinbaseSpends
  <2>2. \A t, peer : ReceiveOrphan(t, peer) \/ AcceptElsewhere(t) \/ PeerGone(peer) \/ Clear
            => busy' = Free
    BY DEF ReceiveOrphan, AcceptElsewhere, PeerGone, Clear
  <2>3. \A B : ConnectTip(B) \/ DisconnectTip => busy'.at \in {"connect", "disconnect"}
    BY DEF ConnectTip, DisconnectTip
  <2> QED BY <1>7, <2>1, <2>2, <2>3 DEF Tried, Free
<1>8. ASSUME RemoveForBlock \/ Resurrect \/ Bury PROVE Tried'
  <2>1. busy.at \in {"connect", "disconnect"} =>
            busy \in [at: {"connect", "disconnect"}, todo: Seq(Tx)]
    BY DEF RestOK, Busy, Free
  <2>2. busy'.at # "orphans"
    BY <1>8, <2>1 DEF RemoveForBlock, Resurrect, Bury, Rest, Free
  <2> QED BY <2>2 DEF Tried
<1> QED BY <1>1, <1>2, <1>3, <1>4, <1>5, <1>6, <1>7, <1>8 DEF Next

-----------------------------------------------------------------------------
\* The inputs that CTxMemPool::check asserts are there.
THEOREM InputsAreAvailable == Spec => []InputsAvailable
<1>1. IInv /\ CoinsInv => InputsAvailable
  BY DEF InputsAvailable, AtRest, CoinsInv, OnlyPending, HaveInputs, Pending, Txs
<1> QED BY <1>1, InitCoins, StepCoins, Invariance, PTL DEF Spec

\* removeCoinbaseSpends leaves nothing that is not mature.
THEOREM InputsAreMature == Spec => []InputsMature
<1>1. CoinsInv => InputsMature
  BY DEF InputsMature, AtRest, CoinsInv, Mature
<1> QED BY <1>1, InitCoins, StepCoins, Invariance, PTL DEF Spec

\* The loop over the orphans leaves none that it could have settled.
THEOREM OrphansAreTried == Spec => []OrphansTried
<1>1. Init => Tried
  BY DEF Init, Free, Tried
<1>2. IInv /\ Tried => OrphansTried
  <2> SUFFICES ASSUME RestOK, Tried, WorkDone,
                      NEW x \in DOMAIN orphans \ busy.erase, NEW j \in DOMAIN busy.work,
                      busy.work[j] \in Sources(x)
               PROVE  MissingInputs(x) \/ orphans[x] \in busy.misbehaving
    BY Parts DEF OrphansTried, Txs
  <2>1. busy \in Loops
    BY BusyShape DEF WorkDone
  <2>2. busy.work \in Seq(Tx) /\ busy.i \in Nat \ {0} /\ busy.i = Len(busy.work)
    BY <2>1 DEF Loops, WorkDone
  <2>3. j \in 1 .. busy.i /\ (busy.i + 1) .. Len(busy.work) = {}
    BY <2>2
  <2>4. x \notin busy.erase \cup busy.todo /\ busy.at = "orphans"
    BY DEF WorkDone
  <2> QED BY <2>3, <2>4 DEF Tried
<1> QED BY <1>1, <1>2, StepTried, Invariance, PTL DEF Spec
=============================================================================
