------------------------ MODULE ChainStateBestProofs ------------------------
(***************************************************************************)
(* What ChainState is for: the order of arrival breaks every tie, a mark   *)
(* on a block always has a cause, and no reorganisation, roll back or      *)
(* invalidation ever forgets the best chain.                               *)
(***************************************************************************)
EXTENDS ChainStateProofs

\* The numbers ReceivedBlockTransactions deals out are new and distinct.
LEMMA NumberingFacts ==
    ASSUME TypeOK, NEW S, Cardinality(S) \in Nat, NEW f \in Numberings(S)
    PROVE  /\ \A x \in S : f[x] \in Nat /\ nextSeq <= f[x] /\ f[x] < nextSeq + Cardinality(S)
           /\ \A x, y \in S : x # y => f[x] # f[y]
<1>1. nextSeq \in Nat
  BY DEF TypeOK
<1>2. f \in [S -> nextSeq .. nextSeq + Cardinality(S) - 1]
      /\ \A x, y \in S : x # y => f[x] # f[y]
  BY DEF Numberings
<1> QED BY <1>1, <1>2

LEMMA ReceiveArrival ==
    ASSUME IInv, ArrivalOrder, NEW t \in Threads, NEW b \in Blocks, AcceptBlock(t, b),
           ReceiveLinked(b)
    PROVE  ArrivalOrder'
<1>1. TypeOK /\ LinkedWhenComplete /\ tip \in chainTx /\ chainTx \subseteq Blocks
  BY DEF IInv, InTree, TypeOK
<1>2. /\ Linked(b) \subseteq Blocks
      /\ Linked(b) \cap chainTx = {}
      /\ Cardinality(Linked(b)) \in Nat
  BY <1>1, LinkedFacts DEF AcceptBlock, Locked, Offered, Storable, ReceiveLinked
<1>3. PICK f \in Numberings(Linked(b)) :
          seq' = [x \in Blocks |-> IF x \in Linked(b) THEN f[x] ELSE seq[x]]
  BY DEF ReceiveLinked
<1>4. chainTx' = chainTx \cup Linked(b) /\ nextSeq' = nextSeq + Cardinality(Linked(b))
  BY DEF ReceiveLinked
<1>5. /\ \A x \in Linked(b) : /\ f[x] \in Nat
                              /\ nextSeq <= f[x] /\ f[x] < nextSeq + Cardinality(Linked(b))
      /\ \A x, y \in Linked(b) : x # y => f[x] # f[y]
  BY <1>1, <1>2, NumberingFacts
<1>6. /\ nextSeq \in Nat /\ nextSeq > 0
      /\ \A x \in Blocks : seq[x] \in Nat
      /\ \A x \in chainTx : seq[x] > 0 /\ seq[x] < nextSeq
  BY <1>1 DEF TypeOK, ArrivalOrder
<1>7. \A x \in Linked(b) : seq'[x] = f[x]
  BY <1>2, <1>3
<1>8. \A x \in Blocks \ Linked(b) : seq'[x] = seq[x]
  BY <1>3
<1>9. \A x \in chainTx' : seq'[x] > 0 /\ seq'[x] < nextSeq'
  <2>1. ASSUME NEW x \in Linked(b) PROVE seq'[x] > 0 /\ seq'[x] < nextSeq'
    BY <1>4, <1>5, <1>6, <1>7
  <2>2. ASSUME NEW x \in chainTx PROVE seq'[x] > 0 /\ seq'[x] < nextSeq'
    BY <1>1, <1>2, <1>4, <1>6, <1>8
  <2> QED BY <1>4, <2>1, <2>2
<1>10. ASSUME NEW x \in chainTx', NEW y \in chainTx', x # y PROVE seq'[x] # seq'[y]
  <2>1. CASE x \in chainTx /\ y \in chainTx
    BY <1>1, <1>2, <1>8, <1>10, <2>1 DEF ArrivalOrder
  <2>2. CASE x \in Linked(b) /\ y \in Linked(b)
    BY <1>5, <1>7, <1>10, <2>2
  <2>3. ASSUME NEW u \in chainTx, NEW v \in Linked(b) PROVE seq'[u] # seq'[v]
    BY <1>1, <1>2, <1>5, <1>6, <1>7, <1>8
  <2> QED BY <1>4, <2>1, <2>2, <2>3
<1>11. \A x \in Blocks \ chainTx' : seq'[x] = 0
  BY <1>4, <1>8 DEF ArrivalOrder
<1> QED BY <1>9, <1>10, <1>11 DEF ArrivalOrder

LEMMA NextArrival == IInv /\ ArrivalOrder /\ [Next]_vars => ArrivalOrder'
<1> SUFFICES ASSUME IInv, ArrivalOrder, [Next]_vars PROVE ArrivalOrder'
  OBVIOUS
<1>1. CASE UNCHANGED <<chainTx, seq, nextSeq>>
  BY <1>1 DEF ArrivalOrder
<1> QED BY <1>1, NumbersStay, ReceiveArrival

\* Linked blocks have sequence numbers of their own, however many a block's
\* arrival links at once, and the counter is ahead of all of them, so that
\* CBlockIndexWorkComparator never falls back on addresses
\* (ReceivedBlockTransactions).
THEOREM ArrivalIsOrdered == Spec => []ArrivalOrder
<1>1. Init => ArrivalOrder
  BY TreeAssumption DEF Init, ArrivalOrder
<1> QED BY <1>1, NextArrival, Invariance, PTL DEF Spec

-----------------------------------------------------------------------------
\* Nobody calls reconsiderblock, and ReprocessBlocks finds no rejected block
\* or does not run.
NeverReconsiders ==
    /\ "reconsider" \notin Commands
    /\ Contextual = {} \/ "replay" \notin Commands

\* No checkpoint is marked failed, so AcceptBlock reconsiders none.
CheckpointsHold == Failed \cap Checkpoints = {}

\* The state that goes with it.
NothingToReplay ==
    \/ Contextual = {} /\ rejected = {}
    \/ "replay" \notin Commands /\ \A t \in Threads : pc[t] # "replay"

LEMMA NextNothingToReplay == IInv /\ NothingToReplay /\ [Next]_vars => NothingToReplay'
<1> SUFFICES ASSUME IInv, NothingToReplay, [Next]_vars PROVE NothingToReplay'
  OBVIOUS
<1>1. CASE Contextual = {} /\ rejected = {}
  <2>1. ASSUME NEW t \in Threads, NEW b \in Blocks, ProcessNewBlock(t, b) PROVE rejected' = {}
    BY <1>1, <2>1 DEF ProcessNewBlock, CheckRejects, AcceptDuplicate, AcceptFailing,
                      AcceptUnwritten, AcceptBlock, AcceptOnCheckpoint, chainVars
  <2>2. ASSUME NEW t \in Threads, OperatorCommand(t) PROVE rejected' = {}
    BY <1>1, <2>2 DEF OperatorCommand, InvalidateBlock, InvalidateError, InvalidateGenesis,
                      ReconsiderRPC, ReplayStart, chainVars
  <2>3. ASSUME NEW t \in Threads, ActivateBestChain(t) PROVE rejected' = {}
    <3>1. CASE ActivateBestChainStep(t)
      BY <1>1, <3>1 DEF ActivateBestChainStep, StepDone, StepInvalid, StepDamaged
    <3> QED BY <1>1, <2>3, <3>1 DEF ActivateBestChain, NothingToDo, StepError, StepAsserts,
                                    LoopTest, FinishActivate, chainVars
  <2>4. ASSUME NEW t \in Threads, Replay(t) PROVE rejected' = {}
    BY <1>1, <2>4 DEF Replay, ReplayReconsider, ReplayDisconnect, ReplayError,
                      DisconnectAsserts, chainVars
  <2>5. ASSUME UNCHANGED vars PROVE rejected' = {}
    BY <1>1, <2>5 DEF vars, chainVars
  <2>6. rejected' = {}
    BY <2>1, <2>2, <2>3, <2>4, <2>5 DEF Next, Quiet
  <2> QED BY <1>1, <2>6 DEF NothingToReplay
<1>2. CASE "replay" \notin Commands /\ \A t \in Threads : pc[t] # "replay"
  <2>1. DOMAIN pc = Threads
    BY DEF IInv, TypeOK
  <2>2. ASSUME NEW t \in Threads, NEW l, l # "replay", pc' = [pc EXCEPT ![t] = l]
        PROVE  \A u \in Threads : pc'[u] # "replay"
    BY <1>2, <2>1, <2>2
  <2>3. ASSUME NEW t \in Threads, NEW b \in Blocks, ProcessNewBlock(t, b)
        PROVE  \A u \in Threads : pc'[u] # "replay"
    BY <1>2, <2>2, <2>3 DEF ProcessNewBlock, CheckRejects, AcceptDuplicate, AcceptFailing,
                      AcceptUnwritten, AcceptBlock, AcceptOnCheckpoint, threadVars, Goto
  <2>4. ASSUME NEW t \in Threads, OperatorCommand(t)
        PROVE  \A u \in Threads : pc'[u] # "replay"
    <3>1. ~ReplayStart(t)
      BY <1>2 DEF ReplayStart, Command
    <3> QED BY <2>2, <2>4, <3>1 DEF OperatorCommand, InvalidateBlock, InvalidateError,
                      InvalidateGenesis, ReconsiderRPC, Goto
  <2>5. ASSUME NEW t \in Threads, ActivateBestChain(t)
        PROVE  \A u \in Threads : pc'[u] # "replay"
    BY <1>2, <2>2, <2>5 DEF ActivateBestChain, NothingToDo, ActivateBestChainStep, StepError,
                      StepAsserts, LoopTest, FinishActivate, threadVars, Goto
  <2>6. ASSUME NEW t \in Threads, Replay(t) PROVE \A u \in Threads : pc'[u] # "replay"
    BY <1>2, <2>2, <2>6 DEF Replay, ReplayReconsider, ReplayDisconnect, ReplayError,
                      DisconnectAsserts, threadVars, Goto
  <2>7. ASSUME UNCHANGED vars PROVE \A u \in Threads : pc'[u] # "replay"
    BY <1>2, <2>7 DEF vars, threadVars
  <2>8. \A u \in Threads : pc'[u] # "replay"
    BY <2>3, <2>4, <2>5, <2>6, <2>7 DEF Next, Quiet
  <2> QED BY <1>2, <2>8 DEF NothingToReplay
<1> QED BY <1>1, <1>2 DEF NothingToReplay

\* A mark has a cause when marks are only added, and the new ones are causes
\* or lie above one.
LEMMA CauseStep ==
    ASSUME IInv, IInv', FailureHasCause, failedValid \subseteq failedValid',
           \A y \in failedChild' \ failedChild : Anc[y] \cap failedValid' # {}
    PROVE  FailureHasCause'
<1> SUFFICES ASSUME NEW y \in Failed' PROVE Anc[y] \cap failedValid' # {}
  BY DEF FailureHasCause
<1>1. CASE y \in failedValid'
  BY <1>1, Tree DEF IInv, TypeOK
<1>2. CASE y \in failedChild
  BY <1>2 DEF FailureHasCause, Failed
<1> QED BY <1>1, <1>2 DEF Failed

\* What a search for the most work marks lies above a cause.
LEMMA DiscardedHasCause ==
    ASSUME IInv, FailureHasCause, NEW y \in Discarded
    PROVE  Anc[y] \cap failedValid # {}
<1>1. PICK f \in Failed : f \in Anc[y]
  BY DiscardedFailed
<1>2. Anc[f] \subseteq Anc[y]
  BY <1>1, DiscardedFailed, Tree, TreeAssumption
<1> QED BY <1>1, <1>2 DEF FailureHasCause

LEMMA NextCause ==
    ASSUME NeverReconsiders, CheckpointsHold, IInv, IInv', NothingToReplay,
           FailureHasCause, [Next]_vars
    PROVE  FailureHasCause'
<1>1. ASSUME NEW t \in Threads, NEW b \in Blocks, ProcessNewBlock(t, b) PROVE FailureHasCause'
  <2>1. ~AcceptOnCheckpoint(t, b)
    BY DEF CheckpointsHold, AcceptOnCheckpoint
  <2>2. failedValid \subseteq failedValid' /\ failedChild' = failedChild
    BY <1>1, <2>1 DEF ProcessNewBlock, CheckRejects, AcceptDuplicate, AcceptFailing,
                      AcceptUnwritten, AcceptBlock, indexVars
  <2> QED BY <2>2, CauseStep
<1>2. ASSUME NEW t \in Threads, OperatorCommand(t) PROVE FailureHasCause'
  <2>1. ASSUME NEW b \in Blocks, InvalidateBlock(t, b) PROVE FailureHasCause'
    BY <2>1, CauseStep DEF InvalidateBlock, Above
  <2>2. ASSUME NEW b \in Blocks, InvalidateError(t, b) PROVE FailureHasCause'
    <3>1. PICK x \in Above(b) : failedChild' = failedChild \cup Above(x)
      BY <2>2 DEF InvalidateError
    <3>2. \A y \in Above(x) : b \in Anc[y]
      BY ActiveLinked, TreeAssumption DEF Above
    <3>3. failedValid' = failedValid \cup {b}
      BY <2>2 DEF InvalidateError
    <3> QED BY <3>1, <3>2, <3>3, CauseStep
  <2>3. CASE InvalidateGenesis(t)
    <3>1. \A y \in Anc[tip] : Genesis \in Anc[y]
      BY ActiveLinked, TreeAssumption
    <3> QED BY <2>3, <3>1, CauseStep DEF InvalidateGenesis
  <2>4. CASE ReplayStart(t)
    BY <2>4, CauseStep DEF ReplayStart, indexVars
  <2>5. \A b \in Blocks : ~ReconsiderRPC(t, b)
    BY DEF NeverReconsiders, ReconsiderRPC, Command
  <2> QED BY <1>2, <2>1, <2>2, <2>3, <2>4, <2>5 DEF OperatorCommand
<1>3. ASSUME NEW t \in Threads, ActivateBestChain(t) PROVE FailureHasCause'
  <2>1. CASE NothingToDo(t) \/ StepError(t)
    <3>1. failedValid' = failedValid /\ failedChild' = failedChild \cup (Discarded \ Failed)
      BY <2>1 DEF NothingToDo, Discard, StepError
    <3> QED BY <3>1, DiscardedHasCause, CauseStep
  <2>2. CASE ActivateBestChainStep(t)
    <3>1. failedValid \subseteq failedValid'
      BY <2>2 DEF ActivateBestChainStep, StepDone, StepInvalid, StepDamaged
    <3>2. failedChild' = failedChild \cup (Discarded \ Failed)
      BY <2>2 DEF ActivateBestChainStep
    <3>3. \A y \in Discarded : Anc[y] \cap failedValid' # {}
      BY <3>1, DiscardedHasCause
    <3> QED BY <3>1, <3>2, <3>3, CauseStep
  <2>3. CASE StepAsserts(t) \/ LoopTest(t) \/ FinishActivate(t)
    BY <2>3, CauseStep DEF StepAsserts, LoopTest, FinishActivate, indexVars
  <2> QED BY <1>3, <2>1, <2>2, <2>3 DEF ActivateBestChain
<1>4. ASSUME NEW t \in Threads, Replay(t) PROVE FailureHasCause'
  <2>1. \A b \in Blocks : ~ReplayReconsider(t, b)
    BY DEF ReplayReconsider, NothingToReplay
  <2>2. UNCHANGED <<failedValid, failedChild>>
    BY <1>4, <2>1 DEF Replay, ReplayDisconnect, ReplayError, DisconnectAsserts, indexVars
  <2> QED BY <2>2, CauseStep
<1>5. CASE UNCHANGED vars
  BY <1>5, CauseStep DEF vars, indexVars
<1> QED BY <1>1, <1>2, <1>3, <1>4, <1>5 DEF Next, Quiet

LEMMA ReplayInvariance == NeverReconsiders => (Spec => []NothingToReplay)
<1> SUFFICES ASSUME NeverReconsiders PROVE Spec => []NothingToReplay
  OBVIOUS
<1>1. Init => NothingToReplay
  BY DEF Init, NothingToReplay, NeverReconsiders
<1> QED BY <1>1, NextNothingToReplay, Invariance, PTL DEF Spec

\* As long as nothing is reconsidered, no block is marked failed that has no
\* block found invalid at or below it: not by FindMostWorkChain when it gives
\* up a candidate, not by InvalidateBlock, whole or cut short by an error.
THEOREM FailuresHaveCauses ==
    NeverReconsiders => (Spec /\ []CheckpointsHold => []FailureHasCause)
<1> SUFFICES ASSUME NeverReconsiders PROVE Spec /\ []CheckpointsHold => []FailureHasCause
  OBVIOUS
<1>1. Init => FailureHasCause
  BY DEF Init, FailureHasCause, Failed
<1>2. CheckpointsHold /\ IInv /\ IInv' /\ NothingToReplay /\ FailureHasCause /\ [Next]_vars
          => FailureHasCause'
  BY NextCause
<1> QED BY <1>1, <1>2, ReplayInvariance, Invariance, PTL DEF Spec

-----------------------------------------------------------------------------
\* The node the rest is about: no verdict depends on anything but the block,
\* no read or write fails while the tip moves, and neither reconsiderblock
\* nor an invalidateblock on the genesis block is called.  Blocks may still be
\* bad or damaged, invalidated and rolled back, and their data fail to be
\* written.
Steady ==
    /\ NeverReconsiders
    /\ Contextual = {}
    /\ "step" \notin Faults
    /\ "genesis" \notin Commands

\* No block found invalid at or below b, and ConnectBlock rejects none of them.
Valid(b) == Anc[b] \cap failedValid = {}
Sound(b) == Anc[b] \cap (failedValid \cup Bad) = {}

\* What ConnectBlock rejects is never connected.
TipSound == Anc[tip] \cap Bad = {}

\* A valid block that is not a candidate sorts below a candidate that no step
\* can turn down.  It is this, and not that the best block is a candidate,
\* that pruning for a tip half way up a chain preserves: the chain may end
\* there, and the best block itself may turn out bad.
Covered ==
    \A b \in chainTx : Valid(b) /\ b \notin candidates =>
        \E c \in candidates : Sound(c) /\ Worse(b, c)

\* No thread has anything left to activate.
Settled ==
    \A t \in Threads : \/ pc[t] \in {"idle", "check"}
                       \/ pc[t] = "loop" /\ mostWork[t] = tip

\* The tip is then the best valid candidate.
SettledOnBest ==
    Settled => /\ tip \in candidates
               /\ \A c \in candidates : Valid(c) => ~Worse(tip, c)

\* What holds of every state of a steady node, and is inductive with IInv.
Marks == IInv /\ ActiveChainValid /\ FailureHasCause
BestInv == TipSound /\ Covered /\ SettledOnBest

\* The comparator is a strict order, up to blocks with equal keys.
LEMMA Transitive ==
    ASSUME TypeOK, NEW a \in Blocks, NEW b \in Blocks, NEW c \in Blocks, Worse(a, b)
    PROVE  ~Worse(c, b) => Worse(a, c)
<1>1. /\ Work[a] \in Nat /\ Work[b] \in Nat /\ Work[c] \in Nat
      /\ seq[a] \in Nat /\ seq[b] \in Nat /\ seq[c] \in Nat
      /\ Addr[a] \in Nat /\ Addr[b] \in Nat /\ Addr[c] \in Nat
  BY TreeAssumption DEF TypeOK
<1> QED BY <1>1 DEF Worse, WorseIn

\* With marks that have causes, a block is usable exactly when it is valid.
LEMMA UsableIsValid ==
    Marks => \A b \in Blocks : /\ Usable(b) <=> Valid(b)
                               /\ Valid(b) => Anc[b] \cap Failed = {}
<1> SUFFICES ASSUME Marks, NEW b \in Blocks
             PROVE  /\ Usable(b) <=> Valid(b)
                    /\ Valid(b) => Anc[b] \cap Failed = {}
  OBVIOUS
<1>1. Usable(b) => Anc[b] \cap Failed = {}
  BY DEF Usable, Path, Marks, ActiveChainValid
<1>2. ASSUME Valid(b), NEW f \in Anc[b], f \in Failed PROVE FALSE
  <2>1. Anc[f] \subseteq Anc[b]
    BY <1>2, Tree, TreeAssumption
  <2>2. Anc[f] \cap failedValid # {}
    BY <1>2 DEF Marks, FailureHasCause
  <2> QED BY <1>2, <2>1, <2>2 DEF Valid
<1> QED BY <1>1, <1>2 DEF Usable, Path, Valid, Failed

\* A search for the most work gives up no valid block.
LEMMA ValidStays ==
    ASSUME Marks, NEW b \in Blocks, Valid(b)
    PROVE  b \notin Discarded
<1>1. Anc[b] \cap Failed = {}
  BY UsableIsValid
<1> QED BY <1>1, DiscardedFailed DEF Marks

\* The active chain is sound, and with it what a step connects.
LEMMA TipIsSound ==
    ASSUME Marks, TipSound
    PROVE  /\ Sound(tip) /\ Valid(tip)
           /\ tip \in chainTx /\ tip \in Blocks
<1>1. Valid(tip)
  BY DEF Marks, ActiveChainValid, Failed, Valid
<1> QED BY <1>1 DEF Sound, Valid, TipSound, Marks, IInv, InTree, TypeOK

\* Where a step towards m leaves the chain.
LEMMA ReachedIsSound ==
    ASSUME Marks, TipSound, NEW m \in candidates, Usable(m), NEW x \in Anc[m], Reaches(m, x)
    PROVE  /\ m \in Blocks /\ m \in chainTx /\ x \in Blocks /\ x \in chainTx
           /\ Valid(m) /\ Sound(x) /\ Anc[x] \cap Bad = {}
<1>1. m \in Blocks /\ m \in chainTx /\ x \in Blocks /\ x \in chainTx
  BY ReachesLinked DEF Marks
<1>2. Valid(m)
  BY <1>1, UsableIsValid
<1>3. Anc[x] \subseteq Anc[m]
  BY <1>1, TreeAssumption
<1>4. Anc[x] \cap Bad = {}
  BY DEF Reaches, Path, TipSound
<1> QED BY <1>1, <1>2, <1>3, <1>4 DEF Valid, Sound

-----------------------------------------------------------------------------
\* What is left of the candidates, pruned for a sound block or not pruned,
\* still covers every valid block.
LEMMA PruningCovers ==
    ASSUME Marks, Covered, NEW x \in chainTx, Sound(x),
           NEW T, T \in {candidates \ Discarded, Pruned(candidates \ Discarded, x)},
           NEW b \in chainTx, Valid(b), b \notin T
    PROVE  \E c \in T : Sound(c) /\ Worse(b, c)
<1>1. TypeOK /\ chainTx \subseteq Blocks /\ candidates \subseteq chainTx
  BY DEF Marks, IInv, TypeOK, InTree
<1>2. \A c \in candidates : Sound(c) => c \in candidates \ Discarded
  BY <1>1, ValidStays DEF Sound, Valid
<1>3. b \notin Discarded
  BY <1>1, ValidStays
<1>4. CASE T = candidates \ Discarded
  BY <1>2, <1>3, <1>4 DEF Covered
<1>5. CASE T = Pruned(candidates \ Discarded, x)
  <2>1. \A c : c \in T <=> c \in candidates \ Discarded /\ ~Worse(c, x)
    BY <1>5 DEF Pruned
  <2>2. PICK w \in T : Sound(w) /\ (w = x \/ Worse(x, w))
    <3>1. CASE x \in candidates
      <4>1. ~Worse(x, x)
        BY <1>1, Order
      <4> QED BY <1>2, <2>1, <3>1, <4>1
    <3>2. CASE x \notin candidates
      <4>1. PICK c \in candidates : Sound(c) /\ Worse(x, c)
        BY <3>2 DEF Covered, Sound, Valid
      <4>2. ~Worse(c, x)
        BY <1>1, <4>1, Order
      <4> QED BY <1>2, <2>1, <4>1, <4>2
    <3> QED BY <3>1, <3>2
  <2>3. w \in Blocks /\ ~Worse(w, x)
    BY <1>1, <2>1, <2>2
  <2>4. Worse(b, x) => Worse(b, w)
    BY <1>1, <2>3, Transitive
  <2>5. CASE b \in candidates
    BY <1>3, <2>1, <2>2, <2>4, <2>5
  <2>6. CASE b \notin candidates
    <3>1. PICK c \in candidates : Sound(c) /\ Worse(b, c)
      BY <2>6 DEF Covered
    <3>2. CASE c \in T
      BY <3>1, <3>2
    <3>3. CASE c \notin T
      <4>1. Worse(c, x)
        BY <1>2, <2>1, <3>1, <3>3
      <4>2. ~Worse(x, c)
        BY <1>1, <4>1, Order
      <4>3. Worse(b, x)
        BY <1>1, <3>1, <4>2, Transitive
      <4> QED BY <2>2, <2>4, <4>3
    <3> QED BY <3>2, <3>3
  <2> QED BY <2>5, <2>6
<1> QED BY <1>4, <1>5

\* The candidates cover every valid block after a step of ActivateBestChain,
\* whether it ends at the block it aimed at, at a better tip on the way, at a
\* bad block or at a damaged one.
LEMMA ActivateCovers ==
    ASSUME Steady, Marks, TipSound, Covered, NEW t \in Threads, ActivateBestChainStep(t)
    PROVE  Covered'
<1>0. PICK m \in candidates \ {tip} :
          /\ IsMostWork(m)
          /\ \E x \in Anc[m] :
                 /\ StepDone(m, x) \/ StepInvalid(m, x) \/ StepDamaged(m, x)
                 /\ tip' = x
  BY DEF ActivateBestChainStep
<1>1. PICK x \in Anc[m] :
          /\ StepDone(m, x) \/ StepInvalid(m, x) \/ StepDamaged(m, x)
          /\ tip' = x
  BY <1>0
<1>2. x \in chainTx /\ Sound(x) /\ m \in Blocks
  BY <1>0, <1>1, ReachedIsSound DEF StepDone, StepInvalid, StepDamaged, IsMostWork
<1>3. UNCHANGED <<chainTx, seq>> /\ chainTx \subseteq Blocks
  BY DEF ActivateBestChainStep, Marks, IInv, TypeOK
<1>4. \A a, b : Worse(a, b)' <=> Worse(a, b)
  BY <1>3 DEF Worse, WorseIn
<1>5. PICK T \in {candidates \ Discarded, Pruned(candidates \ Discarded, x)} :
          \/ failedValid' = failedValid /\ candidates' = T
          \/ \E r \in Bad : failedValid' = failedValid \cup {r} /\ candidates' = T \ {r}
  <2>1. CASE StepDone(m, x) \/ StepDamaged(m, x)
    BY <2>1 DEF StepDone, StepDamaged, PrunedAfter
  <2>2. CASE StepInvalid(m, x)
    BY <2>2 DEF StepInvalid, PrunedAfter, Steady
  <2> QED BY <1>1, <2>1, <2>2
<1>6. ASSUME NEW b \in chainTx, Valid(b), b \notin T PROVE \E c \in T : Sound(c) /\ Worse(b, c)
  BY <1>2, <1>6, PruningCovers
<1>7. CASE failedValid' = failedValid /\ candidates' = T
  BY <1>3, <1>4, <1>6, <1>7 DEF Covered, Valid, Sound
<1>8. ASSUME NEW r \in Bad, failedValid' = failedValid \cup {r}, candidates' = T \ {r}
      PROVE  Covered'
  <2>1. ASSUME NEW b \in chainTx, Valid(b)', b \notin candidates'
        PROVE  \E c \in candidates' : Sound(c)' /\ Worse(b, c)'
    <3>1. Valid(b) /\ r \notin Anc[b]
      BY <1>8, <2>1 DEF Valid
    <3>2. b # r /\ b \notin T
      BY <1>3, <1>8, <2>1, <3>1, Tree
    <3>3. PICK c \in T : Sound(c) /\ Worse(b, c)
      BY <1>6, <3>1, <3>2
    <3>4. c \in Blocks /\ r \notin Anc[c]
      BY <3>3 DEF Sound, Marks, IInv, TypeOK, Pruned
    <3>5. c # r /\ Sound(c)'
      BY <1>8, <3>3, <3>4, Tree DEF Sound
    <3> QED BY <1>4, <1>8, <3>3, <3>5
  <2> QED BY <1>3, <2>1 DEF Covered
<1> QED BY <1>5, <1>7, <1>8

\* InvalidateBlock fills the candidates up for the tip it leaves.
LEMMA InvalidateCovers ==
    ASSUME Marks, Marks', TipSound, NEW t \in Threads, NEW b \in Blocks, InvalidateBlock(t, b)
    PROVE  Covered' /\ TipSound'
<1>1. /\ UNCHANGED <<chainTx, haveData, seq>> /\ chainTx \subseteq haveData
      /\ chainTx \subseteq Blocks /\ tip \in Blocks /\ b \in Blocks \ {Genesis}
  BY DEF InvalidateBlock, Marks, IInv, TypeOK
<1>2. tip' \in chainTx /\ tip' \in Blocks
  BY <1>1 DEF Marks, IInv, InTree
<1>3. Anc[tip'] \subseteq Anc[tip]
  <2>1. CASE b \in Anc[tip]
    <3>1. Parent[b] \in Anc[b] /\ Anc[b] \subseteq Anc[tip] /\ Parent[b] \in Blocks
      BY <1>1, <2>1, Tree, TreeAssumption
    <3>2. Anc[Parent[b]] \subseteq Anc[tip]
      BY <1>1, <3>1, TreeAssumption
    <3> QED BY <2>1, <3>2 DEF InvalidateBlock
  <2>2. CASE b \notin Anc[tip]
    BY <2>2 DEF InvalidateBlock
  <2> QED BY <2>1, <2>2
<1>4. TipSound'
  BY <1>3 DEF TipSound
<1>5. \A a, c : Worse(a, c)' <=> Worse(a, c)
  BY <1>1 DEF Worse, WorseIn
<1>6. \A x \in chainTx : x \notin Failed' /\ ~Worse(x, tip') => x \in candidates'
  BY <1>1 DEF InvalidateBlock, Refill, Failed
<1>7. Sound(tip)' /\ Valid(tip)'
  BY <1>4, TipIsSound, PTL
<1>8. \A x \in chainTx : Valid(x)' => x \notin Failed'
  BY DEF Marks, FailureHasCause, Valid
<1>9. tip' \in candidates'
  <2>1. ~Worse(tip', tip')
    BY <1>2, Order DEF Marks, IInv
  <2> QED BY <1>2, <1>6, <1>7, <1>8, <2>1
<1> QED BY <1>1, <1>4, <1>5, <1>6, <1>7, <1>8, <1>9 DEF Covered

\* A step that leaves the candidates alone, and marks no block with data.
LEMMA SameCovers ==
    ASSUME IInv, Covered, UNCHANGED <<chainTx, seq, candidates>>,
           failedValid \subseteq failedValid', (failedValid' \ failedValid) \cap haveData = {}
    PROVE  Covered'
<1>1. \A a, b : Worse(a, b)' <=> Worse(a, b)
  BY DEF Worse, WorseIn
<1>2. candidates \subseteq chainTx
  BY DEF IInv, InTree
<1>3. \A c \in chainTx : Anc[c] \subseteq haveData
  BY DEF IInv, LinkedWhenComplete
<1>4. \A c \in candidates : Sound(c) => Sound(c)'
  BY <1>2, <1>3 DEF Sound
<1>5. \A b \in chainTx : Valid(b)' => Valid(b)
  BY DEF Valid
<1> QED BY <1>1, <1>4, <1>5 DEF Covered

\* A newly linked block that is no candidate is worse than the tip, which is
\* covered or a candidate itself.
LEMMA ReceiveCovers ==
    ASSUME Marks, IInv', TipSound, Covered, NEW t \in Threads, NEW b \in Blocks,
           AcceptBlock(t, b), ReceiveLinked(b)
    PROVE  Covered'
<1>1. /\ UNCHANGED <<failedValid, tip>> /\ candidates \subseteq candidates'
      /\ chainTx' = chainTx \cup Linked(b)
      /\ \A x \in Linked(b) : x \notin candidates' => WorseIn(seq', x, tip)
  BY DEF AcceptBlock, ReceiveLinked
<1>2. candidates \subseteq chainTx /\ tip \in chainTx /\ chainTx' \subseteq Blocks
  BY DEF Marks, IInv, InTree, TypeOK
<1>3. [Next]_vars
  BY DEF Next, ProcessNewBlock
<1>4. \A x, y \in chainTx : WorseIn(seq', x, y) <=> WorseIn(seq, x, y)
  BY <1>3, NextOrder DEF WorseIn, Marks
<1>5. \A c \in candidates : Sound(c)' <=> Sound(c)
  BY <1>1 DEF Sound
<1>6. ASSUME NEW x \in chainTx, Valid(x)', x \notin candidates'
      PROVE  \E c \in candidates : Sound(c) /\ WorseIn(seq', x, c)
  BY <1>1, <1>2, <1>4, <1>6 DEF Covered, Valid, Worse
<1>7. \E w \in candidates : Sound(w) /\ ~WorseIn(seq', w, tip)
  <2>1. CASE tip \in candidates
    <3>1. ~Worse(tip, tip)
      BY <1>1, <1>2, Order DEF Marks, IInv
    <3> QED BY <1>2, <1>4, <2>1, <3>1, TipIsSound DEF Worse
  <2>2. CASE tip \notin candidates
    <3>1. PICK w \in candidates : Sound(w) /\ Worse(tip, w)
      BY <2>2, TipIsSound DEF Covered
    <3>2. ~Worse(w, tip)
      BY <1>1, <1>2, <3>1, Order DEF Marks, IInv
    <3> QED BY <1>2, <1>4, <3>1, <3>2 DEF Worse
  <2> QED BY <2>1, <2>2
<1>8. ASSUME NEW x \in Linked(b), x \notin candidates'
      PROVE  \E c \in candidates : Sound(c) /\ WorseIn(seq', x, c)
  <2>1. PICK w \in candidates : Sound(w) /\ ~WorseIn(seq', w, tip)
    BY <1>7
  <2>2. /\ x \in Blocks /\ tip \in Blocks /\ w \in Blocks
        /\ seq'[x] \in Nat /\ seq'[tip] \in Nat /\ seq'[w] \in Nat
        /\ Work[x] \in Nat /\ Work[tip] \in Nat /\ Work[w] \in Nat
        /\ Addr[x] \in Nat /\ Addr[tip] \in Nat /\ Addr[w] \in Nat
    BY <1>1, <1>2, TreeAssumption DEF IInv, TypeOK
  <2>3. WorseIn(seq', x, tip)
    BY <1>1, <1>8
  <2>4. WorseIn(seq', x, w)
    BY <2>1, <2>2, <2>3 DEF WorseIn
  <2> QED BY <2>1, <2>4
<1> QED BY <1>1, <1>5, <1>6, <1>8 DEF Covered, Worse

LEMMA NextCovers ==
    ASSUME Steady, CheckpointsHold, Marks, Marks', NothingToReplay, TipSound, Covered,
           [Next]_vars
    PROVE  Covered' /\ TipSound'
<1>1. IInv /\ IInv'
  BY DEF Marks
<1>2. tip \in Blocks /\ tip \in Anc[tip]
  BY <1>1, Tree DEF IInv, TypeOK
<1>3. ASSUME NEW t \in Threads, NEW b \in Blocks, ProcessNewBlock(t, b)
      PROVE  Covered' /\ TipSound'
  <2>1. ~AcceptOnCheckpoint(t, b)
    BY DEF CheckpointsHold, AcceptOnCheckpoint
  <2>2. tip' = tip
    BY <1>3, <2>1 DEF ProcessNewBlock, CheckRejects, AcceptDuplicate, AcceptFailing,
                      AcceptUnwritten, AcceptBlock, chainVars
  <2>3. CASE AcceptBlock(t, b) /\ ReceiveLinked(b)
    BY <1>1, <2>2, <2>3, ReceiveCovers DEF TipSound
  <2>4. CASE ~(AcceptBlock(t, b) /\ ReceiveLinked(b))
    <3>1. UNCHANGED <<chainTx, seq, candidates>>
      BY <1>3, <2>1, <2>4 DEF ProcessNewBlock, CheckRejects, AcceptDuplicate, AcceptFailing,
                      AcceptUnwritten, AcceptBlock, ReceiveUnlinked, indexVars, chainVars
    <3>2. failedValid' = failedValid \/ (b \notin haveData /\ failedValid' = failedValid \cup {b})
      BY <1>3, <2>1 DEF ProcessNewBlock, CheckRejects, AcceptDuplicate, AcceptFailing,
                      AcceptUnwritten, AcceptBlock, Storable, indexVars
    <3> QED BY <1>1, <2>2, <3>1, <3>2, SameCovers DEF TipSound
  <2> QED BY <2>3, <2>4
<1>4. ASSUME NEW t \in Threads, OperatorCommand(t) PROVE Covered' /\ TipSound'
  <2>1. ASSUME NEW b \in Blocks, InvalidateBlock(t, b) PROVE Covered' /\ TipSound'
    BY <2>1, InvalidateCovers
  <2>2. CASE ReplayStart(t)
    <3>1. UNCHANGED <<chainTx, seq, candidates, failedValid, tip>>
      BY <2>2 DEF ReplayStart, indexVars, chainVars
    <3> QED BY <1>1, <3>1, SameCovers DEF TipSound
  <2>3. /\ ~InvalidateGenesis(t)
        /\ \A b \in Blocks : ~InvalidateError(t, b) /\ ~ReconsiderRPC(t, b)
    BY DEF Steady, NeverReconsiders, InvalidateGenesis, InvalidateError, ReconsiderRPC, Command
  <2> QED BY <1>4, <2>1, <2>2, <2>3 DEF OperatorCommand
<1>5. ASSUME NEW t \in Threads, ActivateBestChain(t) PROVE Covered' /\ TipSound'
  <2>1. CASE ActivateBestChainStep(t)
    <3>1. PICK m \in candidates \ {tip} :
              /\ IsMostWork(m)
              /\ \E x \in Anc[m] : Reaches(m, x) /\ tip' = x
      BY <2>1 DEF ActivateBestChainStep, StepDone, StepInvalid, StepDamaged
    <3>2. TipSound'
      BY <3>1, ReachedIsSound DEF IsMostWork, TipSound
    <3> QED BY <2>1, <3>2, ActivateCovers
  <2>2. CASE NothingToDo(t)
    <3>1. /\ UNCHANGED <<chainTx, seq, failedValid, tip>>
          /\ candidates' = candidates \ Discarded
      BY <2>2 DEF NothingToDo, Discard
    <3>2. \A a, b : Worse(a, b)' <=> Worse(a, b)
      BY <3>1 DEF Worse, WorseIn
    <3>3. \A b \in chainTx : Valid(b) /\ b \notin candidates' =>
              \E c \in candidates' : Sound(c) /\ Worse(b, c)
      BY <3>1, TipIsSound, PruningCovers
    <3> QED BY <3>1, <3>2, <3>3 DEF Covered, Valid, Sound, TipSound
  <2>3. CASE StepAsserts(t) \/ LoopTest(t) \/ FinishActivate(t)
    <3>1. UNCHANGED <<chainTx, seq, candidates, failedValid, tip>>
      BY <2>3 DEF StepAsserts, LoopTest, FinishActivate, indexVars, chainVars
    <3> QED BY <1>1, <3>1, SameCovers DEF TipSound
  <2>4. ~StepError(t)
    BY DEF Steady, StepError
  <2> QED BY <1>5, <2>1, <2>2, <2>3, <2>4 DEF ActivateBestChain
<1>6. ASSUME NEW t \in Threads, Replay(t) PROVE Covered' /\ TipSound'
  <2>1. \A b \in Blocks : ~ReplayReconsider(t, b)
    BY DEF ReplayReconsider, NothingToReplay
  <2>2. UNCHANGED <<chainTx, seq, candidates, failedValid>> /\ tip' \in Anc[tip]
    <3>1. ~ReplayError(t)
      BY DEF Steady, ReplayError
    <3> QED BY <1>2, <1>6, <2>1, <3>1 DEF Replay, ReplayDisconnect, DisconnectAsserts,
                                          indexVars, chainVars
  <2>3. Anc[tip'] \subseteq Anc[tip]
    BY <1>2, <2>2, Tree, TreeAssumption
  <2> QED BY <1>1, <2>2, <2>3, SameCovers DEF TipSound
<1>7. CASE UNCHANGED vars
  <2>1. UNCHANGED <<chainTx, seq, candidates, failedValid, tip>>
    BY <1>7 DEF vars, indexVars, chainVars
  <2> QED BY <1>1, <2>1, SameCovers DEF TipSound
<1> QED BY <1>3, <1>4, <1>5, <1>6, <1>7 DEF Next, Quiet

-----------------------------------------------------------------------------
\* A thread that is about to search for the best chain, or to roll back,
\* leaves something to do.
LEMMA Unsettled ==
    ASSUME IInv, NEW t \in Threads, NEW l \in {"abc", "replay"}, pc' = [pc EXCEPT ![t] = l]
    PROVE  SettledOnBest'
<1>1. pc'[t] \in {"abc", "replay"}
  BY DEF IInv, TypeOK
<1> QED BY <1>1 DEF SettledOnBest, Settled

\* A settled node that keeps its tip, its candidates and their order was
\* settled on the best of them.
LEMMA SettledStays ==
    ASSUME SettledOnBest, UNCHANGED <<tip, candidates, seq>>, failedValid \subseteq failedValid',
           Settled' => Settled
    PROVE  SettledOnBest'
BY DEF SettledOnBest, Valid, Worse, WorseIn

\* Only a step that reaches the block it aims at can settle the node.
LEMMA ActivateSettles ==
    ASSUME Marks, TipSound, NEW t \in Threads, ActivateBestChainStep(t)
    PROVE  SettledOnBest'
<1>0. PICK m \in candidates \ {tip} :
          /\ IsMostWork(m)
          /\ \E x \in Anc[m] :
                 /\ StepDone(m, x) \/ StepInvalid(m, x) \/ StepDamaged(m, x)
                 /\ tip' = x
          /\ mostWork' = [mostWork EXCEPT ![t] = m]
  BY DEF ActivateBestChainStep
<1>1. PICK x \in Anc[m] :
          /\ StepDone(m, x) \/ StepInvalid(m, x) \/ StepDamaged(m, x)
          /\ tip' = x
  BY <1>0
<1>2. pc'[t] = "loop" /\ mostWork'[t] = m
  BY <1>0 DEF ActivateBestChainStep, Goto, Marks, IInv, TypeOK
<1>3. SUFFICES ASSUME x = m PROVE SettledOnBest'
  BY <1>1, <1>2 DEF SettledOnBest, Settled
<1>4. StepDone(m, m)
  BY <1>1, <1>3 DEF StepInvalid, StepDamaged
<1>5. /\ failedValid' = failedValid /\ seq' = seq /\ tip' = m
      /\ candidates' = Pruned(candidates \ Discarded, m)
  BY <1>1, <1>3, <1>4 DEF StepDone, ActivateBestChainStep
<1>6. m \in Blocks /\ Valid(m)
  BY <1>0, <1>1, <1>3, <1>4, ReachedIsSound DEF StepDone, IsMostWork
<1>7. m \in candidates'
  <2>1. ~Worse(m, m)
    BY <1>6, Order DEF Marks, IInv
  <2> QED BY <1>5, <1>6, <2>1, ValidStays DEF Pruned
<1>8. \A c \in candidates' : Valid(c) => ~Worse(m, c)
  BY <1>0, <1>5, UsableIsValid DEF IsMostWork, Pruned, Marks, IInv, TypeOK
<1> QED BY <1>5, <1>7, <1>8 DEF SettledOnBest, Valid, Worse, WorseIn

\* Some candidate is valid, so a search that finds nothing to do found the
\* tip the best of them.
LEMMA NothingSettles ==
    ASSUME Marks, TipSound, Covered, NEW t \in Threads, NothingToDo(t)
    PROVE  SettledOnBest'
<1>1. /\ UNCHANGED <<tip, seq, failedValid>> /\ candidates' = candidates \ Discarded
      /\ NoMostWork \/ IsMostWork(tip)
  BY DEF NothingToDo, Discard
<1>2. candidates \subseteq Blocks
  BY DEF Marks, IInv, TypeOK
<1>3. IsMostWork(tip)
  <2>1. \E c \in candidates : Valid(c)
    BY TipIsSound DEF Covered, Sound, Valid
  <2> QED BY <1>1, <1>2, <2>1, UsableIsValid DEF NoMostWork
<1>4. tip \in candidates'
  BY <1>1, <1>3, TipIsSound, ValidStays DEF IsMostWork
<1>5. \A c \in candidates : Valid(c) => ~Worse(tip, c)
  BY <1>2, <1>3, UsableIsValid DEF IsMostWork
<1> QED BY <1>1, <1>4, <1>5 DEF SettledOnBest, Valid, Worse, WorseIn

LEMMA NextSettled ==
    ASSUME Steady, CheckpointsHold, Marks, Marks', NothingToReplay, BestInv, [Next]_vars
    PROVE  SettledOnBest'
<1>1. IInv /\ TipSound /\ Covered /\ SettledOnBest
  BY DEF Marks, BestInv
<1>2. pc \in [Threads -> {"idle", "replay", "abc", "loop", "check"}]
  BY <1>1 DEF IInv, TypeOK
<1>3. ASSUME NEW t \in Threads, NEW b \in Blocks, ProcessNewBlock(t, b) PROVE SettledOnBest'
  <2>1. CASE AcceptDuplicate(t, b) \/ AcceptBlock(t, b)
    BY <1>1, <2>1, Unsettled DEF AcceptDuplicate, AcceptBlock, Goto
  <2>2. CASE CheckRejects(t, b) \/ AcceptFailing(t, b) \/ AcceptUnwritten(t, b)
    <3>1. UNCHANGED <<tip, candidates, seq, pc, mostWork>> /\ failedValid \subseteq failedValid'
      BY <2>2 DEF CheckRejects, AcceptFailing, AcceptUnwritten, indexVars, chainVars, threadVars
    <3>2. Settled' => Settled
      BY <3>1 DEF Settled
    <3> QED BY <1>1, <3>1, <3>2, SettledStays
  <2>3. ~AcceptOnCheckpoint(t, b)
    BY DEF CheckpointsHold, AcceptOnCheckpoint
  <2> QED BY <1>3, <2>1, <2>2, <2>3 DEF ProcessNewBlock
<1>4. ASSUME NEW t \in Threads, OperatorCommand(t) PROVE SettledOnBest'
  BY <1>1, <1>4, Unsettled DEF OperatorCommand, InvalidateBlock, InvalidateError,
     InvalidateGenesis, ReconsiderRPC, ReplayStart, Goto, Steady, NeverReconsiders, Command
<1>5. ASSUME NEW t \in Threads, ActivateBestChain(t) PROVE SettledOnBest'
  <2>1. CASE ActivateBestChainStep(t)
    BY <1>1, <2>1, ActivateSettles
  <2>2. CASE NothingToDo(t)
    BY <1>1, <2>2, NothingSettles
  <2>3. ~StepError(t)
    BY DEF Steady, StepError
  <2>4. CASE StepAsserts(t) \/ LoopTest(t) \/ FinishActivate(t)
    <3>1. UNCHANGED <<tip, candidates, seq, failedValid, mostWork>>
      BY <2>4 DEF StepAsserts, LoopTest, FinishActivate, indexVars, chainVars, threadVars
    <3>2. Settled' => Settled
      <4>1. CASE StepAsserts(t)
        BY <3>1, <4>1 DEF StepAsserts, threadVars, Settled
      <4>2. CASE LoopTest(t)
        BY <1>2, <3>1, <4>2 DEF LoopTest, Goto, Settled
      <4>3. CASE FinishActivate(t)
        BY <1>2, <3>1, <4>3 DEF FinishActivate, Goto, Settled
      <4> QED BY <2>4, <4>1, <4>2, <4>3
    <3> QED BY <1>1, <3>1, <3>2, SettledStays
  <2> QED BY <1>5, <2>1, <2>2, <2>3, <2>4 DEF ActivateBestChain
<1>6. ASSUME NEW t \in Threads, Replay(t) PROVE SettledOnBest'
  <2>1. CASE ReplayDisconnect(t) \/ ReplayError(t)
    BY <1>1, <2>1, Unsettled DEF ReplayDisconnect, ReplayError, Goto
  <2>2. CASE DisconnectAsserts(t)
    <3>1. UNCHANGED <<tip, candidates, seq, failedValid, mostWork, pc>>
      BY <2>2 DEF DisconnectAsserts, indexVars, chainVars, threadVars
    <3>2. Settled' => Settled
      BY <3>1 DEF Settled
    <3> QED BY <1>1, <3>1, <3>2, SettledStays
  <2>3. \A b \in Blocks : ~ReplayReconsider(t, b)
    BY DEF ReplayReconsider, NothingToReplay
  <2> QED BY <1>6, <2>1, <2>2, <2>3 DEF Replay
<1>7. CASE UNCHANGED vars
  <2>1. UNCHANGED <<tip, candidates, seq, failedValid, mostWork, pc>>
    BY <1>7 DEF vars, indexVars, chainVars, threadVars
  <2>2. Settled' => Settled
    BY <2>1 DEF Settled
  <2> QED BY <1>1, <2>1, <2>2, SettledStays
<1> QED BY <1>3, <1>4, <1>5, <1>6, <1>7 DEF Next, Quiet

LEMMA InitBest == Init => BestInv
<1> SUFFICES ASSUME Init PROVE BestInv
  OBVIOUS
<1>1. TipSound
  BY TreeAssumption, ParameterAssumption DEF Init, TipSound
<1>2. Covered
  BY DEF Init, Covered
<1>3. SettledOnBest
  <2>1. ~Worse(Genesis, Genesis)
    BY InitIInv, Order, TreeAssumption DEF IInv
  <2> QED BY <2>1 DEF Init, SettledOnBest
<1> QED BY <1>1, <1>2, <1>3 DEF BestInv

LEMMA BestInvariance == Steady => (Spec /\ []CheckpointsHold => [](Marks /\ BestInv))
<1> SUFFICES ASSUME Steady PROVE Spec /\ []CheckpointsHold => [](Marks /\ BestInv)
  OBVIOUS
<1>1. Spec => []IInv
  BY Invariance
<1>2. Spec => []ActiveChainValid
  BY ActiveChainIsValid DEF Steady
<1>3. Spec /\ []CheckpointsHold => []FailureHasCause
  BY FailuresHaveCauses DEF Steady
<1>4. Spec => []NothingToReplay
  BY ReplayInvariance DEF Steady
<1>5. IInv /\ ActiveChainValid /\ FailureHasCause <=> Marks
  BY DEF Marks
<1>6. CheckpointsHold /\ Marks /\ Marks' /\ NothingToReplay /\ BestInv /\ [Next]_vars
          => BestInv'
  BY NextCovers, NextSettled DEF BestInv
<1>7. Init => BestInv
  BY InitBest
<1> QED BY <1>1, <1>2, <1>3, <1>4, <1>5, <1>6, <1>7, PTL DEF Spec

\* However reorganisations are interrupted, by bad blocks, by damaged ones, by
\* other threads, by invalidateblock or by a roll back, a usable block that is
\* better than the tip is never forgotten: some usable candidate is at least
\* as good (setBlockIndexCandidates, PruneBlockIndexCandidates).
THEOREM BestIsNeverForgotten == Steady => (Spec /\ []CheckpointsHold => []BestIsCandidate)
<1>1. ASSUME Marks, BestInv, NEW b \in chainTx, Usable(b)
      PROVE  \E c \in candidates : Usable(c) /\ ~Worse(c, b)
  <2>1. b \in Blocks /\ candidates \subseteq Blocks
    BY <1>1 DEF Marks, IInv, TypeOK
  <2>2. CASE b \in candidates
    BY <1>1, <2>1, <2>2, Order DEF Marks, IInv
  <2>3. CASE b \notin candidates
    <3>1. PICK c \in candidates : Sound(c) /\ Worse(b, c)
      BY <1>1, <2>1, <2>3, UsableIsValid DEF BestInv, Covered
    <3>2. Usable(c)
      BY <1>1, <2>1, <3>1, UsableIsValid DEF Sound, Valid
    <3>3. ~Worse(c, b)
      BY <1>1, <2>1, <3>1, Order DEF Marks, IInv
    <3> QED BY <3>2, <3>3
  <2> QED BY <2>2, <2>3
<1>2. Marks /\ BestInv => BestIsCandidate
  BY <1>1 DEF BestIsCandidate
<1> QED BY <1>2, BestInvariance, PTL

\* At rest the tip is a candidate, and no usable linked block is better.
LEMMA RestIsBest ==
    ASSUME Marks, BestInv, AtRest
    PROVE  tip \in candidates /\ \A b \in chainTx : Usable(b) => ~Worse(tip, b)
<1>1. /\ chainTx \subseteq Blocks /\ candidates \subseteq Blocks /\ tip \in Blocks
      /\ TypeOK
  BY DEF Marks, IInv, TypeOK
<1>2. tip \in candidates /\ \A c \in candidates : Valid(c) => ~Worse(tip, c)
  BY DEF AtRest, BestInv, SettledOnBest, Settled
<1>3. ASSUME NEW b \in chainTx, Usable(b), b \notin candidates PROVE ~Worse(tip, b)
  <2>1. PICK c \in candidates : Sound(c) /\ Worse(b, c)
    BY <1>1, <1>3, UsableIsValid DEF BestInv, Covered
  <2>2. ~Worse(tip, c)
    BY <1>2, <2>1 DEF Sound, Valid
  <2>3. ~Worse(c, b)
    BY <1>1, <2>1, Order
  <2> QED BY <1>1, <2>2, <2>3, Transitive
<1> QED BY <1>1, <1>2, <1>3, UsableIsValid

\* When every thread is done, the active chain is the best that could be:
\* no linked block without a failed block on its path is better than the tip
\* (ActivateBestChain: "The result is either failure or an activated best
\* chain").
THEOREM TipIsBestAtRest == Steady => (Spec /\ []CheckpointsHold => []TipBestAtRest)
<1>1. Marks /\ BestInv => TipBestAtRest
  BY RestIsBest DEF TipBestAtRest
<1> QED BY <1>1, BestInvariance, PTL

\* When every thread is done, what CheckBlockIndex asserts of
\* setBlockIndexCandidates holds: a valid linked block at least as good as the
\* tip is in it.  Nothing is better than the tip then, and only the tip itself
\* is as good, because arrival breaks the ties.
THEOREM CandidatesAreCompleteAtRest ==
    Steady => (Spec /\ []CheckpointsHold => []CandidatesAtRest)
<1>1. ASSUME Marks, BestInv, ArrivalOrder, AtRest, NEW b \in chainTx,
             Anc[b] \cap failedValid = {}, ~Worse(b, tip)
      PROVE  b \in candidates
  <2>1. b \in Blocks /\ tip \in Blocks /\ tip \in chainTx
    BY <1>1 DEF Marks, IInv, TypeOK, InTree
  <2>2. tip \in candidates /\ ~Worse(tip, b)
    BY <1>1, <2>1, RestIsBest, UsableIsValid DEF Valid
  <2>3. /\ Work[b] \in Nat /\ Work[tip] \in Nat /\ seq[b] \in Nat /\ seq[tip] \in Nat
    BY <1>1, <2>1, TreeAssumption DEF Marks, IInv, TypeOK
  <2>4. seq[b] = seq[tip]
    BY <1>1, <2>2, <2>3 DEF Worse, WorseIn
  <2> QED BY <1>1, <2>1, <2>2, <2>4 DEF ArrivalOrder
<1>2. Marks /\ BestInv /\ ArrivalOrder => CandidatesAtRest
  BY <1>1 DEF CandidatesAtRest, AllCandidates
<1> QED BY <1>2, ArrivalIsOrdered, BestInvariance, PTL
=============================================================================
