-------------------------- MODULE ChainStateProofs --------------------------
(***************************************************************************)
(* Theorems about ChainState for every block tree, any number of threads   *)
(* and any verdicts of ConnectBlock.                                       *)
(*                                                                         *)
(* The inductive invariant is IInv: type correctness, the exact contents   *)
(* of nChainTx and mapBlocksUnlinked, and that candidates and tip are      *)
(* linked.  None of them is inductive alone: BLOCK_VALID_SCRIPTS only goes *)
(* to blocks with data because what is connected lies below a linked       *)
(* candidate.  CandidatesInRange and ActiveChainValid are inductive on top *)
(* of IInv, the latter when moving the tip cannot fail half way.           *)
(***************************************************************************)
EXTENDS ChainState, FiniteSetTheorems, TLAPS

\* Candidates and the tip have nChainTx set.
InTree == candidates \subseteq chainTx /\ tip \in chainTx

IInv == TypeOK /\ LinkedWhenComplete /\ InTree

-----------------------------------------------------------------------------
\* The tree: a block is above itself, is not below its parent, and what is
\* below it are blocks.
LEMMA Tree ==
    /\ \A b \in Blocks : b \in Anc[b] /\ Anc[b] \subseteq Blocks
    /\ \A b \in Blocks \ {Genesis} : /\ Parent[b] \in Blocks
                                     /\ Parent[b] \in Anc[b]
                                     /\ b \notin Anc[Parent[b]]
                                     /\ Anc[b] = {b} \cup Anc[Parent[b]]
<1>1. \A b \in Blocks : b \in Anc[b] /\ Anc[b] \subseteq Blocks
  BY TreeAssumption
<1>2. ASSUME NEW b \in Blocks \ {Genesis}
      PROVE  /\ Parent[b] \in Blocks
             /\ Parent[b] \in Anc[b]
             /\ b \notin Anc[Parent[b]]
             /\ Anc[b] = {b} \cup Anc[Parent[b]]
  <2>1. Parent[b] \in Blocks /\ Anc[b] = {b} \cup Anc[Parent[b]]
    BY TreeAssumption
  <2>2. Parent[b] \in Anc[b]
    BY <1>1, <2>1
  <2>3. Work[Parent[b]] < Work[b] /\ Work[b] \in Nat /\ Work[Parent[b]] \in Nat
    BY <2>1, TreeAssumption
  <2>4. b # Parent[b]
    BY <2>3
  <2>5. b \in Anc[Parent[b]] => Work[b] < Work[Parent[b]]
    BY <2>1, <2>4, TreeAssumption
  <2>6. b \notin Anc[Parent[b]]
    BY <2>3, <2>5
  <2> QED BY <2>1, <2>2, <2>6
<1> QED BY <1>1, <1>2

\* Everything below a linked block is linked.
LEMMA LinkedBelow ==
    ASSUME TypeOK, LinkedWhenComplete, NEW b \in chainTx
    PROVE  b \in Blocks /\ Anc[b] \subseteq chainTx /\ Anc[b] \subseteq haveData
<1>1. b \in Blocks /\ Anc[b] \subseteq haveData /\ haveData \subseteq known
  BY DEF TypeOK, LinkedWhenComplete
<1>2. ASSUME NEW x \in Anc[b] PROVE x \in chainTx
  <2>1. x \in Blocks /\ Anc[x] \subseteq Anc[b]
    BY <1>1, Tree, TreeAssumption
  <2> QED BY <1>1, <2>1 DEF LinkedWhenComplete
<1> QED BY <1>1, <1>2

\* The path of a linked block is linked.
LEMMA PathLinked ==
    ASSUME TypeOK, LinkedWhenComplete, NEW b \in chainTx
    PROVE  Path(b) \subseteq chainTx /\ Path(b) \subseteq haveData
BY LinkedBelow DEF Path

\* What a discarded candidate takes with it is linked too.
LEMMA DiscardedLinked ==
    ASSUME IInv
    PROVE  Discarded \subseteq chainTx /\ Discarded \subseteq known
<1>1. ASSUME NEW c \in candidates PROVE DownToFailed(c) \subseteq chainTx
  <2>1. c \in chainTx
    BY DEF IInv, InTree
  <2> QED BY <2>1, PathLinked DEF IInv, DownToFailed
<1>2. Discarded \subseteq chainTx
  BY <1>1 DEF Discarded
<1> QED BY <1>2 DEF IInv, TypeOK

-----------------------------------------------------------------------------
\* The blocks ReceivedBlockTransactions(b) links, b being new: they are not
\* linked yet, they are finitely many, and with them everything above b whose
\* chain is complete is linked.
LEMMA LinkedFacts ==
    ASSUME TypeOK, LinkedWhenComplete, NEW b \in Blocks \ {Genesis}, b \notin haveData,
           Parent[b] \in chainTx
    PROVE  /\ Linked(b) \subseteq haveData \cup {b}
           /\ Linked(b) \subseteq Blocks
           /\ Linked(b) \cap chainTx = {}
           /\ Cardinality(Linked(b)) \in Nat
           /\ chainTx \cup Linked(b) =
                  {x \in known \cup {b} : Anc[x] \subseteq haveData \cup {b}}
<1>1. Linked(b) \subseteq haveData \cup {b} /\ haveData \subseteq Blocks
  BY DEF TypeOK, Linked
<1>2. Linked(b) \subseteq Blocks
  BY <1>1
<1>3. Linked(b) \cap chainTx = {}
  BY DEF TypeOK, LinkedWhenComplete, Linked
<1>4. Cardinality(Linked(b)) \in Nat
  <2>1. IsFiniteSet(Linked(b))
    BY <1>2, FS_Subset, TreeAssumption
  <2> QED BY <2>1, FS_CardinalityType
<1>5. Anc[b] \subseteq haveData \cup {b}
  BY Tree, LinkedBelow
<1>6. ASSUME NEW x \in Linked(b) PROVE x \in known \cup {b} /\ Anc[x] \subseteq haveData \cup {b}
  <2>1. CASE x = b
    BY <1>5, <2>1
  <2>2. CASE x # b
    <3>1. x \in unlinked /\ Anc[x] \ Anc[b] \subseteq unlinked
      BY <2>2 DEF Linked
    <3> QED BY <1>5, <3>1 DEF TypeOK
  <2> QED BY <2>1, <2>2
<1>7. ASSUME NEW x \in known \cup {b}, Anc[x] \subseteq haveData \cup {b}, x \notin chainTx,
             x # b
      PROVE  x \in Linked(b)
  <2>1. x \in known /\ x \in Blocks /\ x \in Anc[x]
    BY <1>7, Tree DEF TypeOK
  <2>2. x \in haveData /\ b \in Anc[x]
    BY <1>7, <2>1 DEF LinkedWhenComplete
  <2>3. ASSUME NEW y \in Anc[x] \ Anc[b] PROVE y \in unlinked
    <3>1. y \in Blocks /\ y \in haveData
      BY <1>7, <2>1, <2>3, Tree
    <3>2. b \in Anc[y]
      BY <2>1, <2>2, <2>3, TreeAssumption
    <3>3. y \notin chainTx
      BY <3>1, <3>2 DEF LinkedWhenComplete
    <3> QED BY <3>1, <3>3 DEF LinkedWhenComplete
  <2>4. x \in unlinked
    BY <1>7, <2>2 DEF LinkedWhenComplete
  <2> QED BY <2>2, <2>3, <2>4 DEF Linked
<1>8. chainTx \subseteq {x \in known \cup {b} : Anc[x] \subseteq haveData \cup {b}}
  BY DEF LinkedWhenComplete
<1>9. b \in Linked(b)
  BY DEF Linked
<1>10. chainTx \cup Linked(b) = {x \in known \cup {b} : Anc[x] \subseteq haveData \cup {b}}
  BY <1>6, <1>7, <1>8, <1>9
<1> QED BY <1>1, <1>2, <1>3, <1>4, <1>10

\* A block whose parent is not linked links nothing.
LEMMA UnlinkedFacts ==
    ASSUME TypeOK, LinkedWhenComplete, NEW b \in Blocks \ {Genesis}, b \notin haveData,
           Parent[b] \in known, Parent[b] \notin chainTx
    PROVE  chainTx = {x \in known \cup {b} : Anc[x] \subseteq haveData \cup {b}}
<1>1. ASSUME NEW x \in known \cup {b}, Anc[x] \subseteq haveData \cup {b}, x \notin chainTx
      PROVE  FALSE
  <2>1. x \in Blocks /\ x \in Anc[x]
    BY <1>1, Tree DEF TypeOK
  <2>2. b \in Anc[x]
    BY <1>1, <2>1 DEF LinkedWhenComplete
  <2>3. Anc[Parent[b]] \subseteq Anc[x] /\ b \notin Anc[Parent[b]]
    BY <2>1, <2>2, Tree, TreeAssumption
  <2>4. Anc[Parent[b]] \subseteq haveData
    BY <1>1, <2>3
  <2> QED BY <2>4 DEF LinkedWhenComplete
<1> QED BY <1>1 DEF LinkedWhenComplete

-----------------------------------------------------------------------------
\* The invariant over the initial state and over each kind of step.
LEMMA InitIInv == Init => IInv
<1> SUFFICES ASSUME Init PROVE IInv
  OBVIOUS
<1>1. TypeOK
  <2>1. Genesis \in Blocks /\ MaxOps \in Nat
    BY TreeAssumption, ParameterAssumption
  <2>2. seq \in [Blocks -> Nat] /\ nextSeq \in Nat
    BY DEF Init
  <2>3. pc \in [Threads -> {"idle", "replay", "abc", "loop", "check"}]
        /\ mostWork \in [Threads -> Blocks]
    BY <2>1 DEF Init
  <2>4. ops \in 0 .. MaxOps
    BY <2>1 DEF Init
  <2> QED BY <2>1, <2>2, <2>3, <2>4 DEF Init, TypeOK
<1>2. LinkedWhenComplete
  BY TreeAssumption DEF Init, LinkedWhenComplete
<1>3. InTree
  BY DEF Init, InTree
<1> QED BY <1>1, <1>2, <1>3 DEF IInv

\* Steps that move a thread and leave the tree and the chain alone.
LEMMA ThreadSteps ==
    ASSUME IInv, NEW t \in Threads, UNCHANGED <<indexVars, candidates, tip, coinsBest>>,
           rejected' \subseteq Blocks, pc' \in [Threads -> {"idle", "replay", "abc", "loop", "check"}],
           UNCHANGED mostWork, csMain' \in Threads \cup {NoThread}, ops' \in 0 .. MaxOps,
           aborted' \in BOOLEAN, crashed' \in BOOLEAN
    PROVE  IInv'
BY DEF IInv, TypeOK, LinkedWhenComplete, InTree, indexVars

\* A header joins the tree without its data.
LEMMA HeaderStep ==
    ASSUME IInv, NEW b \in Blocks, b \notin haveData,
           known' = known \cup {b}, failedValid' \subseteq known \cup {b},
           UNCHANGED <<haveData, scripts, failedChild, chainTx, seq, nextSeq, unlinked,
                       chainVars, threadVars, ops, crashed>>,
           aborted' \in BOOLEAN
    PROVE  IInv'
<1>1. TypeOK'
  BY DEF IInv, TypeOK, chainVars, threadVars
<1>2. LinkedWhenComplete'
  <2>1. b \in Anc[b]
    BY Tree
  <2> QED BY <2>1 DEF IInv, LinkedWhenComplete
<1>3. InTree'
  BY DEF IInv, InTree, chainVars
<1> QED BY <1>1, <1>2, <1>3 DEF IInv

\* The data of a block arrives.
LEMMA AcceptStep ==
    ASSUME IInv, NEW t \in Threads, NEW b \in Blocks, AcceptBlock(t, b)
    PROVE  IInv'
<1>1. b \in Blocks \ {Genesis} /\ b \notin haveData /\ Parent[b] \in known
  BY DEF AcceptBlock, Locked, Offered, Storable
<1>2. TypeOK /\ LinkedWhenComplete /\ InTree
  BY DEF IInv
<1>3. known' = known \cup {b} /\ haveData' = haveData \cup {b}
  BY DEF AcceptBlock
<1>4. pc' \in [Threads -> {"idle", "replay", "abc", "loop", "check"}]
  BY <1>2 DEF AcceptBlock, Goto, TypeOK
<1>5. CASE ReceiveLinked(b)
  <2>1. /\ Linked(b) \subseteq haveData \cup {b}
        /\ Linked(b) \subseteq Blocks
        /\ Cardinality(Linked(b)) \in Nat
        /\ chainTx \cup Linked(b) = {x \in known \cup {b} : Anc[x] \subseteq haveData \cup {b}}
    BY <1>1, <1>2, <1>5, LinkedFacts DEF ReceiveLinked
  <2>2. seq' \in [Blocks -> Nat]
    <3>1. PICK f \in Numberings(Linked(b)) :
              seq' = [x \in Blocks |-> IF x \in Linked(b) THEN f[x] ELSE seq[x]]
      BY <1>5 DEF ReceiveLinked
    <3>2. f \in [Linked(b) -> nextSeq .. nextSeq + Cardinality(Linked(b)) - 1]
      BY <3>1 DEF Numberings
    <3>3. \A x \in Linked(b) : f[x] \in Nat
      BY <1>2, <2>1, <3>2 DEF TypeOK
    <3> QED BY <1>2, <3>1, <3>3 DEF TypeOK
  <2>3. nextSeq' \in Nat
    BY <1>2, <1>5, <2>1 DEF ReceiveLinked, TypeOK
  <2>4. chainTx' = chainTx \cup Linked(b) /\ unlinked' = unlinked \ Linked(b)
    BY <1>5 DEF ReceiveLinked
  <2>5. candidates' \subseteq chainTx'
    BY <1>2, <1>5, <2>4 DEF ReceiveLinked, InTree
  <2>6. chainTx' \subseteq haveData' /\ unlinked' \subseteq haveData'
    BY <1>2, <1>3, <2>1, <2>4 DEF TypeOK
  <2>7. TypeOK'
    BY <1>1, <1>2, <1>3, <1>4, <2>2, <2>3, <2>5, <2>6
       DEF TypeOK, AcceptBlock, nodeVars
  <2>8. unlinked' = haveData' \ chainTx'
    <3>1. b \in Linked(b)
      BY DEF Linked
    <3> QED BY <1>1, <1>2, <1>3, <2>4, <3>1 DEF LinkedWhenComplete
  <2>9. LinkedWhenComplete'
    BY <1>3, <2>1, <2>4, <2>8 DEF LinkedWhenComplete
  <2>10. InTree'
    BY <1>2, <2>4, <2>5 DEF InTree, AcceptBlock
  <2> QED BY <2>7, <2>9, <2>10 DEF IInv
<1>6. CASE ReceiveUnlinked(b)
  <2>1. chainTx = {x \in known \cup {b} : Anc[x] \subseteq haveData \cup {b}}
    BY <1>1, <1>2, <1>6, UnlinkedFacts DEF ReceiveUnlinked
  <2>2. TypeOK'
    BY <1>1, <1>2, <1>3, <1>4, <1>6 DEF ReceiveUnlinked, TypeOK, AcceptBlock, nodeVars
  <2>3. LinkedWhenComplete'
    BY <1>1, <1>2, <1>3, <1>6, <2>1 DEF ReceiveUnlinked, LinkedWhenComplete, TypeOK
  <2>4. InTree'
    BY <1>2, <1>6 DEF ReceiveUnlinked, InTree, AcceptBlock
  <2> QED BY <2>2, <2>3, <2>4 DEF IInv
<1> QED BY <1>5, <1>6 DEF AcceptBlock

\* Flags are cleared and blocks become candidates.
LEMMA ReconsiderStep ==
    ASSUME IInv, NEW b \in Blocks, ReconsiderBlock(b),
           UNCHANGED <<known, haveData, scripts, chainTx, seq, nextSeq, unlinked,
                       tip, coinsBest, rejected, mostWork, aborted, crashed>>,
           pc' \in [Threads -> {"idle", "replay", "abc", "loop", "check"}],
           csMain' \in Threads \cup {NoThread}, ops' \in 0 .. MaxOps
    PROVE  IInv'
<1>1. candidates' \subseteq chainTx
  BY DEF ReconsiderBlock, IInv, InTree
<1>2. TypeOK'
  BY <1>1 DEF IInv, TypeOK, ReconsiderBlock
<1>3. LinkedWhenComplete'
  BY DEF IInv, LinkedWhenComplete
<1>4. InTree'
  BY <1>1 DEF IInv, InTree
<1> QED BY <1>2, <1>3, <1>4 DEF IInv

\* The tip moves to a linked block.
LEMMA MoveStep ==
    ASSUME IInv, UNCHANGED <<known, haveData, chainTx, seq, nextSeq, unlinked>>,
           tip' \in chainTx, coinsBest' \in Blocks, candidates' \subseteq chainTx,
           scripts' \subseteq haveData, failedValid' \subseteq known,
           failedChild' \subseteq known, rejected' \subseteq Blocks,
           pc' \in [Threads -> {"idle", "replay", "abc", "loop", "check"}],
           mostWork' \in [Threads -> Blocks], csMain' \in Threads \cup {NoThread},
           ops' \in 0 .. MaxOps, aborted' \in BOOLEAN, crashed' \in BOOLEAN
    PROVE  IInv'
<1>1. chainTx \subseteq haveData /\ haveData \subseteq known /\ known \subseteq Blocks
  BY DEF IInv, TypeOK
<1>2. TypeOK'
  BY <1>1 DEF IInv, TypeOK
<1>3. LinkedWhenComplete'
  BY DEF IInv, LinkedWhenComplete
<1>4. InTree'
  BY DEF InTree
<1> QED BY <1>2, <1>3, <1>4 DEF IInv

-----------------------------------------------------------------------------
\* Where a step can leave the chain: a block of a linked candidate's chain.
LEMMA ReachesLinked ==
    ASSUME IInv, NEW m \in candidates, NEW x \in Anc[m]
    PROVE  /\ m \in Blocks /\ m \in chainTx
           /\ x \in Blocks /\ x \in chainTx
           /\ Path(x) \subseteq haveData
<1>1. m \in chainTx
  BY DEF IInv, InTree
<1>2. m \in Blocks /\ x \in chainTx
  BY <1>1, LinkedBelow DEF IInv
<1>3. x \in Blocks /\ Path(x) \subseteq haveData
  BY <1>2, LinkedBelow, PathLinked DEF IInv
<1> QED BY <1>1, <1>2, <1>3

\* ActivateBestChainStep, whatever ConnectBlock answers.
LEMMA ActivateStep ==
    ASSUME IInv, NEW t \in Threads, ActivateBestChainStep(t)
    PROVE  IInv'
<1>1. PICK m \in candidates \ {tip} :
          /\ \E x \in Anc[m] :
                /\ StepDone(m, x) \/ StepInvalid(m, x) \/ StepDamaged(m, x)
                /\ tip' = x
                /\ coinsBest' = x
                /\ scripts' = scripts \cup Path(x)
          /\ mostWork' = [mostWork EXCEPT ![t] = m]
  BY DEF ActivateBestChainStep
<1>2. PICK x \in Anc[m] :
          /\ StepDone(m, x) \/ StepInvalid(m, x) \/ StepDamaged(m, x)
          /\ tip' = x
          /\ coinsBest' = x
          /\ scripts' = scripts \cup Path(x)
  BY <1>1
<1>3. m \in Blocks /\ m \in chainTx /\ x \in Blocks /\ x \in chainTx /\ Path(x) \subseteq haveData
  BY ReachesLinked
<1>4. candidates' \subseteq candidates /\ rejected' \subseteq Blocks /\ failedValid' \subseteq known
  <2>1. Anc[m] \subseteq known
    BY <1>3, LinkedBelow DEF IInv, TypeOK
  <2>2. rejected \subseteq Blocks /\ failedValid \subseteq known /\ known \subseteq Blocks
    BY DEF IInv, TypeOK
  <2>3. CASE StepDone(m, x)
    BY <2>2, <2>3 DEF StepDone, Pruned
  <2>4. CASE StepInvalid(m, x)
    BY <2>1, <2>2, <2>4 DEF StepInvalid, PrunedAfter, Pruned
  <2>5. CASE StepDamaged(m, x)
    BY <2>2, <2>5 DEF StepDamaged, PrunedAfter, Pruned
  <2> QED BY <1>2, <2>3, <2>4, <2>5
<1>5. failedChild' \subseteq known /\ scripts' \subseteq haveData
  BY <1>2, <1>3, DiscardedLinked DEF ActivateBestChainStep, IInv, TypeOK
<1>6. pc' \in [Threads -> {"idle", "replay", "abc", "loop", "check"}]
      /\ mostWork' \in [Threads -> Blocks]
  BY <1>1, <1>3 DEF ActivateBestChainStep, IInv, TypeOK, Goto
<1>7. /\ UNCHANGED <<known, haveData, chainTx, seq, nextSeq, unlinked>>
      /\ csMain' \in Threads \cup {NoThread} /\ ops' \in 0 .. MaxOps
      /\ aborted' \in BOOLEAN /\ crashed' \in BOOLEAN
  BY DEF ActivateBestChainStep, nodeVars, IInv, TypeOK
<1>8. candidates' \subseteq chainTx
  BY <1>4 DEF IInv, InTree
<1> QED BY <1>2, <1>3, <1>4, <1>5, <1>6, <1>7, <1>8, MoveStep

\* A DisconnectTip or a ConnectTip that fails leaves the coins view at the tip,
\* or one block from it with the node aborted.
LEMMA DisconnectParts ==
    ASSUME NEW x \in Blocks \ {Genesis}, aborted \in BOOLEAN, DisconnectFails(x)
    PROVE  /\ tip' = x /\ scripts' = scripts
           /\ coinsBest' \in Blocks /\ aborted' \in BOOLEAN
           /\ coinsBest' # tip' => aborted' /\ OneApart'
<1>1. Parent[x] \in Blocks
  BY Tree
<1> QED BY <1>1 DEF DisconnectFails, AbortNode, OneApart

LEMMA ConnectParts ==
    ASSUME NEW x \in Blocks, NEW y \in Blocks \ {Genesis}, Parent[y] = x,
           aborted \in BOOLEAN, ConnectFails(x, y)
    PROVE  /\ tip' = x /\ scripts' \subseteq scripts \cup Path(x) \cup Path(y)
           /\ coinsBest' \in Blocks /\ aborted' \in BOOLEAN
           /\ coinsBest' # tip' => aborted' /\ OneApart'
BY DEF ConnectFails, AbortNode, OneApart

\* A step that ends in a system error.
LEMMA ErrorMoves ==
    ASSUME IInv, NEW t \in Threads, StepError(t)
    PROVE  /\ tip' \in chainTx /\ coinsBest' \in Blocks /\ aborted' \in BOOLEAN
           /\ scripts' \subseteq haveData /\ candidates' \subseteq candidates
           /\ coinsBest' # tip' => aborted' /\ OneApart'
<1>1. PICK m \in candidates \ {tip} :
          \/ \E x \in Anc[tip] \ Anc[m] :
                 /\ DisconnectFails(x)
                 /\ candidates' = candidates \ Discarded
          \/ \E x \in Anc[m], y \in Path(m) :
                 /\ Parent[y] = x
                 /\ ConnectFails(x, y)
                 /\ candidates' = PrunedAfter(candidates \ Discarded, x)
  BY DEF StepError
<1>2. scripts \subseteq haveData /\ aborted \in BOOLEAN /\ tip \in Blocks /\ m \in Blocks
  BY DEF IInv, TypeOK
<1>3. ASSUME NEW x \in Anc[tip] \ Anc[m], DisconnectFails(x), candidates' = candidates \ Discarded
      PROVE  /\ tip' \in chainTx /\ coinsBest' \in Blocks /\ aborted' \in BOOLEAN
             /\ scripts' \subseteq haveData /\ candidates' \subseteq candidates
             /\ coinsBest' # tip' => aborted' /\ OneApart'
  <2>1. x \in chainTx /\ x \in Blocks
    <3>1. tip \in chainTx
      BY DEF IInv, InTree
    <3> QED BY <3>1, LinkedBelow DEF IInv, TypeOK
  <2>2. x # Genesis
    BY <1>2, <1>3, TreeAssumption
  <2> QED BY <1>2, <1>3, <2>1, <2>2, DisconnectParts
<1>4. ASSUME NEW x \in Anc[m], NEW y \in Path(m), Parent[y] = x, ConnectFails(x, y),
             candidates' = PrunedAfter(candidates \ Discarded, x)
      PROVE  /\ tip' \in chainTx /\ coinsBest' \in Blocks /\ aborted' \in BOOLEAN
             /\ scripts' \subseteq haveData /\ candidates' \subseteq candidates
             /\ coinsBest' # tip' => aborted' /\ OneApart'
  <2>1. x \in chainTx /\ x \in Blocks /\ Path(x) \subseteq haveData
    BY ReachesLinked
  <2>2. y \in Anc[m] /\ y # Genesis
    BY <1>2, TreeAssumption DEF Path
  <2>3. y \in Blocks /\ Path(y) \subseteq haveData
    BY <2>2, ReachesLinked
  <2>4. candidates' \subseteq candidates
    BY <1>4 DEF PrunedAfter, Pruned
  <2> QED BY <1>2, <1>4, <2>1, <2>2, <2>3, <2>4, ConnectParts
<1> QED BY <1>1, <1>3, <1>4

LEMMA ErrorStep ==
    ASSUME IInv, NEW t \in Threads, StepError(t)
    PROVE  IInv'
<1>1. failedChild' \subseteq known
  BY DiscardedLinked DEF StepError, IInv, TypeOK
<1>2. pc' \in [Threads -> {"idle", "replay", "abc", "loop", "check"}]
  BY DEF StepError, Goto, IInv, TypeOK
<1>3. /\ UNCHANGED <<known, haveData, chainTx, seq, nextSeq, unlinked>>
      /\ failedValid' \subseteq known /\ rejected' \subseteq Blocks
      /\ mostWork' \in [Threads -> Blocks]
      /\ csMain' \in Threads \cup {NoThread} /\ ops' \in 0 .. MaxOps
      /\ crashed' \in BOOLEAN
  BY DEF StepError, IInv, TypeOK
<1>4. candidates' \subseteq chainTx
  BY ErrorMoves DEF IInv, InTree
<1> QED BY <1>1, <1>2, <1>3, <1>4, ErrorMoves, MoveStep

\* ActivateBestChain with nothing better than the tip.
LEMMA NothingStep ==
    ASSUME IInv, NEW t \in Threads, NothingToDo(t)
    PROVE  IInv'
<1>1. candidates' \subseteq chainTx /\ failedChild' \subseteq known
  BY DiscardedLinked DEF NothingToDo, Discard, IInv, InTree, TypeOK
<1>2. pc' \in [Threads -> {"idle", "replay", "abc", "loop", "check"}]
  BY DEF NothingToDo, Goto, IInv, TypeOK
<1>3. /\ UNCHANGED <<known, haveData, chainTx, seq, nextSeq, unlinked>>
      /\ tip' \in chainTx /\ coinsBest' \in Blocks /\ scripts' \subseteq haveData
      /\ failedValid' \subseteq known /\ rejected' \subseteq Blocks
      /\ mostWork' \in [Threads -> Blocks] /\ csMain' \in Threads \cup {NoThread}
      /\ ops' \in 0 .. MaxOps /\ aborted' \in BOOLEAN /\ crashed' \in BOOLEAN
  BY DEF NothingToDo, nodeVars, IInv, InTree, TypeOK
<1> QED BY <1>1, <1>2, <1>3, MoveStep

\* A block of the active chain and its parent are linked.
LEMMA ActiveLinked ==
    ASSUME IInv, NEW x \in Anc[tip]
    PROVE  /\ x \in chainTx /\ x \in Blocks /\ x \in known
           /\ x # Genesis => Parent[x] \in chainTx /\ Parent[x] \in Blocks
<1>1. tip \in chainTx
  BY DEF IInv, InTree
<1>2. x \in chainTx
  BY <1>1, LinkedBelow DEF IInv
<1>3. x \in Blocks /\ x \in known
  BY <1>2 DEF IInv, TypeOK
<1>4. x # Genesis => Parent[x] \in Anc[x]
  BY <1>3, Tree
<1>5. x # Genesis => Parent[x] \in chainTx /\ Parent[x] \in Blocks
  BY <1>2, <1>4, LinkedBelow DEF IInv, TypeOK
<1> QED BY <1>2, <1>3, <1>5

\* The invalidateblock RPC, on any block, on the genesis block, and cut short
\* by an error.
LEMMA InvalidateStep ==
    ASSUME IInv, NEW t \in Threads, NEW b \in Blocks,
           InvalidateBlock(t, b) \/ InvalidateGenesis(t) \/ InvalidateError(t, b)
    PROVE  IInv'
<1>1. tip \in chainTx /\ tip \in Blocks /\ candidates \subseteq chainTx
  BY DEF IInv, TypeOK, InTree
<1>2. Anc[tip] \subseteq known
  BY ActiveLinked
<1>3. \A x : Above(x) \subseteq known
  BY <1>2 DEF Above
<1>4. /\ UNCHANGED <<known, haveData, chainTx, seq, nextSeq, unlinked>>
      /\ scripts' \subseteq haveData /\ rejected' \subseteq Blocks
      /\ mostWork' \in [Threads -> Blocks] /\ csMain' \in Threads \cup {NoThread}
      /\ crashed' \in BOOLEAN
  BY DEF InvalidateBlock, InvalidateGenesis, InvalidateError, DisconnectFails, IInv, TypeOK
<1>5. ops' \in 0 .. MaxOps
  BY ParameterAssumption
     DEF InvalidateBlock, InvalidateGenesis, InvalidateError, Command, IInv, TypeOK
<1>6. pc' \in [Threads -> {"idle", "replay", "abc", "loop", "check"}] /\ aborted' \in BOOLEAN
  BY DEF InvalidateBlock, InvalidateGenesis, InvalidateError, DisconnectFails, AbortNode,
         Goto, IInv, TypeOK
<1>7. CASE InvalidateBlock(t, b)
  <2>1. b \in known \ {Genesis}
    BY <1>7 DEF InvalidateBlock
  <2>2. tip' \in chainTx /\ coinsBest' \in Blocks
    BY <1>1, <1>7, <2>1, ActiveLinked DEF InvalidateBlock, IInv, TypeOK
  <2>3. candidates' \subseteq chainTx
    BY <1>1, <1>7 DEF InvalidateBlock, Refill
  <2>4. failedValid' \subseteq known /\ failedChild' \subseteq known
    BY <1>3, <1>7, <2>1 DEF InvalidateBlock, IInv, TypeOK
  <2> QED BY <1>4, <1>5, <1>6, <2>2, <2>3, <2>4, MoveStep
<1>8. CASE InvalidateGenesis(t)
  <2>1. Genesis \in Anc[tip] /\ Genesis \in Blocks
    BY <1>1, TreeAssumption
  <2>2. Genesis \in chainTx /\ Genesis \in known
    BY <2>1, ActiveLinked
  <2>3. /\ tip' \in chainTx /\ coinsBest' \in Blocks /\ candidates' \subseteq chainTx
        /\ failedValid' \subseteq known /\ failedChild' \subseteq known
    BY <1>1, <1>2, <1>8, <2>1, <2>2 DEF InvalidateGenesis, IInv, TypeOK
  <2> QED BY <1>4, <1>5, <1>6, <2>3, MoveStep
<1>9. CASE InvalidateError(t, b)
  <2>1. b \in Anc[tip] \ {Genesis}
    BY <1>9 DEF InvalidateError
  <2>2. b \in known
    BY <1>2, <2>1
  <2>3. PICK x \in Above(b) :
           /\ failedChild' = failedChild \cup Above(x)
           /\ candidates' = candidates \ (Above(x) \cup {b})
           /\ DisconnectFails(x)
    BY <1>9 DEF InvalidateError
  <2>4. x \in Anc[tip] /\ b \in Anc[x]
    BY DEF Above
  <2>5. x # Genesis
    BY <2>1, <2>4, TreeAssumption
  <2>6. tip' \in chainTx /\ coinsBest' \in Blocks
    BY <2>3, <2>4, <2>5, ActiveLinked, DisconnectParts DEF IInv, TypeOK
  <2>7. candidates' \subseteq chainTx /\ failedChild' \subseteq known
    BY <1>1, <1>3, <2>3 DEF IInv, TypeOK
  <2>8. failedValid' \subseteq known
    BY <1>9, <2>2 DEF InvalidateError, IInv, TypeOK
  <2> QED BY <1>4, <1>5, <1>6, <2>6, <2>7, <2>8, MoveStep
<1> QED BY <1>7, <1>8, <1>9

\* ReprocessBlocks moves the tip down the active chain.
LEMMA ReplayStep ==
    ASSUME IInv, NEW t \in Threads, ReplayDisconnect(t) \/ ReplayError(t)
    PROVE  IInv'
<1>1. tip' \in chainTx /\ coinsBest' \in Blocks
  <2>1. CASE ReplayDisconnect(t)
    BY <2>1, ActiveLinked DEF ReplayDisconnect
  <2>2. CASE ReplayError(t)
    <3>1. PICK x \in Anc[tip] \ {Genesis} : DisconnectFails(x)
      BY <2>2 DEF ReplayError
    <3> QED BY <3>1, ActiveLinked, DisconnectParts DEF IInv, TypeOK
  <2> QED BY <2>1, <2>2
<1>2. pc' \in [Threads -> {"idle", "replay", "abc", "loop", "check"}]
  BY DEF ReplayDisconnect, ReplayError, Goto, IInv, TypeOK
<1>3. aborted' \in BOOLEAN /\ crashed' \in BOOLEAN /\ ops' \in 0 .. MaxOps
  BY DEF ReplayDisconnect, ReplayError, DisconnectFails, AbortNode, nodeVars, IInv, TypeOK
<1>4. /\ UNCHANGED <<known, haveData, chainTx, seq, nextSeq, unlinked>>
      /\ candidates' \subseteq chainTx /\ scripts' \subseteq haveData
      /\ failedValid' \subseteq known /\ failedChild' \subseteq known
      /\ rejected' \subseteq Blocks /\ mostWork' \in [Threads -> Blocks]
      /\ csMain' \in Threads \cup {NoThread}
  BY DEF ReplayDisconnect, ReplayError, DisconnectFails, indexVars, IInv, TypeOK, InTree
<1> QED BY <1>1, <1>2, <1>3, <1>4, MoveStep

\* The remaining commands and the steps of ProcessNewBlock.
LEMMA CommandStep ==
    ASSUME IInv, NEW t \in Threads, OperatorCommand(t)
    PROVE  IInv'
<1>1. CASE \E b \in Blocks : InvalidateBlock(t, b) \/ InvalidateError(t, b)
  BY <1>1, InvalidateStep
<1>2. CASE InvalidateGenesis(t)
  <2>1. Genesis \in Blocks
    BY TreeAssumption
  <2> QED BY <1>2, <2>1, InvalidateStep
<1>3. ASSUME NEW b \in Blocks, ReconsiderRPC(t, b) PROVE IInv'
  <2>1. ops' \in 0 .. MaxOps
    BY <1>3, ParameterAssumption DEF ReconsiderRPC, Command, IInv, TypeOK
  <2>2. pc' \in [Threads -> {"idle", "replay", "abc", "loop", "check"}]
        /\ csMain' \in Threads \cup {NoThread}
    BY <1>3 DEF ReconsiderRPC, Goto, IInv, TypeOK
  <2>3. ReconsiderBlock(b) /\ UNCHANGED <<known, haveData, scripts, chainTx, seq,
             nextSeq, unlinked, tip, coinsBest, rejected, mostWork, aborted, crashed>>
    BY <1>3 DEF ReconsiderRPC
  <2> QED BY <2>1, <2>2, <2>3, ReconsiderStep
<1>4. CASE ReplayStart(t)
  <2>1. ops' \in 0 .. MaxOps
    BY <1>4, ParameterAssumption DEF ReplayStart, Command, IInv, TypeOK
  <2>2. /\ UNCHANGED <<indexVars, candidates, tip, coinsBest>> /\ rejected' \subseteq Blocks
        /\ pc' \in [Threads -> {"idle", "replay", "abc", "loop", "check"}]
        /\ UNCHANGED mostWork /\ csMain' \in Threads \cup {NoThread}
        /\ aborted' \in BOOLEAN /\ crashed' \in BOOLEAN
    BY <1>4 DEF ReplayStart, Goto, chainVars, IInv, TypeOK
  <2> QED BY <2>1, <2>2, ThreadSteps
<1> QED BY <1>1, <1>2, <1>3, <1>4 DEF OperatorCommand

LEMMA ProcessStep ==
    ASSUME IInv, NEW t \in Threads, NEW b \in Blocks, ProcessNewBlock(t, b)
    PROVE  IInv'
<1>1. CASE CheckRejects(t, b)
  BY <1>1, ThreadSteps DEF CheckRejects, threadVars, nodeVars, IInv, TypeOK
<1>2. CASE AcceptDuplicate(t, b)
  BY <1>2, ThreadSteps DEF AcceptDuplicate, Goto, chainVars, nodeVars, IInv, TypeOK
<1>3. CASE AcceptFailing(t, b)
  <2>1. b \notin haveData
    BY <1>3 DEF AcceptFailing, Storable
  <2>2. failedValid' \subseteq known \cup {b}
    BY <1>3 DEF AcceptFailing, IInv, TypeOK
  <2> QED BY <1>3, <2>1, <2>2, HeaderStep DEF AcceptFailing, nodeVars, IInv, TypeOK
<1>4. CASE AcceptUnwritten(t, b)
  <2>1. b \notin haveData
    BY <1>4 DEF AcceptUnwritten, Storable
  <2>2. failedValid' \subseteq known \cup {b} /\ aborted' \in BOOLEAN
    BY <1>4 DEF AcceptUnwritten, IInv, TypeOK
  <2> QED BY <1>4, <2>1, <2>2, HeaderStep DEF AcceptUnwritten
<1>5. CASE AcceptBlock(t, b)
  BY <1>5, AcceptStep
<1>6. CASE AcceptOnCheckpoint(t, b)
  <2>1. Parent[b] \in Blocks
    BY <1>6 DEF AcceptOnCheckpoint, Locked, Offered, IInv, TypeOK
  <2>2. /\ ReconsiderBlock(Parent[b])
        /\ UNCHANGED <<known, haveData, scripts, chainTx, seq, nextSeq, unlinked,
                       tip, coinsBest, rejected, mostWork, aborted, crashed>>
        /\ pc' \in [Threads -> {"idle", "replay", "abc", "loop", "check"}]
        /\ csMain' \in Threads \cup {NoThread} /\ ops' \in 0 .. MaxOps
    BY <1>6 DEF AcceptOnCheckpoint, Goto, nodeVars, IInv, TypeOK
  <2> QED BY <2>1, <2>2, ReconsiderStep
<1> QED BY <1>1, <1>2, <1>3, <1>4, <1>5, <1>6 DEF ProcessNewBlock

LEMMA ActivateSteps ==
    ASSUME IInv, NEW t \in Threads, ActivateBestChain(t)
    PROVE  IInv'
<1>1. CASE NothingToDo(t)
  BY <1>1, NothingStep
<1>2. CASE ActivateBestChainStep(t)
  BY <1>2, ActivateStep
<1>3. CASE StepError(t)
  BY <1>3, ErrorStep
<1>4. CASE StepAsserts(t)
  BY <1>4, ThreadSteps DEF StepAsserts, chainVars, threadVars, IInv, TypeOK
<1>5. CASE LoopTest(t)
  BY <1>5, ThreadSteps DEF LoopTest, Goto, chainVars, nodeVars, IInv, TypeOK
<1>6. CASE FinishActivate(t)
  BY <1>6, ThreadSteps DEF FinishActivate, Goto, chainVars, nodeVars, IInv, TypeOK
<1> QED BY <1>1, <1>2, <1>3, <1>4, <1>5, <1>6 DEF ActivateBestChain

LEMMA ReplaySteps ==
    ASSUME IInv, NEW t \in Threads, Replay(t)
    PROVE  IInv'
<1>1. ASSUME NEW b \in Blocks, ReplayReconsider(t, b) PROVE IInv'
  BY <1>1, ReconsiderStep DEF ReplayReconsider, threadVars, nodeVars, IInv, TypeOK
<1>2. CASE ReplayDisconnect(t) \/ ReplayError(t)
  BY <1>2, ReplayStep
<1>3. CASE DisconnectAsserts(t)
  BY <1>3, ThreadSteps DEF DisconnectAsserts, chainVars, threadVars, IInv, TypeOK
<1> QED BY <1>1, <1>2, <1>3 DEF Replay

LEMMA NextIInv == IInv /\ [Next]_vars => IInv'
<1> SUFFICES ASSUME IInv, [Next]_vars PROVE IInv'
  OBVIOUS
<1>1. ASSUME NEW t \in Threads,
             \/ \E b \in Blocks : ProcessNewBlock(t, b)
             \/ OperatorCommand(t)
             \/ ActivateBestChain(t)
             \/ Replay(t)
      PROVE  IInv'
  BY <1>1, ProcessStep, CommandStep, ActivateSteps, ReplaySteps
<1>2. CASE UNCHANGED vars
  BY <1>2 DEF vars, indexVars, chainVars, threadVars, nodeVars, IInv, TypeOK,
              LinkedWhenComplete, InTree
<1> QED BY <1>1, <1>2 DEF Next, Quiet

\* The inductive invariant holds in every reachable state.
THEOREM Invariance == Spec => []IInv
BY InitIInv, NextIInv, PTL DEF Spec

\* Every variable of the block tree keeps its type, through every error,
\* command and interleaving (the types of main.cpp and chain.h).
THEOREM TypeCorrect == Spec => []TypeOK
<1>1. IInv => TypeOK
  BY DEF IInv
<1> QED BY <1>1, Invariance, PTL

\* Whatever order headers and data arrive in, nChainTx is set exactly for the
\* blocks whose whole chain is stored and mapBlocksUnlinked holds exactly the
\* others that have data (ReceivedBlockTransactions).
THEOREM LinkingIsExact == Spec => []LinkedWhenComplete
<1>1. IInv => LinkedWhenComplete
  BY DEF IInv
<1> QED BY <1>1, Invariance, PTL

-----------------------------------------------------------------------------
\* Everything but the arrival of a block's data leaves the sequence numbers
\* and the linked blocks alone.
LEMMA NumbersStay ==
    ASSUME [Next]_vars
    PROVE  \/ \E t \in Threads, b \in Blocks : AcceptBlock(t, b) /\ ReceiveLinked(b)
           \/ UNCHANGED <<chainTx, seq, nextSeq>>
<1>1. ASSUME NEW t \in Threads, NEW b \in Blocks, ProcessNewBlock(t, b),
             ~(AcceptBlock(t, b) /\ ReceiveLinked(b))
      PROVE  UNCHANGED <<chainTx, seq, nextSeq>>
  BY <1>1 DEF ProcessNewBlock, CheckRejects, AcceptDuplicate, AcceptFailing, AcceptUnwritten,
              AcceptBlock, ReceiveUnlinked, AcceptOnCheckpoint, indexVars
<1>2. ASSUME NEW t \in Threads, OperatorCommand(t) PROVE UNCHANGED <<chainTx, seq, nextSeq>>
  BY <1>2 DEF OperatorCommand, InvalidateBlock, InvalidateError, InvalidateGenesis,
              ReconsiderRPC, ReplayStart, indexVars
<1>3. ASSUME NEW t \in Threads, ActivateBestChain(t) PROVE UNCHANGED <<chainTx, seq, nextSeq>>
  BY <1>3 DEF ActivateBestChain, NothingToDo, ActivateBestChainStep, StepError, StepAsserts,
              LoopTest, FinishActivate, indexVars
<1>4. ASSUME NEW t \in Threads, Replay(t) PROVE UNCHANGED <<chainTx, seq, nextSeq>>
  BY <1>4 DEF Replay, ReplayReconsider, ReplayDisconnect, ReplayError, DisconnectAsserts,
              indexVars
<1>5. CASE UNCHANGED vars
  BY <1>5 DEF vars, indexVars
<1> QED BY <1>1, <1>2, <1>3, <1>4, <1>5 DEF Next, Quiet

\* A step leaves the sequence number of a linked block alone.
LEMMA NextOrder == IInv /\ [Next]_vars => \A b \in chainTx : seq'[b] = seq[b]
<1> SUFFICES ASSUME IInv, [Next]_vars PROVE \A b \in chainTx : seq'[b] = seq[b]
  OBVIOUS
<1>1. ASSUME NEW t \in Threads, NEW c \in Blocks, AcceptBlock(t, c), ReceiveLinked(c)
      PROVE  \A b \in chainTx : seq'[b] = seq[b]
  <2>1. Linked(c) \cap chainTx = {}
    BY <1>1, LinkedFacts DEF AcceptBlock, Locked, Offered, Storable, ReceiveLinked, IInv
  <2>2. chainTx \subseteq Blocks
    BY DEF IInv, TypeOK
  <2> QED BY <1>1, <2>1, <2>2 DEF ReceiveLinked
<1> QED BY <1>1, NumbersStay

\* The keys of setBlockIndexCandidates never change while a block can be in
\* it: CBlockIndexWorkComparator keeps ordering the set.
THEOREM OrderIsFrozen == Spec => OrderFrozen
<1>1. IInv /\ [Next]_vars => [\A b \in chainTx : seq'[b] = seq[b]]_vars
  BY NextOrder
<1> QED BY <1>1, Invariance, PTL DEF Spec, OrderFrozen

-----------------------------------------------------------------------------
\* CBlockIndexWorkComparator: of two blocks only one sorts before the other,
\* and what is no worse than a block is no worse than any block below it.
LEMMA Order ==
    ASSUME TypeOK, NEW a \in Blocks, NEW b \in Blocks
    PROVE  /\ Worse(a, b) => ~Worse(b, a)
           /\ \A x \in Anc[b] : ~Worse(a, b) => ~Worse(a, x)
<1>1. /\ Work[a] \in Nat /\ Work[b] \in Nat
      /\ seq[a] \in Nat /\ seq[b] \in Nat
      /\ Addr[a] \in Nat /\ Addr[b] \in Nat
  BY TreeAssumption DEF TypeOK
<1>2. Worse(a, b) => ~Worse(b, a)
  BY <1>1 DEF Worse, WorseIn
<1>3. ASSUME NEW x \in Anc[b], ~Worse(a, b) PROVE ~Worse(a, x)
  <2>1. CASE x = b
    BY <1>3, <2>1
  <2>2. CASE x # b
    <3>1. x \in Blocks
      BY Tree
    <3>2. Work[x] \in Nat /\ Work[x] < Work[b]
      BY <2>2, <3>1, TreeAssumption
    <3>3. Work[b] <= Work[a]
      BY <1>1, <1>3 DEF Worse, WorseIn
    <3> QED BY <1>1, <3>2, <3>3 DEF Worse, WorseIn
  <2> QED BY <2>1, <2>2
<1> QED BY <1>2, <1>3

\* Candidates stay in range when the tip moves down, and when those that are
\* kept or added are no worse than the new tip.
LEMMA RangeStep ==
    ASSUME IInv, IInv', CandidatesInRange, seq' = seq,
           \A c \in candidates' : \/ c \in candidates /\ tip' \in Anc[tip]
                                  \/ ~Worse(c, tip')
    PROVE  CandidatesInRange'
<1> SUFFICES ASSUME NEW c \in candidates' PROVE c \in chainTx' /\ ~Worse(c, tip')
  BY DEF CandidatesInRange, Worse
<1>1. c \in chainTx'
  BY DEF IInv, InTree
<1>2. CASE ~Worse(c, tip')
  BY <1>1, <1>2
<1>3. CASE c \in candidates /\ tip' \in Anc[tip]
  <2>1. c \in Blocks /\ tip \in Blocks /\ ~Worse(c, tip)
    BY <1>3 DEF IInv, TypeOK, CandidatesInRange
  <2> QED BY <1>1, <1>3, <2>1, Order DEF IInv
<1> QED BY <1>2, <1>3

\* What ReconsiderBlock adds is better than the tip.
LEMMA ReconsiderRange ==
    ASSUME IInv, IInv', CandidatesInRange, NEW b \in Blocks, ReconsiderBlock(b),
           seq' = seq, tip' = tip
    PROVE  CandidatesInRange'
<1>1. tip \in Blocks /\ tip \in Anc[tip] /\ candidates' \subseteq Blocks
  BY Tree DEF IInv, TypeOK
<1>2. ASSUME NEW c \in candidates' PROVE c \in candidates \/ ~Worse(c, tip)
  <2>1. c \in candidates \/ Worse(tip, c)
    BY DEF ReconsiderBlock
  <2> QED BY <1>1, <2>1, Order DEF IInv
<1> QED BY <1>1, <1>2, RangeStep

\* A new block, and what was waiting for it, is compared with the tip as it
\* is linked; the numbers of the others do not change.
LEMMA ReceiveRange ==
    ASSUME IInv, IInv', CandidatesInRange,
           NEW t \in Threads, NEW b \in Blocks, AcceptBlock(t, b), ReceiveLinked(b)
    PROVE  CandidatesInRange'
<1> SUFFICES ASSUME NEW c \in candidates' PROVE c \in chainTx' /\ ~WorseIn(seq', c, tip)
  BY DEF CandidatesInRange, Worse, AcceptBlock
<1>1. c \in chainTx'
  BY DEF IInv, InTree
<1>2. CASE c \notin candidates
  BY <1>1, <1>2 DEF ReceiveLinked
<1>3. CASE c \in candidates
  <2>1. ~WorseIn(seq, c, tip) /\ c \in chainTx /\ tip \in chainTx
    BY <1>3 DEF CandidatesInRange, Worse, IInv, InTree
  <2>2. [Next]_vars
    BY DEF Next, ProcessNewBlock
  <2>3. seq'[c] = seq[c] /\ seq'[tip] = seq[tip]
    BY <2>1, <2>2, NextOrder
  <2> QED BY <1>1, <2>1, <2>3 DEF WorseIn
<1> QED BY <1>2, <1>3

LEMMA ProcessRange ==
    ASSUME IInv, IInv', CandidatesInRange,
           NEW t \in Threads, NEW b \in Blocks, ProcessNewBlock(t, b)
    PROVE  CandidatesInRange'
<1>1. CASE AcceptBlock(t, b) /\ ReceiveLinked(b)
  BY <1>1, ReceiveRange
<1>2. CASE AcceptOnCheckpoint(t, b)
  <2>1. Parent[b] \in Blocks
    BY <1>2 DEF AcceptOnCheckpoint, Locked, Offered, IInv, TypeOK
  <2> QED BY <1>2, <2>1, ReconsiderRange DEF AcceptOnCheckpoint
<1>3. CASE ~(AcceptBlock(t, b) /\ ReceiveLinked(b)) /\ ~AcceptOnCheckpoint(t, b)
  <2>1. candidates' = candidates /\ tip' = tip /\ seq' = seq
    BY <1>3 DEF ProcessNewBlock, CheckRejects, AcceptDuplicate, AcceptFailing, AcceptUnwritten,
                AcceptBlock, ReceiveUnlinked, indexVars, chainVars
  <2>2. tip \in Anc[tip]
    BY Tree DEF IInv, TypeOK
  <2> QED BY <2>1, <2>2, RangeStep
<1> QED BY <1>1, <1>2, <1>3

\* A step ends on a tip the candidates were pruned for, or on the fork, which
\* is below the old tip.
LEMMA PrunedRange ==
    ASSUME IInv, NEW x \in Blocks, NEW S, NEW c \in PrunedAfter(S, x)
    PROVE  c \in S /\ (x \in Anc[tip] \/ ~Worse(c, x))
<1>1. CASE Path(x) = {}
  BY <1>1, Tree DEF PrunedAfter, Path
<1>2. CASE Path(x) # {}
  BY <1>2 DEF PrunedAfter, Pruned
<1> QED BY <1>1, <1>2

LEMMA ActivateRange ==
    ASSUME IInv, IInv', CandidatesInRange, NEW t \in Threads, ActivateBestChainStep(t)
    PROVE  CandidatesInRange'
<1>0. PICK m \in candidates \ {tip} : \E x \in Anc[m] :
          /\ StepDone(m, x) \/ StepInvalid(m, x) \/ StepDamaged(m, x)
          /\ tip' = x
  BY DEF ActivateBestChainStep
<1>1. PICK x \in Anc[m] :
          /\ StepDone(m, x) \/ StepInvalid(m, x) \/ StepDamaged(m, x)
          /\ tip' = x
  BY <1>0
<1>2. seq' = seq
  BY DEF ActivateBestChainStep
<1>3. m \in Blocks /\ x \in Blocks
  BY <1>1, Tree DEF IInv, TypeOK
<1>4. CASE StepDone(m, x)
  BY <1>1, <1>2, <1>4, RangeStep DEF StepDone, Pruned
<1>5. CASE StepInvalid(m, x) \/ StepDamaged(m, x)
  <2>1. \A c \in candidates' : c \in PrunedAfter(candidates \ Discarded, x)
    BY <1>5 DEF StepInvalid, StepDamaged
  <2>2. \A c \in candidates' : c \in candidates /\ (x \in Anc[tip] \/ ~Worse(c, x))
    BY <1>3, <2>1, PrunedRange
  <2> QED BY <1>1, <1>2, <2>2, RangeStep
<1> QED BY <1>1, <1>4, <1>5

LEMMA ErrorRange ==
    ASSUME IInv, IInv', CandidatesInRange, NEW t \in Threads, StepError(t)
    PROVE  CandidatesInRange'
<1>1. seq' = seq
  BY DEF StepError
<1>2. PICK m \in candidates \ {tip} :
          \/ \E x \in Anc[tip] \ Anc[m] : tip' = x /\ candidates' = candidates \ Discarded
          \/ \E x \in Anc[m] :
                 tip' = x /\ candidates' = PrunedAfter(candidates \ Discarded, x)
  BY DEF StepError, DisconnectFails, ConnectFails
<1>3. CASE \E x \in Anc[tip] \ Anc[m] : tip' = x /\ candidates' = candidates \ Discarded
  BY <1>1, <1>3, RangeStep
<1>4. CASE \E x \in Anc[m] : tip' = x /\ candidates' = PrunedAfter(candidates \ Discarded, x)
  <2>1. PICK x \in Anc[m] : tip' = x /\ candidates' = PrunedAfter(candidates \ Discarded, x)
    BY <1>4
  <2>2. x \in Blocks
    BY <2>1, Tree DEF IInv, TypeOK
  <2>3. \A c \in candidates' : c \in candidates /\ (x \in Anc[tip] \/ ~Worse(c, x))
    BY <2>1, <2>2, PrunedRange
  <2> QED BY <1>1, <2>1, <2>3, RangeStep
<1> QED BY <1>2, <1>3, <1>4

LEMMA CommandRange ==
    ASSUME IInv, IInv', CandidatesInRange, NEW t \in Threads, OperatorCommand(t)
    PROVE  CandidatesInRange'
<1>1. tip \in Anc[tip] /\ tip \in Blocks /\ Genesis \in Anc[tip]
  BY Tree, TreeAssumption DEF IInv, TypeOK
<1>2. ASSUME NEW b \in Blocks, InvalidateBlock(t, b) PROVE CandidatesInRange'
  <2>1. b \in Blocks \ {Genesis} /\ seq' = seq
    BY <1>2 DEF InvalidateBlock, IInv, TypeOK
  <2>2. tip' \in Anc[tip]
    <3>1. CASE b \in Anc[tip]
      <4>1. Anc[b] \subseteq Anc[tip]
        BY <1>1, <2>1, <3>1, TreeAssumption
      <4>2. Parent[b] \in Anc[b]
        BY <2>1, Tree
      <4> QED BY <1>2, <3>1, <4>1, <4>2 DEF InvalidateBlock
    <3>2. CASE b \notin Anc[tip]
      BY <1>1, <1>2, <3>2 DEF InvalidateBlock
    <3> QED BY <3>1, <3>2
  <2>3. \A c \in candidates' : c \in candidates \/ ~Worse(c, tip')
    BY <1>2 DEF InvalidateBlock, Refill
  <2> QED BY <2>1, <2>2, <2>3, RangeStep
<1>3. ASSUME NEW b \in Blocks, InvalidateError(t, b) PROVE CandidatesInRange'
  <2>1. seq' = seq /\ tip' \in Anc[tip] /\ candidates' \subseteq candidates
    BY <1>3 DEF InvalidateError, DisconnectFails, Above
  <2> QED BY <2>1, RangeStep
<1>4. ASSUME NEW b \in Blocks, ReconsiderRPC(t, b) PROVE CandidatesInRange'
  BY <1>4, ReconsiderRange DEF ReconsiderRPC
<1>5. CASE InvalidateGenesis(t)
  <2>1. seq' = seq /\ tip' \in Anc[tip] /\ candidates' \subseteq candidates
    BY <1>1, <1>5 DEF InvalidateGenesis
  <2> QED BY <2>1, RangeStep
<1>6. CASE ReplayStart(t)
  <2>1. seq' = seq /\ tip' = tip /\ candidates' = candidates
    BY <1>6 DEF ReplayStart, indexVars, chainVars
  <2> QED BY <1>1, <2>1, RangeStep
<1> QED BY <1>2, <1>3, <1>4, <1>5, <1>6 DEF OperatorCommand

LEMMA ReplayRange ==
    ASSUME IInv, IInv', CandidatesInRange, NEW t \in Threads, Replay(t)
    PROVE  CandidatesInRange'
<1>1. tip \in Anc[tip]
  BY Tree DEF IInv, TypeOK
<1>2. ASSUME NEW b \in Blocks, ReplayReconsider(t, b) PROVE CandidatesInRange'
  BY <1>2, ReconsiderRange DEF ReplayReconsider, threadVars
<1>3. CASE ReplayDisconnect(t) \/ ReplayError(t) \/ DisconnectAsserts(t)
  <2>1. seq' = seq /\ tip' \in Anc[tip] /\ candidates' = candidates
    BY <1>1, <1>3 DEF ReplayDisconnect, ReplayError, DisconnectFails, DisconnectAsserts,
                      indexVars, chainVars
  <2> QED BY <2>1, RangeStep
<1> QED BY <1>2, <1>3 DEF Replay

LEMMA NextRange == IInv /\ IInv' /\ CandidatesInRange /\ [Next]_vars => CandidatesInRange'
<1> SUFFICES ASSUME IInv, IInv', CandidatesInRange, [Next]_vars PROVE CandidatesInRange'
  OBVIOUS
<1>1. tip \in Anc[tip]
  BY Tree DEF IInv, TypeOK
<1>2. ASSUME NEW t \in Threads, ActivateBestChain(t) PROVE CandidatesInRange'
  <2>1. CASE ActivateBestChainStep(t)
    BY <2>1, ActivateRange
  <2>2. CASE StepError(t)
    BY <2>2, ErrorRange
  <2>3. CASE NothingToDo(t)
    <3>1. seq' = seq /\ tip' = tip /\ candidates' \subseteq candidates
      BY <2>3 DEF NothingToDo, Discard
    <3> QED BY <1>1, <3>1, RangeStep
  <2>4. CASE StepAsserts(t) \/ LoopTest(t) \/ FinishActivate(t)
    <3>1. seq' = seq /\ tip' = tip /\ candidates' = candidates
      BY <2>4 DEF StepAsserts, LoopTest, FinishActivate, indexVars, chainVars
    <3> QED BY <1>1, <3>1, RangeStep
  <2> QED BY <1>2, <2>1, <2>2, <2>3, <2>4 DEF ActivateBestChain
<1>3. CASE UNCHANGED vars
  <2>1. seq' = seq /\ tip' = tip /\ candidates' = candidates
    BY <1>3 DEF vars, indexVars, chainVars
  <2> QED BY <1>1, <2>1, RangeStep
<1> QED BY <1>2, <1>3, ProcessRange, CommandRange, ReplayRange DEF Next, Quiet

\* setBlockIndexCandidates never holds a block that sorts worse than the tip
\* or whose chain is incomplete: pruning, rollbacks, reconsideration and the
\* early returns of failed reorganisations all keep it ("All CBlockIndex
\* entries with BLOCK_VALID_TRANSACTIONS (for itself and all ancestors) and as
\* good as our current tip or better").
THEOREM CandidatesAreInRange == Spec => []CandidatesInRange
<1>1. Init => CandidatesInRange
  <2> SUFFICES ASSUME Init PROVE Genesis \in chainTx /\ ~Worse(Genesis, Genesis)
    BY DEF Init, CandidatesInRange
  <2>1. TypeOK /\ Genesis \in Blocks
    BY InitIInv, TreeAssumption DEF IInv
  <2> QED BY <2>1, Order DEF Init
<1>2. IInv /\ IInv' /\ CandidatesInRange /\ [Next]_vars => CandidatesInRange'
  BY NextRange
<1> QED BY <1>1, <1>2, Invariance, PTL DEF Spec
-----------------------------------------------------------------------------
\* A block a search for the most work gives up is off the active chain and is
\* failed itself or lies above a failed block that is off it too.
LEMMA DiscardedFailed ==
    ASSUME IInv, NEW y \in Discarded
    PROVE  /\ y \in Blocks /\ y \notin Anc[tip]
           /\ \E f \in Failed : f \in Anc[y] /\ f \notin Anc[tip]
<1>1. PICK d \in candidates : ~Usable(d) /\ y \in DownToFailed(d)
  BY DEF Discarded
<1>2. d \in Blocks
  BY DEF IInv, TypeOK
<1>3. y \in Anc[d] /\ y \notin Anc[tip] /\ y \in Blocks
  BY <1>1, <1>2, Tree DEF DownToFailed, Path
<1>4. PICK f \in Path(d) : f \in Failed
  BY <1>1 DEF Usable
<1>5. f \in Anc[y]
  <2>1. f \in Anc[y] \/ y \in Anc[f]
    BY <1>2, <1>3, <1>4, TreeAssumption DEF Path
  <2>2. CASE y \in Anc[f] /\ f # y
    BY <1>1, <1>4, <2>2 DEF DownToFailed
  <2>3. CASE f = y
    BY <1>3, <2>3, Tree
  <2> QED BY <2>1, <2>2, <2>3
<1> QED BY <1>3, <1>4, <1>5 DEF Path

\* What a search for the most work gives up is off the active chain, and off
\* the path of any block it could return.
LEMMA DiscardedFacts ==
    ASSUME IInv
    PROVE  /\ Discarded \cap Anc[tip] = {}
           /\ \A m \in Blocks : Usable(m) => Discarded \cap Anc[m] = {}
<1>1. ASSUME NEW y \in Discarded, NEW m \in Blocks, Usable(m), y \in Anc[m]
      PROVE  FALSE
  <2>1. PICK f \in Failed : f \in Anc[y] /\ f \notin Anc[tip]
    BY DiscardedFailed
  <2>2. f \in Anc[m]
    BY <1>1, <2>1, DiscardedFailed, TreeAssumption
  <2> QED BY <1>1, <2>1, <2>2 DEF Usable, Path
<1> QED BY <1>1, DiscardedFailed

\* A step towards a usable block connects no failed one.
LEMMA ActivateValid ==
    ASSUME IInv, ActiveChainValid, NEW t \in Threads, ActivateBestChainStep(t)
    PROVE  ActiveChainValid'
<1>0. PICK m \in candidates \ {tip} :
          /\ IsMostWork(m)
          /\ \E x \in Anc[m] :
                 /\ StepDone(m, x) \/ StepInvalid(m, x) \/ StepDamaged(m, x)
                 /\ tip' = x
  BY DEF ActivateBestChainStep
<1>1. PICK x \in Anc[m] :
          /\ StepDone(m, x) \/ StepInvalid(m, x) \/ StepDamaged(m, x)
          /\ tip' = x
  BY <1>0
<1>2. m \in Blocks /\ x \in Blocks /\ Anc[x] \subseteq Anc[m]
  BY <1>1, Tree, TreeAssumption DEF IInv, TypeOK
<1>3. Usable(m) /\ Discarded \cap Anc[m] = {}
  BY <1>0, <1>2, DiscardedFacts DEF IsMostWork
<1>4. Anc[m] \cap Failed = {}
  BY <1>3 DEF Usable, Path, ActiveChainValid
<1>5. failedChild' = failedChild \cup (Discarded \ Failed)
  BY DEF ActivateBestChainStep
<1>6. failedValid' \cap Anc[x] = {}
  <2>1. CASE StepDone(m, x) \/ StepDamaged(m, x)
    BY <1>2, <1>4, <2>1 DEF StepDone, StepDamaged, Failed
  <2>2. CASE StepInvalid(m, x)
    <3>1. PICK r \in (Anc[m] \ Anc[x]) : failedValid' = failedValid \cup {r}
      BY <2>2 DEF StepInvalid
    <3> QED BY <1>2, <1>4, <3>1 DEF Failed
  <2> QED BY <1>1, <2>1, <2>2
<1> QED BY <1>1, <1>2, <1>3, <1>4, <1>5, <1>6 DEF ActiveChainValid, Failed

\* InvalidateBlock marks b and what is above it, and leaves none of them
\* active.
LEMMA InvalidateValid ==
    ASSUME IInv, ActiveChainValid, NEW t \in Threads, NEW b \in Blocks, InvalidateBlock(t, b)
    PROVE  ActiveChainValid'
<1>1. b \in Blocks \ {Genesis} /\ tip \in Blocks /\ Parent[b] \in Blocks
  BY Tree DEF InvalidateBlock, IInv, TypeOK
<1>2. failedValid' = failedValid \cup {b} /\ failedChild' = failedChild \cup Above(b)
  BY DEF InvalidateBlock
<1>3. CASE b \in Anc[tip]
  <2>1. tip' = Parent[b]
    BY <1>3 DEF InvalidateBlock
  <2>2. Anc[Parent[b]] \subseteq Anc[tip]
    BY <1>1, <1>3, Tree, TreeAssumption
  <2>3. b \notin Anc[Parent[b]]
    BY <1>1, Tree
  <2>4. \A x \in Anc[Parent[b]] : b \notin Anc[x]
    BY <1>1, <2>3, Tree, TreeAssumption
  <2> QED BY <1>2, <2>1, <2>2, <2>3, <2>4 DEF ActiveChainValid, Failed, Above
<1>4. CASE b \notin Anc[tip]
  <2>1. tip' = tip
    BY <1>4 DEF InvalidateBlock
  <2>2. Above(b) = {}
    BY <1>1, <1>4, TreeAssumption, Tree DEF Above
  <2> QED BY <1>2, <1>4, <2>1, <2>2 DEF ActiveChainValid, Failed
<1> QED BY <1>3, <1>4

LEMMA NextValid ==
    ASSUME "step" \notin Faults, "genesis" \notin Commands,
           IInv, ActiveChainValid, [Next]_vars
    PROVE  ActiveChainValid'
<1>1. tip \in Blocks /\ Anc[tip] \subseteq haveData
  <2>1. tip \in chainTx
    BY DEF IInv, InTree
  <2> QED BY <2>1 DEF IInv, TypeOK, LinkedWhenComplete
<1>2. ASSUME NEW t \in Threads, NEW b \in Blocks, ProcessNewBlock(t, b) PROVE ActiveChainValid'
  <2>1. tip' = tip
    BY <1>2 DEF ProcessNewBlock, CheckRejects, AcceptDuplicate, AcceptFailing, AcceptUnwritten,
                AcceptBlock, AcceptOnCheckpoint, chainVars
  <2>2. failedChild' \subseteq failedChild
    BY <1>2 DEF ProcessNewBlock, CheckRejects, AcceptDuplicate, AcceptFailing, AcceptUnwritten,
                AcceptBlock, AcceptOnCheckpoint, ReconsiderBlock, indexVars
  <2>3. failedValid' \cap Anc[tip] \subseteq failedValid
    <3>1. CASE AcceptFailing(t, b)
      <4>1. b \notin haveData /\ failedValid' = failedValid \cup {b}
        BY <3>1 DEF AcceptFailing, Storable
      <4> QED BY <1>1, <4>1
    <3>2. CASE ~AcceptFailing(t, b)
      BY <1>2, <3>2 DEF ProcessNewBlock, CheckRejects, AcceptDuplicate, AcceptUnwritten,
                AcceptBlock, AcceptOnCheckpoint, ReconsiderBlock, indexVars
    <3> QED BY <3>1, <3>2
  <2> QED BY <2>1, <2>2, <2>3 DEF ActiveChainValid, Failed
<1>3. ASSUME NEW t \in Threads, OperatorCommand(t) PROVE ActiveChainValid'
  <2>1. ASSUME NEW b \in Blocks, InvalidateBlock(t, b) PROVE ActiveChainValid'
    BY <2>1, InvalidateValid
  <2>2. ASSUME NEW b \in Blocks, ReconsiderRPC(t, b) PROVE ActiveChainValid'
    BY <2>2 DEF ReconsiderRPC, ReconsiderBlock, ActiveChainValid, Failed
  <2>3. CASE ReplayStart(t)
    BY <2>3 DEF ReplayStart, indexVars, chainVars, ActiveChainValid, Failed
  <2>4. ~InvalidateGenesis(t) /\ \A b \in Blocks : ~InvalidateError(t, b)
    BY DEF InvalidateGenesis, InvalidateError, Command
  <2> QED BY <1>3, <2>1, <2>2, <2>3, <2>4 DEF OperatorCommand
<1>4. ASSUME NEW t \in Threads, ActivateBestChain(t) PROVE ActiveChainValid'
  <2>1. CASE ActivateBestChainStep(t)
    BY <2>1, ActivateValid
  <2>2. CASE NothingToDo(t)
    <3>1. tip' = tip /\ failedValid' = failedValid
          /\ failedChild' = failedChild \cup (Discarded \ Failed)
      BY <2>2 DEF NothingToDo, Discard
    <3> QED BY <3>1, DiscardedFacts DEF ActiveChainValid, Failed
  <2>3. CASE StepAsserts(t) \/ LoopTest(t) \/ FinishActivate(t)
    BY <2>3 DEF StepAsserts, LoopTest, FinishActivate, indexVars, chainVars,
                ActiveChainValid, Failed
  <2>4. ~StepError(t)
    BY DEF StepError
  <2> QED BY <1>4, <2>1, <2>2, <2>3, <2>4 DEF ActivateBestChain
<1>5. ASSUME NEW t \in Threads, Replay(t) PROVE ActiveChainValid'
  <2>1. tip' \in Anc[tip]
    <3>1. ~ReplayError(t)
      BY DEF ReplayError
    <3> QED BY <1>1, <1>5, <3>1, Tree DEF Replay, ReplayReconsider, ReplayDisconnect,
                                          DisconnectAsserts, chainVars
  <2>2. failedValid' \subseteq failedValid /\ failedChild' \subseteq failedChild
    BY <1>5 DEF Replay, ReplayReconsider, ReconsiderBlock, ReplayDisconnect, ReplayError,
                DisconnectAsserts, indexVars
  <2>3. Anc[tip'] \subseteq Anc[tip]
    BY <1>1, <2>1, Tree, TreeAssumption
  <2> QED BY <2>2, <2>3 DEF ActiveChainValid, Failed
<1>6. CASE UNCHANGED vars
  BY <1>6 DEF vars, indexVars, chainVars, ActiveChainValid, Failed
<1> QED BY <1>2, <1>3, <1>4, <1>5, <1>6 DEF Next, Quiet

\* No block of the active chain is ever marked failed, whatever threads and
\* commands interleave, as long as no read or write fails while the tip moves
\* (InvalidateBlock then returns half way) and nobody invalidates the genesis
\* block (FindMostWorkChain, ActivateBestChainStep, InvalidateBlock).
THEOREM ActiveChainIsValid ==
    "step" \notin Faults /\ "genesis" \notin Commands => (Spec => []ActiveChainValid)
<1> SUFFICES ASSUME "step" \notin Faults, "genesis" \notin Commands
             PROVE  Spec => []ActiveChainValid
  OBVIOUS
<1>1. Init => ActiveChainValid
  BY DEF Init, ActiveChainValid, Failed
<1>2. IInv /\ ActiveChainValid /\ [Next]_vars => ActiveChainValid'
  BY NextValid
<1> QED BY <1>1, <1>2, Invariance, PTL DEF Spec

-----------------------------------------------------------------------------
\* What CoinsFollowTip rests on: once apart, the coins view and the tip are
\* apart by one block and the node has been told to shut down.
CoinsParted == coinsBest # tip => aborted /\ OneApart

\* A step that leaves both alone, and one that leaves them together.
LEMMA CoinsRest ==
    ASSUME CoinsParted,
           \/ UNCHANGED <<coinsBest, tip>> /\ (aborted => aborted')
           \/ coinsBest = tip /\ coinsBest' = tip'
    PROVE  /\ coinsBest # tip => UNCHANGED <<coinsBest, tip>>
           /\ coinsBest' # tip' => aborted' /\ OneApart'
BY DEF CoinsParted, OneApart

LEMMA NextCoins ==
    ASSUME IInv, CoinsParted, [Next]_vars
    PROVE  /\ coinsBest # tip => UNCHANGED <<coinsBest, tip>>
           /\ coinsBest' # tip' => aborted' /\ OneApart'
<1> DEFINE Followed == /\ coinsBest # tip => UNCHANGED <<coinsBest, tip>>
                       /\ coinsBest' # tip' => aborted' /\ OneApart'
<1>1. aborted \in BOOLEAN /\ tip \in Blocks
  BY DEF IInv, TypeOK
<1>2. ASSUME NEW t \in Threads, NEW b \in Blocks, ProcessNewBlock(t, b) PROVE Followed
  <2>1. UNCHANGED <<coinsBest, tip>> /\ (aborted => aborted')
    BY <1>2 DEF ProcessNewBlock, CheckRejects, AcceptDuplicate, AcceptFailing, AcceptUnwritten,
                AcceptBlock, AcceptOnCheckpoint, chainVars, nodeVars
  <2> QED BY <2>1, CoinsRest
<1>3. ASSUME NEW t \in Threads, OperatorCommand(t) PROVE Followed
  <2>1. ASSUME NEW b \in Blocks, InvalidateError(t, b) PROVE Followed
    <3>1. PICK x \in Above(b) : DisconnectFails(x)
      BY <2>1 DEF InvalidateError
    <3>2. x \in Blocks \ {Genesis}
      BY <2>1, <3>1, ActiveLinked, TreeAssumption DEF InvalidateError, Above
    <3> QED BY <1>1, <2>1, <3>1, <3>2, DisconnectParts DEF InvalidateError
  <2>2. ASSUME NEW b \in Blocks, InvalidateBlock(t, b) PROVE Followed
    <3>1. \/ UNCHANGED <<coinsBest, tip, aborted>>
          \/ coinsBest = tip /\ coinsBest' = tip'
      BY <2>2 DEF InvalidateBlock
    <3> QED BY <3>1, CoinsRest
  <2>3. ASSUME NEW b \in Blocks, ReconsiderRPC(t, b) PROVE Followed
    <3>1. UNCHANGED <<coinsBest, tip, aborted>>
      BY <2>3 DEF ReconsiderRPC
    <3> QED BY <3>1, CoinsRest
  <2>4. CASE InvalidateGenesis(t)
    BY <2>4, CoinsRest DEF InvalidateGenesis
  <2>5. CASE ReplayStart(t)
    BY <2>5, CoinsRest DEF ReplayStart, chainVars
  <2> QED BY <1>3, <2>1, <2>2, <2>3, <2>4, <2>5 DEF OperatorCommand
<1>4. ASSUME NEW t \in Threads, ActivateBestChain(t) PROVE Followed
  <2>1. CASE StepError(t)
    BY <2>1, ErrorMoves DEF StepError
  <2>2. CASE ActivateBestChainStep(t)
    BY <2>2, CoinsRest DEF ActivateBestChainStep
  <2>3. CASE NothingToDo(t) \/ StepAsserts(t) \/ LoopTest(t) \/ FinishActivate(t)
    <3>1. UNCHANGED <<coinsBest, tip, aborted>>
      BY <2>3 DEF NothingToDo, StepAsserts, LoopTest, FinishActivate, chainVars, nodeVars
    <3> QED BY <3>1, CoinsRest
  <2> QED BY <1>4, <2>1, <2>2, <2>3 DEF ActivateBestChain
<1>5. ASSUME NEW t \in Threads, Replay(t) PROVE Followed
  <2>1. CASE ReplayError(t)
    <3>1. PICK x \in Anc[tip] \ {Genesis} : DisconnectFails(x)
      BY <2>1 DEF ReplayError
    <3>2. x \in Blocks \ {Genesis}
      BY <3>1, ActiveLinked
    <3> QED BY <1>1, <2>1, <3>1, <3>2, DisconnectParts DEF ReplayError
  <2>2. CASE ReplayDisconnect(t)
    BY <2>2, CoinsRest DEF ReplayDisconnect
  <2>3. ASSUME NEW b \in Blocks, ReplayReconsider(t, b) PROVE Followed
    <3>1. UNCHANGED <<coinsBest, tip, aborted>>
      BY <2>3 DEF ReplayReconsider, nodeVars
    <3> QED BY <3>1, CoinsRest
  <2>4. CASE DisconnectAsserts(t)
    BY <2>4, CoinsRest DEF DisconnectAsserts, chainVars
  <2> QED BY <1>5, <2>1, <2>2, <2>3, <2>4 DEF Replay
<1>6. CASE UNCHANGED vars
  BY <1>6, CoinsRest DEF vars, chainVars, nodeVars
<1> QED BY <1>2, <1>3, <1>4, <1>5, <1>6 DEF Next, Quiet

\* The coins view and chainActive come apart only when a flush fails between
\* view.Flush() and UpdateTip, by one block and with a shutdown asked for, and
\* from then on nothing moves either of them: the threads that go on meet the
\* assert in ConnectBlock or DisconnectBlock (ConnectTip, DisconnectTip).
THEOREM CoinsFollowTheTip == Spec => CoinsFollowTip
<1>1. Init => CoinsParted
  BY DEF Init, CoinsParted
<1>2. IInv /\ CoinsParted /\ [Next]_vars => CoinsParted'
  BY NextCoins DEF CoinsParted
<1>3. IInv /\ CoinsParted /\ [Next]_vars
         => [/\ coinsBest # tip => UNCHANGED <<coinsBest, tip>>
             /\ coinsBest' # tip' => aborted' /\ OneApart']_vars
  BY NextCoins
<1> QED BY <1>1, <1>2, <1>3, Invariance, PTL DEF Spec, CoinsFollowTip
=============================================================================
