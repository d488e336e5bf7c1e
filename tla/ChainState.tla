----------------------------- MODULE ChainState -----------------------------
(***************************************************************************)
(* The block tree and the active chain of an oxid node (src/src/main.cpp). *)
(*                                                                         *)
(* Message handling, block staking, RPC and import threads add blocks to   *)
(* the tree under the lock cs_main (ProcessNewBlock, AcceptBlock) and then *)
(* drive the active chain towards the best block of                        *)
(* setBlockIndexCandidates in steps that release cs_main in between        *)
(* (ActivateBestChain).  The RPCs invalidateblock and reconsiderblock and  *)
(* the InstantX conflict handler ReprocessBlocks change the same state.    *)
(*                                                                         *)
(* An action is one critical section of cs_main.  A block is its identity: *)
(* what CheckBlock and ConnectBlock make of it is given by the CONSTANTs.  *)
(* pindexBestHeader and pindexBestInvalid only feed requests and warnings  *)
(* and are left out.                                                       *)
(***************************************************************************)
EXTENDS Integers, FiniteSets

CONSTANTS
    Blocks,       \* the blocks anyone may ever offer to the node
    Genesis,      \* Params().GenesisBlock()
    Parent,       \* hashPrevBlock of every block but Genesis
    Anc,          \* Anc[b]: b and the blocks below it (GetAncestor)
    Work,         \* nChainWork
    Addr,         \* address of the CBlockIndex, the comparator's last resort
    Bad,          \* blocks ConnectBlock always rejects
    Contextual,   \* blocks whose verdict depends on the masternode and lock
                  \* data the node has when ConnectBlock runs
    FailsCheck,   \* blocks ContextualCheckBlock rejects, header being sound
    Damaged,      \* blocks whose data on disk may be read back damaged
    Checkpoints,  \* blocks listed in mapCheckpoints
    Resubmitted,  \* blocks submitblock or the importer offers again
    Threads,      \* threads that process blocks
    NoThread,     \* cs_main is not held across actions
    ReplayDepth,  \* argument of ReprocessBlocks
    Commands,     \* commands that may come, of "invalidate", "genesis" (to
                  \* invalidate it), "reconsider" and "replay"
    MaxOps,       \* bound on how many of them come
    Faults        \* what may fail: "write" storing a received block,
                  \* "step" a read or write while tips move

ASSUME TreeAssumption ==
    /\ IsFiniteSet(Blocks)
    /\ Genesis \in Blocks
    /\ Parent \in [Blocks \ {Genesis} -> Blocks]
    /\ Anc \in [Blocks -> SUBSET Blocks]
    /\ Anc[Genesis] = {Genesis}
    /\ \A b \in Blocks \ {Genesis} : Anc[b] = {b} \cup Anc[Parent[b]]
    /\ \A a, b \in Blocks : a \in Anc[b] => Anc[a] \subseteq Anc[b]
    /\ \A b \in Blocks : \A x, y \in Anc[b] : x \in Anc[y] \/ y \in Anc[x]
    /\ \A b \in Blocks : Genesis \in Anc[b]
    /\ Work \in [Blocks -> Nat]
    /\ \A b \in Blocks \ {Genesis} : Work[Parent[b]] < Work[b]
    /\ \A a, b \in Blocks : a \in Anc[b] /\ a # b => Work[a] < Work[b]
    /\ Addr \in [Blocks -> Nat]

ASSUME ParameterAssumption ==
    /\ Bad \subseteq Blocks \ {Genesis}
    /\ Contextual \subseteq Blocks \ {Genesis}
    /\ FailsCheck \subseteq Blocks \ {Genesis}
    /\ Damaged \subseteq Blocks \ {Genesis}
    /\ Checkpoints \subseteq Blocks
    /\ Resubmitted \subseteq Blocks
    /\ NoThread \notin Threads
    /\ ReplayDepth \in Nat
    /\ Commands \subseteq {"invalidate", "genesis", "reconsider", "replay"}
    /\ MaxOps \in Nat
    /\ Faults \subseteq {"write", "step"}

VARIABLES
    known,        \* keys of mapBlockIndex
    haveData,     \* BLOCK_HAVE_DATA, set together with BLOCK_VALID_TRANSACTIONS
    scripts,      \* BLOCK_VALID_SCRIPTS
    failedValid,  \* BLOCK_FAILED_VALID
    failedChild,  \* BLOCK_FAILED_CHILD
    chainTx,      \* nChainTx > 0
    seq,          \* nSequenceId
    nextSeq,      \* nBlockSequenceId
    candidates,   \* setBlockIndexCandidates
    rejected,     \* keys of mapRejectedBlocks
    unlinked,     \* second members of mapBlocksUnlinked
    tip,          \* chainActive.Tip(); the active chain is Anc[tip]
    coinsBest,    \* pcoinsTip->GetBestBlock()
    pc,           \* where each thread is
    mostWork,     \* pindexMostWork of each thread's ActivateBestChain
    csMain,       \* the thread that keeps cs_main from one action to the next
    ops,          \* operator commands and replays so far
    aborted,      \* AbortNode was called: a shutdown is requested
    crashed       \* an assert() of main.cpp failed

indexVars == <<known, haveData, scripts, failedValid, failedChild, chainTx,
               seq, nextSeq, unlinked>>
chainVars == <<candidates, tip, coinsBest, rejected>>
threadVars == <<pc, mostWork, csMain>>
nodeVars == <<ops, aborted, crashed>>
vars == <<indexVars, chainVars, threadVars, nodeVars>>

Failed == failedValid \cup failedChild

\* CBlockIndexWorkComparator: a sorts before (is worse than) b, with the
\* sequence numbers s.
WorseIn(s, a, b) ==
    \/ Work[a] < Work[b]
    \/ /\ Work[a] = Work[b]
       /\ \/ s[a] > s[b]
          \/ s[a] = s[b] /\ Addr[a] > Addr[b]

Worse(a, b) == WorseIn(seq, a, b)

Free(t) == csMain \in {NoThread, t} /\ ~crashed

\* The path FindMostWorkChain walks, from b down to the active chain.
Path(b) == Anc[b] \ Anc[tip]

\* Mutant of Usable: looks at the candidate alone, not at its path.
UsableAlone(b) == b \notin Failed

\* Nothing prunes block files here, so a candidate never misses data
\* (CandidatesInRange) and fMissingData stays false.
Usable(b) == Path(b) \cap Failed = {}

\* Mutant of DownToFailed: gives up the whole path, below the failed block too.
WholePath(b) == Path(b)

\* From b down to the first failed block of its path.
DownToFailed(b) ==
    {x \in Path(b) : \A y \in Path(b) : x \in Anc[y] /\ y # x => y \notin Failed}

\* The blocks FindMostWorkChain takes out of the candidates before it finds
\* one it can return: the unusable candidates it meets first, each with its
\* path down to a failed block.
Discarded ==
    UNION {DownToFailed(c) : c \in {d \in candidates :
               /\ ~Usable(d)
               /\ \A e \in candidates : Usable(e) => Worse(e, d)}}

\* m is what FindMostWorkChain returns.
IsMostWork(m) ==
    /\ m \in candidates
    /\ Usable(m)
    /\ \A c \in candidates : Usable(c) => ~Worse(m, c)

NoMostWork == \A c \in candidates : ~Usable(c)

\* Mutants of Pruned: nothing is pruned; only successors of the tip are kept.
NothingPruned(S, newTip) == S
OnlySuccessors(S, newTip) == {c \in S : newTip \in Anc[c]}

\* PruneBlockIndexCandidates for a chain ending at newTip.
Pruned(S, newTip) == {c \in S : ~Worse(c, newTip)}

\* Mutants of Refill: forgets to; takes only what is better than the tip.
NoRefill(newTip, failed) == {}
RefillBetter(newTip, failed) ==
    {x \in haveData \cap chainTx : x \notin failed /\ Worse(newTip, x)}

\* mapBlockIndex entries that InvalidateBlock makes candidates again.
Refill(newTip, failed) ==
    {x \in haveData \cap chainTx : x \notin failed /\ ~Worse(x, newTip)}

-----------------------------------------------------------------------------
\* The state InitBlockIndex leaves in an empty data directory.
Init ==
    /\ known = {Genesis}
    /\ haveData = {Genesis}
    /\ scripts = {}
    /\ failedValid = {}
    /\ failedChild = {}
    /\ chainTx = {Genesis}
    /\ seq = [b \in Blocks |-> IF b = Genesis THEN 1 ELSE 0]
    /\ nextSeq = 2
    /\ candidates = {Genesis}
    /\ unlinked = {}
    /\ rejected = {}
    /\ tip = Genesis
    /\ coinsBest = Genesis
    /\ pc = [t \in Threads |-> "idle"]
    /\ mostWork = [t \in Threads |-> Genesis]
    /\ csMain = NoThread
    /\ ops = 0
    /\ aborted = FALSE
    /\ crashed = FALSE

Goto(t, l) == pc' = [pc EXCEPT ![t] = l]

(***************************************************************************)
(* ProcessNewBlock.  The "block" handler passes on a block whose header is *)
(* new and whose parent is known; local sources may offer a block again.   *)
(* A block that is rejected before it reaches the index changes nothing.   *)
(***************************************************************************)
Offered(t, b) ==
    /\ ~crashed
    /\ pc[t] = "idle"
    /\ b # Genesis
    /\ Parent[b] \in known
    /\ b \in known => b \in Resubmitted

\* AcceptBlock and what follows it in ProcessNewBlock take cs_main.
Locked(t, b) == Offered(t, b) /\ csMain = NoThread

\* Mutant of Storable: a block that is stored is stored again.
StorableTwice(b) == Parent[b] \notin Failed /\ b \notin Failed

\* The guards of AcceptBlock and AcceptBlockHeader on flags.
Storable(b) == Parent[b] \notin Failed /\ b \notin Failed \cup haveData

\* CheckBlock runs first, without cs_main.  It turns down a block that pays
\* the wrong masternode or conflicts with a transaction lock.
CheckRejects(t, b) ==
    /\ Offered(t, b)
    /\ b \in Contextual
    /\ rejected' = rejected \cup {b}
    /\ UNCHANGED <<indexVars, candidates, tip, coinsBest, threadVars, nodeVars>>

AcceptDuplicate(t, b) ==
    /\ Locked(t, b)
    /\ Parent[b] \notin Failed
    /\ b \in haveData \ Failed
    /\ Goto(t, "abc")
    /\ UNCHANGED <<indexVars, chainVars, mostWork, csMain, nodeVars>>

\* ContextualCheckBlock fails once AcceptBlockHeader has indexed the header.
AcceptFailing(t, b) ==
    /\ Locked(t, b)
    /\ Storable(b)
    /\ b \in FailsCheck
    /\ known' = known \cup {b}
    /\ failedValid' = failedValid \cup {b}
    /\ UNCHANGED <<haveData, scripts, failedChild, chainTx, seq, nextSeq,
                   unlinked, chainVars, threadVars, nodeVars>>

\* The header is indexed but FindBlockPos or WriteBlockToDisk fails.
AcceptUnwritten(t, b) ==
    /\ "write" \in Faults
    /\ Locked(t, b)
    /\ Storable(b)
    /\ b \notin FailsCheck
    /\ known' = known \cup {b}
    /\ aborted' = TRUE
    /\ UNCHANGED <<haveData, scripts, failedValid, failedChild, chainTx, seq,
                   nextSeq, unlinked, chainVars, threadVars, ops, crashed>>

\* Mutants of Linked: b alone; whatever header is above b.
LinkedAlone(b) == {b}
LinkedEagerly(b) == {x \in known \cup {b} : b \in Anc[x]}

\* The blocks ReceivedBlockTransactions(b) links: b and every block that was
\* waiting for it, through unlinked ones only.
Linked(b) == {b} \cup {x \in unlinked : b \in Anc[x] /\ Anc[x] \ Anc[b] \subseteq unlinked}

Depth(b) == Cardinality(Anc[b])

\* Mutant of Numberings: the counter is read once for the whole queue.
OneNumber(S) == {[x \in S |-> nextSeq]}

\* Sequence numbers in the order the queue of ReceivedBlockTransactions is
\* emptied: first by depth, among equals in any order.
Numberings(S) ==
    {f \in [S -> nextSeq .. nextSeq + Cardinality(S) - 1] :
        \A x, y \in S : /\ x # y => f[x] # f[y]
                        /\ Depth(x) < Depth(y) => f[x] < f[y]}

ReceiveLinked(b) ==
    /\ Parent[b] \in chainTx
    /\ chainTx' = chainTx \cup Linked(b)
    /\ unlinked' = unlinked \ Linked(b)
    /\ nextSeq' = nextSeq + Cardinality(Linked(b))
    /\ \E f \in Numberings(Linked(b)) :
           seq' = [x \in Blocks |-> IF x \in Linked(b) THEN f[x] ELSE seq[x]]
    /\ candidates' = candidates \cup {x \in Linked(b) : ~WorseIn(seq', x, tip)}

ReceiveUnlinked(b) ==
    /\ Parent[b] \notin chainTx
    /\ unlinked' = unlinked \cup {b}
    /\ UNCHANGED <<chainTx, nextSeq, seq, candidates>>

AcceptBlock(t, b) ==
    /\ Locked(t, b)
    /\ Storable(b)
    /\ b \notin FailsCheck
    /\ known' = known \cup {b}
    /\ haveData' = haveData \cup {b}
    /\ ReceiveLinked(b) \/ ReceiveUnlinked(b)
    /\ Goto(t, "abc")
    /\ UNCHANGED <<scripts, failedValid, failedChild, tip, coinsBest, rejected,
                   mostWork, csMain, nodeVars>>

(***************************************************************************)
(* ReconsiderBlock: the flags of b, its descendants and its ancestors are  *)
(* cleared; only b and its descendants can become candidates.              *)
(***************************************************************************)
ReconsiderBlock(b) ==
    LET cleared == {x \in known : b \in Anc[x] \/ x \in Anc[b]}
    IN  /\ failedValid' = failedValid \ cleared
        /\ failedChild' = failedChild \ cleared
        /\ candidates' = candidates \cup
               {x \in Failed \cap haveData \cap chainTx :
                    b \in Anc[x] /\ Worse(tip, x)}

\* AcceptBlock on top of a failed block that is a checkpoint: the parent is
\* reconsidered, ActivateBestChain runs with cs_main held, and the block
\* itself is dropped.
AcceptOnCheckpoint(t, b) ==
    /\ Locked(t, b)
    /\ Parent[b] \in Failed \cap Checkpoints
    /\ ReconsiderBlock(Parent[b])
    /\ csMain' = t
    /\ Goto(t, "abc")
    /\ UNCHANGED <<known, haveData, scripts, chainTx, seq, nextSeq, unlinked,
                   tip, coinsBest, rejected, mostWork, nodeVars>>

(***************************************************************************)
(* ActivateBestChain: FindMostWorkChain, ActivateBestChainStep, then the   *)
(* test of the loop on chainActive.Tip(), which does not take cs_main, and *)
(* CheckBlockIndex at the end.                                             *)
(***************************************************************************)
Discard ==
    /\ failedChild' = failedChild \cup (Discarded \ Failed)
    /\ candidates' = candidates \ Discarded

\* Nothing better than the tip: return.  Under AcceptOnCheckpoint this ends
\* the inner call; ProcessNewBlock then releases cs_main and calls
\* ActivateBestChain itself.
NothingToDo(t) ==
    /\ Free(t)
    /\ pc[t] = "abc"
    /\ NoMostWork \/ IsMostWork(tip)
    /\ Discard
    /\ Goto(t, IF csMain = t THEN "abc" ELSE "idle")
    /\ csMain' = NoThread
    /\ UNCHANGED <<known, haveData, scripts, failedValid, chainTx, seq, nextSeq,
                   unlinked, tip, coinsBest, rejected, mostWork, nodeVars>>

\* The step towards m may leave the chain at x: blocks above the fork are
\* connected only while the chain is no better than it was.
Reaches(m, x) ==
    /\ x \in Anc[m]
    /\ Anc[m] \cap Anc[tip] \subseteq Anc[x]
    /\ \A y \in Path(x) \ {x} : Work[y] <= Work[tip]
    /\ Path(x) \cap Bad = {}

\* The step connects every block it wants to.
StepDone(m, x) ==
    /\ Reaches(m, x)
    /\ Work[x] > Work[tip] \/ x = m
    /\ UNCHANGED <<failedValid, rejected>>
    /\ candidates' = Pruned(candidates \ Discarded, x)

PrunedAfter(S, x) == IF Path(x) = {} THEN S ELSE Pruned(S, x)

\* ConnectBlock rejects the block r on top of x.  When it is the CheckBlock
\* in it that does, r is remembered as rejected.
StepInvalid(m, x) ==
    /\ Reaches(m, x)
    /\ Work[x] <= Work[tip]
    /\ \E r \in (Anc[m] \ Anc[x]) \cap (Bad \cup Contextual) :
           /\ Parent[r] = x
           /\ failedValid' = failedValid \cup {r}
           /\ rejected' \in {rejected, rejected \cup ({r} \cap Contextual)}
           /\ candidates' = PrunedAfter(candidates \ Discarded, x) \ {r}

\* The data of the block on top of x reads back damaged: state.Corruption-
\* Possible() holds and nothing is marked.
StepDamaged(m, x) ==
    /\ Reaches(m, x)
    /\ Work[x] <= Work[tip]
    /\ \E r \in (Anc[m] \ Anc[x]) \cap Damaged : Parent[r] = x
    /\ UNCHANGED <<failedValid, rejected>>
    /\ candidates' = PrunedAfter(candidates \ Discarded, x)

ActivateBestChainStep(t) ==
    /\ Free(t)
    /\ pc[t] = "abc"
    /\ coinsBest = tip
    /\ \E m \in candidates \ {tip} :
           /\ IsMostWork(m)
           /\ \E x \in Anc[m] :
                  /\ StepDone(m, x) \/ StepInvalid(m, x) \/ StepDamaged(m, x)
                  /\ tip' = x
                  /\ coinsBest' = x
                  /\ scripts' = scripts \cup Path(x)
           /\ mostWork' = [mostWork EXCEPT ![t] = m]
    /\ failedChild' = failedChild \cup (Discarded \ Failed)
    /\ Goto(t, "loop")
    /\ UNCHANGED <<known, haveData, chainTx, seq, nextSeq, unlinked, csMain,
                   nodeVars>>

\* AbortNode: a shutdown is requested, the threads go on until they notice.
AbortNode == aborted' = TRUE

\* A DisconnectTip that fails on the block x.  Up to DisconnectBlock the coins
\* view is left alone: a failed read aborts the node, a DisconnectBlock that
\* fails does not.  FlushStateToDisk comes after view.Flush() and before
\* UpdateTip, and each of its failing exits aborts the node.
DisconnectFails(x) ==
    /\ tip' = x
    /\ \/ coinsBest' = x /\ (AbortNode \/ UNCHANGED aborted)
       \/ coinsBest' = Parent[x] /\ AbortNode
    /\ UNCHANGED scripts

\* A ConnectTip that fails on the block y, on top of x: in the read or in
\* ConnectBlock, which may or may not abort the node; in ConnectBlock after
\* the scripts are found valid, where the transaction index is written; or
\* in FlushStateToDisk, after view.Flush() and before UpdateTip.
ConnectFails(x, y) ==
    /\ tip' = x
    /\ \/ /\ coinsBest' = x /\ (AbortNode \/ UNCHANGED aborted)
          /\ scripts' = scripts \cup Path(x)
       \/ /\ y \notin Bad
          /\ coinsBest' \in {x, y} /\ AbortNode
          /\ scripts' = scripts \cup Path(y)

\* Mutant: the assert on view.GetBestBlock() is compiled out.
StepErrorUnasserted(t) ==
    /\ "step" \in Faults
    /\ Free(t)
    /\ pc[t] = "abc"
    /\ \E m \in candidates \ {tip} :
           /\ IsMostWork(m)
           /\ \/ \E x \in Anc[tip] \ Anc[m] :
                     /\ DisconnectFails(x)
                     /\ candidates' = candidates \ Discarded
              \/ \E x \in Anc[m], y \in Path(m) :
                     /\ Reaches(m, x)
                     /\ Work[x] <= Work[tip]
                     /\ Parent[y] = x
                     /\ ConnectFails(x, y)
                     /\ candidates' = PrunedAfter(candidates \ Discarded, x)
    /\ failedChild' = failedChild \cup (Discarded \ Failed)
    /\ Goto(t, IF csMain = t THEN "abc" ELSE "idle")
    /\ csMain' = NoThread
    /\ UNCHANGED <<known, haveData, failedValid, chainTx, seq, nextSeq,
                   unlinked, rejected, mostWork, ops, crashed>>

\* DisconnectTip or ConnectTip fails when the chain has reached x, and
\* ActivateBestChain returns.
StepError(t) ==
    /\ "step" \in Faults
    /\ Free(t)
    /\ pc[t] = "abc"
    /\ coinsBest = tip
    /\ \E m \in candidates \ {tip} :
           /\ IsMostWork(m)
           /\ \/ \E x \in Anc[tip] \ Anc[m] :
                     /\ DisconnectFails(x)
                     /\ candidates' = candidates \ Discarded
              \/ \E x \in Anc[m], y \in Path(m) :
                     /\ Reaches(m, x)
                     /\ Work[x] <= Work[tip]
                     /\ Parent[y] = x
                     /\ ConnectFails(x, y)
                     /\ candidates' = PrunedAfter(candidates \ Discarded, x)
    /\ failedChild' = failedChild \cup (Discarded \ Failed)
    /\ Goto(t, IF csMain = t THEN "abc" ELSE "idle")
    /\ csMain' = NoThread
    /\ UNCHANGED <<known, haveData, failedValid, chainTx, seq, nextSeq,
                   unlinked, rejected, mostWork, ops, crashed>>

\* The assert on view.GetBestBlock() at the top of ConnectBlock and
\* DisconnectBlock.
StepAsserts(t) ==
    /\ Free(t)
    /\ pc[t] = "abc"
    /\ coinsBest # tip
    /\ \E m \in candidates \ {tip} : IsMostWork(m)
    /\ crashed' = TRUE
    /\ UNCHANGED <<indexVars, chainVars, threadVars, ops, aborted>>

\* while (pindexMostWork != chainActive.Tip())
LoopTest(t) ==
    /\ ~crashed
    /\ pc[t] = "loop"
    /\ Goto(t, IF mostWork[t] = tip THEN "check" ELSE "abc")
    /\ UNCHANGED <<indexVars, chainVars, mostWork, csMain, nodeVars>>

\* CheckBlockIndex and the periodic flush at the end of ActivateBestChain.
FinishActivate(t) ==
    /\ Free(t)
    /\ pc[t] = "check"
    /\ Goto(t, IF csMain = t THEN "abc" ELSE "idle")
    /\ csMain' = NoThread
    /\ UNCHANGED <<indexVars, chainVars, mostWork, nodeVars>>

(***************************************************************************)
(* The RPCs.  Each releases cs_main before it calls ActivateBestChain.     *)
(***************************************************************************)
Command(t, c) ==
    /\ c \in Commands
    /\ csMain = NoThread /\ ~crashed
    /\ pc[t] = "idle"
    /\ ops < MaxOps

\* The blocks of the active chain from its tip down to b.
Above(b) == {x \in Anc[tip] : b \in Anc[x]}

InvalidateBlock(t, b) ==
    /\ Command(t, "invalidate")
    /\ ops' = ops + 1
    /\ b \in Anc[tip] => coinsBest = tip
    /\ b \in known \ {Genesis}
    /\ failedValid' = failedValid \cup {b}
    /\ failedChild' = failedChild \cup Above(b)
    /\ tip' = IF b \in Anc[tip] THEN Parent[b] ELSE tip
    /\ coinsBest' = IF b \in Anc[tip] THEN Parent[b] ELSE coinsBest
    /\ candidates' = (candidates \ (Above(b) \cup {b}))
                        \cup Refill(tip', failedValid' \cup failedChild')
    /\ Goto(t, "abc")
    /\ UNCHANGED <<known, haveData, scripts, chainTx, seq, nextSeq, unlinked,
                   rejected, mostWork, csMain, aborted, crashed>>

\* invalidateblock on the genesis block: DisconnectTip has no undo data for
\* it, so it stays the tip, and InvalidateBlock returns before the candidates
\* are filled up again.
InvalidateGenesis(t) ==
    /\ Command(t, "genesis")
    /\ ops' = ops + 1
    /\ coinsBest = tip
    /\ failedValid' = failedValid \cup {Genesis}
    /\ failedChild' = failedChild \cup Anc[tip]
    /\ candidates' = candidates \ Anc[tip]
    /\ tip' = Genesis
    /\ coinsBest' = Genesis
    /\ Goto(t, "abc")
    /\ UNCHANGED <<known, haveData, scripts, chainTx, seq, nextSeq, unlinked,
                   rejected, mostWork, csMain, aborted, crashed>>

\* A DisconnectTip inside InvalidateBlock fails at x: it returns at once, and
\* when the failure set the state to an error so does the RPC.
InvalidateError(t, b) ==
    /\ "step" \in Faults
    /\ Command(t, "invalidate")
    /\ ops' = ops + 1
    /\ coinsBest = tip
    /\ b \in Anc[tip] \ {Genesis}
    /\ failedValid' = failedValid \cup {b}
    /\ \E x \in Above(b) :
           /\ failedChild' = failedChild \cup Above(x)
           /\ candidates' = candidates \ (Above(x) \cup {b})
           /\ DisconnectFails(x)
    /\ \/ aborted' /\ Goto(t, "idle")
       \/ coinsBest' = tip' /\ aborted' = aborted /\ Goto(t, "abc")
    /\ UNCHANGED <<known, haveData, chainTx, seq, nextSeq, unlinked,
                   rejected, mostWork, csMain, crashed>>

ReconsiderRPC(t, b) ==
    /\ Command(t, "reconsider")
    /\ ops' = ops + 1
    /\ b \in known
    /\ ReconsiderBlock(b)
    /\ Goto(t, "abc")
    /\ UNCHANGED <<known, haveData, scripts, chainTx, seq, nextSeq, unlinked,
                   tip, coinsBest, rejected, mostWork, csMain, aborted, crashed>>

(***************************************************************************)
(* ReprocessBlocks, called when a transaction lock conflicts with a block: *)
(* recently rejected blocks are reconsidered one at a time, then the tip   *)
(* is moved back ReplayDepth + 1 blocks.                                   *)
(***************************************************************************)
ReplayStart(t) ==
    /\ Command(t, "replay")
    /\ ops' = ops + 1
    /\ Goto(t, "replay")
    /\ UNCHANGED <<indexVars, chainVars, mostWork, csMain, aborted, crashed>>

ReplayReconsider(t, b) ==
    /\ Free(t)
    /\ pc[t] = "replay"
    /\ b \in rejected \cap known
    /\ ReconsiderBlock(b)
    /\ UNCHANGED <<known, haveData, scripts, chainTx, seq, nextSeq, unlinked,
                   tip, coinsBest, rejected, threadVars, nodeVars>>

\* How far below the tip a block of the active chain is.
Below(x) == Cardinality(Anc[tip] \ Anc[x])

\* DisconnectTip fails on the genesis block, which ends the descent early.
ReplayDisconnect(t) ==
    /\ Free(t)
    /\ pc[t] = "replay"
    /\ coinsBest = tip
    /\ \E x \in Anc[tip] :
           /\ Below(x) = ReplayDepth + 1 \/ (x = Genesis /\ Below(x) <= ReplayDepth)
           /\ tip' = x
           /\ coinsBest' = x
    /\ Goto(t, "abc")
    /\ UNCHANGED <<indexVars, candidates, rejected, mostWork, csMain, nodeVars>>

\* The loop does not look at what DisconnectTip returns: when the coins view
\* was moved and the flush failed, the next round meets the assert.  There is
\* no next round when others have failed on a read before.
ReplayError(t) ==
    /\ "step" \in Faults
    /\ Free(t)
    /\ pc[t] = "replay"
    /\ coinsBest = tip
    /\ \E x \in Anc[tip] \ {Genesis} :
           /\ Below(x) <= ReplayDepth
           /\ DisconnectFails(x)
           /\ crashed' \in {FALSE, coinsBest' # x /\ Below(x) < ReplayDepth}
    /\ Goto(t, "abc")
    /\ UNCHANGED <<known, haveData, failedValid, failedChild, chainTx, seq,
                   nextSeq, unlinked, candidates, rejected, mostWork, csMain,
                   ops>>

\* InvalidateBlock and ReprocessBlocks on a coins view that is off the tip.
DisconnectAsserts(t) ==
    /\ Free(t)
    /\ coinsBest # tip
    /\ \/ pc[t] = "replay"
       \/ Command(t, "invalidate") /\ tip # Genesis
       \/ Command(t, "genesis")
    /\ crashed' = TRUE
    /\ UNCHANGED <<indexVars, chainVars, threadVars, ops, aborted>>

-----------------------------------------------------------------------------
ProcessNewBlock(t, b) ==
    \/ CheckRejects(t, b)
    \/ AcceptDuplicate(t, b)
    \/ AcceptFailing(t, b)
    \/ AcceptUnwritten(t, b)
    \/ AcceptBlock(t, b)
    \/ AcceptOnCheckpoint(t, b)

OperatorCommand(t) ==
    \/ \E b \in Blocks : InvalidateBlock(t, b) \/ InvalidateError(t, b)
                         \/ ReconsiderRPC(t, b)
    \/ InvalidateGenesis(t)
    \/ ReplayStart(t)

ActivateBestChain(t) ==
    \/ NothingToDo(t)
    \/ ActivateBestChainStep(t)
    \/ StepError(t)
    \/ StepAsserts(t)
    \/ LoopTest(t)
    \/ FinishActivate(t)

Replay(t) ==
    \/ \E b \in Blocks : ReplayReconsider(t, b)
    \/ ReplayDisconnect(t)
    \/ ReplayError(t)
    \/ DisconnectAsserts(t)

AtRest == \A t \in Threads : pc[t] = "idle"

\* With every thread done, or the process gone, nothing need happen: TLC's
\* deadlock check is left to find threads that wait for one another.
Quiet == (AtRest \/ crashed) /\ UNCHANGED vars

Next ==
    \/ \E t \in Threads :
          \/ \E b \in Blocks : ProcessNewBlock(t, b)
          \/ OperatorCommand(t)
          \/ ActivateBestChain(t)
          \/ Replay(t)
    \/ Quiet

Spec == Init /\ [][Next]_vars

\* A thread that has started to activate a chain or to replay goes on: the
\* TRY_LOCK loop sleeps and tries again, and no section holds cs_main forever.
\* Nobody has to offer blocks or give commands.
Progress(t) ==
    \/ NothingToDo(t)
    \/ ActivateBestChainStep(t)
    \/ LoopTest(t)
    \/ FinishActivate(t)
    \/ ReplayDisconnect(t)

FairSpec == Spec /\ \A t \in Threads : WF_vars(Progress(t))

-----------------------------------------------------------------------------
\* The variables range over what their types in main.cpp allow.
TypeOK ==
    /\ known \subseteq Blocks
    /\ haveData \subseteq known
    /\ scripts \subseteq haveData
    /\ failedValid \subseteq known
    /\ failedChild \subseteq known
    /\ chainTx \subseteq haveData
    /\ seq \in [Blocks -> Nat]
    /\ nextSeq \in Nat
    /\ candidates \subseteq known
    /\ unlinked \subseteq haveData
    /\ rejected \subseteq Blocks
    /\ tip \in Blocks
    /\ coinsBest \in Blocks
    /\ pc \in [Threads -> {"idle", "replay", "abc", "loop", "check"}]
    /\ mostWork \in [Threads -> Blocks]
    /\ csMain \in Threads \cup {NoThread}
    /\ ops \in 0 .. MaxOps
    /\ aborted \in BOOLEAN
    /\ crashed \in BOOLEAN

\* nChainTx is set exactly for the blocks that have the data of their whole
\* chain, whatever order the data came in, and what waits in
\* mapBlocksUnlinked is exactly the rest (ReceivedBlockTransactions;
\* CheckBlockIndex asserts both).
LinkedWhenComplete ==
    /\ chainTx = {b \in known : Anc[b] \subseteq haveData}
    /\ unlinked = haveData \ chainTx

\* setBlockIndexCandidates holds linked blocks that sort at least as good as
\* the tip, after every step, reorganisation and failure.
CandidatesInRange == \A c \in candidates : c \in chainTx /\ ~Worse(c, tip)

\* No block of the active chain is marked failed, between any two steps of
\* any thread.
ActiveChainValid == Anc[tip] \cap Failed = {}

\* A block is only marked failed when it or a block below it was found
\* invalid ("The failed mask cannot be set for blocks without invalid
\* parents" in CheckBlockIndex).
FailureHasCause == \A b \in Failed : Anc[b] \cap failedValid # {}

\* The coins view and the active chain move together.  Only a flush that
\* fails between the two parts them, by one block and with a shutdown under
\* way.  From then on no thread, command or roll back moves either of them:
\* the asserts of ConnectBlock and DisconnectBlock end the process first.
OneApart ==
    \/ coinsBest # Genesis /\ Parent[coinsBest] = tip
    \/ tip # Genesis /\ Parent[tip] = coinsBest
CoinsFollowTip ==
    [][/\ coinsBest # tip => UNCHANGED <<coinsBest, tip>>
       /\ coinsBest' # tip' => aborted' /\ OneApart']_vars

\* Whatever usable block is better than the tip, some usable candidate is at
\* least as good as it: a reorganisation that fails half way, or a
\* rollback, never forgets the chain to go back to.
BestIsCandidate ==
    \A b \in chainTx : Usable(b) /\ Worse(tip, b) =>
        \E c \in candidates : Usable(c) /\ ~Worse(c, b)

\* When every thread is done the tip is the best of all blocks that could be
\* active ("The result is either failure or an activated best chain").
TipBestAtRest ==
    AtRest => \A b \in chainTx : Usable(b) => ~Worse(tip, b)

\* Every valid linked block that sorts at least as good as the tip is a
\* candidate.
AllCandidates ==
    \A b \in chainTx : Anc[b] \cap failedValid = {} /\ ~Worse(b, tip) => b \in candidates

\* "If this block sorts at least as good as the current tip and is valid, it
\* must be in setBlockIndexCandidates": CheckBlockIndex, once the threads are
\* done.  It runs at the end of each thread's ActivateBestChain, when others
\* may be between two steps, and there the assertion can fail.
CandidatesAtRest == AtRest => AllCandidates

\* The keys a set of candidates is sorted by never change under it.
OrderFrozen == [][\A b \in chainTx : seq'[b] = seq[b]]_vars

\* Sequence numbers tell linked blocks apart, so ties are broken by arrival.
ArrivalOrder ==
    /\ \A a, b \in chainTx : a # b => seq[a] # seq[b]
    /\ \A b \in chainTx : seq[b] > 0 /\ seq[b] < nextSeq
    /\ \A b \in Blocks \ chainTx : seq[b] = 0

\* Every ActivateBestChain comes to an end.
ActivationEnds == \A t \in Threads : pc[t] # "idle" ~> pc[t] = "idle"

\* A linked block better than the tip is overtaken or found unusable.
BetterBlockWins ==
    \A b \in Blocks :
        (b \in chainTx /\ Usable(b)) ~> (~Worse(tip, b) \/ ~Usable(b))
=============================================================================
