----------------------------- MODULE CheckQueue -----------------------------
(***************************************************************************)
(* The script check queue (src/src/checkqueue.h), as ConnectBlock uses it: *)
(* the thread that connects a block hands script checks to the workers     *)
(* through a CCheckQueueControl, then works along until all are done.      *)
(*                                                                         *)
(* An action is one critical section of the queue's mutex.  A check is its *)
(* identity; Bad are the ones that return false.  The queue is a LIFO in   *)
(* which, as the code notes, the order does not matter: it is a set.       *)
(* fQuit is never set and is left out.                                     *)
(***************************************************************************)
EXTENDS Integers, FiniteSets

CONSTANTS
    Checks,     \* the script checks of a block
    Bad,        \* those that fail
    Workers,    \* threads that run ThreadScriptCheck
    Master,     \* the thread in ConnectBlock (one at a time: cs_main is held)
    BatchSize   \* nBatchSize

ASSUME QueueAssumption ==
    /\ IsFiniteSet(Checks)
    /\ Bad \subseteq Checks
    /\ IsFiniteSet(Workers)
    /\ Master \notin Workers
    /\ BatchSize \in Nat \ {0}

Threads == Workers \cup {Master}

VARIABLES
    queue,        \* queue
    nIdle,        \* nIdle
    nTotal,       \* nTotal
    nTodo,        \* nTodo
    fAllOk,       \* fAllOk
    pc,           \* where each thread is, see TypeOK
    batch,        \* vChecks of each thread
    fOk,          \* fOk of each thread as its batch starts
    added,        \* the checks given to Add for the current block
    verdict,      \* what Wait returned for it: "pending", "ok" or "failed"
    unwinding,    \* it is ~CCheckQueueControl that calls Wait
    interrupted,  \* threads with a pending boost interruption
    stopped,      \* interrupt_all was called
    crashed       \* IsIdle failed the assert, or std::terminate was called

counters == <<nIdle, nTotal, nTodo, fAllOk>>
local == <<batch, fOk>>
block == <<added, verdict, unwinding>>
process == <<interrupted, stopped, crashed>>
vars == <<queue, counters, pc, local, block, process>>

Init ==
    /\ queue = {}
    /\ nIdle = 0 /\ nTotal = 0 /\ nTodo = 0
    /\ fAllOk = TRUE
    /\ pc = [t \in Threads |-> IF t = Master THEN "out" ELSE "top"]
    /\ batch = [t \in Threads |-> {}]
    /\ fOk = [t \in Threads |-> TRUE]
    /\ added = {}
    /\ verdict = "ok"
    /\ unwinding = FALSE
    /\ interrupted = {}
    /\ stopped = FALSE
    /\ crashed = FALSE

\* The controller's constructor asserts IsIdle().
IsIdle == nTotal = nIdle /\ nTodo = 0 /\ fAllOk

Begin ==
    /\ ~crashed
    /\ pc[Master] = "out"
    /\ IF IsIdle
       THEN /\ pc' = [pc EXCEPT ![Master] = "adding"]
            /\ added' = {}
            /\ verdict' = "pending"
            /\ unwinding' = FALSE
            /\ UNCHANGED crashed
       ELSE /\ crashed' = TRUE
            /\ UNCHANGED <<pc, block>>
    /\ UNCHANGED <<queue, counters, local, interrupted, stopped>>

\* Add: notify_one for one check, notify_all for several.
Add(S) ==
    /\ ~crashed
    /\ pc[Master] = "adding"
    /\ S # {} /\ S \cap added = {}
    /\ queue' = queue \cup S
    /\ nTodo' = nTodo + Cardinality(S)
    /\ added' = added \cup S
    /\ LET asleep == {w \in Workers : pc[w] = "asleep"}
       IN  \E woken \in SUBSET asleep :
               /\ IF Cardinality(S) > 1 \/ asleep = {}
                  THEN woken = asleep
                  ELSE \E w \in asleep : woken = {w}
               /\ pc' = [t \in Threads |-> IF t \in woken THEN "woken" ELSE pc[t]]
    /\ UNCHANGED <<nIdle, nTotal, fAllOk, local, verdict, unwinding, process>>

\* control.Wait() at the end of ConnectBlock, or the destructor when it
\* returns early.
CallWait ==
    /\ ~crashed
    /\ pc[Master] = "adding"
    /\ unwinding' \in BOOLEAN
    /\ pc' = [pc EXCEPT ![Master] = "top"]
    /\ UNCHANGED <<queue, counters, local, added, verdict, process>>

-----------------------------------------------------------------------------
(***************************************************************************)
(* A pass of Loop through its critical section.  First the clean-up of the *)
(* last round: the counters as they are after it.                          *)
(***************************************************************************)
AtMutex(t) ==
    /\ ~crashed
    /\ \/ pc[t] \in {"top", "work"}
       \/ pc[t] = "woken" /\ t \notin interrupted

\* Mutant of Todo: one per batch.
OnePerBatch(t) == IF batch[t] = {} THEN nTodo ELSE nTodo - 1

Todo(t) == nTodo - Cardinality(batch[t])

\* Mutant of AllOk: the last batch decides.
LastBatch(t) ==
    IF pc[t] = "work" THEN fOk[t] /\ batch[t] \cap Bad = {} ELSE fAllOk

AllOk(t) == fAllOk /\ (pc[t] = "work" => fOk[t] /\ batch[t] \cap Bad = {})

Total(t) == IF pc[t] = "top" THEN nTotal + 1 ELSE nTotal

\* Mutant of Idle: a thread that wakes up still counts as idle.
StillIdle(t) == nIdle

Idle(t) == IF pc[t] = "woken" THEN nIdle - 1 ELSE nIdle

\* Mutant of Notifies: nobody wakes the master.
NeverNotifies(t) == FALSE

\* The worker that reports the last check wakes the master.
Notifies(t) == t # Master /\ pc[t] = "work" /\ Todo(t) = 0

Goto(t, l) ==
    pc' = [x \in Threads |->
               IF x = t THEN l
               ELSE IF x = Master /\ pc[x] = "asleep" /\ Notifies(t) THEN "woken"
               ELSE pc[x]]

CleanUp(t) ==
    /\ nTodo' = Todo(t)
    /\ nIdle' = Idle(t)
    /\ nTotal' = Total(t)
    /\ fAllOk' = AllOk(t)

NNow(t) ==
    LET share == Cardinality(queue) \div (Total(t) + Idle(t) + 1)
        most == IF share < BatchSize THEN share ELSE BatchSize
    IN  IF most > 1 THEN most ELSE 1

Take(t) ==
    /\ AtMutex(t)
    /\ \E S \in SUBSET queue :
           /\ S # {} /\ Cardinality(S) = NNow(t)
           /\ queue' = queue \ S
           /\ batch' = [batch EXCEPT ![t] = S]
    /\ CleanUp(t)
    /\ fOk' = [fOk EXCEPT ![t] = AllOk(t)]
    /\ Goto(t, "work")
    /\ UNCHANGED <<block, process>>

\* Mutant of Finished: the master does not wait for the others' batches.
QueueEmpty(t) == t = Master /\ queue = {}

\* fQuit being false, only the master ever leaves the loop.
Finished(t) == t = Master /\ queue = {} /\ Todo(t) = 0

Sleep(t) ==
    /\ AtMutex(t)
    /\ queue = {}
    /\ ~Finished(t)
    /\ nTodo' = Todo(t)
    /\ nIdle' = Idle(t) + 1
    /\ nTotal' = Total(t)
    /\ fAllOk' = AllOk(t)
    /\ batch' = [batch EXCEPT ![t] = {}]
    /\ Goto(t, "asleep")
    /\ UNCHANGED <<queue, fOk, block, process>>

\* The master resets the status for new work later.
Return ==
    /\ AtMutex(Master)
    /\ Finished(Master)
    /\ verdict' = IF AllOk(Master) THEN "ok" ELSE "failed"
    /\ nTodo' = Todo(Master)
    /\ nIdle' = Idle(Master)
    /\ nTotal' = Total(Master) - 1
    /\ fAllOk' = TRUE
    /\ batch' = [batch EXCEPT ![Master] = {}]
    /\ Goto(Master, "out")
    /\ UNCHANGED <<queue, fOk, added, unwinding, process>>

-----------------------------------------------------------------------------
(***************************************************************************)
(* boost: condition variables wake up spuriously and their wait is an      *)
(* interruption point; Shutdown interrupts all threads.                    *)
(***************************************************************************)
SpuriousWakeup(t) ==
    /\ ~crashed
    /\ pc[t] = "asleep"
    /\ pc' = [pc EXCEPT ![t] = "woken"]
    /\ UNCHANGED <<queue, counters, local, block, process>>

InterruptAll ==
    /\ ~crashed
    /\ ~stopped
    /\ stopped' = TRUE
    /\ interrupted' = {t \in Threads : pc[t] # "gone"}
    /\ UNCHANGED <<queue, counters, pc, local, block, crashed>>

\* wait throws thread_interrupted: nIdle and nTotal keep counting the thread.
\* In the master it leaves ConnectBlock through ~CCheckQueueControl, which
\* waits once more; thrown out of that destructor, it ends the process.
Interrupted(t) ==
    /\ ~crashed
    /\ pc[t] \in {"asleep", "woken"}
    /\ t \in interrupted
    /\ interrupted' = interrupted \ {t}
    /\ IF t = Master
       THEN /\ pc' = [pc EXCEPT ![t] = "top"]
            /\ unwinding' = TRUE
            /\ crashed' = unwinding
       ELSE /\ pc' = [pc EXCEPT ![t] = "gone"]
            /\ UNCHANGED <<unwinding, crashed>>
    /\ UNCHANGED <<queue, counters, local, added, verdict, stopped>>

-----------------------------------------------------------------------------
Loop(t) == Take(t) \/ Sleep(t) \/ (t = Master /\ Return)

Stopped == crashed /\ UNCHANGED vars

Next ==
    \/ Begin
    \/ \E S \in SUBSET Checks : Add(S)
    \/ CallWait
    \/ \E t \in Threads : Loop(t) \/ SpuriousWakeup(t) \/ Interrupted(t)
    \/ InterruptAll
    \/ Stopped

Spec == Init /\ [][Next]_vars

\* A thread that is not asleep gets the mutex in the end, an interrupted one
\* its exception, and ConnectBlock comes to an end.  Nobody has to start a
\* block, to wake up without a reason or to shut down.
FairSpec ==
    /\ Spec
    /\ WF_vars(CallWait)
    /\ \A t \in Threads : WF_vars(Loop(t)) /\ WF_vars(Interrupted(t))

-----------------------------------------------------------------------------
\* The variables range over what their types allow; a worker is about to take
\* the mutex ("top", "work" with a batch done, "woken"), asleep or gone.
TypeOK ==
    /\ queue \subseteq Checks
    /\ nIdle \in Int /\ nTotal \in Int /\ nTodo \in Int
    /\ fAllOk \in BOOLEAN
    /\ pc \in [Threads -> {"out", "adding", "top", "work", "asleep", "woken", "gone"}]
    /\ batch \in [Threads -> SUBSET Checks]
    /\ fOk \in [Threads -> BOOLEAN]
    /\ added \subseteq Checks
    /\ verdict \in {"pending", "ok", "failed"}
    /\ unwinding \in BOOLEAN
    /\ interrupted \subseteq Threads
    /\ stopped \in BOOLEAN
    /\ crashed \in BOOLEAN

Pending == queue \cup UNION {batch[t] : t \in Threads}

\* nTodo counts the checks that are queued or in a batch, so it can neither
\* wrap around below zero nor keep the master waiting.
TodoCounts == nTodo = Cardinality(Pending)

\* Wait answers for exactly the checks added since the controller was made,
\* whichever threads ran them, in whatever batches, and however the last
\* block ended.
VerdictRight ==
    verdict # "pending" => (verdict = "ok") = (added \cap Bad = {})

\* Between two blocks the queue is idle, also after interruptions: the
\* controller's assert cannot fail.
IdleBetweenBlocks == pc[Master] = "out" => IsIdle

\* No wake-up is lost: the master's Wait comes back ("guarantees the passed
\* queue is finished before continuing").
WaitReturns == verdict = "pending" ~> verdict # "pending" \/ crashed

\* The queue gives verdicts the way BlockVerdict asks for.
Abstract == INSTANCE BlockVerdict
Implements == Abstract!Spec
=============================================================================
