-------------------------- MODULE CheckQueueProofs --------------------------
(***************************************************************************)
(* Theorems about CheckQueue for any checks, workers and batch size.       *)
(*                                                                         *)
(* The verdict is right because a failing check is either still pending or *)
(* has cleared fAllOk (FlagTells), and the master only returns when        *)
(* nothing is pending; nTodo tells it so because the queue and the batches *)
(* are disjoint (Disjoint, TodoCounts).  The queue is idle between blocks  *)
(* because a thread that is counted and not idle holds a batch (Counts).   *)
(***************************************************************************)
EXTENDS CheckQueue, FiniteSetTheorems, TLAPS

Working == {t \in Threads : pc[t] = "work"}

\* A check is in one place.
Disjoint ==
    /\ \A t \in Threads : queue \cap batch[t] = {}
    /\ \A t, u \in Threads : t # u => batch[t] \cap batch[u] = {}

\* A thread at work has a batch, and no other has.
BatchesHeld == \A t \in Threads : (batch[t] # {}) <=> (pc[t] = "work")

Roles ==
    /\ pc[Master] # "gone"
    /\ \A w \in Workers : pc[w] \notin {"out", "adding"}
    /\ (pc[Master] = "out") <=> (verdict # "pending")

\* While a block is being checked: fAllOk is cleared only for a failing check
\* of it, and a failing check that is no longer pending has cleared it.
FlagTells ==
    /\ Pending \subseteq added
    /\ verdict = "pending" =>
           /\ ~fAllOk => added \cap Bad # {}
           /\ fAllOk => added \cap Bad \subseteq Pending
           /\ \A t \in Threads : pc[t] = "work" /\ ~fOk[t] => ~fAllOk

\* Between blocks nothing is left.
OutClean == pc[Master] = "out" => Pending = {} /\ fAllOk

\* Every thread that is counted is idle or at work.
Counts == nTotal = nIdle + Cardinality(Working)

IInv ==
    /\ TypeOK
    /\ TodoCounts
    /\ Disjoint
    /\ BatchesHeld
    /\ Roles
    /\ FlagTells
    /\ OutClean
    /\ Counts
    /\ VerdictRight


-----------------------------------------------------------------------------
LEMMA PendingFinite ==
    ASSUME IInv
    PROVE  /\ Pending \subseteq Checks
           /\ IsFiniteSet(Pending)
           /\ Cardinality(Pending) \in Nat
           /\ IsFiniteSet(Working)
           /\ Cardinality(Working) \in Nat
<1>1. Pending \subseteq Checks
  BY DEF IInv, TypeOK, Pending
<1>2. IsFiniteSet(Pending)
  BY <1>1, QueueAssumption, FS_Subset
<1>3. IsFiniteSet(Threads)
  BY QueueAssumption, FS_AddElement DEF Threads
<1>4. IsFiniteSet(Working)
  BY <1>3, FS_Subset DEF Working
<1> QED BY <1>1, <1>2, <1>4, FS_CardinalityType

\* What the clean-up at the top of the critical section leaves: the counters
\* and the flag are right for the checks that are then pending.
LEMMA CleanUpFacts ==
    ASSUME IInv, NEW t \in Threads, AtMutex(t)
    PROVE  /\ Todo(t) \in Int
           /\ Todo(t) = Cardinality(Pending \ batch[t])
           /\ AllOk(t) \in BOOLEAN
           /\ Total(t) \in Int
           /\ Idle(t) \in Int
           /\ Total(t) = Idle(t) + Cardinality(Working \ {t}) + 1
           /\ AllOk(t) => fAllOk
           /\ verdict = "pending" =>
                  /\ ~AllOk(t) => added \cap Bad # {}
                  /\ AllOk(t) => added \cap Bad \subseteq Pending \ batch[t]
<1>1. batch[t] \subseteq Pending /\ pc[t] \in {"top", "work", "woken"}
  BY DEF AtMutex, Pending
<1>2. Cardinality(Pending \ batch[t]) = Cardinality(Pending) - Cardinality(batch[t])
  <2>1. Pending \cap batch[t] = batch[t]
    BY <1>1
  <2> QED BY <2>1, PendingFinite, FS_Difference
<1>3. Cardinality(Pending \ batch[t]) \in Nat
  BY PendingFinite, FS_Difference, FS_CardinalityType
<1>4. Todo(t) = Cardinality(Pending \ batch[t]) /\ Todo(t) \in Int
  BY <1>2, <1>3 DEF IInv, TodoCounts, Todo
<1>5. Total(t) \in Int /\ Idle(t) \in Int /\ AllOk(t) \in BOOLEAN /\ (AllOk(t) => fAllOk)
  BY DEF IInv, TypeOK, Total, Idle, AllOk
<1>6. Total(t) = Idle(t) + Cardinality(Working \ {t}) + 1
  <2>1. Cardinality(Working \ {t}) =
            IF pc[t] = "work" THEN Cardinality(Working) - 1 ELSE Cardinality(Working)
    BY PendingFinite, FS_RemoveElement DEF Working
  <2> QED BY <1>1, <2>1, PendingFinite DEF IInv, TypeOK, Counts, Total, Idle
<1>7. ASSUME verdict = "pending"
      PROVE  /\ ~AllOk(t) => added \cap Bad # {}
             /\ AllOk(t) => added \cap Bad \subseteq Pending \ batch[t]
  <2>1. CASE pc[t] # "work"
    <3>1. batch[t] = {} /\ AllOk(t) = fAllOk
      BY <2>1 DEF IInv, BatchesHeld, AllOk, TypeOK
    <3> QED BY <1>7, <3>1 DEF IInv, FlagTells
  <2>2. CASE pc[t] = "work"
    <3>1. AllOk(t) <=> fAllOk /\ fOk[t] /\ batch[t] \cap Bad = {}
      BY <2>2 DEF AllOk
    <3>2. batch[t] \subseteq added
      BY <1>1 DEF IInv, FlagTells
    <3> QED BY <1>7, <2>2, <3>1, <3>2 DEF IInv, FlagTells
  <2> QED BY <2>1, <2>2
<1> QED BY <1>4, <1>5, <1>6, <1>7

\* Where Goto leaves the threads.
LEMMA GotoFacts ==
    ASSUME IInv, NEW t \in Threads, NEW l \in {"work", "asleep", "out"}, Goto(t, l),
           l = "out" => t = Master
    PROVE  /\ pc' \in [Threads -> {"out", "adding", "top", "work", "asleep", "woken", "gone"}]
           /\ pc'[t] = l
           /\ \A u \in Threads \ {t} :
                  /\ (pc'[u] = "work") <=> (pc[u] = "work")
                  /\ pc[u] \notin {"out", "adding"} => pc'[u] \notin {"out", "adding"}
                  /\ pc[u] \in {"out", "adding", "gone"} => pc'[u] = pc[u]
                  /\ pc'[u] \in {pc[u], "woken"}
BY DEF Goto, IInv, TypeOK

\* What is pending after thread t has given up its batch for S.
LEMMA PendingAfter ==
    ASSUME IInv, NEW t \in Threads, NEW S \in SUBSET queue,
           queue' = queue \ S, batch' = [batch EXCEPT ![t] = S]
    PROVE  Pending' = Pending \ batch[t] /\ Disjoint'
<1>1. \A u \in Threads : batch'[u] = IF u = t THEN S ELSE batch[u]
  BY DEF IInv, TypeOK
<1>2. Disjoint'
  BY <1>1 DEF IInv, Disjoint
<1>3. ASSUME NEW x PROVE x \in Pending' <=> x \in Pending \ batch[t]
  <2>1. x \in Pending' <=> x \in queue' \/ \E u \in Threads : x \in batch'[u]
    BY DEF Pending
  <2>2. x \in Pending <=> x \in queue \/ \E u \in Threads : x \in batch[u]
    BY DEF Pending
  <2> QED BY <1>1, <2>1, <2>2 DEF IInv, Disjoint
<1> QED BY <1>2, <1>3

LEMMA InitIInv == Init => IInv
<1> SUFFICES ASSUME Init PROVE IInv
  OBVIOUS
<1>1. Pending = {} /\ Working = {}
  BY DEF Init, Pending, Working
<1>2. TypeOK
  <2>1. pc \in [Threads -> {"out", "adding", "top", "work", "asleep", "woken", "gone"}]
    BY DEF Init
  <2>2. batch \in [Threads -> SUBSET Checks] /\ fOk \in [Threads -> BOOLEAN]
    BY DEF Init
  <2>3. fAllOk \in BOOLEAN /\ unwinding \in BOOLEAN /\ stopped \in BOOLEAN
        /\ crashed \in BOOLEAN
    BY DEF Init
  <2>4. /\ queue \subseteq Checks
        /\ nIdle \in Int /\ nTotal \in Int /\ nTodo \in Int
        /\ added \subseteq Checks /\ interrupted \subseteq Threads
        /\ verdict \in {"pending", "ok", "failed"}
    BY DEF Init
  <2> QED BY <2>1, <2>2, <2>3, <2>4 DEF TypeOK
<1>3. TodoCounts /\ Counts
  BY <1>1, FS_EmptySet DEF Init, TodoCounts, Counts
<1>4. Disjoint /\ BatchesHeld /\ FlagTells /\ OutClean /\ VerdictRight
  BY <1>1 DEF Init, Disjoint, BatchesHeld, FlagTells, OutClean, VerdictRight
<1>5. Roles
  BY QueueAssumption DEF Init, Roles, Threads
<1> QED BY <1>2, <1>3, <1>4, <1>5 DEF IInv

\* Starting a block on a queue that is idle.
LEMMA BeginStep == ASSUME IInv, Begin PROVE IInv'
<1>0. Master \in Threads
  BY DEF Threads
<1>1. Pending' = Pending
  BY DEF Begin, local, Pending
<1>2. Pending = {} /\ fAllOk
  BY DEF Begin, IInv, OutClean
<1>3. CASE IsIdle
  <2>1. pc' = [pc EXCEPT ![Master] = "adding"] /\ pc[Master] = "out" /\ added' = {}
        /\ verdict' = "pending"
    BY <1>3 DEF Begin
  <2>2. Working' = Working
    BY <2>1, <1>0 DEF Working, IInv, TypeOK
  <2>3. TypeOK'
    BY <1>3, <2>1 DEF Begin, counters, local, IInv, TypeOK
  <2>4. TodoCounts' /\ Counts'
    BY <1>1, <2>2 DEF Begin, counters, IInv, TodoCounts, Counts
  <2>5. Disjoint' /\ BatchesHeld'
    BY <2>1, <1>0 DEF Begin, local, IInv, TypeOK, Disjoint, BatchesHeld
  <2>6. Roles'
    BY <2>1, <1>0, QueueAssumption DEF IInv, TypeOK, Roles, Threads
  <2>7. \A t \in Threads : pc'[t] # "work"
    BY <1>2, <2>1, <1>0 DEF IInv, TypeOK, BatchesHeld, Pending
  <2>8. FlagTells' /\ OutClean' /\ VerdictRight'
    BY <1>1, <1>2, <2>1, <2>7, <1>0
       DEF Begin, counters, IInv, TypeOK, FlagTells, OutClean, VerdictRight
  <2> QED BY <2>3, <2>4, <2>5, <2>6, <2>8 DEF IInv
<1>4. CASE ~IsIdle
  <2>1. UNCHANGED <<queue, nIdle, nTotal, nTodo, fAllOk, pc, batch, fOk, added, verdict,
                    unwinding, interrupted, stopped>> /\ crashed' = TRUE
    BY <1>4 DEF Begin, counters, local, block
  <2> QED BY <2>1, <1>1 DEF IInv, TypeOK, TodoCounts, Disjoint, BatchesHeld, Roles, FlagTells,
                            OutClean, Counts, VerdictRight, Working
<1> QED BY <1>3, <1>4

\* Handing over checks.
LEMMA AddStep == ASSUME IInv, NEW S \in SUBSET Checks, Add(S) PROVE IInv'
<1>0. Master \in Threads /\ pc[Master] = "adding" /\ queue' = queue \cup S
      /\ added' = added \cup S /\ S \cap added = {} /\ nTodo' = nTodo + Cardinality(S)
      /\ batch' = batch /\ fOk' = fOk /\ fAllOk' = fAllOk /\ verdict' = verdict
  BY DEF Add, Threads, local
<1>1. \A t \in Threads : \/ pc'[t] = pc[t]
                         \/ t \in Workers /\ pc[t] = "asleep" /\ pc'[t] = "woken"
  BY DEF Add, IInv, TypeOK
<1>2. pc' \in [Threads -> {"out", "adding", "top", "work", "asleep", "woken", "gone"}]
  BY <1>1 DEF Add, IInv, TypeOK
<1>3. TypeOK'
  <2>1. Cardinality(S) \in Int
    BY QueueAssumption, FS_Subset, FS_CardinalityType
  <2> QED BY <1>0, <1>2, <2>1 DEF Add, local, process, IInv, TypeOK
<1>4. Pending' = Pending \cup S /\ Pending \cap S = {}
  BY <1>0 DEF Pending, IInv, FlagTells
<1>5. TodoCounts'
  <2>1. IsFiniteSet(S)
    BY QueueAssumption, FS_Subset
  <2>2. Cardinality(Pending \cup S) = Cardinality(Pending) + Cardinality(S)
    <3>1. Cardinality(S) \in Nat
      BY <2>1, FS_CardinalityType
    <3>2. Cardinality(Pending \cap S) = 0
      BY <1>4, FS_EmptySet
    <3>3. Cardinality(Pending \cup S) =
              Cardinality(Pending) + Cardinality(S) - Cardinality(Pending \cap S)
      BY <2>1, PendingFinite, FS_Union
    <3> QED BY <3>1, <3>2, <3>3, PendingFinite
  <2> QED BY <1>0, <1>4, <2>2 DEF IInv, TodoCounts
<1>6. Working' = Working
  BY <1>1 DEF Working
<1>7. Counts'
  BY <1>6 DEF Add, IInv, Counts
<1>8. batch[Master] = {} /\ verdict = "pending"
  BY <1>0 DEF IInv, TypeOK, BatchesHeld, Roles
<1>9. Disjoint' /\ BatchesHeld'
  BY <1>0, <1>1, <1>4 DEF IInv, Disjoint, BatchesHeld, Pending
<1>10. Roles'
  <2>1. pc'[Master] = pc[Master]
    BY <1>0, <1>1
  <2> QED BY <1>0, <1>1, <2>1 DEF IInv, Roles, Threads
<1>11. FlagTells' /\ OutClean' /\ VerdictRight'
  <2>1. pc'[Master] = "adding"
    BY <1>0, <1>1
  <2> QED BY <1>0, <1>1, <1>4, <1>8, <2>1 DEF IInv, FlagTells, OutClean, VerdictRight
<1> QED BY <1>3, <1>5, <1>7, <1>9, <1>10, <1>11 DEF IInv

\* A thread takes a batch.
LEMMA TakeStep == ASSUME IInv, NEW t \in Threads, Take(t) PROVE IInv'
<1>0. AtMutex(t) /\ Goto(t, "work") /\ UNCHANGED <<added, verdict, unwinding>>
      /\ UNCHANGED process
  BY DEF Take, block
<1>1. PICK S \in SUBSET queue : /\ S # {}
                               /\ queue' = queue \ S
                               /\ batch' = [batch EXCEPT ![t] = S]
  BY DEF Take
<1>2. Pending' = Pending \ batch[t] /\ Disjoint'
  BY <1>1, PendingAfter
<1>3. /\ nTodo' = Todo(t) /\ nIdle' = Idle(t) /\ nTotal' = Total(t) /\ fAllOk' = AllOk(t)
      /\ fOk' = [fOk EXCEPT ![t] = AllOk(t)]
  BY DEF Take, CleanUp
<1>4. TypeOK'
  <2>1. /\ nTodo' \in Int /\ nIdle' \in Int /\ nTotal' \in Int /\ fAllOk' \in BOOLEAN
        /\ AllOk(t) \in BOOLEAN
    BY <1>0, <1>3, CleanUpFacts
  <2>2. pc' \in [Threads -> {"out", "adding", "top", "work", "asleep", "woken", "gone"}]
    BY <1>0, GotoFacts
  <2>3. /\ queue' \subseteq Checks /\ batch' \in [Threads -> SUBSET Checks]
        /\ fOk' \in [Threads -> BOOLEAN]
    BY <1>1, <1>3, <2>1 DEF IInv, TypeOK
  <2> QED BY <1>0, <2>1, <2>2, <2>3 DEF IInv, TypeOK, process
<1>5. TodoCounts'
  BY <1>0, <1>2, <1>3, CleanUpFacts DEF TodoCounts
<1>6. Counts'
  <2>1. Working' = (Working \ {t}) \cup {t} /\ t \notin Working \ {t}
    BY <1>0, GotoFacts DEF Working
  <2>2. IsFiniteSet(Working \ {t}) /\ Cardinality(Working \ {t}) \in Nat
    BY PendingFinite, FS_RemoveElement, FS_CardinalityType
  <2>3. Cardinality(Working') = Cardinality(Working \ {t}) + 1
    BY <2>1, <2>2, FS_AddElement
  <2>4. Idle(t) \in Int /\ Total(t) = Idle(t) + Cardinality(Working \ {t}) + 1
    BY <1>0, CleanUpFacts
  <2> QED BY <1>3, <2>2, <2>3, <2>4 DEF Counts
<1>7. BatchesHeld'
  BY <1>0, <1>1, GotoFacts DEF IInv, TypeOK, BatchesHeld
<1>8. Roles'
  BY <1>0, GotoFacts DEF IInv, Roles, Threads, AtMutex
<1>9. pc[Master] # "out"
  BY <1>1 DEF IInv, OutClean, Pending
<1>10. FlagTells' /\ OutClean' /\ VerdictRight'
  <2>1. verdict = "pending"
    BY <1>9 DEF IInv, Roles
  <2>2. FlagTells'
    <3>1. Pending' \subseteq added'
      BY <1>0, <1>2 DEF IInv, FlagTells
    <3>2. (~fAllOk' => added' \cap Bad # {}) /\ (fAllOk' => added' \cap Bad \subseteq Pending')
      BY <1>0, <1>2, <1>3, <2>1, CleanUpFacts
    <3>3. ASSUME NEW u \in Threads, pc'[u] = "work", ~fOk'[u] PROVE ~fAllOk'
      <4>1. CASE u = t
        BY <1>3, <3>3, <4>1 DEF IInv, TypeOK
      <4>2. CASE u # t
        <5>1. pc[u] = "work" /\ ~fOk[u]
          BY <1>0, <1>3, <3>3, <4>2, GotoFacts DEF IInv, TypeOK
        <5>2. ~fAllOk
          BY <2>1, <5>1 DEF IInv, FlagTells
        <5> QED BY <1>0, <1>3, <5>2, CleanUpFacts
      <4> QED BY <4>1, <4>2
    <3> QED BY <3>1, <3>2, <3>3 DEF FlagTells
  <2>3. pc'[Master] # "out"
    BY <1>0, <1>9, GotoFacts DEF Threads
  <2> QED BY <1>0, <2>1, <2>2, <2>3 DEF OutClean, VerdictRight
<1> QED BY <1>2, <1>4, <1>5, <1>6, <1>7, <1>8, <1>10 DEF IInv

\* What Sleep and Return have in common: t gives up its batch for nothing.
LEMMA IdleStep ==
    ASSUME IInv, NEW t \in Threads, NEW l \in {"asleep", "out"}, AtMutex(t), Goto(t, l),
           l = "out" => t = Master,
           queue = {}, UNCHANGED <<queue, fOk, added, unwinding, interrupted, stopped, crashed>>,
           batch' = [batch EXCEPT ![t] = {}],
           nTodo' = Todo(t), nTotal' \in Int, nIdle' \in Int, fAllOk' \in BOOLEAN,
           verdict' \in {"pending", "ok", "failed"},
           nTotal' = nIdle' + Cardinality(Working \ {t})
    PROVE  /\ TypeOK' /\ TodoCounts' /\ Disjoint' /\ BatchesHeld' /\ Counts'
           /\ Pending' = Pending \ batch[t]
           /\ Working' = Working \ {t}
<1>1. Pending' = Pending \ batch[t] /\ Disjoint'
  <2>1. queue' = queue \ {}
    OBVIOUS
  <2> QED BY <2>1, PendingAfter
<1>2. Working' = Working \ {t}
  BY GotoFacts DEF Working
<1>3. TypeOK'
  <2>1. nTodo' \in Int
    BY CleanUpFacts
  <2>2. pc' \in [Threads -> {"out", "adding", "top", "work", "asleep", "woken", "gone"}]
    BY GotoFacts
  <2>3. batch' \in [Threads -> SUBSET Checks]
    BY DEF IInv, TypeOK
  <2> QED BY <2>1, <2>2, <2>3 DEF IInv, TypeOK
<1>4. TodoCounts'
  BY <1>1, CleanUpFacts DEF TodoCounts
<1>5. BatchesHeld'
  BY GotoFacts DEF IInv, TypeOK, BatchesHeld
<1> QED BY <1>1, <1>2, <1>3, <1>4, <1>5 DEF Counts

\* A thread goes to sleep, having found the queue empty.
LEMMA SleepStep == ASSUME IInv, NEW t \in Threads, Sleep(t) PROVE IInv'
<1>0. /\ AtMutex(t) /\ Goto(t, "asleep") /\ queue = {} /\ ~Finished(t)
      /\ UNCHANGED <<queue, fOk, added, verdict, unwinding, interrupted, stopped, crashed>>
      /\ batch' = [batch EXCEPT ![t] = {}]
      /\ nTodo' = Todo(t) /\ nIdle' = Idle(t) + 1 /\ nTotal' = Total(t) /\ fAllOk' = AllOk(t)
  BY DEF Sleep, block, process
<1>1. /\ nTotal' \in Int /\ nIdle' \in Int /\ fAllOk' \in BOOLEAN
      /\ nTotal' = nIdle' + Cardinality(Working \ {t})
  <2>1. Cardinality(Working \ {t}) \in Nat
    BY PendingFinite, FS_RemoveElement, FS_CardinalityType
  <2>2. /\ Total(t) \in Int /\ Idle(t) \in Int /\ AllOk(t) \in BOOLEAN
        /\ Total(t) = Idle(t) + Cardinality(Working \ {t}) + 1
    BY <1>0, CleanUpFacts
  <2> QED BY <1>0, <2>1, <2>2
<1>2. verdict' \in {"pending", "ok", "failed"}
  BY <1>0 DEF IInv, TypeOK
<1>3. /\ TypeOK' /\ TodoCounts' /\ Disjoint' /\ BatchesHeld' /\ Counts'
      /\ Pending' = Pending \ batch[t]
  BY <1>0, <1>1, <1>2, IdleStep
<1>4. Roles'
  BY <1>0, GotoFacts DEF IInv, Roles, Threads, AtMutex
<1>5. FlagTells'
  <2>1. Pending' \subseteq added'
    BY <1>0, <1>3 DEF IInv, FlagTells
  <2>2. ASSUME verdict = "pending"
        PROVE  /\ ~fAllOk' => added' \cap Bad # {}
               /\ fAllOk' => added' \cap Bad \subseteq Pending'
    BY <1>0, <1>3, <2>2, CleanUpFacts
  <2>3. ASSUME verdict = "pending", NEW u \in Threads, pc'[u] = "work", ~fOk'[u]
        PROVE  ~fAllOk'
    <3>1. pc[u] = "work" /\ ~fOk[u]
      BY <1>0, <2>3, GotoFacts
    <3>2. ~fAllOk
      BY <2>3, <3>1 DEF IInv, FlagTells
    <3> QED BY <1>0, <3>2, CleanUpFacts
  <2> QED BY <1>0, <2>1, <2>2, <2>3 DEF FlagTells
<1>6. OutClean'
  <2> SUFFICES ASSUME pc'[Master] = "out" PROVE Pending' = {} /\ fAllOk'
    BY DEF OutClean
  <2>1. pc[Master] = "out" /\ t # Master
    BY <1>0, GotoFacts DEF Threads
  <2>2. Pending = {} /\ fAllOk
    BY <2>1 DEF IInv, OutClean
  <2>3. pc[t] # "work"
    BY <2>2 DEF IInv, BatchesHeld, Pending
  <2> QED BY <1>0, <1>3, <2>2, <2>3 DEF AllOk
<1>7. VerdictRight'
  BY <1>0 DEF IInv, VerdictRight
<1> QED BY <1>3, <1>4, <1>5, <1>6, <1>7 DEF IInv

\* What Return answers is right.
LEMMA ReturnVerdict ==
    ASSUME IInv, Return
    PROVE  /\ verdict = "pending"
           /\ Pending \ batch[Master] = {}
           /\ AllOk(Master) <=> added \cap Bad = {}
<1>0. Master \in Threads /\ AtMutex(Master) /\ queue = {} /\ Todo(Master) = 0
  BY DEF Return, Finished, Threads
<1>1. Pending \ batch[Master] = {}
  <2>1. IsFiniteSet(Pending \ batch[Master])
    BY PendingFinite, FS_Difference
  <2>2. Cardinality(Pending \ batch[Master]) = 0
    BY <1>0, CleanUpFacts
  <2> QED BY <2>1, <2>2, FS_EmptySet
<1>2. verdict = "pending"
  BY <1>0 DEF AtMutex, IInv, Roles
<1> QED BY <1>0, <1>1, <1>2, CleanUpFacts

\* The master returns.
LEMMA ReturnStep == ASSUME IInv, Return PROVE IInv'
<1>0. /\ Master \in Threads
      /\ AtMutex(Master) /\ Goto(Master, "out") /\ queue = {}
      /\ UNCHANGED <<queue, fOk, added, unwinding, interrupted, stopped, crashed>>
      /\ batch' = [batch EXCEPT ![Master] = {}]
      /\ nTodo' = Todo(Master) /\ nIdle' = Idle(Master)
      /\ nTotal' = Total(Master) - 1 /\ fAllOk' = TRUE
      /\ verdict' = IF AllOk(Master) THEN "ok" ELSE "failed"
  BY DEF Return, Finished, process, Threads
<1>1. /\ nTotal' \in Int /\ nIdle' \in Int /\ fAllOk' \in BOOLEAN
      /\ nTotal' = nIdle' + Cardinality(Working \ {Master})
  <2>1. Cardinality(Working \ {Master}) \in Nat
    BY PendingFinite, FS_RemoveElement, FS_CardinalityType
  <2>2. /\ Total(Master) \in Int /\ Idle(Master) \in Int
        /\ Total(Master) = Idle(Master) + Cardinality(Working \ {Master}) + 1
    BY <1>0, CleanUpFacts
  <2> QED BY <1>0, <2>1, <2>2
<1>2. verdict' \in {"ok", "failed"}
  BY <1>0
<1>3. /\ TypeOK' /\ TodoCounts' /\ Disjoint' /\ BatchesHeld' /\ Counts'
      /\ Pending' = Pending \ batch[Master]
  BY <1>0, <1>1, <1>2, IdleStep
<1>4. Roles'
  BY <1>0, <1>2, QueueAssumption, GotoFacts DEF IInv, Roles, Threads
<1>5. FlagTells' /\ OutClean'
  BY <1>0, <1>2, <1>3, ReturnVerdict DEF FlagTells, OutClean
<1>6. VerdictRight'
  BY <1>0, ReturnVerdict DEF VerdictRight
<1> QED BY <1>3, <1>4, <1>5, <1>6 DEF IInv

\* Steps that only move a thread that is not at work.
LEMMA MoveStep ==
    ASSUME IInv, NEW t \in Threads, NEW l \in {"top", "woken", "gone"},
           pc[t] \notin {"out", "work"}, pc' = [pc EXCEPT ![t] = l],
           l = "gone" => t # Master,
           UNCHANGED <<queue, nIdle, nTotal, nTodo, fAllOk, batch, fOk, added, verdict>>,
           unwinding' \in BOOLEAN, interrupted' \subseteq Threads, stopped' \in BOOLEAN,
           crashed' \in BOOLEAN
    PROVE  IInv'
<1>1. /\ pc' \in [Threads -> {"out", "adding", "top", "work", "asleep", "woken", "gone"}]
      /\ \A u \in Threads : pc'[u] = IF u = t THEN l ELSE pc[u]
  BY DEF IInv, TypeOK
<1>2. TypeOK'
  BY <1>1 DEF IInv, TypeOK
<1>3. Pending' = Pending
  BY DEF Pending
<1>4. Working' = Working
  BY <1>1 DEF Working
<1>5. TodoCounts' /\ Counts' /\ Disjoint' /\ BatchesHeld'
  BY <1>1, <1>3, <1>4 DEF IInv, TodoCounts, Counts, Disjoint, BatchesHeld
<1>6. Roles'
  BY <1>1 DEF IInv, Roles, Threads
<1>7. FlagTells' /\ OutClean' /\ VerdictRight'
  <2>1. Master \in Threads
    BY DEF Threads
  <2> QED BY <1>1, <1>3, <2>1 DEF IInv, FlagTells, OutClean, VerdictRight
<1> QED BY <1>2, <1>5, <1>6, <1>7 DEF IInv

LEMMA NextIInv == IInv /\ [Next]_vars => IInv'
<1> SUFFICES ASSUME IInv, [Next]_vars PROVE IInv'
  OBVIOUS
<1>1. CASE Begin
  BY <1>1, BeginStep
<1>2. ASSUME NEW S \in SUBSET Checks, Add(S) PROVE IInv'
  BY <1>2, AddStep
<1>3. CASE CallWait
  BY <1>3, MoveStep DEF CallWait, counters, local, process, Threads, IInv, TypeOK
<1>4. ASSUME NEW t \in Threads, Loop(t) PROVE IInv'
  BY <1>4, TakeStep, SleepStep, ReturnStep DEF Loop
<1>5. ASSUME NEW t \in Threads, SpuriousWakeup(t) PROVE IInv'
  BY <1>5, MoveStep DEF SpuriousWakeup, counters, local, block, process, IInv, TypeOK
<1>6. ASSUME NEW t \in Threads, Interrupted(t) PROVE IInv'
  <2>1. /\ pc[t] \in {"asleep", "woken"} /\ interrupted' \subseteq Threads
        /\ UNCHANGED <<queue, counters, local, added, verdict, stopped>>
    BY <1>6 DEF Interrupted, IInv, TypeOK
  <2>2. CASE t = Master
    BY <1>6, <2>1, <2>2, MoveStep DEF Interrupted, counters, local, IInv, TypeOK
  <2>3. CASE t # Master
    BY <1>6, <2>1, <2>3, MoveStep DEF Interrupted, counters, local, IInv, TypeOK
  <2> QED BY <2>2, <2>3
<1>7. CASE InterruptAll
  <2>1. /\ UNCHANGED <<queue, nIdle, nTotal, nTodo, fAllOk, pc, batch, fOk, added, verdict,
                       unwinding, crashed>>
        /\ stopped' \in BOOLEAN /\ interrupted' \subseteq Threads
    BY <1>7 DEF InterruptAll, counters, local, block
  <2> QED BY <2>1 DEF IInv, TypeOK, TodoCounts, Disjoint, BatchesHeld, Roles, FlagTells,
                      OutClean, Counts, VerdictRight, Pending, Working
<1>8. CASE UNCHANGED vars
  BY <1>8 DEF vars, counters, local, block, process, IInv, TypeOK, TodoCounts, Disjoint,
              BatchesHeld, Roles, FlagTells, OutClean, Counts, VerdictRight, Pending, Working
<1> QED BY <1>1, <1>2, <1>3, <1>4, <1>5, <1>6, <1>7, <1>8 DEF Next, Stopped

\* The inductive invariant holds in every reachable state.
THEOREM Invariance == Spec => []IInv
BY InitIInv, NextIInv, PTL DEF Spec

\* nTodo is exact, for any number of workers and any batch sizes (Loop and
\* Add of checkqueue.h).
THEOREM TodoIsExact == Spec => []TodoCounts
<1>1. IInv => TodoCounts
  BY DEF IInv
<1> QED BY <1>1, Invariance, PTL

\* Wait answers for exactly the checks of its block (CCheckQueueControl).
THEOREM VerdictIsRight == Spec => []VerdictRight
<1>1. IInv => VerdictRight
  BY DEF IInv
<1> QED BY <1>1, Invariance, PTL

\* The assert in the constructor of CCheckQueueControl cannot fail, also
\* after thread interruptions.
THEOREM IdleAgain == Spec => []IdleBetweenBlocks
<1>1. IInv => IdleBetweenBlocks
  <2> SUFFICES ASSUME IInv, pc[Master] = "out" PROVE IsIdle
    BY DEF IdleBetweenBlocks
  <2>1. Pending = {} /\ fAllOk
    BY DEF IInv, OutClean
  <2>2. Working = {}
    BY <2>1 DEF IInv, BatchesHeld, Pending, Working
  <2> QED BY <2>1, <2>2, FS_EmptySet DEF IInv, TodoCounts, Counts, TypeOK, IsIdle
<1> QED BY <1>1, Invariance, PTL

-----------------------------------------------------------------------------
\* Every step of the queue is one of BlockVerdict or leaves the checks handed
\* over and the verdict alone.
LEMMA NextAbstract == IInv /\ [Next]_vars => [Abstract!Next]_(Abstract!vars)
<1> SUFFICES ASSUME IInv, [Next]_vars
             PROVE  Abstract!Next \/ UNCHANGED <<added, verdict>>
  BY DEF Abstract!vars
<1>1. CASE Begin
  <2>1. pc[Master] = "out" => verdict # "pending"
    BY DEF IInv, Roles
  <2> QED BY <1>1, <2>1 DEF Begin, block, Abstract!Next, Abstract!Begin
<1>2. ASSUME NEW S \in SUBSET Checks, Add(S) PROVE Abstract!Next
  <2>1. verdict = "pending"
    BY <1>2 DEF Add, IInv, Roles
  <2> QED BY <1>2, <2>1 DEF Add, IInv, TypeOK, Abstract!Next, Abstract!Add
<1>3. CASE Return
  <2>1. verdict' = IF AllOk(Master) THEN "ok" ELSE "failed"
    BY <1>3 DEF Return
  <2>2. added' = added
    BY <1>3 DEF Return
  <2> QED BY <1>3, <2>1, <2>2, ReturnVerdict DEF Abstract!Next, Abstract!Decide
<1>4. ASSUME NEW t \in Threads,
             Take(t) \/ Sleep(t) \/ SpuriousWakeup(t) \/ Interrupted(t)
      PROVE  UNCHANGED <<added, verdict>>
  BY <1>4 DEF Take, Sleep, SpuriousWakeup, Interrupted, block
<1>5. CASE CallWait \/ InterruptAll \/ UNCHANGED vars
  BY <1>5 DEF CallWait, InterruptAll, block, vars
<1> QED BY <1>1, <1>2, <1>3, <1>4, <1>5 DEF Next, Loop, Stopped

\* The queue implements BlockVerdict: one verdict per block on all of its
\* checks, whatever the threads do.
THEOREM Implementation == Spec => Implements
<1>1. Init => Abstract!Init
  BY DEF Init, Abstract!Init
<1> QED BY <1>1, Invariance, NextAbstract, PTL DEF Spec, Implements, Abstract!Spec
=============================================================================
