--------------------------- MODULE TaskManagerProofs ---------------------------
(***************************************************************************)
(* Proofs about TaskManager, for any set of tasks, any priorities and any  *)
(* max_retries.  They are about Spec: no fairness is needed.               *)
(***************************************************************************)
EXTENDS TaskManager, TLAPS

-------------------------------------------------------------------------------
(* The inductive invariant, in three parts. *)

\* The processor awaits exactly when there is a current task and a wrapper, and a
\* cancellation is pending only for a wrapper that can still receive it.
Bookkeeping ==
  /\ processor = "awaiting" <=> current \in Tasks
  /\ processor = "awaiting" <=> wrapper # "none"
  /\ cancelRequested => WrapperPending
  /\ WrapperPending => status[current] \in {RUNNING, CANCELLED}

\* While its wrapper is under way a task has no entry to come back by, whatever
\* cancel_task() makes of its status; nor has a task that was never submitted.
Entries ==
  /\ OneEntryPerPendingTask
  /\ \A t \in Tasks : status[t] = "unknown" => queued[t] + retrying[t] = 0
  /\ WrapperPending => queued[current] + retrying[current] = 0

\* Every start of the function but the first was paid for with a retry; one that is
\* still to come has been paid for already, and none is paid for in advance.
RunsArePaid ==
  \A t \in Tasks :
    /\ runs[t] <= retry_count[t] + 1
    /\ status[t] \in {"unknown", PENDING} => runs[t] = retry_count[t]
    /\ wrapper = "created" /\ current = t => runs[t] = retry_count[t]
    /\ wrapper = "running" /\ current = t => runs[t] = retry_count[t] + 1

\* Unless stop() was called, a wrapper that ends, or is going to be killed, leaves
\* no RUNNING status behind.
StatusIsSettled ==
  ~_shutdown =>
    /\ \A t \in Tasks : status[t] = RUNNING => current = t
    /\ cancelRequested /\ wrapper = "created" => status[current] = CANCELLED
    /\ wrapper \in {"done", "killed"} => status[current] # RUNNING

IInv == TypeOK /\ Bookkeeping /\ Entries /\ RunsArePaid /\ StatusIsSettled

-------------------------------------------------------------------------------
(* Initial states *)

\* A new TaskManager satisfies the invariant.
LEMMA InvInit == Init => IInv
<1> SUFFICES ASSUME Init PROVE IInv
  OBVIOUS
<1> USE DEF PENDING, RUNNING, COMPLETED, FAILED, CANCELLED, Final
<1>1. /\ current = NoTask /\ NoTask \notin Tasks
      /\ wrapper = "none" /\ processor = "absent"
      /\ ~cancelRequested
  BY TaskAssumption DEF Init
<1>2. ASSUME NEW t \in Tasks
      PROVE  /\ status[t] = "unknown" /\ retry_count[t] = 0
             /\ queued[t] = 0 /\ retrying[t] = 0 /\ runs[t] = 0
  BY DEF Init
<1>3. TypeOK
  <2>1. retry_count \in [Tasks -> 0..max_retries]
    <3>1. 0 \in 0..max_retries
      BY TaskAssumption
    <3> QED
      BY <3>1 DEF Init
  <2> QED
    BY <2>1 DEF Init, TypeOK, ProcessorStates, WrapperStates
<1>4. Bookkeeping
  BY <1>1 DEF Bookkeeping, WrapperPending
<1>5. Entries
  BY <1>1, <1>2 DEF Entries, OneEntryPerPendingTask, WrapperPending
<1>6. RunsArePaid
  <2>1. ASSUME NEW t \in Tasks
        PROVE  runs[t] <= retry_count[t] + 1 /\ runs[t] = retry_count[t]
    BY <1>2
  <2> QED
    BY <1>1, <2>1 DEF RunsArePaid
<1>7. StatusIsSettled
  BY <1>1, <1>2 DEF StatusIsSettled
<1> QED
  BY <1>3, <1>4, <1>5, <1>6, <1>7 DEF IInv

-------------------------------------------------------------------------------
(* One lemma for each part of the invariant *)

\* Every operation keeps the variables in their types; the counters never go below 0
\* and retry_count never above max_retries.
LEMMA TypeStep == TypeOK /\ Bookkeeping /\ [Next]_vars => TypeOK'
<1> SUFFICES ASSUME TypeOK, Bookkeeping, [Next]_vars PROVE TypeOK'
  OBVIOUS
<1> USE TaskAssumption
    DEF TypeOK, Bookkeeping, execVars, WrapperPending, ProcessorStates, WrapperStates,
        PENDING, RUNNING, COMPLETED, FAILED, CANCELLED, Final
<1>1. CASE Start
  BY <1>1 DEF Start
<1>2. CASE Stop
  BY <1>2 DEF Stop
<1>3. ASSUME NEW t \in Tasks, Submit(t) PROVE TypeOK'
  BY <1>3 DEF Submit, IsOver
<1>4. ASSUME NEW t \in Tasks, CancelTask(t) PROVE TypeOK'
  BY <1>4 DEF CancelTask
<1>5. ASSUME NEW t \in Tasks, RetryFires(t) PROVE TypeOK'
  BY <1>5 DEF RetryFires
<1>6. CASE LoopHead
  BY <1>6 DEF LoopHead, WakeStopper
<1>7. CASE GetTimeout
  BY <1>7 DEF GetTimeout
<1>8. CASE Resume
  BY <1>8 DEF Resume, WakeStopper
<1>9. ASSUME NEW t \in Tasks, GetSkipped(t) PROVE TypeOK'
  BY <1>9 DEF GetSkipped, IsNext
<1>10. ASSUME NEW t \in Tasks, GetAndExecute(t) PROVE TypeOK'
  <2>1. queued[t] \in Nat /\ queued[t] > 0 /\ queued[t] - 1 \in Nat
    BY <1>10 DEF GetAndExecute, IsNext
  <2>2. queued' \in [Tasks -> Nat]
    BY <1>10, <2>1 DEF GetAndExecute
  <2>3. status' \in [Tasks -> {"unknown", PENDING, RUNNING} \cup Final]
    BY <1>10 DEF GetAndExecute
  <2> QED
    BY <1>10, <2>2, <2>3 DEF GetAndExecute
<1>11. CASE WrapperStarts
  BY <1>11 DEF WrapperStarts
<1>12. CASE WrapperKilled
  BY <1>12 DEF WrapperKilled
<1>13. CASE FunctionReturns
  BY <1>13 DEF FunctionReturns
<1>14. CASE FunctionCancelled
  BY <1>14 DEF FunctionCancelled
<1>15. CASE FunctionIgnoresCancel
  BY <1>15 DEF FunctionIgnoresCancel
<1>16. CASE FunctionRaises
  <2>1. /\ current \in Tasks
        /\ retry_count[current] \in 0..max_retries
        /\ retrying[current] \in Nat
    BY <1>16 DEF FunctionRaises
  <2>2. CASE retry_count[current] < max_retries
    <3>1. retry_count[current] + 1 \in 0..max_retries
      BY <2>1, <2>2
    <3>2. retry_count' \in [Tasks -> 0..max_retries]
      BY <1>16, <2>2, <3>1 DEF FunctionRaises, RetryOrFail
    <3>3. retrying' \in [Tasks -> Nat]
      BY <1>16, <2>1, <2>2 DEF FunctionRaises, RetryOrFail
    <3>4. status' \in [Tasks -> {"unknown", PENDING, RUNNING} \cup Final]
      BY <1>16, <2>2 DEF FunctionRaises, RetryOrFail
    <3> QED
      BY <1>16, <3>2, <3>3, <3>4 DEF FunctionRaises
  <2>3. CASE ~(retry_count[current] < max_retries)
    BY <1>16, <2>3 DEF FunctionRaises, RetryOrFail
  <2> QED
    BY <2>2, <2>3
<1>17. CASE UNCHANGED vars
  BY <1>17 DEF vars
<1> QED
  BY <1>1, <1>2, <1>3, <1>4, <1>5, <1>6, <1>7, <1>8, <1>9,
     <1>10, <1>11, <1>12, <1>13, <1>14, <1>15, <1>16, <1>17
     DEF Next, ProcessorStep, WrapperStep

\* The processor, the wrapper and the current task come and go together.
LEMMA BookkeepingStep == TypeOK /\ Bookkeeping /\ [Next]_vars => Bookkeeping'
<1> SUFFICES ASSUME TypeOK, Bookkeeping, [Next]_vars PROVE Bookkeeping'
  OBVIOUS
<1> USE TaskAssumption
    DEF TypeOK, Bookkeeping, execVars, WrapperPending, Alive, PENDING, RUNNING,
        COMPLETED, FAILED, CANCELLED, Final
<1>1. CASE Start
  BY <1>1 DEF Start
<1>2. CASE Stop
  BY <1>2 DEF Stop
<1>3. ASSUME NEW t \in Tasks, Submit(t) PROVE Bookkeeping'
  BY <1>3 DEF Submit, IsOver
<1>4. ASSUME NEW t \in Tasks, CancelTask(t) PROVE Bookkeeping'
  BY <1>4 DEF CancelTask
<1>5. ASSUME NEW t \in Tasks, RetryFires(t) PROVE Bookkeeping'
  BY <1>5 DEF RetryFires
<1>6. CASE LoopHead
  BY <1>6 DEF LoopHead, WakeStopper
<1>7. CASE GetTimeout
  BY <1>7 DEF GetTimeout
<1>8. CASE Resume
  BY <1>8 DEF Resume, WakeStopper
<1>9. ASSUME NEW t \in Tasks, GetSkipped(t) PROVE Bookkeeping'
  BY <1>9 DEF GetSkipped, IsNext
<1>10. ASSUME NEW t \in Tasks, GetAndExecute(t) PROVE Bookkeeping'
  BY <1>10 DEF GetAndExecute, IsNext
<1>11. CASE WrapperStarts
  BY <1>11 DEF WrapperStarts
<1>12. CASE WrapperKilled
  BY <1>12 DEF WrapperKilled
<1>13. CASE FunctionReturns
  BY <1>13 DEF FunctionReturns
<1>14. CASE FunctionCancelled
  BY <1>14 DEF FunctionCancelled
<1>15. CASE FunctionIgnoresCancel
  BY <1>15 DEF FunctionIgnoresCancel
<1>16. CASE FunctionRaises
  BY <1>16 DEF FunctionRaises, RetryOrFail
<1>17. CASE UNCHANGED vars
  BY <1>17 DEF vars
<1> QED
  BY <1>1, <1>2, <1>3, <1>4, <1>5, <1>6, <1>7, <1>8, <1>9,
     <1>10, <1>11, <1>12, <1>13, <1>14, <1>15, <1>16, <1>17
     DEF Next, ProcessorStep, WrapperStep

\* No operation loses the entry of a PENDING task or gives it a second one.
LEMMA EntriesStep == TypeOK /\ Bookkeeping /\ Entries /\ [Next]_vars => Entries'
<1> SUFFICES ASSUME TypeOK, Bookkeeping, Entries, [Next]_vars PROVE Entries'
  OBVIOUS
<1> USE TaskAssumption
    DEF TypeOK, Bookkeeping, Entries, OneEntryPerPendingTask, execVars, WrapperPending,
        Alive, PENDING, RUNNING, COMPLETED, FAILED, CANCELLED, Final
<1>1. CASE Start
  BY <1>1 DEF Start
<1>2. CASE Stop
  BY <1>2 DEF Stop
<1>3. ASSUME NEW t \in Tasks, Submit(t) PROVE Entries'
  BY <1>3 DEF Submit, IsOver
<1>4. ASSUME NEW t \in Tasks, CancelTask(t) PROVE Entries'
  BY <1>4 DEF CancelTask
<1>5. ASSUME NEW t \in Tasks, RetryFires(t) PROVE Entries'
  BY <1>5 DEF RetryFires
<1>6. CASE LoopHead
  BY <1>6 DEF LoopHead, WakeStopper
<1>7. CASE GetTimeout
  BY <1>7 DEF GetTimeout
<1>8. CASE Resume
  BY <1>8 DEF Resume, WakeStopper
<1>9. ASSUME NEW t \in Tasks, GetSkipped(t) PROVE Entries'
  BY <1>9 DEF GetSkipped, IsNext
<1>10. ASSUME NEW t \in Tasks, GetAndExecute(t) PROVE Entries'
  BY <1>10 DEF GetAndExecute, IsNext
<1>11. CASE WrapperStarts
  BY <1>11 DEF WrapperStarts
<1>12. CASE WrapperKilled
  BY <1>12 DEF WrapperKilled
<1>13. CASE FunctionReturns
  BY <1>13 DEF FunctionReturns
<1>14. CASE FunctionCancelled
  BY <1>14 DEF FunctionCancelled
<1>15. CASE FunctionIgnoresCancel
  BY <1>15 DEF FunctionIgnoresCancel
<1>16. CASE FunctionRaises
  BY <1>16 DEF FunctionRaises, RetryOrFail
<1>17. CASE UNCHANGED vars
  BY <1>17 DEF vars
<1> QED
  BY <1>1, <1>2, <1>3, <1>4, <1>5, <1>6, <1>7, <1>8, <1>9,
     <1>10, <1>11, <1>12, <1>13, <1>14, <1>15, <1>16, <1>17
     DEF Next, ProcessorStep, WrapperStep

\* Every operation that makes a further start possible pays for it with a retry.
LEMMA RunsStep == TypeOK /\ Bookkeeping /\ RunsArePaid /\ [Next]_vars => RunsArePaid'
<1> SUFFICES ASSUME TypeOK, Bookkeeping, RunsArePaid, [Next]_vars PROVE RunsArePaid'
  OBVIOUS
<1> USE TaskAssumption
    DEF TypeOK, Bookkeeping, RunsArePaid, execVars, WrapperPending, Alive, PENDING,
        RUNNING, COMPLETED, FAILED, CANCELLED, Final
<1>1. CASE Start
  BY <1>1 DEF Start
<1>2. CASE Stop
  BY <1>2 DEF Stop
<1>3. ASSUME NEW t \in Tasks, Submit(t) PROVE RunsArePaid'
  BY <1>3 DEF Submit, IsOver
<1>4. ASSUME NEW t \in Tasks, CancelTask(t) PROVE RunsArePaid'
  BY <1>4 DEF CancelTask
<1>5. ASSUME NEW t \in Tasks, RetryFires(t) PROVE RunsArePaid'
  BY <1>5 DEF RetryFires
<1>6. CASE LoopHead
  BY <1>6 DEF LoopHead, WakeStopper
<1>7. CASE GetTimeout
  BY <1>7 DEF GetTimeout
<1>8. CASE Resume
  BY <1>8 DEF Resume, WakeStopper
<1>9. ASSUME NEW t \in Tasks, GetSkipped(t) PROVE RunsArePaid'
  BY <1>9 DEF GetSkipped, IsNext
<1>10. ASSUME NEW t \in Tasks, GetAndExecute(t) PROVE RunsArePaid'
  BY <1>10 DEF GetAndExecute, IsNext
<1>11. CASE WrapperStarts
  BY <1>11 DEF WrapperStarts
<1>12. CASE WrapperKilled
  BY <1>12 DEF WrapperKilled
<1>13. CASE FunctionReturns
  BY <1>13 DEF FunctionReturns
<1>14. CASE FunctionCancelled
  BY <1>14 DEF FunctionCancelled
<1>15. CASE FunctionIgnoresCancel
  BY <1>15 DEF FunctionIgnoresCancel
<1>16. CASE FunctionRaises
  BY <1>16 DEF FunctionRaises, RetryOrFail
<1>17. CASE UNCHANGED vars
  BY <1>17 DEF vars
<1> QED
  BY <1>1, <1>2, <1>3, <1>4, <1>5, <1>6, <1>7, <1>8, <1>9,
     <1>10, <1>11, <1>12, <1>13, <1>14, <1>15, <1>16, <1>17
     DEF Next, ProcessorStep, WrapperStep

\* A wrapper that ends settles the status of its task, unless stop() killed it.
LEMMA SettledStep ==
  TypeOK /\ Bookkeeping /\ StatusIsSettled /\ [Next]_vars => StatusIsSettled'
<1> SUFFICES ASSUME TypeOK, Bookkeeping, StatusIsSettled, [Next]_vars PROVE StatusIsSettled'
  OBVIOUS
<1> USE TaskAssumption
    DEF TypeOK, Bookkeeping, StatusIsSettled, execVars,
        WrapperPending, Alive, PENDING, RUNNING, COMPLETED, FAILED, CANCELLED, Final
<1>1. CASE Start
  BY <1>1 DEF Start
<1>2. CASE Stop
  BY <1>2 DEF Stop
<1>3. ASSUME NEW t \in Tasks, Submit(t) PROVE StatusIsSettled'
  BY <1>3 DEF Submit, IsOver
<1>4. ASSUME NEW t \in Tasks, CancelTask(t) PROVE StatusIsSettled'
  BY <1>4 DEF CancelTask
<1>5. ASSUME NEW t \in Tasks, RetryFires(t) PROVE StatusIsSettled'
  BY <1>5 DEF RetryFires
<1>6. CASE LoopHead
  BY <1>6 DEF LoopHead, WakeStopper
<1>7. CASE GetTimeout
  BY <1>7 DEF GetTimeout
<1>8. CASE Resume
  BY <1>8 DEF Resume, WakeStopper
<1>9. ASSUME NEW t \in Tasks, GetSkipped(t) PROVE StatusIsSettled'
  BY <1>9 DEF GetSkipped, IsNext
<1>10. ASSUME NEW t \in Tasks, GetAndExecute(t) PROVE StatusIsSettled'
  BY <1>10 DEF GetAndExecute, IsNext
<1>11. CASE WrapperStarts
  BY <1>11 DEF WrapperStarts
<1>12. CASE WrapperKilled
  BY <1>12 DEF WrapperKilled
<1>13. CASE FunctionReturns
  BY <1>13 DEF FunctionReturns
<1>14. CASE FunctionCancelled
  BY <1>14 DEF FunctionCancelled
<1>15. CASE FunctionIgnoresCancel
  BY <1>15 DEF FunctionIgnoresCancel
<1>16. CASE FunctionRaises
  BY <1>16 DEF FunctionRaises, RetryOrFail
<1>17. CASE UNCHANGED vars
  BY <1>17 DEF vars
<1> QED
  BY <1>1, <1>2, <1>3, <1>4, <1>5, <1>6, <1>7, <1>8, <1>9,
     <1>10, <1>11, <1>12, <1>13, <1>14, <1>15, <1>16, <1>17
     DEF Next, ProcessorStep, WrapperStep

\* The invariant holds in every reachable state.
LEMMA InvHolds == Spec => []IInv
<1>1. IInv /\ [Next]_vars => IInv'
  BY TypeStep, BookkeepingStep, EntriesStep, RunsStep, SettledStep DEF IInv
<1> QED
  BY InvInit, <1>1, PTL DEF Spec

-------------------------------------------------------------------------------
(* The theorems *)

\* Every reachable state of the task manager is well typed.
THEOREM TypeCorrect == Spec => []TypeOK
<1>1. IInv => TypeOK
  BY DEF IInv
<1> QED
  BY <1>1, InvHolds, PTL

\* No task is lost and none is queued twice, however cancellations, failures and
\* retries interleave.
THEOREM NoTaskLostOrDoubled == Spec => []OneEntryPerPendingTask
<1>1. IInv => OneEntryPerPendingTask
  BY DEF IInv, Entries
<1> QED
  BY <1>1, InvHolds, PTL

\* The function of a task is started at most max_retries + 1 times.
THEOREM RunsBounded == Spec => []RunsAreBounded
<1>1. IInv => RunsAreBounded
  <2> SUFFICES ASSUME IInv, NEW t \in Tasks PROVE runs[t] <= max_retries + 1
    BY DEF RunsAreBounded
  <2>1. /\ runs[t] \in Nat
        /\ retry_count[t] \in 0..max_retries
        /\ runs[t] <= retry_count[t] + 1
    BY DEF IInv, TypeOK, RunsArePaid
  <2> QED
    BY <2>1, TaskAssumption
<1> QED
  BY <1>1, InvHolds, PTL

\* Until stop() is called, every RUNNING task has a wrapper that is going to settle it.
THEOREM NoRunningStatusLeft == Spec => []RunningTaskHasAWrapper
<1>1. IInv => RunningTaskHasAWrapper
  <2> SUFFICES ASSUME IInv, ~_shutdown, NEW t \in Tasks, status[t] = RUNNING
               PROVE HasWrapper(t)
    BY DEF RunningTaskHasAWrapper
  <2>1. current = t /\ wrapper \notin {"done", "killed"}
    BY DEF IInv, StatusIsSettled
  <2>2. wrapper # "none"
    BY <2>1 DEF IInv, Bookkeeping
  <2> QED
    BY <2>1, <2>2 DEF IInv, TypeOK, WrapperStates, WrapperPending, HasWrapper
<1> QED
  BY <1>1, InvHolds, PTL

\* A task cancelled while it waits, for the processor or for a retry, stays cancelled.
THEOREM CancellationSticks == Spec => CancelledWaitingTaskStaysCancelled
<1> DEFINE Sticks == \A t \in Tasks :
                       status[t] = CANCELLED /\ current # t
                         => status'[t] = CANCELLED \/ Submit(t)
<1>1. IInv /\ [Next]_vars => [Sticks]_vars
  <2> SUFFICES ASSUME IInv, Next, NEW t \in Tasks, status[t] = CANCELLED, current # t
               PROVE  status'[t] = CANCELLED \/ Submit(t)
    OBVIOUS
  <2> USE DEF IInv, TypeOK, Bookkeeping, WrapperPending, PENDING, RUNNING, COMPLETED,
              FAILED, CANCELLED, Final
  <2>1. ASSUME NEW u \in Tasks, Submit(u) \/ CancelTask(u) \/ RetryFires(u)
        PROVE  status'[t] = CANCELLED \/ Submit(t)
    BY <2>1 DEF Submit, CancelTask, RetryFires
  <2>2. CASE Start \/ Stop
    BY <2>2 DEF Start, Stop
  <2>3. CASE ProcessorStep
    BY <2>3 DEF ProcessorStep, LoopHead, GetTimeout, Resume, GetSkipped, GetAndExecute
  <2>4. CASE WrapperStep
    BY <2>4 DEF WrapperStep, WrapperStarts, WrapperKilled, FunctionReturns,
                FunctionCancelled, FunctionIgnoresCancel, FunctionRaises, RetryOrFail
  <2> QED
    BY <2>1, <2>2, <2>3, <2>4 DEF Next
<1> QED
  BY <1>1, InvHolds, PTL DEF Spec, CancelledWaitingTaskStaysCancelled

\* The task manager implements TaskContract: for any tasks, priorities, max_retries and
\* max_workers, its tasks fail only when all their starts are used, and stay cancelled if
\* nobody ran them.
THEOREM ManagerImplementsContract == Spec => ImplementsContract
<1> DEFINE Active == [w \in 1..max_workers |-> IF w = 1 /\ WrapperPending THEN current ELSE NoTask]
           Entered == [w \in 1..max_workers |-> w = 1 /\ wrapper = "running"]
<1>0. 1 \in 1..max_workers
  BY TaskAssumption
<1>1. Init => Contract!Init
  BY DEF Init, Contract!Init, Contract!Workers, WrapperPending
<1>2. IInv /\ [Next]_vars => [Contract!Next]_(Contract!vars)
  <2> SUFFICES ASSUME IInv, [Next]_vars PROVE [Contract!Next]_(Contract!vars)
    OBVIOUS
  <2>0. UNCHANGED <<current, wrapper>> => UNCHANGED <<Active, Entered>>
    BY DEF WrapperPending
  <2>1. ASSUME \/ Contract!Enter(1) \/ Contract!GiveUp(1) \/ Contract!Complete(1)
               \/ Contract!Yield(1) \/ Contract!Fail(1) \/ Contract!ComeBack(1)
               \/ \E t \in Tasks : Contract!Take(1, t)
        PROVE Contract!Next
    BY <1>0, <2>1 DEF Contract!Next, Contract!Workers
  <2> USE TaskAssumption
      DEF IInv, TypeOK, Bookkeeping, execVars, Contract!vars,
          PENDING, RUNNING, COMPLETED, FAILED, CANCELLED, Final
  \* What worker 1 has, and what happens to it.
  <2>2. /\ WrapperPending => current \in Tasks /\ Active[1] = current
        /\ ~WrapperPending => Active[1] = NoTask
        /\ Entered[1] = (wrapper = "running")
    BY <1>0 DEF WrapperPending
  <2>3. /\ WrapperPending' => Active' = [Active EXCEPT ![1] = current']
        /\ ~WrapperPending' => Active' = [Active EXCEPT ![1] = NoTask]
    BY <1>0
  <2>4. /\ wrapper' = "running" => Entered' = [Entered EXCEPT ![1] = TRUE]
        /\ wrapper' # "running" => Entered' = [Entered EXCEPT ![1] = FALSE]
    BY <1>0
  <2>5. UNCHANGED WrapperPending /\ UNCHANGED current => UNCHANGED Active
    OBVIOUS
  <2>6. wrapper # "running" /\ wrapper' # "running" => UNCHANGED Entered
    OBVIOUS
  <2>7. ASSUME NEW t \in Tasks, Submit(t) PROVE Contract!Submit(t)
    <3>1. status[t] # "unknown" => t \in Renewed /\ \A w \in 1..max_workers : Active[w] # t
      BY <2>7 DEF Submit, IsOver
    <3> QED
      BY <2>0, <2>7, <3>1 DEF Submit, IsOver, Contract!Submit, Contract!Workers
  <2>8. ASSUME NEW t \in Tasks, CancelTask(t) PROVE Contract!Cancel(t)
    BY <2>0, <2>8 DEF CancelTask, Contract!Cancel
  <2>9. ASSUME NEW t \in Tasks, GetAndExecute(t) PROVE Contract!Take(1, t)
    BY <2>2, <2>3, <2>6, <2>9 DEF GetAndExecute, Contract!Take, WrapperPending
  <2>10. ASSUME NEW t \in Tasks, RetryFires(t) \/ GetSkipped(t) PROVE UNCHANGED Contract!vars
    BY <2>0, <2>10 DEF RetryFires, GetSkipped
  <2>11. CASE Start \/ LoopHead \/ GetTimeout \/ FunctionIgnoresCancel
    BY <2>0, <2>11 DEF Start, LoopHead, GetTimeout, FunctionIgnoresCancel
  <2>12. CASE Stop
    BY <2>0, <2>12 DEF Stop, Contract!Next, Contract!Stop
  <2>13. CASE Resume
    <3>1. UNCHANGED <<Active, Entered>>
      BY <2>13 DEF Resume, WrapperPending
    <3> QED
      BY <2>13, <3>1 DEF Resume
  <2>14. CASE WrapperStarts
    <3>1. UNCHANGED Active
      BY <2>5, <2>14 DEF WrapperStarts, WrapperPending
    <3>2. Contract!Enter(1)
      BY <2>2, <2>4, <2>14, <3>1 DEF WrapperStarts, WrapperPending, Contract!Enter
    <3> QED
      BY <2>1, <3>2
  <2>15. CASE WrapperKilled
    <3>1. _shutdown \/ status[current] = CANCELLED
      BY <2>15 DEF WrapperKilled, StatusIsSettled
    <3>2. Contract!GiveUp(1)
      BY <2>2, <2>3, <2>6, <2>15, <3>1 DEF WrapperKilled, WrapperPending, Contract!GiveUp
    <3> QED
      BY <2>1, <3>2
  \* How the function ends.
  <2>16. ASSUME wrapper = "running", wrapper' = "done", UNCHANGED <<current, runs, _shutdown>>,
                NEW how, status' = [status EXCEPT ![current] = how]
         PROVE Contract!Leave(1, how)
    BY <2>2, <2>3, <2>4, <2>16 DEF WrapperPending, Contract!Leave
  <2>17. CASE FunctionReturns
    <3>1. Contract!Complete(1)
      BY <2>16, <2>17 DEF FunctionReturns, Contract!Complete
    <3> QED
      BY <2>1, <3>1
  <2>18. CASE FunctionCancelled
    <3>1. Contract!Yield(1)
      BY <2>16, <2>18 DEF FunctionCancelled, Contract!Yield
    <3> QED
      BY <2>1, <3>1
  <2>19. CASE FunctionRaises
    <3>1. /\ current \in Tasks /\ Active[1] = current
          /\ retry_count[current] \in 0..max_retries
          /\ runs[current] = retry_count[current] + 1
      BY <2>2, <2>19 DEF FunctionRaises, RunsArePaid, WrapperPending
    <3>2. CASE retry_count[current] < max_retries
      <4>1. runs[Active[1]] < max_retries + 1
        BY <3>1, <3>2
      <4>2. Contract!Leave(1, "pending")
        BY <2>16, <2>19, <3>2 DEF FunctionRaises, RetryOrFail
      <4>3. Contract!ComeBack(1)
        BY <4>1, <4>2 DEF Contract!ComeBack
      <4> QED
        BY <2>1, <4>3
    <3>3. CASE ~(retry_count[current] < max_retries)
      <4>1. runs[Active[1]] >= max_retries + 1
        BY <3>1, <3>3
      <4>2. Contract!Leave(1, "failed")
        BY <2>16, <2>19, <3>3 DEF FunctionRaises, RetryOrFail
      <4>3. Contract!Fail(1)
        BY <4>1, <4>2 DEF Contract!Fail
      <4> QED
        BY <2>1, <4>3
    <3> QED
      BY <3>2, <3>3
  <2>20. CASE UNCHANGED vars
    BY <2>0, <2>20 DEF vars
  <2>21. CASE \E t \in Tasks : Submit(t) \/ CancelTask(t) \/ RetryFires(t)
    BY <2>7, <2>8, <2>10, <2>21 DEF Contract!Next
  <2>22. CASE ProcessorStep
    BY <2>1, <2>9, <2>10, <2>11, <2>13, <2>22 DEF ProcessorStep
  <2>23. CASE WrapperStep
    BY <2>11, <2>14, <2>15, <2>17, <2>18, <2>19, <2>23 DEF WrapperStep
  <2> QED
    BY <2>11, <2>12, <2>20, <2>21, <2>22, <2>23 DEF Next
<1> QED
  BY <1>1, <1>2, InvHolds, PTL DEF Spec, ImplementsContract, Contract!Spec
===============================================================================
