----------------------------- MODULE TaskManager -----------------------------
(***************************************************************************)
(* TaskManager (resync/core/task_manager.py): a priority queue of tasks,   *)
(* one processor coroutine that takes them out and awaits them one by one, *)
(* retries after a delay, cancellation and shutdown.                       *)
(*                                                                         *)
(* A step is what runs between two suspension points of the event loop.    *)
(* The task function runs in a wrapper, an asyncio task of its own, that   *)
(* is created by the processor and starts only in a later turn of the      *)
(* loop: a cancellation that comes before that kills the wrapper before it *)
(* reaches its own `except CancelledError`, and the CancelledError reaches *)
(* the processor, whose `except Exception` lets it through.                *)
(*                                                                         *)
(* The queue orders tasks by priority and then by their random uuid: among *)
(* equals any order can happen.                                            *)
(*                                                                         *)
(* The processor awaits each task inside the semaphore, so it never holds  *)
(* more than one of its max_workers permits and never waits for one: the   *)
(* tasks run one after the other, whatever max_workers is.                 *)
(*                                                                         *)
(* A function that is not a coroutine runs in a thread.  Its cancellation  *)
(* or timeout ends the wrapper, as modelled, and not the thread.           *)
(***************************************************************************)
EXTENDS Integers

CONSTANTS
  Tasks,        \* the tasks that may be submitted
  Renewed,      \* those of which there is a next one as soon as one has ended
  Priority,     \* Priority[t], 1 (LOW) to 4 (CRITICAL)
  max_retries,  \* max_retries of every task
  max_workers,  \* the permits of the semaphore
  NoTask        \* the processor awaits no task

ASSUME TaskAssumption ==
  /\ Priority \in [Tasks -> 1..4]
  /\ Renewed \subseteq Tasks
  /\ max_retries \in Nat
  /\ max_workers \in Nat \ {0}
  /\ NoTask \notin Tasks

VARIABLES
  status,           \* Task.status, or "unknown" before submit()
  retry_count,      \* Task.retry_count
  queued,           \* entries of each task in task_queue
  retrying,         \* _schedule_retry coroutines of each task still asleep
  processor,        \* where _process_tasks is
  current,          \* the task in running_tasks, or NoTask
  wrapper,          \* where task_wrapper of the current task is
  cancelRequested,  \* cancel() was called on the wrapper and not delivered yet
  _shutdown,        \* TaskManager._shutdown
  stopper,          \* where the last call of stop() is
  runs              \* history: how often the function of each task was started

execVars == <<processor, current, wrapper, cancelRequested>>
vars == <<status, retry_count, queued, retrying, processor, current, wrapper,
          cancelRequested, _shutdown, stopper, runs>>

-------------------------------------------------------------------------------
PENDING == "pending"
RUNNING == "running"
COMPLETED == "completed"
FAILED == "failed"
CANCELLED == "cancelled"
Final == {COMPLETED, FAILED, CANCELLED}

\* "absent": start() was never called; "ready": at the head of the loop;
\* "getting": in queue.get(); "awaiting": the wrapper; "ended": left the loop;
\* "killed": ended by a CancelledError.
ProcessorStates == {"absent", "ready", "getting", "awaiting", "ended", "killed"}
Alive == processor \in {"ready", "getting", "awaiting"}

\* "created": not run yet; "killed": cancelled before its first step.
WrapperStates == {"none", "created", "running", "done", "killed"}
WrapperPending == wrapper \in {"created", "running"}

TypeOK ==
  /\ status \in [Tasks -> {"unknown", PENDING, RUNNING} \cup Final]
  /\ retry_count \in [Tasks -> 0..max_retries]
  /\ queued \in [Tasks -> Nat]
  /\ retrying \in [Tasks -> Nat]
  /\ processor \in ProcessorStates
  /\ current \in Tasks \cup {NoTask}
  /\ wrapper \in WrapperStates
  /\ cancelRequested \in BOOLEAN
  /\ _shutdown \in BOOLEAN
  /\ stopper \in {"idle", "waiting", "returned", "raised"}
  /\ runs \in [Tasks -> Nat]

Init ==
  /\ status = [t \in Tasks |-> "unknown"]
  /\ retry_count = [t \in Tasks |-> 0]
  /\ queued = [t \in Tasks |-> 0]
  /\ retrying = [t \in Tasks |-> 0]
  /\ processor = "absent"
  /\ current = NoTask
  /\ wrapper = "none"
  /\ cancelRequested = FALSE
  /\ _shutdown = FALSE
  /\ stopper = "idle"
  /\ runs = [t \in Tasks |-> 0]

-------------------------------------------------------------------------------
(* Calls of the users *)

Start ==
  /\ ~Alive
  /\ processor' = "ready"
  /\ UNCHANGED <<status, retry_count, queued, retrying, current, wrapper,
                 cancelRequested, _shutdown, stopper, runs>>

\* Nothing refers to the last task of that name any more: the next one takes its place.
IsOver(t) ==
  /\ status[t] \in Final
  /\ queued[t] = 0 /\ retrying[t] = 0 /\ current # t

\* submit() never asks whether the manager runs.
Submit(t) ==
  /\ status[t] = "unknown" \/ (t \in Renewed /\ IsOver(t))
  /\ status' = [status EXCEPT ![t] = PENDING]
  /\ retry_count' = [retry_count EXCEPT ![t] = 0]
  /\ queued' = [queued EXCEPT ![t] = @ + 1]
  /\ runs' = [runs EXCEPT ![t] = 0]
  /\ UNCHANGED <<retrying, execVars, _shutdown, stopper>>

\* cancel_task(), when it returns True.  The status changes at once, the
\* cancellation of a running wrapper is delivered in its next step.
CancelTask(t) ==
  /\ status[t] \in {PENDING, RUNNING}
  /\ status' = [status EXCEPT ![t] = CANCELLED]
  /\ cancelRequested' = (cancelRequested \/ (current = t /\ WrapperPending))
  /\ UNCHANGED <<retry_count, queued, retrying, processor, current, wrapper,
                 _shutdown, stopper, runs>>

\* stop(): it awaits the processor task it finds, if that one is not done yet.
Stop ==
  /\ _shutdown' = TRUE
  /\ cancelRequested' = (cancelRequested \/ WrapperPending)
  /\ stopper' = IF Alive THEN "waiting" ELSE "returned"
  /\ UNCHANGED <<status, retry_count, queued, retrying, processor, current, wrapper,
                 runs>>

-------------------------------------------------------------------------------
(* The processor *)

\* The processor task is done: a stop() that awaits it returns, or raises the
\* CancelledError that ended the processor.
WakeStopper(how) == stopper' = IF stopper = "waiting" THEN how ELSE stopper

LoopHead_Never_ends ==
  /\ processor = "ready"
  /\ processor' = "getting"
  /\ UNCHANGED <<status, retry_count, queued, retrying, current, wrapper,
                 cancelRequested, _shutdown, stopper, runs>>

LoopHead ==
  /\ processor = "ready"
  /\ processor' = IF _shutdown THEN "ended" ELSE "getting"
  /\ IF _shutdown THEN WakeStopper("returned") ELSE UNCHANGED stopper
  /\ UNCHANGED <<status, retry_count, queued, retrying, current, wrapper,
                 cancelRequested, _shutdown, runs>>

\* wait_for(queue.get(), 1.0) times out on an empty queue.
GetTimeout ==
  /\ processor = "getting"
  /\ \A t \in Tasks : queued[t] = 0
  /\ processor' = "ready"
  /\ UNCHANGED <<status, retry_count, queued, retrying, current, wrapper,
                 cancelRequested, _shutdown, stopper, runs>>

IsNext_Lowest_priority_first(t) ==
  /\ queued[t] > 0
  /\ \A u \in Tasks : queued[u] > 0 => Priority[u] >= Priority[t]

\* The entry of t is the smallest in the queue.
IsNext(t) ==
  /\ queued[t] > 0
  /\ \A u \in Tasks : queued[u] > 0 => Priority[u] <= Priority[t]

\* A cancelled task leaves the queue; so would one that is not PENDING.
GetSkipped(t) ==
  /\ processor = "getting"
  /\ IsNext(t)
  /\ status[t] # PENDING
  /\ queued' = [queued EXCEPT ![t] = @ - 1]
  /\ processor' = "ready"
  /\ UNCHANGED <<status, retry_count, retrying, current, wrapper, cancelRequested,
                 _shutdown, stopper, runs>>

GetAndExecute_Left_in_queue(t) ==
  /\ processor = "getting"
  /\ IsNext(t)
  /\ status[t] = PENDING
  /\ status' = [status EXCEPT ![t] = RUNNING]
  /\ processor' = "awaiting"
  /\ current' = t
  /\ wrapper' = "created"
  /\ cancelRequested' = FALSE
  /\ UNCHANGED <<queued, retry_count, retrying, _shutdown, stopper, runs>>

\* _execute_task up to `await asyncio_task`: the wrapper exists and has not run.
GetAndExecute(t) ==
  /\ processor = "getting"
  /\ IsNext(t)
  /\ status[t] = PENDING
  /\ queued' = [queued EXCEPT ![t] = @ - 1]
  /\ status' = [status EXCEPT ![t] = RUNNING]
  /\ processor' = "awaiting"
  /\ current' = t
  /\ wrapper' = "created"
  /\ cancelRequested' = FALSE
  /\ UNCHANGED <<retry_count, retrying, _shutdown, stopper, runs>>

\* The await is over: `finally` takes the task out of running_tasks.  After a
\* killed wrapper the CancelledError ends the processor.
Resume ==
  /\ processor = "awaiting"
  /\ \/ /\ wrapper = "done"
        /\ processor' = "ready"
        /\ UNCHANGED stopper
     \/ /\ wrapper = "killed"
        /\ processor' = "killed"
        /\ WakeStopper("raised")
  /\ current' = NoTask
  /\ wrapper' = "none"
  /\ UNCHANGED <<status, retry_count, queued, retrying, cancelRequested, _shutdown,
                 runs>>

-------------------------------------------------------------------------------
(* task_wrapper of the current task *)

WrapperStarts ==
  /\ wrapper = "created"
  /\ ~cancelRequested
  /\ wrapper' = "running"
  /\ runs' = [runs EXCEPT ![current] = @ + 1]
  /\ UNCHANGED <<status, retry_count, queued, retrying, processor, current,
                 cancelRequested, _shutdown, stopper>>

\* The first step throws the CancelledError in before the `try` is entered.
WrapperKilled ==
  /\ wrapper = "created"
  /\ cancelRequested
  /\ wrapper' = "killed"
  /\ cancelRequested' = FALSE
  /\ UNCHANGED <<status, retry_count, queued, retrying, processor, current,
                 _shutdown, stopper, runs>>

\* The function returns: _handle_task_success.
FunctionReturns ==
  /\ wrapper = "running"
  /\ ~cancelRequested
  /\ status' = [status EXCEPT ![current] = COMPLETED]
  /\ wrapper' = "done"
  /\ UNCHANGED <<retry_count, queued, retrying, processor, current, cancelRequested,
                 _shutdown, stopper, runs>>

FunctionCancelled_Not_recorded ==
  /\ wrapper = "running"
  /\ wrapper' = "done"
  /\ cancelRequested' = FALSE
  /\ UNCHANGED <<status, retry_count, queued, retrying, processor, current, _shutdown,
                 stopper, runs>>

\* A CancelledError leaves the function, on request or from inside it:
\* _handle_task_cancellation.
FunctionCancelled ==
  /\ wrapper = "running"
  /\ status' = [status EXCEPT ![current] = CANCELLED]
  /\ wrapper' = "done"
  /\ cancelRequested' = FALSE
  /\ UNCHANGED <<retry_count, queued, retrying, processor, current, _shutdown,
                 stopper, runs>>

\* The function swallows the CancelledError and goes on.
FunctionIgnoresCancel ==
  /\ wrapper = "running"
  /\ cancelRequested
  /\ cancelRequested' = FALSE
  /\ UNCHANGED <<status, retry_count, queued, retrying, processor, current, wrapper,
                 _shutdown, stopper, runs>>

RetryOrFail_Retry_not_counted(t) ==
  IF retry_count[t] < max_retries
  THEN /\ status' = [status EXCEPT ![t] = PENDING]
       /\ retrying' = [retrying EXCEPT ![t] = @ + 1]
       /\ UNCHANGED retry_count
  ELSE /\ status' = [status EXCEPT ![t] = FAILED]
       /\ UNCHANGED <<retry_count, retrying>>

RetryOrFail_One_retry_too_many(t) ==
  IF retry_count[t] <= max_retries
  THEN /\ retry_count' = [retry_count EXCEPT ![t] = @ + 1]
       /\ status' = [status EXCEPT ![t] = PENDING]
       /\ retrying' = [retrying EXCEPT ![t] = @ + 1]
  ELSE /\ status' = [status EXCEPT ![t] = FAILED]
       /\ UNCHANGED <<retry_count, retrying>>

\* _handle_task_failure: whatever the status has become in the meantime.
RetryOrFail(t) ==
  IF retry_count[t] < max_retries
  THEN /\ retry_count' = [retry_count EXCEPT ![t] = @ + 1]
       /\ status' = [status EXCEPT ![t] = PENDING]
       /\ retrying' = [retrying EXCEPT ![t] = @ + 1]
  ELSE /\ status' = [status EXCEPT ![t] = FAILED]
       /\ UNCHANGED <<retry_count, retrying>>

\* Any other exception leaves the function: an error of its own, a timeout, or
\* what it makes of a CancelledError.
FunctionRaises ==
  /\ wrapper = "running"
  /\ RetryOrFail(current)
  /\ wrapper' = "done"
  /\ cancelRequested' = FALSE
  /\ UNCHANGED <<queued, processor, current, _shutdown, stopper, runs>>

RetryFires_Whatever_the_status(t) ==
  /\ retrying[t] > 0
  /\ retrying' = [retrying EXCEPT ![t] = @ - 1]
  /\ status' = [status EXCEPT ![t] = PENDING]
  /\ queued' = [queued EXCEPT ![t] = @ + 1]
  /\ UNCHANGED <<retry_count, execVars, _shutdown, stopper, runs>>

\* _schedule_retry wakes up.
RetryFires(t) ==
  /\ retrying[t] > 0
  /\ retrying' = [retrying EXCEPT ![t] = @ - 1]
  /\ queued' = IF status[t] = PENDING THEN [queued EXCEPT ![t] = @ + 1] ELSE queued
  /\ UNCHANGED <<status, retry_count, execVars, _shutdown, stopper, runs>>

-------------------------------------------------------------------------------
ProcessorStep ==
  \/ LoopHead \/ GetTimeout \/ Resume
  \/ \E t \in Tasks : GetSkipped(t) \/ GetAndExecute(t)

WrapperStep ==
  \/ WrapperStarts \/ WrapperKilled
  \/ FunctionReturns \/ FunctionCancelled \/ FunctionIgnoresCancel \/ FunctionRaises

Next ==
  \/ Start \/ Stop
  \/ \E t \in Tasks : Submit(t) \/ CancelTask(t) \/ RetryFires(t)
  \/ ProcessorStep
  \/ WrapperStep

Spec == Init /\ [][Next]_vars

\* The event loop runs what is ready; a task function ends in the end.
\* Nobody has to call start(), submit(), cancel_task() or stop().
Fairness ==
  /\ WF_vars(ProcessorStep)
  /\ WF_vars(WrapperStarts \/ WrapperKilled)
  /\ WF_vars(FunctionReturns \/ FunctionCancelled \/ FunctionRaises)
  /\ \A t \in Tasks : WF_vars(RetryFires(t))

FairSpec == Spec /\ Fairness

-------------------------------------------------------------------------------
(* Properties *)

\* No task is lost and none is doubled: a PENDING task has exactly one entry to
\* come back by, in the queue or in a sleeping retry, however failures, retries
\* and cancellations interleave.  A final one that was never cancelled has none.
OneEntryPerPendingTask ==
  \A t \in Tasks :
    /\ status[t] = PENDING => queued[t] + retrying[t] = 1
    /\ status[t] \in {RUNNING, COMPLETED, FAILED} => queued[t] + retrying[t] = 0

\* The function of a task is started at most max_retries + 1 times, cancelled runs
\* that come back as retries included.
RunsAreBounded == \A t \in Tasks : runs[t] <= max_retries + 1

\* A wrapper under way for t: it will record how t ended.
HasWrapper(t) == current = t /\ WrapperPending

\* No status is left behind: until stop() is called, a task that is RUNNING has a wrapper
\* that is going to settle it, whatever was cancelled, failed or came back in between.
\* (stop() can leave one RUNNING for ever: the wrapper it kills before its first step
\* records nothing.)
RunningTaskHasAWrapper ==
  ~_shutdown => \A t \in Tasks : status[t] = RUNNING => HasWrapper(t)

\* cancel_task() on a task that is waiting in the queue or for a retry is final:
\* neither a stale queue entry nor a sleeping retry brings it back.
CancelledWaitingTaskStaysCancelled ==
  [][\A t \in Tasks :
       status[t] = CANCELLED /\ current # t => status'[t] = CANCELLED \/ Submit(t)]_vars

\* The task manager implements TaskContract: an asyncio task per start, a queue,
\* sleeping retries and cancellations that arrive in between amount to tasks that fail
\* only after max_retries + 1 starts, stay cancelled if they were cancelled while they
\* waited, and are given up without a start only when cancelled or stopped.  They need
\* one worker for that, however many the contract allows.
Contract == INSTANCE TaskContract WITH
  MaxStarts <- max_retries + 1,
  active <- [w \in 1..max_workers |-> IF w = 1 /\ WrapperPending THEN current ELSE NoTask],
  entered <- [w \in 1..max_workers |-> w = 1 /\ wrapper = "running"],
  starts <- runs,
  stopped <- _shutdown

ImplementsContract == Contract!Spec

\* The tasks that may be taken out of the queue before t.
Rivals(t) == {u \in Tasks \ {t} : Priority[u] >= Priority[t]}

\* As long as the processor lives and nobody stops it, a submitted task is run and comes to
\* an end, unless tasks of its priority or a higher one are submitted without end: those of
\* a lower one, retries, cancellations and stale entries never keep it waiting for ever.
TasksEndWhileProcessorLives ==
  <>[](Alive /\ ~_shutdown) =>
    \A t \in Tasks :
      <>[][\A u \in Rivals(t) : ~Submit(u)]_vars
        => (status[t] = PENDING ~> status[t] \in Final)

\* stop() comes back, whatever runs, is queued or is submitted meanwhile.
StopEnds == stopper = "waiting" ~> stopper # "waiting"

\* "Submit a task for asynchronous execution." (task_manager.py:111): once the
\* manager has been started, and if it is never stopped, a submitted task comes to
\* an end.  The cancellation of another task breaks this.
SubmittedTasksEnd ==
  (<>(processor # "absent") /\ []~_shutdown)
    => \A t \in Tasks : status[t] = PENDING ~> status[t] \in Final
==============================================================================
