----------------------------- MODULE TaskContract -----------------------------
(***************************************************************************)
(* What the users of a task manager may rely on, said without a queue, a   *)
(* processor or an asyncio task: each of max_workers workers takes up one  *)
(* task at a time, each time for one start of its function at most; a task *)
(* fails only when every start it was promised has been used, and else     *)
(* comes back; a task cancelled while nobody runs it stays cancelled; and  *)
(* what was taken up is given up without a start only if it was cancelled  *)
(* or the manager is stopped.  Nothing is said of the order in which tasks *)
(* are taken up, nor that more than one worker ever does.                  *)
(*                                                                         *)
(* TaskManager (resync/core/task_manager.py) is shown to implement it.     *)
(***************************************************************************)
EXTENDS Integers

CONSTANTS
  Tasks,
  Renewed,      \* the tasks that are submitted anew after they ended
  NoTask,       \* what a worker with nothing to do has taken up
  MaxStarts,    \* how often the function of a task may be started
  max_workers   \* how many workers there are

VARIABLES
  status,    \* what get_task_status() tells of each task
  active,    \* active[w]: the task worker w has taken up, or NoTask
  entered,   \* entered[w]: its function runs
  starts,    \* how often the function of each task was started
  stopped    \* stop() was called

Workers == 1..max_workers

vars == <<status, active, entered, starts, stopped>>

Init ==
  /\ status = [t \in Tasks |-> "unknown"]
  /\ active = [w \in Workers |-> NoTask]
  /\ entered = [w \in Workers |-> FALSE]
  /\ starts = [t \in Tasks |-> 0]
  /\ stopped = FALSE

Submit(t) ==
  /\ \/ status[t] = "unknown"
     \/ /\ t \in Renewed
        /\ status[t] \in {"completed", "failed", "cancelled"}
        /\ \A w \in Workers : active[w] # t
  /\ status' = [status EXCEPT ![t] = "pending"]
  /\ starts' = [starts EXCEPT ![t] = 0]
  /\ UNCHANGED <<active, entered, stopped>>

\* Only the status changes: a function under way may still go on.
Cancel(t) ==
  /\ status[t] \in {"pending", "running"}
  /\ status' = [status EXCEPT ![t] = "cancelled"]
  /\ UNCHANGED <<active, entered, starts, stopped>>

Stop ==
  /\ stopped' = TRUE
  /\ UNCHANGED <<status, active, entered, starts>>

Take(w, t) ==
  /\ active[w] = NoTask
  /\ status[t] = "pending"
  /\ status' = [status EXCEPT ![t] = "running"]
  /\ active' = [active EXCEPT ![w] = t]
  /\ UNCHANGED <<entered, starts, stopped>>

Enter(w) ==
  /\ active[w] \in Tasks
  /\ ~entered[w]
  /\ entered' = [entered EXCEPT ![w] = TRUE]
  /\ starts' = [starts EXCEPT ![active[w]] = @ + 1]
  /\ UNCHANGED <<status, active, stopped>>

\* Taken up in vain.
GiveUp(w) ==
  /\ active[w] \in Tasks
  /\ ~entered[w]
  /\ stopped \/ status[active[w]] = "cancelled"
  /\ active' = [active EXCEPT ![w] = NoTask]
  /\ UNCHANGED <<status, entered, starts, stopped>>

\* The function ends, and the task becomes `how`.
Leave(w, how) ==
  /\ active[w] \in Tasks
  /\ entered[w]
  /\ status' = [status EXCEPT ![active[w]] = how]
  /\ active' = [active EXCEPT ![w] = NoTask]
  /\ entered' = [entered EXCEPT ![w] = FALSE]
  /\ UNCHANGED <<starts, stopped>>

Complete(w) == Leave(w, "completed")
Yield(w) == Leave(w, "cancelled")
Fail(w) == Leave(w, "failed") /\ starts[active[w]] >= MaxStarts

\* A failure that is not the last one, whatever cancel_task() said meanwhile.
ComeBack(w) == Leave(w, "pending") /\ starts[active[w]] < MaxStarts

Next ==
  \/ \E t \in Tasks : Submit(t) \/ Cancel(t)
  \/ \E w \in Workers :
       \/ \E t \in Tasks : Take(w, t)
       \/ Enter(w) \/ GiveUp(w)
       \/ Complete(w) \/ Yield(w) \/ Fail(w) \/ ComeBack(w)
  \/ Stop

Spec == Init /\ [][Next]_vars
===============================================================================
