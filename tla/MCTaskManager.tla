---------------------------- MODULE MCTaskManager ----------------------------
(* Instance of TaskManager for TLC: two tasks of the same priority and an     *)
(* urgent one, each retried at most once.                                     *)
EXTENDS TaskManager, TLC

CONSTANTS t1, t2, urgent

MCPriority == (t1 :> 2) @@ (t2 :> 2) @@ (urgent :> 4)
==============================================================================
