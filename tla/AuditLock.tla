------------------------------- MODULE AuditLock -------------------------------
(***************************************************************************)
(* DistributedAuditLock (resync/core/audit_lock.py) and the analyses that  *)
(* hold its locks (analyze_memory in resync/core/ia_auditor.py).  A lock   *)
(* is a key in Redis with a time to live; an analysis makes a round trip   *)
(* to the knowledge graph or to the language model in each of its steps,   *)
(* and any of them can take longer than the lock lasts.                    *)
(*                                                                         *)
(* Releasing a lock always fails before the script is sent (`[misc]`,      *)
(* audit_lock.py:281, is an expression there), so a lock lasts until it    *)
(* expires or a cleanup removes it; the exception takes the place of what  *)
(* the analysis would return.  Left out: errors of Redis, and the rating   *)
(* and the text of a memory, which can only end its analysis earlier.      *)
(***************************************************************************)
EXTENDS Integers

CONSTANTS
  Memories,
  Analyses,      \* calls of analyze_memory, by any number of auditors
  Cleanups,      \* auditors in cleanup_expired_locks
  Forced,        \* memories whose lock an administrator may release
  None,          \* no memory
  lock_timeout,  \* time to live of a lock, in ticks
  max_age        \* a cleanup removes locks with no more than this left

VARIABLES
  lock,      \* lock[m]: ticks left, 0 if there is no such key
  analysis,  \* what each analysis waits for, of which memory, and the ticks left of its lock
  listed,    \* the locks that a cleanup has listed and not yet looked at
  removing,  \* the lock that a cleanup has decided to remove
  flagged,   \* the memories marked as flagged and processed
  deleted,
  approved,  \* the memories that a human approved
  robbed     \* history: the analyses whose lock was deleted while it lasted

memoryVars == <<flagged, deleted, approved>>
vars == <<lock, analysis, listed, removing, memoryVars, robbed>>

Idle == [at |-> "idle", memory |-> None, left |-> 0]

Init ==
  /\ lock = [m \in Memories |-> 0]
  /\ analysis = [a \in Analyses |-> Idle]
  /\ listed = [c \in Cleanups |-> {}]
  /\ removing = [c \in Cleanups |-> None]
  /\ flagged = {}
  /\ deleted = {}
  /\ approved = {}
  /\ robbed = {}

-------------------------------------------------------------------------------
(* analyze_memory *)

\* AuditLockContext.__aenter__: SET with NX and PX.  An analysis that does not get the lock
\* ends there.
Acquire(a, m) ==
  /\ analysis[a].at = "idle"
  /\ lock[m] = 0
  /\ lock' = [lock EXCEPT ![m] = lock_timeout]
  /\ analysis' = [analysis EXCEPT ![a] =
       [at |-> "is_memory_already_processed", memory |-> m, left |-> lock_timeout]]
  /\ robbed' = robbed \ {a}
  /\ UNCHANGED <<listed, removing, memoryVars>>

\* The rows are: a check, the memories that it stops, and what comes next.  A memory that
\* is gone passes them all.
Checks ==
  {<<"is_memory_already_processed", flagged, "is_memory_approved">>,
   <<"is_memory_approved", approved, "is_memory_flagged">>,
   <<"is_memory_flagged", flagged, "is_memory_still_not_approved">>,
   <<"is_memory_still_not_approved", approved, "call_llm">>}

\* The end of an analysis is the attempt to release its lock, which does nothing.
Proceed(a, next) ==
  analysis' = [analysis EXCEPT ![a] = IF next = "idle" THEN Idle ELSE [@ EXCEPT !.at = next]]

Check(a) ==
  /\ \E row \in Checks :
       /\ analysis[a].at = row[1]
       /\ Proceed(a, IF analysis[a].memory \in row[2] THEN "idle" ELSE row[3])
  /\ UNCHANGED <<lock, listed, removing, memoryVars, robbed>>

\* The model finds the answer wrong, or not, or there is no analysis.
CallLlm(a) ==
  /\ analysis[a].at = "call_llm"
  /\ \E next \in {"atomic_check_and_flag_or_delete", "idle"} : Proceed(a, next)
  /\ UNCHANGED <<lock, listed, removing, memoryVars, robbed>>

\* atomic_check_and_flag and atomic_check_and_delete never look at what was processed; of a
\* memory that is gone they find nothing.
Act(a) ==
  LET m == analysis[a].memory
  IN  /\ analysis[a].at = "atomic_check_and_flag_or_delete"
      /\ \/ /\ flagged' = flagged \cup ({m} \ deleted)
            /\ UNCHANGED <<deleted, approved>>
         \/ /\ deleted' = deleted \cup {m}
            /\ flagged' = flagged \ {m}
            /\ approved' = approved \ {m}
      /\ Proceed(a, "idle")
      /\ UNCHANGED <<lock, listed, removing, robbed>>

ApproveMemory(m) ==
  /\ approved' = approved \cup ({m} \ deleted)
  /\ UNCHANGED <<lock, analysis, listed, removing, flagged, deleted, robbed>>

-------------------------------------------------------------------------------
(* cleanup_expired_locks and force_release *)

\* DEL of the lock of m.
Delete(m) ==
  /\ lock' = [lock EXCEPT ![m] = 0]
  /\ robbed' = robbed \cup {a \in Analyses : analysis[a].memory = m /\ analysis[a].left > 0}

ListLocks(c) ==
  /\ listed[c] = {}
  /\ removing[c] = None
  /\ listed' = [listed EXCEPT ![c] = {m \in Memories : lock[m] > 0}]
  /\ UNCHANGED <<lock, analysis, removing, memoryVars, robbed>>

ReadTtl(c, m) ==
  /\ removing[c] = None
  /\ m \in listed[c]
  /\ listed' = [listed EXCEPT ![c] = @ \ {m}]
  /\ removing' = [removing EXCEPT ![c] = IF lock[m] <= max_age THEN m ELSE None]
  /\ UNCHANGED <<lock, analysis, memoryVars, robbed>>

DeleteLock(c) ==
  /\ removing[c] # None
  /\ Delete(removing[c])
  /\ removing' = [removing EXCEPT ![c] = None]
  /\ UNCHANGED <<analysis, listed, memoryVars>>

ForceRelease(m) ==
  /\ Delete(m)
  /\ UNCHANGED <<analysis, listed, removing, memoryVars>>

-------------------------------------------------------------------------------
Less(n) == IF n > 0 THEN n - 1 ELSE 0

Tick ==
  /\ lock' = [m \in Memories |-> Less(lock[m])]
  /\ analysis' = [a \in Analyses |-> [analysis[a] EXCEPT !.left = Less(@)]]
  /\ UNCHANGED <<listed, removing, memoryVars, robbed>>

Next ==
  \/ \E a \in Analyses, m \in Memories : Acquire(a, m)
  \/ \E a \in Analyses : Check(a) \/ CallLlm(a) \/ Act(a)
  \/ \E m \in Memories : ApproveMemory(m)
  \/ \E m \in Forced : ForceRelease(m)
  \/ \E c \in Cleanups : ListLocks(c) \/ DeleteLock(c) \/ \E m \in Memories : ReadTtl(c, m)
  \/ Tick

Spec == Init /\ [][Next]_vars

-------------------------------------------------------------------------------
(* Properties *)

\* Two analyses of one memory do not overlap while the locks of both last ("provides atomic
\* locking to prevent race conditions when multiple IA Auditor processes attempt to process
\* the same memory simultaneously", audit_lock.py:26).  Violated: every auditor begins with a
\* cleanup, which removes the locks that have at most 60 seconds left, and a lock never has
\* more than the 30 it is made with.
OneAnalysisWhileLocked ==
  \A a, b \in Analyses :
    a # b /\ analysis[a].left > 0 /\ analysis[b].left > 0
      => analysis[a].memory # analysis[b].memory

\* When two analyses of one memory do overlap while the locks of both last, the lock of one of
\* them was deleted, by a cleanup or an administrator: neither the expiry of a lock nor an
\* analysis that outlives its own lets this happen.  (AuditLockContext.__aenter__)
OverlapsComeFromDeletions ==
  \A a, b \in Analyses :
    /\ a # b
    /\ analysis[a].left > 0 /\ analysis[b].left > 0
    /\ analysis[a].memory = analysis[b].memory
    => a \in robbed \/ b \in robbed
===============================================================================
