---------------------------- MODULE AuditLockProofs ----------------------------
(***************************************************************************)
(* What the audit lock is worth.  The key in Redis lives as long as its    *)
(* analysis believes, unless someone deletes it, so that SET with NX keeps *)
(* a second analysis out.  The run of AuditLock shows what a cleanup does  *)
(* to this.                                                                *)
(***************************************************************************)
EXTENDS AuditLock, TLAPS

Step == {"idle", "is_memory_already_processed", "is_memory_approved", "is_memory_flagged",
         "is_memory_still_not_approved", "call_llm", "atomic_check_and_flag_or_delete"}

Typed ==
  /\ lock \in [Memories -> Nat]
  /\ analysis \in [Analyses -> [at : Step, memory : Memories \cup {None}, left : Nat]]

\* The time an analysis believes to have left is that of its key, if nobody deleted it.
HoldersHaveTheirLock ==
  \A a \in Analyses \ robbed : analysis[a].left > 0 =>
    /\ analysis[a].memory \in Memories
    /\ lock[analysis[a].memory] = analysis[a].left

LockInv == Typed /\ HoldersHaveTheirLock /\ OverlapsComeFromDeletions

\* Only an analysis that finds no key gets one, and who loses it by a deletion is on record.
LEMMA LockInvariant ==
  ASSUME lock_timeout \in Nat, LockInv, [Next]_vars
  PROVE  LockInv'
<1> USE DEF LockInv
<1>1. ASSUME NEW a \in Analyses, NEW m \in Memories, Acquire(a, m)
      PROVE  LockInv'
  <2>1. Typed'
    BY <1>1 DEF Acquire, Typed, Step
  <2>2. \A b \in Analyses \ {a} : analysis'[b] = analysis[b] /\ (b \in robbed' <=> b \in robbed)
    BY <1>1 DEF Acquire, Typed
  <2>3. analysis'[a].memory = m /\ analysis'[a].left = lock_timeout
    BY <1>1 DEF Acquire, Typed
  <2>4. lock[m] = 0 /\ lock' = [lock EXCEPT ![m] = lock_timeout]
    BY <1>1 DEF Acquire
  <2>5. \A b \in Analyses \ {a} : b \notin robbed /\ analysis[b].left > 0 => analysis[b].memory # m
    BY <2>4 DEF HoldersHaveTheirLock
  <2>6. HoldersHaveTheirLock'
    <3> SUFFICES ASSUME NEW b \in Analyses, b \notin robbed', analysis'[b].left > 0
                 PROVE  /\ analysis'[b].memory \in Memories
                        /\ lock'[analysis'[b].memory] = analysis'[b].left
      BY DEF HoldersHaveTheirLock
    <3>1. CASE b = a
      BY <3>1, <2>3, <2>4 DEF Typed
    <3>2. CASE b # a
      BY <3>2, <2>2, <2>4, <2>5 DEF HoldersHaveTheirLock, Typed
    <3> QED
      BY <3>1, <3>2
  <2>7. OverlapsComeFromDeletions'
    BY <2>2, <2>3, <2>5 DEF OverlapsComeFromDeletions
  <2> QED
    BY <2>1, <2>6, <2>7
<1>2. ASSUME NEW a \in Analyses, NEW next \in Step, Proceed(a, next), UNCHANGED <<lock, robbed>>
      PROVE  LockInv'
  <2>1. Typed'
    BY <1>2 DEF Proceed, Idle, Typed, Step
  <2>2. \A b \in Analyses :
          analysis'[b].left > 0 => /\ analysis'[b].left = analysis[b].left
                                   /\ analysis'[b].memory = analysis[b].memory
    BY <1>2 DEF Proceed, Idle, Typed
  <2>3. HoldersHaveTheirLock'
    BY <1>2, <2>2 DEF HoldersHaveTheirLock
  <2>4. OverlapsComeFromDeletions'
    BY <1>2, <2>2 DEF OverlapsComeFromDeletions
  <2> QED
    BY <2>1, <2>3, <2>4
<1>3. ASSUME NEW a \in Analyses, Check(a) \/ CallLlm(a) \/ Act(a)
      PROVE  LockInv'
  <2>1. PICK next \in Step : Proceed(a, next)
    BY <1>3 DEF Check, Checks, CallLlm, Act, Step
  <2>2. UNCHANGED <<lock, robbed>>
    BY <1>3 DEF Check, CallLlm, Act
  <2> QED
    BY <2>1, <2>2, <1>2
<1>4. ASSUME NEW m, Delete(m), UNCHANGED analysis
      PROVE  LockInv'
  <2>1. Typed'
    BY <1>4 DEF Delete, Typed
  <2>2. HoldersHaveTheirLock'
    <3> SUFFICES ASSUME NEW a \in Analyses, a \notin robbed', analysis[a].left > 0
                 PROVE  /\ analysis[a].memory \in Memories
                        /\ lock'[analysis[a].memory] = analysis[a].left
      BY <1>4 DEF HoldersHaveTheirLock
    <3>1. a \notin robbed /\ analysis[a].memory # m
      BY <1>4 DEF Delete
    <3> QED
      BY <1>4, <3>1 DEF Delete, HoldersHaveTheirLock, Typed
  <2>3. OverlapsComeFromDeletions'
    BY <1>4 DEF Delete, OverlapsComeFromDeletions
  <2> QED
    BY <2>1, <2>2, <2>3
<1>5. ASSUME Tick
      PROVE  LockInv'
  <2>1. Typed'
    BY <1>5 DEF Tick, Less, Typed
  <2>2. \A a \in Analyses : /\ analysis'[a].memory = analysis[a].memory
                            /\ analysis'[a].left = Less(analysis[a].left)
    BY <1>5 DEF Tick, Typed
  <2>3. \A a \in Analyses : analysis'[a].left > 0 => analysis[a].left > 0
    BY <2>2 DEF Less, Typed
  <2>4. HoldersHaveTheirLock'
    BY <1>5, <2>2, <2>3 DEF Tick, HoldersHaveTheirLock
  <2>5. OverlapsComeFromDeletions'
    BY <1>5, <2>2, <2>3 DEF Tick, OverlapsComeFromDeletions
  <2> QED
    BY <2>1, <2>4, <2>5
<1>6. ASSUME UNCHANGED <<lock, analysis, robbed>>
      PROVE  LockInv'
  BY <1>6 DEF Typed, HoldersHaveTheirLock, OverlapsComeFromDeletions
<1> QED
  BY <1>1, <1>3, <1>4, <1>5, <1>6
     DEF Next, vars, ApproveMemory, ListLocks, ReadTtl, DeleteLock, ForceRelease

\* Two analyses of one memory overlap while the locks of both last only where a cleanup or an
\* administrator deleted the lock of one of them: for any number of auditors, cleanups and
\* administrators, however long the graph and the model take.  (AuditLockContext.__aenter__)
THEOREM LockExcludes ==
  ASSUME lock_timeout \in Nat
  PROVE  Spec => []OverlapsComeFromDeletions
<1>1. Init => LockInv
  BY DEF Init, Idle, LockInv, Typed, Step, HoldersHaveTheirLock, OverlapsComeFromDeletions
<1>2. LockInv /\ [Next]_vars => LockInv'
  BY LockInvariant
<1>3. LockInv => OverlapsComeFromDeletions
  BY DEF LockInv
<1> QED
  BY <1>1, <1>2, <1>3, PTL DEF Spec
===============================================================================
