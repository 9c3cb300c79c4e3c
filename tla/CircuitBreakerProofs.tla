------------------------- MODULE CircuitBreakerProofs -------------------------
(***************************************************************************)
(* Proofs about CircuitBreaker, for every number of callers, every         *)
(* threshold and every timeout.  Nothing here needs fairness: the theorems *)
(* are about Spec.                                                         *)
(***************************************************************************)
EXTENDS CircuitBreaker, TLAPS

\* A new breaker (CircuitBreaker.__init__) is well typed.
LEMMA TypeInit == Init => TypeOK
BY ConfigAssumption DEF Init, TypeOK, CLOSED, OPEN, HALF_OPEN, NoFailure

\* Type correctness is inductive by itself: call(), its callbacks and the clock keep
\* every variable in its range.
LEMMA TypeStep == TypeOK /\ [Next]_vars => TypeOK'
<1> SUFFICES ASSUME TypeOK, [Next]_vars PROVE TypeOK'
  OBVIOUS
<1> USE ConfigAssumption DEF TypeOK, CLOSED, OPEN, HALF_OPEN, NoFailure, Outcomes,
        breakerVars
<1>1. ASSUME NEW c \in Callers, Attempt(c) PROVE TypeOK'
  BY <1>1 DEF Attempt, Admit, AdmitProbe, Block
<1>2. ASSUME NEW c \in Callers, Succeed(c) PROVE TypeOK'
  BY <1>2 DEF Succeed, OnSuccess, StateAfterSuccess, FailuresAfterSuccess
<1>3. ASSUME NEW c \in Callers, Fail(c) PROVE TypeOK'
  BY <1>3 DEF Fail, OnFailure, StateAfterFailure, FailuresAfterFailure, FailureDate,
              Saturate
<1>4. ASSUME NEW c \in Callers, Cancel(c) PROVE TypeOK'
  BY <1>4 DEF Cancel
<1>5. CASE Tick
  BY <1>5 DEF Tick, Saturate
<1>6. CASE Flip
  BY <1>6 DEF Flip
<1>7. CASE UNCHANGED vars
  BY <1>7 DEF vars
<1> QED
  BY <1>1, <1>2, <1>3, <1>4, <1>5, <1>6, <1>7 DEF Next

\* Every reachable state of the breaker is well typed: the two saturated counters
\* stay in their ranges whatever the calls do.
THEOREM TypeCorrect == Spec => []TypeOK
BY TypeInit, TypeStep, PTL DEF Spec

-------------------------------------------------------------------------------
(* The safety invariants.  The conjuncts hold together: that the pause of an   *)
(* OPEN breaker is dated since it opened needs openFor to be 0 in the states   *)
(* from which the breaker opens.                                               *)
IInv ==
  /\ TypeOK
  /\ ClosedBelowThreshold
  /\ OpenPauseIsDated
  /\ state # OPEN => openFor = 0

\* A new breaker satisfies the invariants.
LEMMA InvInit == Init => IInv
BY TypeInit, ConfigAssumption
   DEF Init, IInv, ClosedBelowThreshold, OpenPauseIsDated, CLOSED, OPEN, NoFailure

\* Each piece of call(), cancellation and the clock keep the invariants.
LEMMA InvStep == IInv /\ [Next]_vars => IInv'
<1> SUFFICES ASSUME IInv, [Next]_vars PROVE IInv'
  OBVIOUS
<1>0. TypeOK'
  BY TypeStep DEF IInv
<1> USE ConfigAssumption, <1>0
    DEF IInv, TypeOK, ClosedBelowThreshold, OpenPauseIsDated, CLOSED, OPEN, HALF_OPEN,
        NoFailure, breakerVars
<1>1. ASSUME NEW c \in Callers, Admit(c) PROVE IInv'
  BY <1>1 DEF Admit
<1>2. ASSUME NEW c \in Callers, AdmitProbe(c) PROVE IInv'
  BY <1>2 DEF AdmitProbe
<1>3. ASSUME NEW c \in Callers, Block(c) PROVE IInv'
  BY <1>3 DEF Block
<1>4. ASSUME NEW c \in Callers, Succeed(c) PROVE IInv'
  BY <1>4 DEF Succeed, OnSuccess, StateAfterSuccess, FailuresAfterSuccess
<1>5. ASSUME NEW c \in Callers, Fail(c) PROVE IInv'
  <2>1. sinceFailure' = 0 /\ openFor' = openFor
    BY <1>5 DEF Fail, OnFailure, FailureDate
  <2>2. /\ consecutive_failures' = FailuresAfterFailure
        /\ state' = StateAfterFailure
    BY <1>5 DEF Fail, OnFailure
  <2>3. state' = CLOSED => consecutive_failures' < failure_threshold
    BY <2>2 DEF StateAfterFailure, FailuresAfterFailure, Saturate
  <2>4. state' # OPEN => state # OPEN
    BY <2>2 DEF StateAfterFailure
  <2> QED
    BY <2>1, <2>3, <2>4
<1>6. ASSUME NEW c \in Callers, Cancel(c) PROVE IInv'
  BY <1>6 DEF Cancel
<1>7. CASE Tick
  BY <1>7 DEF Tick, Saturate
<1>8. CASE Flip
  BY <1>8 DEF Flip
<1>9. CASE UNCHANGED vars
  BY <1>9 DEF vars
<1> QED
  BY <1>1, <1>2, <1>3, <1>4, <1>5, <1>6, <1>7, <1>8, <1>9 DEF Next, Attempt

\* The invariants hold in every reachable state of the breaker.
LEMMA InvHolds == Spec => []IInv
BY InvInit, InvStep, PTL DEF Spec

\* A CLOSED breaker has fewer than failure_threshold failures on record, however
\* many calls overlap.
THEOREM ClosedIsBelowThreshold == Spec => []ClosedBelowThreshold
<1>1. IInv => ClosedBelowThreshold
  BY DEF IInv
<1> QED
  BY <1>1, InvHolds, PTL

\* The pause of an OPEN breaker is measured from a failure recorded since it opened.
THEOREM OpenPauseDated == Spec => []OpenPauseIsDated
<1>1. IInv => OpenPauseIsDated
  BY DEF IInv
<1> QED
  BY <1>1, InvHolds, PTL

-------------------------------------------------------------------------------
(* The action properties, from the invariant. *)

\* An OPEN breaker stays open for at least recovery_timeout: the only step out of
\* OPEN is the probe, and its guard plus OpenPauseIsDated bound the time.
THEOREM OpenLasts == Spec => OpenLastsRecoveryTimeout
<1>1. IInv /\ [Next]_vars
        => [state = OPEN /\ state' # OPEN => openFor >= recovery_timeout]_vars
  <2> SUFFICES ASSUME IInv, [Next]_vars, state = OPEN, state' # OPEN
               PROVE openFor >= recovery_timeout
    OBVIOUS
  <2> USE ConfigAssumption DEF CLOSED, OPEN, HALF_OPEN, breakerVars
  <2>1. ASSUME NEW c \in Callers, AdmitProbe(c) PROVE openFor >= recovery_timeout
    BY <2>1 DEF AdmitProbe, ShouldAttemptReset, IInv, OpenPauseIsDated, TypeOK, NoFailure
  <2>2. ASSUME NEW c \in Callers, Admit(c) \/ Block(c) \/ Cancel(c) PROVE FALSE
    BY <2>2 DEF Admit, Block, Cancel
  <2>3. ASSUME NEW c \in Callers, Succeed(c) \/ Fail(c) PROVE FALSE
    BY <2>3 DEF Succeed, OnSuccess, StateAfterSuccess, Fail, OnFailure, StateAfterFailure
  <2>4. CASE Tick \/ Flip \/ UNCHANGED vars
    BY <2>4 DEF Tick, Flip, vars
  <2> QED
    BY <2>1, <2>2, <2>3, <2>4 DEF Next, Attempt
<1> QED
  BY <1>1, InvHolds, PTL DEF Spec, OpenLastsRecoveryTimeout

\* Only a success that is recorded in HALF_OPEN closes the breaker.
THEOREM ClosesFromHalfOpen == Spec => ClosesOnlyFromHalfOpen
<1>1. TypeOK /\ [Next]_vars
        => [state # CLOSED /\ state' = CLOSED =>
              /\ state = HALF_OPEN
              /\ \E c \in Running : phase'[c] = "returned"]_vars
  <2> SUFFICES ASSUME TypeOK, [Next]_vars, state # CLOSED, state' = CLOSED
               PROVE state = HALF_OPEN /\ \E c \in Running : phase'[c] = "returned"
    OBVIOUS
  <2> USE DEF CLOSED, OPEN, HALF_OPEN, breakerVars
  <2>1. ASSUME NEW c \in Callers, Succeed(c)
        PROVE state = HALF_OPEN /\ \E d \in Running : phase'[d] = "returned"
    BY <2>1 DEF Succeed, OnSuccess, StateAfterSuccess, Running, TypeOK
  <2>2. ASSUME NEW c \in Callers, Attempt(c) \/ Cancel(c) PROVE FALSE
    BY <2>2 DEF Attempt, Admit, AdmitProbe, Block, Cancel
  <2>3. ASSUME NEW c \in Callers, Fail(c) PROVE FALSE
    BY <2>3 DEF Fail, OnFailure, StateAfterFailure
  <2>4. CASE Tick \/ Flip \/ UNCHANGED vars
    BY <2>4 DEF Tick, Flip, vars
  <2> QED
    BY <2>1, <2>2, <2>3, <2>4 DEF Next
<1> QED
  BY <1>1, TypeCorrect, PTL DEF Spec, ClosesOnlyFromHalfOpen

-------------------------------------------------------------------------------
(* The refinement.  Each step of the breaker is a step of the contract or      *)
(* leaves its three variables alone.                                           *)

LEMMA ContractStep == IInv /\ IInv' /\ [Next]_vars => [Contract!Next]_(Contract!vars)
<1> SUFFICES ASSUME IInv, IInv', [Next]_vars PROVE [Contract!Next]_(Contract!vars)
  OBVIOUS
<1> DEFINE expired == state = OPEN /\ ShouldAttemptReset
<1> USE ConfigAssumption DEF CLOSED, OPEN, HALF_OPEN, NoFailure, breakerVars, Running
<1>0. TypeOK /\ TypeOK'
  BY DEF IInv
<1>1. ASSUME NEW c \in Callers, Admit(c) PROVE Contract!Next
  <2>1. Contract!Start(c)
    BY <1>0, <1>1 DEF Admit, Contract!Start, ShouldAttemptReset, TypeOK
  <2> QED
    BY <2>1 DEF Contract!Next
<1>2. ASSUME NEW c \in Callers, AdmitProbe(c) PROVE Contract!Next
  <2>1. Contract!Probe(c)
    BY <1>0, <1>2 DEF AdmitProbe, Contract!Probe, TypeOK
  <2> QED
    BY <2>1 DEF Contract!Next
<1>3. ASSUME NEW c \in Callers, Block(c) PROVE UNCHANGED Contract!vars
  BY <1>0, <1>3 DEF Block, Contract!vars, ShouldAttemptReset, TypeOK
<1>4. ASSUME NEW c \in Callers, Succeed(c) PROVE Contract!Next
  <2>1. CASE state = HALF_OPEN
    <3>1. Contract!Close(c)
      BY <1>0, <1>4, <2>1
         DEF Succeed, OnSuccess, StateAfterSuccess, Contract!Close, TypeOK
    <3> QED
      BY <3>1 DEF Contract!Next
  <2>2. CASE state # HALF_OPEN
    <3>1. Contract!End(c)
      BY <1>0, <1>4, <2>2
         DEF Succeed, OnSuccess, StateAfterSuccess, Contract!End, ShouldAttemptReset,
             TypeOK
    <3> QED
      BY <3>1 DEF Contract!Next
  <2> QED
    BY <2>1, <2>2
<1>5. ASSUME NEW c \in Callers, Fail(c) PROVE Contract!Next
  <2>1. /\ c \in Running
        /\ Running' = Running \ {c}
        /\ sinceFailure' = 0
        /\ state' \in {state, OPEN}
    BY <1>0, <1>5 DEF Fail, OnFailure, FailureDate, StateAfterFailure, TypeOK
  <2>2. ~expired'
    BY <2>1 DEF ShouldAttemptReset
  <2>3. CASE state' = state
    <3>1. Contract!End(c)
      BY <2>1, <2>2, <2>3 DEF Contract!End
    <3> QED
      BY <3>1 DEF Contract!Next
  <2>4. CASE state' # state
    <3>1. Contract!Trip(c)
      BY <2>1, <2>2, <2>4 DEF Contract!Trip
    <3> QED
      BY <3>1 DEF Contract!Next
  <2> QED
    BY <2>3, <2>4
<1>6. ASSUME NEW c \in Callers, Cancel(c) PROVE Contract!Next
  <2>1. Contract!End(c)
    BY <1>0, <1>6 DEF Cancel, Contract!End, ShouldAttemptReset, TypeOK
  <2> QED
    BY <2>1 DEF Contract!Next
<1>7. CASE Tick
  <2>1. state' = state /\ Running' = Running
    BY <1>7 DEF Tick
  <2>2. expired => expired'
    BY <1>0, <1>7, <2>1 DEF Tick, Saturate, ShouldAttemptReset, TypeOK
  <2>3. CASE expired' = expired
    BY <2>1, <2>3 DEF Contract!vars
  <2>4. CASE expired' # expired
    <3>1. Contract!Expire
      BY <2>1, <2>2, <2>4 DEF Contract!Expire
    <3> QED
      BY <3>1 DEF Contract!Next
  <2> QED
    BY <2>3, <2>4
<1>8. CASE Flip \/ UNCHANGED vars
  BY <1>8 DEF Flip, vars, Contract!vars, ShouldAttemptReset
<1> QED
  BY <1>1, <1>2, <1>3, <1>4, <1>5, <1>6, <1>7, <1>8 DEF Next, Attempt

\* The breaker implements BreakerContract: users that reason from the contract
\* alone reason correctly about the code.
THEOREM BreakerImplementsContract == Spec => ImplementsContract
<1>1. Init => Contract!Init
  BY DEF Init, Contract!Init, Running, CLOSED, OPEN
<1> QED
  BY <1>1, ContractStep, InvHolds, PTL DEF Spec, ImplementsContract, Contract!Spec
==============================================================================
