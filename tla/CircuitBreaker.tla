---------------------------- MODULE CircuitBreaker ----------------------------
(***************************************************************************)
(* CircuitBreaker of resync/core/resilience.py: the breaker that           *)
(* CircuitBreakerManager registers for every HTTP operation of the TWS and *)
(* RAG clients.                                                            *)
(*                                                                         *)
(* call() decides under its asyncio lock whether the protected function    *)
(* may run, awaits the function OUTSIDE the lock, and records the outcome  *)
(* under the lock again.  No critical section suspends, so each of the     *)
(* three pieces is one atomic step; between the first and the last any     *)
(* other caller may run, so an outcome can be recorded in another breaker  *)
(* state than the one that admitted the call.                              *)
(*                                                                         *)
(* Two counters are kept up to the value the code compares them with:      *)
(* consecutive_failures stops at failure_threshold (the code asks only     *)
(* whether it is at least that), sinceFailure, the time since              *)
(* last_failure_time, at recovery_timeout.  No behaviour of `state` is     *)
(* lost, and the model is finite without a bound.  The metrics nobody      *)
(* decides on (total_calls, state_changes, ...) are left out.              *)
(***************************************************************************)
EXTENDS Integers

CONSTANTS
  Callers,            \* the tasks that call through the breaker
  failure_threshold,  \* CircuitBreakerConfig.failure_threshold
  recovery_timeout    \* CircuitBreakerConfig.recovery_timeout, in ticks

\* Every configuration of the program has a threshold of 2 or more and a
\* timeout of 30 seconds or more; the argument needs only that both are positive.
ASSUME ConfigAssumption ==
  /\ failure_threshold \in Nat \ {0}
  /\ recovery_timeout \in Nat \ {0}

VARIABLES
  state,                 \* CircuitBreaker.state
  consecutive_failures,  \* metrics.consecutive_failures, up to the threshold
  sinceFailure,          \* time since metrics.last_failure_time, up to the timeout
  phase,                 \* phase[c]: where caller c is, or how its last call ended
  backendUp,             \* does the protected service answer?
  openFor                \* history: time spent in OPEN, up to the timeout

breakerVars == <<state, consecutive_failures, sinceFailure, openFor>>
vars == <<state, consecutive_failures, sinceFailure, phase, backendUp, openFor>>

-------------------------------------------------------------------------------
\* CircuitBreakerState
CLOSED == "closed"
OPEN == "open"
HALF_OPEN == "half_open"

\* last_failure_time is None
NoFailure == -1

Outcomes == {"returned", "raised", "rejected", "cancelled"}

TypeOK ==
  /\ state \in {CLOSED, OPEN, HALF_OPEN}
  /\ consecutive_failures \in 0..failure_threshold
  /\ sinceFailure \in {NoFailure} \cup 0..recovery_timeout
  /\ phase \in [Callers -> {"idle", "running"} \cup Outcomes]
  /\ backendUp \in BOOLEAN
  /\ openFor \in 0..recovery_timeout

Running == {c \in Callers : phase[c] = "running"}

Saturate(n, limit) == IF n < limit THEN n ELSE limit

Init ==
  /\ state = CLOSED
  /\ consecutive_failures = 0
  /\ sinceFailure = NoFailure
  /\ phase = [c \in Callers |-> "idle"]
  /\ backendUp = TRUE
  /\ openFor = 0

-------------------------------------------------------------------------------
(* What the two callbacks and the reset test compute.  A definition whose      *)
(* name ends in a remark, as in Block_Counts_as_failure, is a mutated form of the   *)
(* one that follows it; the specification does not use it.  TLC checks that    *)
(* the property named in PROJECT.json fails when it takes that one's place.    *)

ShouldAttemptReset_One_tick_early ==
  \/ sinceFailure = NoFailure
  \/ sinceFailure >= recovery_timeout - 1

\* _should_attempt_reset
ShouldAttemptReset ==
  \/ sinceFailure = NoFailure
  \/ sinceFailure >= recovery_timeout

FailuresAfterSuccess_Decremented == consecutive_failures - 1

FailuresAfterSuccess == 0

StateAfterSuccess_In_any_state == CLOSED
StateAfterSuccess_Never_closes == state

\* _on_success: a success closes the breaker only when it is recorded in HALF_OPEN.
StateAfterSuccess == IF state = HALF_OPEN THEN CLOSED ELSE state

FailuresAfterFailure == Saturate(consecutive_failures + 1, failure_threshold)

FailureDate_Not_recorded == sinceFailure

\* last_failure_time = utcnow()
FailureDate == 0

StateAfterFailure_Past_threshold ==
  IF consecutive_failures >= failure_threshold THEN OPEN ELSE state

\* _on_failure: the threshold is tested on the count that includes this failure,
\* in every state.
StateAfterFailure ==
  IF FailuresAfterFailure >= failure_threshold THEN OPEN ELSE state

-------------------------------------------------------------------------------
\* call(), first critical section, breaker not OPEN: the function starts.
Admit(c) ==
  /\ phase[c] # "running"
  /\ state # OPEN
  /\ phase' = [phase EXCEPT ![c] = "running"]
  /\ UNCHANGED <<breakerVars, backendUp>>

\* call(), first critical section, OPEN for long enough: HALF_OPEN, and the
\* function starts.
AdmitProbe(c) ==
  /\ phase[c] # "running"
  /\ state = OPEN
  /\ ShouldAttemptReset
  /\ state' = HALF_OPEN
  /\ openFor' = 0
  /\ phase' = [phase EXCEPT ![c] = "running"]
  /\ UNCHANGED <<consecutive_failures, sinceFailure, backendUp>>

Block_Counts_as_failure(c) ==
  /\ phase[c] # "running"
  /\ state = OPEN
  /\ ~ShouldAttemptReset
  /\ phase' = [phase EXCEPT ![c] = "rejected"]
  /\ sinceFailure' = 0
  /\ UNCHANGED <<state, consecutive_failures, openFor, backendUp>>

\* call(), first critical section, OPEN: CircuitBreakerError.
Block(c) ==
  /\ phase[c] # "running"
  /\ state = OPEN
  /\ ~ShouldAttemptReset
  /\ phase' = [phase EXCEPT ![c] = "rejected"]
  /\ UNCHANGED <<breakerVars, backendUp>>

Attempt(c) == Admit(c) \/ AdmitProbe(c) \/ Block(c)

\* The function returned: _on_success in the second critical section.  It runs
\* in whatever state the breaker is in by now.
OnSuccess(c) ==
  /\ phase[c] = "running"
  /\ phase' = [phase EXCEPT ![c] = "returned"]
  /\ consecutive_failures' = FailuresAfterSuccess
  /\ state' = StateAfterSuccess
  /\ UNCHANGED <<sinceFailure, openFor, backendUp>>

\* The function raised an Exception: _on_failure in the second critical section.
OnFailure(c) ==
  /\ phase[c] = "running"
  /\ phase' = [phase EXCEPT ![c] = "raised"]
  /\ consecutive_failures' = FailuresAfterFailure
  /\ sinceFailure' = FailureDate
  /\ state' = StateAfterFailure
  /\ UNCHANGED <<openFor, backendUp>>

\* The caller's task is cancelled while it awaits the function.  CancelledError
\* is no Exception: neither callback runs.
Cancel(c) ==
  /\ phase[c] = "running"
  /\ phase' = [phase EXCEPT ![c] = "cancelled"]
  /\ UNCHANGED <<breakerVars, backendUp>>

\* One unit of datetime.utcnow() passes.
Tick ==
  /\ sinceFailure' = IF sinceFailure = NoFailure THEN NoFailure
                     ELSE Saturate(sinceFailure + 1, recovery_timeout)
  /\ openFor' = IF state = OPEN THEN Saturate(openFor + 1, recovery_timeout) ELSE 0
  /\ UNCHANGED <<state, consecutive_failures, phase, backendUp>>

-------------------------------------------------------------------------------
\* A call ends by what the service does at that moment.
Succeed(c) == backendUp /\ OnSuccess(c)
Fail(c) == ~backendUp /\ OnFailure(c)

\* The service goes down or comes back.
Flip ==
  /\ backendUp' = ~backendUp
  /\ UNCHANGED <<breakerVars, phase>>

Next ==
  \/ \E c \in Callers : Attempt(c) \/ Succeed(c) \/ Fail(c) \/ Cancel(c)
  \/ Tick
  \/ Flip

Spec == Init /\ [][Next]_vars

\* The clock runs; callers keep calling (periodic polls and user requests); a
\* protected call ends, since the HTTP clients set timeouts, and a caller whose
\* call can succeed again and again is not cancelled every single time.
Fairness ==
  /\ WF_vars(Tick)
  /\ \A c \in Callers : WF_vars(Attempt(c))
  /\ \A c \in Callers : SF_vars(Succeed(c))
  /\ \A c \in Callers : WF_vars(Succeed(c) \/ Fail(c))

FairSpec == Spec /\ Fairness

-------------------------------------------------------------------------------
(* Properties *)

\* A CLOSED breaker has recorded fewer than failure_threshold failures in a row:
\* no interleaving of outcomes, late ones included, leaves it closed on a
\* threshold's worth of failures (the test in _on_failure, lines 183-184).
ClosedBelowThreshold == state = CLOSED => consecutive_failures < failure_threshold

\* An OPEN breaker knows when it failed: the case "last_failure_time is None" of
\* _should_attempt_reset, which would end the pause at once, never applies to it,
\* and the pause is never measured from before the breaker opened.
OpenPauseIsDated == state = OPEN => sinceFailure \in 0..openFor

\* Once it opens, the breaker sheds every call for recovery_timeout at least,
\* whatever the calls admitted earlier still return (call, lines 112-124).
OpenLastsRecoveryTimeout ==
  [][state = OPEN /\ state' # OPEN => openFor >= recovery_timeout]_vars

\* The breaker closes only on a success recorded while it is HALF_OPEN; a late
\* success of a call admitted before it opened does not close it
\* (_on_success, lines 169-171).
ClosesOnlyFromHalfOpen ==
  [][state # CLOSED /\ state' = CLOSED =>
       /\ state = HALF_OPEN
       /\ \E c \in Running : phase'[c] = "returned"]_vars

\* The breaker implements the contract its users rely on.
Contract == INSTANCE BreakerContract WITH
  mode <- state,
  expired <- state = OPEN /\ ShouldAttemptReset,
  inflight <- Running

ImplementsContract == Contract!Spec

\* An open breaker is always probed in the end: the calls still in flight can
\* prolong the pause by failing late, but only so often, since no call is
\* admitted while it lasts.
OpenIsProbed == state = OPEN ~> state = HALF_OPEN

\* Once the service is up for good, the breaker ends up CLOSED for good: no
\* cancelled probe and no stale outcome can keep it out of service.
RecoversWithBackend == <>[]backendUp => <>[](state = CLOSED)
==============================================================================
