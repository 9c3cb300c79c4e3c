--------------------------- MODULE BreakerContract ---------------------------
(***************************************************************************)
(* What the users of a circuit breaker may rely on, said without counters  *)
(* or clocks: a breaker is closed, open or half open; an open breaker lets *)
(* nothing through until its pause has expired; the first call after that  *)
(* is a probe and makes it half open; a breaker closes only from half      *)
(* open, on the outcome of a call in flight, and opens only on one.        *)
(*                                                                         *)
(* CircuitBreaker (resync/core/resilience.py) is shown to implement it.    *)
(***************************************************************************)

CONSTANT Callers

VARIABLES
  mode,      \* "closed", "open" or "half_open"
  expired,   \* TRUE when the pause of an open breaker is over
  inflight   \* the callers whose protected call has started and not ended

vars == <<mode, expired, inflight>>

Init ==
  /\ mode = "closed"
  /\ expired = FALSE
  /\ inflight = {}

\* A call goes through a breaker that is not open.
Start(c) ==
  /\ c \notin inflight
  /\ mode # "open"
  /\ inflight' = inflight \cup {c}
  /\ UNCHANGED <<mode, expired>>

\* The first call after the pause is the probe.
Probe(c) ==
  /\ c \notin inflight
  /\ mode = "open" /\ expired
  /\ mode' = "half_open"
  /\ expired' = FALSE
  /\ inflight' = inflight \cup {c}

\* A call ends and the breaker stays as it is; a late failure may restart
\* the pause of an open breaker.
End(c) ==
  /\ c \in inflight
  /\ inflight' = inflight \ {c}
  /\ expired' \in {expired, FALSE}
  /\ UNCHANGED mode

\* The end of a call opens the breaker.
Trip(c) ==
  /\ c \in inflight
  /\ mode # "open"
  /\ mode' = "open"
  /\ expired' = FALSE
  /\ inflight' = inflight \ {c}

\* The end of a call closes a half-open breaker.
Close(c) ==
  /\ c \in inflight
  /\ mode = "half_open"
  /\ mode' = "closed"
  /\ inflight' = inflight \ {c}
  /\ UNCHANGED expired

\* The pause is over.
Expire ==
  /\ mode = "open" /\ ~expired
  /\ expired' = TRUE
  /\ UNCHANGED <<mode, inflight>>

Next ==
  \/ \E c \in Callers : Start(c) \/ Probe(c) \/ End(c) \/ Trip(c) \/ Close(c)
  \/ Expire

Spec == Init /\ [][Next]_vars
==============================================================================
