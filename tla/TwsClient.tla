------------------------------ MODULE TwsClient ------------------------------
(***************************************************************************)
(* The resilience of OptimizedTWSClient (resync/services/tws_service.py):  *)
(* an operation on an endpoint (workstations, job status, plan, ...) runs  *)
(*                                                                         *)
(*   retry_with_backoff_async              retries = endpoint_retries      *)
(*     breaker of the endpoint             "tws_workstations", ...         *)
(*       _api_request                      turns every error into          *)
(*                                         TWSConnectionError              *)
(*         retry_with_backoff_async        retries = http_retries          *)
(*           breaker "tws_http_client"     shared by all the endpoints     *)
(*             client.request              and raise_for_status            *)
(*                                                                         *)
(* Both loops retry httpx.RequestError, httpx.TimeoutException and         *)
(* CircuitBreakerError, so the outer one retries only the rejections of    *)
(* its own breaker.  A rejection by the shared breaker reaches the breaker *)
(* of the endpoint as a failure.                                           *)
(*                                                                         *)
(* get_job_details runs two more operations, get_job_history and           *)
(* get_job_dependencies, inside its own _api_request, each with a breaker  *)
(* and both loops of its own.  It goes on without the history; without the *)
(* dependencies it fails.  Nested says which operations do that.           *)
(*                                                                         *)
(* An operation first asks the result cache.  A hit of the operation that  *)
(* is called touches nothing here: such a call is no step of this module.  *)
(* A hit of a nested operation is CachedPart.                              *)
(*                                                                         *)
(* The breakers are those of CircuitBreaker.tla with time abstracted to    *)
(* the moment the pause of an OPEN breaker expires.  A backoff sleep       *)
(* lasts any time, as with full jitter.  Bookkeeping that runs between two *)
(* awaits is one step.                                                     *)
(***************************************************************************)
EXTENDS Integers, Sequences

CONSTANTS
  Endpoints,          \* the endpoint breakers registered in __init__
  Callers,            \* tasks that call the client
  EndpointOf,         \* EndpointOf[c]: the operation caller c performs
  Nested,             \* Nested[e]: the operations that the one on e runs inside it, the
                      \* last of which it cannot do without
  FlakyEndpoints,     \* the endpoints whose service may fail
  http_fail_max,      \* fail_max of "tws_http_client"
  endpoint_fail_max,  \* fail_max of the endpoint breakers
  http_retries,       \* retries of _make_request
  endpoint_retries    \* retries of the operations

ASSUME ClientAssumption ==
  /\ EndpointOf \in [Callers -> Endpoints]
  /\ Nested \in [Endpoints -> Seq(Endpoints)]
  /\ \A e \in Endpoints : \A i \in 1..Len(Nested[e]) :
       Nested[e][i] # e /\ Nested[Nested[e][i]] = << >>
  /\ FlakyEndpoints \subseteq Endpoints
  /\ "tws_http_client" \notin Endpoints
  /\ http_fail_max \in Nat \ {0}
  /\ endpoint_fail_max \in Nat \ {0}
  /\ http_retries \in Nat
  /\ endpoint_retries \in Nat

VARIABLES
  breaker,          \* breaker[b]: state of a registered breaker
  pc,               \* pc[c]: where the operation of caller c is
  stage,            \* stage[c]: the nested operation it is in, 0 for its own request
  httpAttempt,      \* `attempt` of the inner retry loop of that operation
  endpointAttempt,  \* `attempt` of its outer retry loop
  sent,             \* history: sent[c][i]: requests sent for the operation of c, by itself
                    \* (i = 0) or by its nested operation i, up to SendCap
  up                \* up[e]: requests on e get a proper answer, which can be stored

callVars == <<pc, stage, httpAttempt, endpointAttempt, sent>>
vars == <<breaker, pc, stage, httpAttempt, endpointAttempt, sent, up>>

HTTP == "tws_http_client"
Breakers == Endpoints \cup {HTTP}

Parts(c) == Nested[EndpointOf[c]]

\* The endpoint whose retry loops and breaker caller c is in.
Endpoint(c) == IF stage[c] = 0 THEN EndpointOf[c] ELSE Parts(c)[stage[c]]

\* One more than SendsAreBounded allows: counting further would tell nothing.
SendCap == http_retries + 2

fail_max(b) == IF b = HTTP THEN http_fail_max ELSE endpoint_fail_max

-------------------------------------------------------------------------------
(* Circuit breakers (resync/core/resilience.py).  A breaker is a record of its *)
(* state, consecutive_failures up to the threshold, and whether the pause of   *)
(* an OPEN breaker has expired.                                                *)

CLOSED == "closed"
OPEN == "open"
HALF_OPEN == "half_open"

BreakerState == [state : {CLOSED, OPEN, HALF_OPEN}, failures : Nat, expired : BOOLEAN]

\* call(): the check before the protected function.
Admits(b) == breaker[b].state = OPEN => breaker[b].expired

\* call(): what the check leaves behind when it admits the call.
Entered(brs, b) ==
  [brs EXCEPT ![b].state = IF @ = OPEN THEN HALF_OPEN ELSE @,
              ![b].expired = FALSE]

Succeeded_Closes_in_any_state(brs, b) ==
  [brs EXCEPT ![b].state = CLOSED, ![b].failures = 0]

Succeeded_Never_closes(brs, b) == [brs EXCEPT ![b].failures = 0]

\* _on_success
Succeeded(brs, b) ==
  [brs EXCEPT ![b].state = IF @ = HALF_OPEN THEN CLOSED ELSE @,
              ![b].failures = 0]

\* _on_failure
Failed(brs, b) ==
  LET n == IF brs[b].failures < fail_max(b) THEN brs[b].failures + 1 ELSE fail_max(b)
  IN [brs EXCEPT ![b] = [state |-> IF n >= fail_max(b) THEN OPEN ELSE @.state,
                         failures |-> n,
                         expired |-> FALSE]]

-------------------------------------------------------------------------------
PCs == {"idle", "starting", "endpointWait", "admitted", "httpWait", "sending", "cancelled"}

\* How often a caller may have sent what it sends, as far as it is counted.
Counts == UNION {[0..Len(Nested[e]) -> 0..SendCap] : e \in Endpoints}

TypeOK ==
  /\ breaker \in [Breakers -> BreakerState]
  /\ \A b \in Breakers : breaker[b].failures <= fail_max(b)
  /\ pc \in [Callers -> PCs]
  /\ stage \in [Callers -> Nat]
  /\ httpAttempt \in [Callers -> 0..http_retries]
  /\ endpointAttempt \in [Callers -> 0..endpoint_retries]
  /\ sent \in [Callers -> Counts]
  /\ \A c \in Callers : stage[c] <= Len(Parts(c)) /\ DOMAIN sent[c] = 0..Len(Parts(c))
  /\ up \in [Endpoints -> BOOLEAN]

NothingSent(c) == [i \in 0..Len(Parts(c)) |-> 0]

Init ==
  /\ breaker = [b \in Breakers |-> [state |-> CLOSED, failures |-> 0, expired |-> FALSE]]
  /\ pc = [c \in Callers |-> "idle"]
  /\ stage = [c \in Callers |-> 0]
  /\ httpAttempt = [c \in Callers |-> 0]
  /\ endpointAttempt = [c \in Callers |-> 0]
  /\ sent = [c \in Callers |-> NothingSent(c)]
  /\ up = [e \in Endpoints |-> TRUE]

\* The operation of c is left, for p.
Leave(c, p) ==
  /\ pc' = [pc EXCEPT ![c] = p]
  /\ stage' = [stage EXCEPT ![c] = 0]
  /\ httpAttempt' = [httpAttempt EXCEPT ![c] = 0]
  /\ endpointAttempt' = [endpointAttempt EXCEPT ![c] = 0]
  /\ sent' = [sent EXCEPT ![c] = NothingSent(c)]

\* It is over: the result or the exception goes to its caller.
Finish(c) == Leave(c, "idle")

\* The next nested operation begins.
NextPart(c) ==
  /\ stage[c] < Len(Parts(c))
  /\ pc' = [pc EXCEPT ![c] = "starting"]
  /\ stage' = [stage EXCEPT ![c] = @ + 1]
  /\ httpAttempt' = [httpAttempt EXCEPT ![c] = 0]
  /\ endpointAttempt' = [endpointAttempt EXCEPT ![c] = 0]
  /\ UNCHANGED sent

\* The operation on Endpoint(c) is over, with a result if ok.  If it is a nested one,
\* the next one begins; after the last, the operation around them succeeds or fails.
OperationOver(c, brs, ok) ==
  \/ /\ stage[c] = 0
     /\ breaker' = brs
     /\ Finish(c)
  \/ /\ stage[c] > 0
     /\ breaker' = brs
     /\ NextPart(c)
  \/ /\ stage[c] > 0
     /\ stage[c] = Len(Parts(c))
     /\ breaker' = IF ok THEN Succeeded(brs, EndpointOf[c]) ELSE Failed(brs, EndpointOf[c])
     /\ Finish(c)

FinishFailed_Retried_by_outer_loop(c, brs) ==
  LET failed == Failed(brs, Endpoint(c))
  IN  \/ /\ endpointAttempt[c] < endpoint_retries
         /\ breaker' = failed
         /\ pc' = [pc EXCEPT ![c] = "endpointWait"]
         /\ endpointAttempt' = [endpointAttempt EXCEPT ![c] = @ + 1]
         /\ httpAttempt' = [httpAttempt EXCEPT ![c] = 0]
         /\ UNCHANGED <<stage, sent>>
      \/ /\ endpointAttempt[c] = endpoint_retries
         /\ OperationOver(c, failed, FALSE)

\* _api_request raises TWSConnectionError: the breaker of the endpoint records a
\* failure, and the outer loop does not retry that exception.
FinishFailed(c, brs) == OperationOver(c, Failed(brs, Endpoint(c)), FALSE)

RetryHttp_One_too_many(c, brs) ==
  \/ /\ httpAttempt[c] <= http_retries
     /\ breaker' = brs
     /\ pc' = [pc EXCEPT ![c] = "httpWait"]
     /\ httpAttempt' = [httpAttempt EXCEPT ![c] = @ + 1]
     /\ UNCHANGED <<stage, endpointAttempt, sent>>
  \/ /\ httpAttempt[c] > http_retries
     /\ FinishFailed(c, brs)

RetryHttp_Without_limit(c, brs) ==
  /\ breaker' = brs
  /\ pc' = [pc EXCEPT ![c] = "httpWait"]
  /\ UNCHANGED <<stage, httpAttempt, endpointAttempt, sent>>

\* An exception the inner loop retries: sleep, or give up after http_retries.
RetryHttp(c, brs) ==
  \/ /\ httpAttempt[c] < http_retries
     /\ breaker' = brs
     /\ pc' = [pc EXCEPT ![c] = "httpWait"]
     /\ httpAttempt' = [httpAttempt EXCEPT ![c] = @ + 1]
     /\ UNCHANGED <<stage, endpointAttempt, sent>>
  \/ /\ httpAttempt[c] = http_retries
     /\ FinishFailed(c, brs)

-------------------------------------------------------------------------------
\* cbm.call(<endpoint>, _once), breaker of the endpoint admits.
EnterEndpoint(c) ==
  /\ pc[c] \in {"idle", "starting", "endpointWait"}
  /\ Admits(Endpoint(c))
  /\ breaker' = Entered(breaker, Endpoint(c))
  /\ pc' = [pc EXCEPT ![c] = "admitted"]
  /\ UNCHANGED <<stage, httpAttempt, endpointAttempt, sent, up>>

\* cbm.call(<endpoint>, _once), breaker of the endpoint OPEN: the outer loop
\* sleeps, or gives up after endpoint_retries.
RejectedByEndpoint(c) ==
  /\ pc[c] \in {"idle", "starting", "endpointWait"}
  /\ ~Admits(Endpoint(c))
  /\ \/ /\ endpointAttempt[c] < endpoint_retries
        /\ pc' = [pc EXCEPT ![c] = "endpointWait"]
        /\ endpointAttempt' = [endpointAttempt EXCEPT ![c] = @ + 1]
        /\ UNCHANGED <<breaker, stage, httpAttempt, sent>>
     \/ /\ endpointAttempt[c] = endpoint_retries
        /\ OperationOver(c, breaker, FALSE)
  /\ UNCHANGED up

\* The result cache answers for a nested operation.
CachedPart(c) ==
  /\ pc[c] = "starting"
  /\ OperationOver(c, breaker, TRUE)
  /\ UNCHANGED up

\* _get_http_client fails: no request is made, TWSConnectionError.
NoClient(c) ==
  /\ pc[c] = "admitted"
  /\ ~up[Endpoint(c)]
  /\ FinishFailed(c, breaker)
  /\ UNCHANGED up

\* cbm.call("tws_http_client", _once), admitted: the request goes out.
EnterHttp(c) ==
  /\ pc[c] \in {"admitted", "httpWait"}
  /\ Admits(HTTP)
  /\ breaker' = Entered(breaker, HTTP)
  /\ pc' = [pc EXCEPT ![c] = "sending"]
  /\ sent' = [sent EXCEPT ![c][stage[c]] = IF @ < SendCap THEN @ + 1 ELSE @]
  /\ UNCHANGED <<stage, httpAttempt, endpointAttempt, up>>

\* cbm.call("tws_http_client", _once), OPEN: CircuitBreakerError, which the inner
\* loop retries.
RejectedByHttp(c) ==
  /\ pc[c] \in {"admitted", "httpWait"}
  /\ ~Admits(HTTP)
  /\ RetryHttp(c, breaker)
  /\ UNCHANGED up

\* A good response: the shared breaker records a success, and the breaker of the
\* endpoint does unless nested operations follow.
Answer(c) ==
  /\ pc[c] = "sending"
  /\ up[Endpoint(c)]
  /\ LET brs == Succeeded(breaker, HTTP)
     IN  \/ /\ stage[c] = 0
            /\ breaker' = brs
            /\ NextPart(c)
         \/ /\ stage[c] = 0 => Parts(c) = << >>
            /\ OperationOver(c, Succeeded(brs, Endpoint(c)), TRUE)
  /\ UNCHANGED up

\* The last request of an operation is answered and both breakers record a success, but
\* then the result cannot be stored: the operation raises after all.
ResultLost(c) ==
  /\ pc[c] = "sending"
  /\ ~up[Endpoint(c)]
  /\ stage[c] = 0 => Parts(c) = << >>
  /\ OperationOver(c, Succeeded(Succeeded(breaker, HTTP), Endpoint(c)), FALSE)
  /\ UNCHANGED up

\* httpx.RequestError or TimeoutException: a failure of the shared breaker, retried.
TransportError(c) ==
  /\ pc[c] = "sending"
  /\ ~up[Endpoint(c)]
  /\ RetryHttp(c, Failed(breaker, HTTP))
  /\ UNCHANGED up

\* raise_for_status raises HTTPStatusError inside the shared breaker: a failure
\* there, not retried.
StatusError(c) ==
  /\ pc[c] = "sending"
  /\ ~up[Endpoint(c)]
  /\ FinishFailed(c, Failed(breaker, HTTP))
  /\ UNCHANGED up

\* The response is fine for the shared breaker, but the endpoint's parsing of it
\* fails; _api_request turns that into TWSConnectionError too.
MalformedAnswer(c) ==
  /\ pc[c] = "sending"
  /\ ~up[Endpoint(c)]
  /\ FinishFailed(c, Succeeded(breaker, HTTP))
  /\ UNCHANGED up

\* The task is cancelled wherever it waits; no breaker hears of it.
Cancel(c) ==
  /\ pc[c] \notin {"idle", "cancelled"}
  /\ Leave(c, "cancelled")
  /\ UNCHANGED <<breaker, up>>

\* The CancelledError reaches the caller.
Cancelled(c) ==
  /\ pc[c] = "cancelled"
  /\ Finish(c)
  /\ UNCHANGED <<breaker, up>>

\* The pause of an OPEN breaker expires.
Expire(b) ==
  /\ breaker[b].state = OPEN
  /\ ~breaker[b].expired
  /\ breaker' = [breaker EXCEPT ![b].expired = TRUE]
  /\ UNCHANGED <<callVars, up>>

\* The service behind a flaky endpoint fails or comes back.
Flip(e) ==
  /\ e \in FlakyEndpoints
  /\ up' = [up EXCEPT ![e] = ~@]
  /\ UNCHANGED <<breaker, callVars>>

Step(c) ==
  \/ EnterEndpoint(c) \/ RejectedByEndpoint(c) \/ CachedPart(c)
  \/ NoClient(c) \/ EnterHttp(c) \/ RejectedByHttp(c)
  \/ Answer(c) \/ ResultLost(c) \/ TransportError(c) \/ StatusError(c) \/ MalformedAnswer(c)
  \/ Cancelled(c)

Next ==
  \/ \E c \in Callers : Step(c) \/ Cancel(c)
  \/ \E b \in Breakers : Expire(b)
  \/ \E e \in FlakyEndpoints : Flip(e)

Spec == Init /\ [][Next]_vars

\* Tasks run and sleeps end (the event loop), requests end (the HTTP client has timeouts),
\* pauses expire (the clock).  Nobody has to begin an operation.
Fairness ==
  /\ \A c \in Callers : WF_vars(pc[c] # "idle" /\ Step(c))
  /\ \A b \in Breakers : WF_vars(Expire(b))

FairSpec == Spec /\ Fairness

-------------------------------------------------------------------------------
(* Properties *)

\* The nested loops do not multiply: an operation sends at most http_retries + 1 requests
\* for itself and as many for each operation nested in it, since no outer loop retries what
\* an inner one gave up on (_make_request 174-185, _api_request 208-221).
SendsAreBounded ==
  \A c \in Callers : \A i \in 0..Len(Parts(c)) : sent[c][i] <= http_retries + 1

\* Each breaker, used from inside another one and by overlapping operations,
\* still keeps the contract of a breaker: requests in flight inside it start only
\* while it lets calls through, and only a half-open one closes.
InEndpoint == {"admitted", "httpWait", "sending"}

ContractOf(b) == INSTANCE BreakerContract WITH
  mode <- breaker[b].state,
  expired <- breaker[b].state = OPEN /\ breaker[b].expired,
  inflight <- {c \in Callers :
                 IF b = HTTP THEN pc[c] = "sending"
                 ELSE \/ Endpoint(c) = b /\ pc[c] \in InEndpoint
                      \/ EndpointOf[c] = b /\ stage[c] > 0}

BreakersKeepContract ==
  /\ \A b \in Breakers : ContractOf(b)!Init
  /\ [][\A b \in Breakers : [ContractOf(b)!Next]_(ContractOf(b)!vars)]_vars

\* An operation ends, whatever the server and the two breakers do.
OperationsEnd == \A c \in Callers : pc[c] # "idle" ~> pc[c] = "idle"

\* The breaker of e is asked for a call: one that the result cache does not answer.
Called(e) == \E c \in Callers : Endpoint(c) = e /\ pc[c] \notin {"idle", "starting", "cancelled"}

\* After the service is back for good on every endpoint and operations are not cancelled any
\* more, the breaker of every endpoint that is called again and again ends up CLOSED for
\* good, and so does the shared breaker if any endpoint is: shared, nested and outer breakers
\* do not keep each other open.  A breaker that nobody calls stays as it is.
BreakersRecover ==
  /\ <>[](\A e \in Endpoints : up[e])
  /\ <>[](\A c \in Callers : pc[c] # "cancelled")
  => \A e \in Endpoints :
       []<>Called(e) => <>[](breaker[e].state = CLOSED /\ breaker[HTTP].state = CLOSED)

\* "Circuit Breaker: Implementado no cliente TWS para evitar falhas em cascata"
\* (docs/architecture.md:262): an endpoint whose service never fails stays
\* available.  The shared breaker breaks this.
NoCascade ==
  \A e \in Endpoints \ FlakyEndpoints : breaker[e].state = CLOSED
==============================================================================
