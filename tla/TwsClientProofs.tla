--------------------------- MODULE TwsClientProofs ---------------------------
(***************************************************************************)
(* Proofs about TwsClient, for any number of endpoints and callers, any    *)
(* thresholds and any number of retries.  Nothing here needs fairness: the *)
(* theorems are about Spec.                                                *)
(***************************************************************************)
EXTENDS TwsClient, TLAPS

-------------------------------------------------------------------------------
(* What the bookkeeping of a breaker does to the record of all breakers.       *)

\* The registered breakers are well typed and count no further than they need.
BreakersOK(brs) ==
  /\ brs \in [Breakers -> BreakerState]
  /\ \A b \in Breakers : brs[b].failures <= fail_max(b)

\* The thresholds (fail_max of the registered breakers) are positive numbers.
LEMMA ThresholdType == \A b \in Breakers : fail_max(b) \in Nat /\ fail_max(b) > 0
BY ClientAssumption DEF fail_max, Breakers

\* The endpoint of operation k of caller c, 0 for its own.
EndpointAt(c, k) == IF k = 0 THEN EndpointOf[c] ELSE Parts(c)[k]

\* Every operation has a registered breaker, which is not the shared one, and nested ones
\* have another one than the operation around them.
LEMMA EndpointIsBreaker ==
  ASSUME NEW c \in Callers
  PROVE /\ EndpointOf[c] \in Breakers \ {HTTP}
        /\ Len(Parts(c)) \in Nat
        /\ \A k \in 0..Len(Parts(c)) :
             /\ EndpointAt(c, k) \in Breakers \ {HTTP}
             /\ k > 0 => EndpointAt(c, k) # EndpointOf[c]
<1>1. EndpointOf[c] \in Endpoints /\ HTTP \notin Endpoints
  BY ClientAssumption DEF HTTP
<1>2. Parts(c) \in Seq(Endpoints)
  BY <1>1, ClientAssumption DEF Parts
<1>3. ASSUME NEW k \in 1..Len(Parts(c))
      PROVE Parts(c)[k] \in Endpoints /\ Parts(c)[k] # EndpointOf[c]
  BY <1>1, <1>2, <1>3, ClientAssumption DEF Parts
<1> QED
  BY <1>1, <1>2, <1>3 DEF EndpointAt, Breakers

\* The check at the start of call() changes the state of its breaker from OPEN
\* to HALF_OPEN.
LEMMA EnteredEffect ==
  ASSUME NEW brs, BreakersOK(brs), NEW b \in Breakers
  PROVE /\ BreakersOK(Entered(brs, b))
        /\ Entered(brs, b)[b].state = IF brs[b].state = OPEN THEN HALF_OPEN ELSE brs[b].state
        /\ Entered(brs, b)[b].expired = FALSE
BY DEF BreakersOK, BreakerState, Entered, CLOSED, OPEN, HALF_OPEN

\* _on_success closes a half-open breaker and leaves its pause alone.
LEMMA SucceededEffect ==
  ASSUME NEW brs, BreakersOK(brs), NEW b \in Breakers
  PROVE /\ BreakersOK(Succeeded(brs, b))
        /\ Succeeded(brs, b)[b].state
             = IF brs[b].state = HALF_OPEN THEN CLOSED ELSE brs[b].state
        /\ Succeeded(brs, b)[b].expired = brs[b].expired
<1>1. fail_max(b) >= 0
  BY ThresholdType
<1> QED
  BY <1>1 DEF BreakersOK, BreakerState, Succeeded, CLOSED, OPEN, HALF_OPEN

\* _on_failure counts up to the threshold, opens the breaker there and restarts
\* the pause.
LEMMA FailedEffect ==
  ASSUME NEW brs, BreakersOK(brs), NEW b \in Breakers
  PROVE /\ BreakersOK(Failed(brs, b))
        /\ Failed(brs, b)[b].state \in {brs[b].state, OPEN}
        /\ Failed(brs, b)[b].expired = FALSE
<1> DEFINE n == IF brs[b].failures < fail_max(b) THEN brs[b].failures + 1 ELSE fail_max(b)
           r == [state |-> IF n >= fail_max(b) THEN OPEN ELSE brs[b].state,
                 failures |-> n, expired |-> FALSE]
<1>1. n \in Nat /\ n <= fail_max(b)
  BY ThresholdType DEF BreakersOK, BreakerState
<1>2. r.state \in {brs[b].state, OPEN} /\ brs[b].state \in {CLOSED, OPEN, HALF_OPEN}
  BY DEF BreakersOK, BreakerState
<1>3. r \in BreakerState
  BY <1>1, <1>2 DEF BreakerState
<1>4. Failed(brs, b) = [brs EXCEPT ![b] = r]
  BY DEF Failed
<1> HIDE DEF n
<1>5. r.failures = n /\ r.expired = FALSE
  OBVIOUS
<1> HIDE DEF r
<1> QED
  BY <1>1, <1>2, <1>3, <1>4, <1>5 DEF BreakersOK

\* None of them touches another breaker.
LEMMA OthersUntouched ==
  ASSUME NEW brs, BreakersOK(brs), NEW b \in Breakers, NEW d \in Breakers, d # b
  PROVE /\ Entered(brs, b)[d] = brs[d]
        /\ Succeeded(brs, b)[d] = brs[d]
        /\ Failed(brs, b)[d] = brs[d]
BY DEF BreakersOK, Entered, Succeeded, Failed

-------------------------------------------------------------------------------
(* The safety invariant.  Requests are paid for by the attempts of the inner   *)
(* loop: an operation that is not inside it has sent nothing, one that is over *)
(* has sent what its attempts paid for, and one that follows has sent nothing. *)

Paid(c) ==
  /\ pc[c] \in {"idle", "cancelled"} => stage[c] = 0
  /\ pc[c] = "starting" => stage[c] > 0
  /\ pc[c] \in PCs \ {"httpWait", "sending"} => sent[c][stage[c]] = 0 /\ httpAttempt[c] = 0
  /\ pc[c] = "httpWait" => sent[c][stage[c]] <= httpAttempt[c]
  /\ pc[c] = "sending" => sent[c][stage[c]] <= httpAttempt[c] + 1
  /\ \A i \in 0..Len(Parts(c)) : i < stage[c] => sent[c][i] <= http_retries + 1
  /\ \A i \in 0..Len(Parts(c)) : i > stage[c] => sent[c][i] = 0

SendsArePaid == \A c \in Callers : Paid(c)

\* The position of one operation, well typed and paid for.
CallerOK(c) ==
  /\ pc[c] \in PCs
  /\ stage[c] \in 0..Len(Parts(c))
  /\ httpAttempt[c] \in 0..http_retries
  /\ endpointAttempt[c] \in 0..endpoint_retries
  /\ sent[c] \in [0..Len(Parts(c)) -> 0..SendCap]
  /\ Paid(c)

IInv == TypeOK /\ SendsArePaid

\* One step of one operation: the five functions stay functions on Callers, the other
\* operations stay where they are, and the new position of c is legal.
CallStep(c) ==
  /\ pc' = [pc EXCEPT ![c] = pc'[c]]
  /\ stage' = [stage EXCEPT ![c] = stage'[c]]
  /\ httpAttempt' = [httpAttempt EXCEPT ![c] = httpAttempt'[c]]
  /\ endpointAttempt' = [endpointAttempt EXCEPT ![c] = endpointAttempt'[c]]
  /\ sent' = [sent EXCEPT ![c] = sent'[c]]
  /\ CallerOK(c)'

\* The counts of one caller.
LEMMA CountsOf ==
  ASSUME NEW c \in Callers, NEW f
  PROVE f \in Counts /\ DOMAIN f = 0..Len(Parts(c)) <=> f \in [0..Len(Parts(c)) -> 0..SendCap]
<1>1. EndpointOf[c] \in Endpoints
  BY ClientAssumption
<1> QED
  BY <1>1 DEF Counts, Parts

\* The invariant speaks of each operation separately.
LEMMA CallersAreOK == IInv => BreakersOK(breaker) /\ \A c \in Callers : CallerOK(c)
<1> SUFFICES ASSUME IInv PROVE BreakersOK(breaker) /\ \A c \in Callers : CallerOK(c)
  OBVIOUS
<1>1. BreakersOK(breaker)
  BY DEF IInv, TypeOK, BreakersOK
<1>2. ASSUME NEW c \in Callers PROVE CallerOK(c)
  <2>1. sent[c] \in [0..Len(Parts(c)) -> 0..SendCap]
    BY CountsOf DEF IInv, TypeOK
  <2>2. stage[c] \in 0..Len(Parts(c))
    BY EndpointIsBreaker DEF IInv, TypeOK
  <2> QED
    BY <2>1, <2>2 DEF IInv, TypeOK, SendsArePaid, CallerOK
<1> QED
  BY <1>1, <1>2

\* A step of one operation that keeps the breakers well typed keeps the invariant.
LEMMA InvFromCallStep ==
  ASSUME IInv, NEW c \in Callers, CallStep(c), BreakersOK(breaker'), UNCHANGED up
  PROVE IInv'
<1>0. /\ pc \in [Callers -> PCs] /\ stage \in [Callers -> Nat]
      /\ httpAttempt \in [Callers -> 0..http_retries]
      /\ endpointAttempt \in [Callers -> 0..endpoint_retries]
      /\ sent \in [Callers -> Counts]
  BY DEF IInv, TypeOK
<1>1. \A d \in Callers : CallerOK(d)'
  <2> SUFFICES ASSUME NEW d \in Callers, d # c PROVE CallerOK(d)'
    BY DEF CallStep
  <2>1. /\ pc'[d] = pc[d] /\ stage'[d] = stage[d] /\ sent'[d] = sent[d]
        /\ httpAttempt'[d] = httpAttempt[d] /\ endpointAttempt'[d] = endpointAttempt[d]
    BY <1>0 DEF CallStep
  <2> QED
    BY <2>1, CallersAreOK DEF CallerOK, Paid, Parts
<1>2. \A d \in Callers : sent'[d] \in Counts /\ DOMAIN sent'[d] = 0..Len(Parts(d))
  BY <1>1, CountsOf DEF CallerOK, Parts
<1>3. \A d \in Callers : stage'[d] \in Nat /\ stage'[d] <= Len(Parts(d))
  BY <1>1, EndpointIsBreaker DEF CallerOK, Parts
<1>4. /\ pc' \in [Callers -> PCs]
      /\ stage' \in [Callers -> Nat]
      /\ httpAttempt' \in [Callers -> 0..http_retries]
      /\ endpointAttempt' \in [Callers -> 0..endpoint_retries]
      /\ sent' \in [Callers -> Counts]
  BY <1>0, <1>1, <1>2, <1>3 DEF CallStep, CallerOK
<1>5. SendsArePaid'
  BY <1>1 DEF CallerOK, SendsArePaid
<1>6. up' \in [Endpoints -> BOOLEAN]
  BY DEF IInv, TypeOK
<1> QED
  BY <1>2, <1>3, <1>4, <1>5, <1>6 DEF IInv, TypeOK, BreakersOK, Parts

\* Whoever leaves its operation has nothing to account for.
LEMMA LeaveStep ==
  ASSUME IInv, NEW c \in Callers, NEW p \in {"idle", "cancelled"}, Leave(c, p)
  PROVE CallStep(c)
<1>1. /\ pc'[c] = p /\ stage'[c] = 0 /\ httpAttempt'[c] = 0 /\ endpointAttempt'[c] = 0
      /\ sent'[c] = NothingSent(c)
  BY DEF Leave, IInv, TypeOK
<1>2. NothingSent(c) \in [0..Len(Parts(c)) -> 0..SendCap]
  BY ClientAssumption DEF NothingSent, SendCap
<1>3. \A i \in 0..Len(Parts(c)) : NothingSent(c)[i] = 0
  BY DEF NothingSent
<1>4. 0 \in 0..Len(Parts(c)) /\ Len(Parts(c)) \in Nat
  BY EndpointIsBreaker
<1>5. CallerOK(c)'
  BY <1>1, <1>2, <1>3, <1>4, ClientAssumption DEF CallerOK, Paid, PCs, Parts
<1> QED
  BY <1>1, <1>5 DEF CallStep, Leave

\* What an operation that ends has sent is paid for, so the next one may begin.
LEMMA NextPartStep ==
  ASSUME IInv, NEW c \in Callers, NextPart(c)
  PROVE CallStep(c)
<1>0. CallerOK(c) /\ Len(Parts(c)) \in Nat
  BY CallersAreOK, EndpointIsBreaker
<1>1. /\ pc'[c] = "starting" /\ stage'[c] = stage[c] + 1
      /\ httpAttempt'[c] = 0 /\ endpointAttempt'[c] = 0 /\ sent'[c] = sent[c]
  BY DEF NextPart, IInv, TypeOK
<1>2. sent[c][stage[c]] <= http_retries + 1
  BY <1>0, ClientAssumption DEF CallerOK, Paid, PCs
<1>3. stage'[c] \in 0..Len(Parts(c))
  BY <1>0, <1>1 DEF CallerOK, NextPart
<1>4. Paid(c)'
  <2>1. \A i \in 0..Len(Parts(c)) : i < stage'[c] => sent[c][i] <= http_retries + 1
    BY <1>0, <1>1, <1>2 DEF CallerOK, Paid
  <2>2. \A i \in 0..Len(Parts(c)) : i >= stage'[c] => sent[c][i] = 0
    BY <1>0, <1>1 DEF CallerOK, Paid
  <2> QED
    BY <1>0, <1>1, <1>3, <2>1, <2>2 DEF CallerOK, Paid, Parts
<1>5. CallerOK(c)'
  BY <1>0, <1>1, <1>3, <1>4, ClientAssumption DEF CallerOK, PCs, Parts
<1> QED
  BY <1>1, <1>5 DEF CallStep, NextPart, IInv, TypeOK

\* The end of an operation: of the caller's, or of a nested one.
LEMMA OverStep ==
  ASSUME IInv, NEW c \in Callers, NEW brs, BreakersOK(brs), NEW ok, OperationOver(c, brs, ok)
  PROVE CallStep(c) /\ BreakersOK(breaker')
<1>1. CASE breaker' = brs /\ Finish(c)
  BY <1>1, LeaveStep DEF Finish
<1>2. CASE breaker' = brs /\ NextPart(c)
  BY <1>2, NextPartStep
<1>3. CASE /\ breaker' = IF ok THEN Succeeded(brs, EndpointOf[c]) ELSE Failed(brs, EndpointOf[c])
           /\ Finish(c)
  <2>1. BreakersOK(breaker')
    BY <1>3, SucceededEffect, FailedEffect, EndpointIsBreaker
  <2> QED
    BY <1>3, <2>1, LeaveStep DEF Finish
<1> QED
  BY <1>1, <1>2, <1>3 DEF OperationOver

\* Endpoint(c) is the endpoint of the operation c is in.
LEMMA EndpointHere ==
  ASSUME IInv, NEW c \in Callers
  PROVE /\ Endpoint(c) = EndpointAt(c, stage[c])
        /\ Endpoint(c) \in Breakers \ {HTTP}
        /\ stage[c] > 0 => Endpoint(c) # EndpointOf[c]
        /\ stage[c] = 0 => Endpoint(c) = EndpointOf[c]
BY CallersAreOK, EndpointIsBreaker DEF CallerOK, Endpoint, EndpointAt

\* The end of an operation with TWSConnectionError.
LEMMA FinishFailedStep ==
  ASSUME IInv, NEW c \in Callers, NEW brs, BreakersOK(brs), FinishFailed(c, brs)
  PROVE CallStep(c) /\ BreakersOK(breaker')
<1>1. BreakersOK(Failed(brs, Endpoint(c)))
  BY FailedEffect, EndpointHere
<1> QED
  BY <1>1, OverStep DEF FinishFailed

\* An attempt of the inner loop that fails: the attempts of the loop pay for the
\* requests sent, whether it goes round again or gives up.
LEMMA RetryHttpStep ==
  ASSUME IInv, NEW c \in Callers, NEW brs, BreakersOK(brs), RetryHttp(c, brs),
         pc[c] \in {"admitted", "httpWait", "sending"}
  PROVE CallStep(c) /\ BreakersOK(breaker')
<1>1. CASE /\ httpAttempt[c] < http_retries
           /\ breaker' = brs
           /\ pc' = [pc EXCEPT ![c] = "httpWait"]
           /\ httpAttempt' = [httpAttempt EXCEPT ![c] = @ + 1]
           /\ UNCHANGED <<stage, endpointAttempt, sent>>
  <2>1. CallerOK(c)
    BY CallersAreOK
  <2>2. pc'[c] = "httpWait" /\ httpAttempt'[c] = httpAttempt[c] + 1
    BY <1>1 DEF IInv, TypeOK
  <2>3. CallerOK(c)'
    BY <1>1, <2>1, <2>2, ClientAssumption DEF CallerOK, Paid, PCs, Parts
  <2> QED
    BY <1>1, <2>3 DEF CallStep, IInv, TypeOK
<1>2. CASE httpAttempt[c] = http_retries /\ FinishFailed(c, brs)
  BY <1>2, FinishFailedStep
<1> QED
  BY <1>1, <1>2 DEF RetryHttp

\* One more request counted.
LEMMA OneMore ==
  ASSUME NEW n \in Nat, NEW m \in Nat, NEW f \in [0..n -> 0..m], NEW k \in 0..n,
         f[k] < m, NEW g, g = [f EXCEPT ![k] = f[k] + 1]
  PROVE /\ g \in [0..n -> 0..m]
        /\ g[k] = f[k] + 1
        /\ \A i \in 0..n : i # k => g[i] = f[i]
<1>1. f[k] + 1 \in 0..m
  BY SMT
<1> QED
  BY <1>1

\* A new client satisfies the invariant.
LEMMA InvInit == Init => IInv
<1> SUFFICES ASSUME Init PROVE IInv
  OBVIOUS
<1>1. BreakersOK(breaker)
  BY ThresholdType DEF Init, BreakersOK, BreakerState, CLOSED
<1>2. 0 \in 0..http_retries /\ 0 \in 0..endpoint_retries /\ 0 \in 0..SendCap
  BY ClientAssumption DEF SendCap
<1>3. ASSUME NEW c \in Callers
      PROVE /\ sent[c] \in Counts /\ DOMAIN sent[c] = 0..Len(Parts(c))
            /\ \A i \in 0..Len(Parts(c)) : sent[c][i] = 0
            /\ 0 \in 0..Len(Parts(c)) /\ stage[c] = 0 /\ stage[c] <= Len(Parts(c))
  <2>1. Len(Parts(c)) \in Nat
    BY EndpointIsBreaker
  <2>2. sent[c] = [i \in 0..Len(Parts(c)) |-> 0]
    BY DEF Init, NothingSent
  <2>3. sent[c] \in [0..Len(Parts(c)) -> 0..SendCap]
    BY <1>2, <2>2
  <2> QED
    BY <2>1, <2>2, <2>3, CountsOf DEF Init
<1>4. TypeOK
  BY <1>1, <1>2, <1>3 DEF Init, TypeOK, BreakersOK, PCs
<1>5. SendsArePaid
  BY <1>3 DEF Init, SendsArePaid, Paid, PCs
<1> QED
  BY <1>4, <1>5 DEF IInv

\* Every piece of an operation, cancellation, the clock and the service keep it.
LEMMA InvStep == IInv /\ [Next]_vars => IInv'
<1> SUFFICES ASSUME IInv, [Next]_vars PROVE IInv'
  OBVIOUS
<1>0. BreakersOK(breaker) /\ HTTP \in Breakers
  BY CallersAreOK DEF Breakers
<1>1. ASSUME NEW c \in Callers, EnterEndpoint(c) PROVE IInv'
  <2>1. CallerOK(c)
    BY CallersAreOK
  <2>2. CallStep(c)
    BY <1>1, <2>1 DEF EnterEndpoint, CallStep, CallerOK, Paid, PCs, Parts, IInv, TypeOK
  <2>3. BreakersOK(breaker')
    BY <1>0, <1>1, EnteredEffect, EndpointHere DEF EnterEndpoint
  <2> QED
    BY <1>1, <2>2, <2>3, InvFromCallStep DEF EnterEndpoint
<1>2. ASSUME NEW c \in Callers, RejectedByEndpoint(c) PROVE IInv'
  <2>1. CallerOK(c)
    BY CallersAreOK
  <2>2. CASE OperationOver(c, breaker, FALSE)
    BY <1>0, <1>2, <2>2, OverStep, InvFromCallStep DEF RejectedByEndpoint
  <2>3. CASE /\ endpointAttempt[c] < endpoint_retries
             /\ pc' = [pc EXCEPT ![c] = "endpointWait"]
             /\ endpointAttempt' = [endpointAttempt EXCEPT ![c] = @ + 1]
             /\ UNCHANGED <<breaker, stage, httpAttempt, sent>>
    <3>1. pc'[c] = "endpointWait" /\ endpointAttempt'[c] = endpointAttempt[c] + 1
      BY <2>3 DEF IInv, TypeOK
    <3>2. endpointAttempt'[c] \in 0..endpoint_retries
      BY <2>1, <2>3, <3>1, ClientAssumption DEF CallerOK
    <3>3. CallerOK(c)'
      BY <1>2, <2>1, <2>3, <3>1, <3>2 DEF RejectedByEndpoint, CallerOK, Paid, PCs, Parts
    <3>4. CallStep(c)
      BY <2>3, <3>1, <3>3 DEF CallStep, IInv, TypeOK
    <3> QED
      BY <1>0, <1>2, <2>3, <3>4, InvFromCallStep DEF RejectedByEndpoint
  <2> QED
    BY <1>2, <2>2, <2>3 DEF RejectedByEndpoint
<1>3. ASSUME NEW c \in Callers, CachedPart(c) PROVE IInv'
  BY <1>0, <1>3, OverStep, InvFromCallStep DEF CachedPart
<1>4. ASSUME NEW c \in Callers, NoClient(c) PROVE IInv'
  BY <1>0, <1>4, FinishFailedStep, InvFromCallStep DEF NoClient
<1>5. ASSUME NEW c \in Callers, EnterHttp(c) PROVE IInv'
  <2>1. CallerOK(c)
    BY CallersAreOK
  <2> DEFINE k == stage[c]
             n == Len(Parts(c))
  <2>0. /\ n \in Nat /\ k \in 0..n /\ sent[c] \in [0..n -> 0..SendCap]
        /\ httpAttempt[c] \in 0..http_retries /\ SendCap = http_retries + 2
        /\ http_retries \in Nat
    BY <2>1, EndpointIsBreaker, ClientAssumption DEF CallerOK, SendCap
  <2>2. sent[c][k] < SendCap /\ sent[c][k] \in Nat /\ sent[c][k] <= httpAttempt[c]
    <3>1. CASE pc[c] = "admitted"
      BY <2>0, <2>1, <3>1 DEF CallerOK, Paid, PCs
    <3>2. CASE pc[c] = "httpWait"
      BY <2>0, <2>1, <3>2 DEF CallerOK, Paid
    <3> QED
      BY <1>5, <3>1, <3>2 DEF EnterHttp
  <2>3. pc'[c] = "sending" /\ sent'[c] = [sent[c] EXCEPT ![k] = sent[c][k] + 1]
    BY <1>5, <2>2 DEF EnterHttp, IInv, TypeOK
  <2> HIDE DEF n, k
  <2>4. /\ sent'[c] \in [0..n -> 0..SendCap]
        /\ sent'[c][k] = sent[c][k] + 1
        /\ \A i \in 0..n : i # k => sent'[c][i] = sent[c][i]
    BY <2>0, <2>2, <2>3, OneMore
  <2>5. CallerOK(c)'
    <3>1. /\ \A i \in 0..n : i < k => sent'[c][i] <= http_retries + 1
          /\ \A i \in 0..n : i > k => sent'[c][i] = 0
      <4>1. /\ \A i \in 0..n : i < k => sent[c][i] <= http_retries + 1
            /\ \A i \in 0..n : i > k => sent[c][i] = 0
        BY <2>1 DEF CallerOK, Paid, n, k
      <4>2. \A i \in 0..n : i < k \/ i > k => i # k
        BY <2>0
      <4> QED
        BY <2>4, <4>1, <4>2
    <3>2. Paid(c)'
      BY <1>5, <2>0, <2>2, <2>3, <2>4, <3>1 DEF EnterHttp, Paid, PCs, Parts, n, k
    <3> QED
      BY <1>5, <2>0, <2>1, <2>3, <2>4, <3>2 DEF EnterHttp, CallerOK, PCs, Parts, n, k
  <2>6. CallStep(c)
    BY <1>5, <2>3, <2>5 DEF k, EnterHttp, CallStep, IInv, TypeOK
  <2>7. BreakersOK(breaker')
    BY <1>0, <1>5, EnteredEffect DEF EnterHttp
  <2> QED
    BY <1>5, <2>6, <2>7, InvFromCallStep DEF EnterHttp
<1>6. ASSUME NEW c \in Callers, RejectedByHttp(c) PROVE IInv'
  BY <1>0, <1>6, RetryHttpStep, InvFromCallStep DEF RejectedByHttp
<1>7. ASSUME NEW c \in Callers, Answer(c) \/ ResultLost(c) PROVE IInv'
  <2> DEFINE brs == Succeeded(breaker, HTTP)
  <2>1. BreakersOK(brs) /\ BreakersOK(Succeeded(brs, Endpoint(c)))
    BY <1>0, SucceededEffect, EndpointHere
  <2>2. UNCHANGED up /\ \/ breaker' = brs /\ NextPart(c)
                        \/ \E ok \in BOOLEAN : OperationOver(c, Succeeded(brs, Endpoint(c)), ok)
    BY <1>7 DEF Answer, ResultLost
  <2> HIDE DEF brs
  <2> QED
    BY <2>1, <2>2, NextPartStep, OverStep, InvFromCallStep
<1>8. ASSUME NEW c \in Callers, TransportError(c) PROVE IInv'
  <2>1. BreakersOK(Failed(breaker, HTTP))
    BY <1>0, FailedEffect
  <2> QED
    BY <1>8, <2>1, RetryHttpStep, InvFromCallStep DEF TransportError
<1>9. ASSUME NEW c \in Callers, StatusError(c) PROVE IInv'
  <2>1. BreakersOK(Failed(breaker, HTTP))
    BY <1>0, FailedEffect
  <2> QED
    BY <1>9, <2>1, FinishFailedStep, InvFromCallStep DEF StatusError
<1>10. ASSUME NEW c \in Callers, MalformedAnswer(c) PROVE IInv'
  <2>1. BreakersOK(Succeeded(breaker, HTTP))
    BY <1>0, SucceededEffect
  <2> QED
    BY <1>10, <2>1, FinishFailedStep, InvFromCallStep DEF MalformedAnswer
<1>11. ASSUME NEW c \in Callers, Cancel(c) \/ Cancelled(c) PROVE IInv'
  BY <1>0, <1>11, LeaveStep, InvFromCallStep DEF Cancel, Cancelled, Finish
<1>12. ASSUME NEW b \in Breakers, Expire(b) PROVE IInv'
  <2>1. BreakersOK(breaker')
    BY <1>0, <1>12 DEF Expire, BreakersOK, BreakerState
  <2> QED
    BY <1>12, <2>1 DEF Expire, callVars, IInv, TypeOK, SendsArePaid, Paid, BreakersOK
<1>13. ASSUME NEW e \in FlakyEndpoints, Flip(e) PROVE IInv'
  BY <1>13 DEF Flip, callVars, IInv, TypeOK, SendsArePaid, Paid
<1>14. CASE UNCHANGED vars
  BY <1>14 DEF vars, IInv, TypeOK, SendsArePaid, Paid
<1> QED
  BY <1>1, <1>2, <1>3, <1>4, <1>5, <1>6, <1>7, <1>8, <1>9, <1>10, <1>11, <1>12, <1>13, <1>14
     DEF Next, Step

\* The invariant holds in every reachable state of the client.
LEMMA InvHolds == Spec => []IInv
BY InvInit, InvStep, PTL DEF Spec

\* Whatever the server does, the breakers, counters and positions stay in range.
THEOREM TypeCorrect == Spec => []TypeOK
<1>1. IInv => TypeOK
  BY DEF IInv
<1> QED
  BY <1>1, InvHolds, PTL

\* An operation sends at most http_retries + 1 requests for itself and for each operation
\* nested in it, for every number of endpoint retries and of nested operations: the nested
\* loops of _make_request and _api_request do not multiply.
THEOREM SendsBounded == Spec => []SendsAreBounded
<1>1. IInv => SendsAreBounded
  <2> SUFFICES ASSUME IInv, NEW c \in Callers, NEW i \in 0..Len(Parts(c))
               PROVE sent[c][i] <= http_retries + 1
    BY DEF SendsAreBounded
  <2>1. CallerOK(c) /\ Len(Parts(c)) \in Nat
    BY CallersAreOK, EndpointIsBreaker
  <2>2. CASE i < stage[c]
    BY <2>1, <2>2 DEF CallerOK, Paid
  <2>3. CASE i > stage[c]
    BY <2>1, <2>3, ClientAssumption DEF CallerOK, Paid
  <2>4. CASE i = stage[c]
    <3>1. sent[c][i] \in Nat /\ httpAttempt[c] \in 0..http_retries /\ pc[c] \in PCs
      BY <2>1, ClientAssumption DEF CallerOK, SendCap
    <3> QED
      BY <2>1, <2>4, <3>1, ClientAssumption DEF CallerOK, Paid, PCs
  <2> QED
    BY <2>1, <2>2, <2>3, <2>4 DEF CallerOK
<1> QED
  BY <1>1, InvHolds, PTL

-------------------------------------------------------------------------------
(* The contract of each breaker, nested in or around another one.              *)

\* The calls in flight inside breaker b, as ContractOf(b) sees them.
InFlight(b) ==
  {c \in Callers : IF b = HTTP THEN pc[c] = "sending"
                   ELSE \/ Endpoint(c) = b /\ pc[c] \in InEndpoint
                        \/ EndpointOf[c] = b /\ stage[c] > 0}

\* What a step does to one breaker: a step of the contract, or none.
KeepsContract(b) == [ContractOf(b)!Next]_(ContractOf(b)!vars)

\* A breaker whose record and calls in flight stay does not move.
LEMMA ContractStutter ==
  ASSUME NEW b \in Breakers, breaker'[b] = breaker[b], InFlight(b)' = InFlight(b)
  PROVE KeepsContract(b)
BY DEF KeepsContract, ContractOf!vars, InFlight

\* A breaker that admits a call starts it, as a probe if it was OPEN.
LEMMA ContractAdmit ==
  ASSUME NEW b \in Breakers, NEW c \in Callers, Admits(b),
         c \notin InFlight(b), InFlight(b)' = InFlight(b) \cup {c},
         breaker'[b].state = (IF breaker[b].state = OPEN THEN HALF_OPEN ELSE breaker[b].state)
  PROVE KeepsContract(b)
<1>1. CASE breaker[b].state = OPEN
  <2>1. ContractOf(b)!Probe(c)
    BY <1>1 DEF ContractOf!Probe, InFlight, Admits, OPEN, HALF_OPEN
  <2> QED
    BY <2>1 DEF KeepsContract, ContractOf!Next
<1>2. CASE breaker[b].state # OPEN
  <2>1. ContractOf(b)!Start(c)
    BY <1>2 DEF ContractOf!Start, InFlight, OPEN
  <2> QED
    BY <2>1 DEF KeepsContract, ContractOf!Next
<1> QED
  BY <1>1, <1>2

\* A call ends and its breaker hears nothing of it.
LEMMA ContractCancel ==
  ASSUME NEW b \in Breakers, NEW c \in InFlight(b),
         InFlight(b)' = InFlight(b) \ {c}, breaker'[b] = breaker[b]
  PROVE KeepsContract(b)
<1>1. ContractOf(b)!End(c)
  BY DEF ContractOf!End, InFlight
<1> QED
  BY <1>1 DEF KeepsContract, ContractOf!Next, InFlight

\* A call ends and its breaker records a success: it may close from HALF_OPEN.
LEMMA ContractSuccess ==
  ASSUME NEW b \in Breakers, NEW c \in InFlight(b),
         InFlight(b)' = InFlight(b) \ {c},
         breaker'[b].state = (IF breaker[b].state = HALF_OPEN THEN CLOSED ELSE breaker[b].state),
         breaker'[b].expired = breaker[b].expired
  PROVE KeepsContract(b)
<1>1. CASE breaker[b].state = HALF_OPEN
  <2>1. ContractOf(b)!Close(c)
    BY <1>1 DEF ContractOf!Close, InFlight, OPEN, HALF_OPEN, CLOSED
  <2> QED
    BY <2>1 DEF KeepsContract, ContractOf!Next, InFlight
<1>2. CASE breaker[b].state # HALF_OPEN
  <2>1. ContractOf(b)!End(c)
    BY <1>2 DEF ContractOf!End, InFlight
  <2> QED
    BY <2>1 DEF KeepsContract, ContractOf!Next, InFlight
<1> QED
  BY <1>1, <1>2

\* A call ends and its breaker records a failure: it may open, its pause restarts.
LEMMA ContractFailure ==
  ASSUME NEW b \in Breakers, NEW c \in InFlight(b),
         InFlight(b)' = InFlight(b) \ {c},
         breaker'[b].state \in {breaker[b].state, OPEN},
         breaker'[b].expired = FALSE
  PROVE KeepsContract(b)
<1>1. CASE breaker'[b].state = breaker[b].state
  <2>1. ContractOf(b)!End(c)
    BY <1>1 DEF ContractOf!End, InFlight
  <2> QED
    BY <2>1 DEF KeepsContract, ContractOf!Next, InFlight
<1>2. CASE breaker'[b].state # breaker[b].state
  <2>1. ContractOf(b)!Trip(c)
    BY <1>2 DEF ContractOf!Trip, InFlight, OPEN
  <2> QED
    BY <2>1 DEF KeepsContract, ContractOf!Next, InFlight
<1> QED
  BY <1>1, <1>2

\* Where the move of one operation leaves the calls in flight.
LEMMA InFlightMove ==
  ASSUME TypeOK, NEW c \in Callers, NEW p, NEW k,
         pc' = [pc EXCEPT ![c] = p], stage' = [stage EXCEPT ![c] = k], NEW b \in Breakers
  PROVE /\ InFlight(b)' \ {c} = InFlight(b) \ {c}
        /\ c \in InFlight(b)' <=> IF b = HTTP THEN p = "sending"
                                  ELSE \/ EndpointAt(c, k) = b /\ p \in InEndpoint
                                       \/ EndpointOf[c] = b /\ k > 0
<1>1. pc'[c] = p /\ stage'[c] = k
  BY DEF TypeOK
<1>2. \A d \in Callers \ {c} : pc'[d] = pc[d] /\ stage'[d] = stage[d]
  BY DEF TypeOK
<1>3. Endpoint(c)' = EndpointAt(c, k)
  BY <1>1 DEF Endpoint, EndpointAt, Parts
<1>4. \A d \in Callers \ {c} : Endpoint(d)' = Endpoint(d)
  BY <1>2 DEF Endpoint, Parts
<1>5. \A d \in Callers \ {c} : d \in InFlight(b)' <=> d \in InFlight(b)
  BY <1>2, <1>4 DEF InFlight
<1>6. InFlight(b) \subseteq Callers /\ InFlight(b)' \subseteq Callers
  BY DEF InFlight
<1>7. c \in InFlight(b)' <=> IF b = HTTP THEN p = "sending"
                             ELSE \/ EndpointAt(c, k) = b /\ p \in InEndpoint
                                  \/ EndpointOf[c] = b /\ k > 0
  BY <1>1, <1>3 DEF InFlight
<1> QED
  BY <1>5, <1>6, <1>7

\* The same when the operation stays in its part.
LEMMA InFlightStay ==
  ASSUME IInv, NEW c \in Callers, NEW p, pc' = [pc EXCEPT ![c] = p], UNCHANGED stage,
         NEW b \in Breakers
  PROVE /\ InFlight(b)' \ {c} = InFlight(b) \ {c}
        /\ c \in InFlight(b)' <=> IF b = HTTP THEN p = "sending"
                                  ELSE \/ Endpoint(c) = b /\ p \in InEndpoint
                                       \/ EndpointOf[c] = b /\ stage[c] > 0
<1>1. stage' = [stage EXCEPT ![c] = stage[c]]
  BY DEF IInv, TypeOK
<1>2. TypeOK
  BY DEF IInv
<1>3. InFlight(b)' \ {c} = InFlight(b) \ {c}
  BY <1>1, <1>2, InFlightMove
<1>4. c \in InFlight(b)' <=> IF b = HTTP THEN p = "sending"
                                  ELSE \/ EndpointAt(c, stage[c]) = b /\ p \in InEndpoint
                                       \/ EndpointOf[c] = b /\ stage[c] > 0
  BY <1>1, <1>2, InFlightMove
<1> QED
  BY <1>3, <1>4, EndpointHere

\* Who leaves its operation is in flight nowhere.
LEMMA LeftInFlight ==
  ASSUME TypeOK, NEW c \in Callers, NEW p \in {"idle", "cancelled"}, Leave(c, p), NEW b \in Breakers
  PROVE c \notin InFlight(b)' /\ InFlight(b)' \ {c} = InFlight(b) \ {c}
<1>1. pc' = [pc EXCEPT ![c] = p] /\ stage' = [stage EXCEPT ![c] = 0]
  BY DEF Leave
<1>2. InFlight(b)' \ {c} = InFlight(b) \ {c}
  BY <1>1, InFlightMove
<1>3. c \in InFlight(b)' <=> IF b = HTTP THEN p = "sending"
                            ELSE \/ EndpointAt(c, 0) = b /\ p \in InEndpoint
                                 \/ EndpointOf[c] = b /\ 0 > 0
  BY <1>1, InFlightMove
<1> QED
  BY <1>2, <1>3 DEF InEndpoint

\* When an operation leaves the endpoint it is in, for good or for the next part, the
\* shared breaker and that of the endpoint keep what was recorded and lose the call.
LEMMA OverInside ==
  ASSUME IInv, NEW c \in Callers, NEW brs, BreakersOK(brs), NEW ok, OperationOver(c, brs, ok),
         NEW b \in {HTTP, Endpoint(c)}
  PROVE breaker'[b] = brs[b] /\ InFlight(b)' = InFlight(b) \ {c}
<1>0. TypeOK /\ b \in Breakers /\ HTTP \in Breakers /\ (b # HTTP => b = Endpoint(c))
  BY EndpointHere DEF IInv, Breakers
<1>1. stage[c] > 0 => b # EndpointOf[c]
  BY EndpointHere, EndpointIsBreaker
<1>2. EndpointOf[c] \in Breakers \ {HTTP}
  BY EndpointIsBreaker
<1>3. breaker'[b] = brs[b]
  <2>1. CASE breaker' = brs
    BY <2>1
  <2>2. CASE /\ stage[c] > 0
             /\ breaker' = IF ok THEN Succeeded(brs, EndpointOf[c]) ELSE Failed(brs, EndpointOf[c])
    <3>1. b \in Breakers /\ b # EndpointOf[c]
      BY <1>0, <1>1, <2>2
    <3>2. /\ Succeeded(brs, EndpointOf[c])[b] = brs[b]
          /\ Failed(brs, EndpointOf[c])[b] = brs[b]
      BY <1>2, <3>1, OthersUntouched
    <3> QED
      BY <2>2, <3>2
  <2> QED
    BY <2>1, <2>2 DEF OperationOver
<1>4. c \notin InFlight(b)' /\ InFlight(b)' \ {c} = InFlight(b) \ {c}
  <2>1. CASE Finish(c)
    BY <1>0, <2>1, LeftInFlight DEF Finish
  <2>2. CASE stage[c] > 0 /\ NextPart(c)
    <3>1. pc' = [pc EXCEPT ![c] = "starting"] /\ stage' = [stage EXCEPT ![c] = stage[c] + 1]
      BY <2>2 DEF NextPart
    <3>2. InFlight(b)' \ {c} = InFlight(b) \ {c}
      BY <1>0, <3>1, InFlightMove
    <3>3. c \in InFlight(b)' <=> IF b = HTTP THEN "starting" = "sending"
                                ELSE \/ EndpointAt(c, stage[c] + 1) = b /\ "starting" \in InEndpoint
                                     \/ EndpointOf[c] = b /\ stage[c] + 1 > 0
      BY <1>0, <3>1, InFlightMove
    <3> QED
      BY <1>1, <2>2, <3>2, <3>3 DEF InEndpoint
  <2> QED
    BY <2>1, <2>2 DEF OperationOver
<1> QED
  BY <1>3, <1>4

\* The other breakers see nothing, except that of the operation around a nested one: it
\* records how its operation ended, if it did.
LEMMA OverOutside ==
  ASSUME IInv, NEW c \in Callers, NEW brs, BreakersOK(brs), NEW ok, OperationOver(c, brs, ok),
         NEW b \in Breakers, b \notin {HTTP, Endpoint(c)}, brs[b] = breaker[b]
  PROVE KeepsContract(b)
<1>0. TypeOK /\ stage[c] \in 0..Len(Parts(c)) /\ Len(Parts(c)) \in Nat
  BY CallersAreOK, EndpointIsBreaker DEF IInv, CallerOK
<1>1. EndpointOf[c] \in Breakers \ {HTTP} /\ (stage[c] = 0 => b # EndpointOf[c])
  BY EndpointHere, EndpointIsBreaker
<1>2. c \in InFlight(b) <=> b = EndpointOf[c]
  <2>1. b = EndpointOf[c] => stage[c] > 0
    BY <1>0, <1>1
  <2> QED
    BY <2>1 DEF InFlight
<1>3. CASE Finish(c)
  <2>1. c \notin InFlight(b)' /\ InFlight(b)' \ {c} = InFlight(b) \ {c}
    BY <1>0, <1>3, LeftInFlight DEF Finish
  <2>2. CASE b # EndpointOf[c]
    <3>0. /\ Succeeded(brs, EndpointOf[c])[b] = brs[b]
          /\ Failed(brs, EndpointOf[c])[b] = brs[b]
      BY <1>1, <2>2, OthersUntouched
    <3>1. breaker'[b] = breaker[b]
      BY <3>0 DEF OperationOver
    <3>2. InFlight(b)' = InFlight(b)
      BY <1>2, <2>1, <2>2
    <3> QED
      BY <3>1, <3>2, ContractStutter
  <2>3. CASE b = EndpointOf[c]
    <3>1. InFlight(b)' = InFlight(b) \ {c} /\ c \in InFlight(b)
      BY <1>2, <2>1, <2>3
    <3>2. \/ breaker' = brs
          \/ breaker' = Succeeded(brs, b)
          \/ breaker' = Failed(brs, b)
      BY <2>3 DEF OperationOver
    <3>3. CASE breaker' = brs
      BY <3>1, <3>3, ContractCancel
    <3>4. CASE breaker' = Succeeded(brs, b)
      <4>1. /\ breaker'[b].state
                 = (IF breaker[b].state = HALF_OPEN THEN CLOSED ELSE breaker[b].state)
            /\ breaker'[b].expired = breaker[b].expired
        BY <3>4, SucceededEffect
      <4> QED
        BY <3>1, <4>1, ContractSuccess
    <3>5. CASE breaker' = Failed(brs, b)
      <4>1. breaker'[b].state \in {breaker[b].state, OPEN} /\ breaker'[b].expired = FALSE
        BY <3>5, FailedEffect
      <4> QED
        BY <3>1, <4>1, ContractFailure
    <3> QED
      BY <3>2, <3>3, <3>4, <3>5
  <2> QED
    BY <2>2, <2>3
<1>4. CASE breaker' = brs /\ NextPart(c) /\ stage[c] > 0
  <2> DEFINE k == stage[c] + 1
  <2>0. TypeOK /\ k > 0
    BY <1>0, <1>4
  <2>1. pc' = [pc EXCEPT ![c] = "starting"] /\ stage' = [stage EXCEPT ![c] = k]
    BY <1>4 DEF NextPart
  <2> HIDE DEF k
  <2>2. InFlight(b)' \ {c} = InFlight(b) \ {c}
    BY <2>0, <2>1, InFlightMove
  <2>3. c \in InFlight(b)' <=> IF b = HTTP THEN "starting" = "sending"
                              ELSE \/ EndpointAt(c, k) = b /\ "starting" \in InEndpoint
                                   \/ EndpointOf[c] = b /\ k > 0
    BY <2>0, <2>1, InFlightMove
  <2>4. c \in InFlight(b)' <=> EndpointOf[c] = b
    BY <1>1, <2>0, <2>3 DEF InEndpoint
  <2>5. InFlight(b)' = InFlight(b)
    BY <1>2, <2>2, <2>4
  <2> QED
    BY <1>4, <2>5, ContractStutter
<1> QED
  BY <1>3, <1>4 DEF OperationOver

\* An operation that fails inside its endpoint: the breaker of the endpoint records it.
LEMMA FailureOutsideHttp ==
  ASSUME IInv, NEW c \in Callers, NEW brs, BreakersOK(brs), FinishFailed(c, brs),
         pc[c] \in InEndpoint,
         \A d \in Breakers \ {HTTP} : brs[d] = breaker[d],
         NEW b \in Breakers \ {HTTP}
  PROVE KeepsContract(b)
<1> DEFINE e == Endpoint(c)
           failed == Failed(brs, e)
<1>0. e \in Breakers \ {HTTP}
  BY EndpointHere
<1>1. /\ BreakersOK(failed)
      /\ failed[e].state \in {brs[e].state, OPEN} /\ failed[e].expired = FALSE
      /\ \A d \in Breakers : d # e => failed[d] = brs[d]
  BY <1>0, FailedEffect, OthersUntouched
<1>2. OperationOver(c, failed, FALSE)
  BY DEF FinishFailed
<1> HIDE DEF failed
<1>3. CASE b = e
  <2>1. breaker'[b] = failed[b] /\ InFlight(b)' = InFlight(b) \ {c}
    BY <1>1, <1>2, <1>3, OverInside
  <2>2. c \in InFlight(b)
    BY <1>0, <1>3 DEF InFlight
  <2> QED
    BY <1>0, <1>1, <1>3, <2>1, <2>2, ContractFailure
<1>4. CASE b # e
  BY <1>1, <1>2, <1>4, OverOutside
<1> QED
  BY <1>3, <1>4

\* The same when the inner loop may go round again: the operation stays in flight
\* inside the breaker of its endpoint.
LEMMA RetryOutsideHttp ==
  ASSUME IInv, NEW c \in Callers, NEW brs, BreakersOK(brs), RetryHttp(c, brs),
         pc[c] \in InEndpoint,
         \A d \in Breakers \ {HTTP} : brs[d] = breaker[d],
         NEW b \in Breakers \ {HTTP}
  PROVE KeepsContract(b)
<1>1. CASE breaker' = brs /\ pc' = [pc EXCEPT ![c] = "httpWait"] /\ UNCHANGED stage
  <2>1. /\ InFlight(b)' \ {c} = InFlight(b) \ {c}
        /\ c \in InFlight(b)' <=> Endpoint(c) = b \/ (EndpointOf[c] = b /\ stage[c] > 0)
    BY <1>1, InFlightStay DEF InEndpoint
  <2>2. c \in InFlight(b) <=> Endpoint(c) = b \/ (EndpointOf[c] = b /\ stage[c] > 0)
    BY DEF InFlight
  <2>3. InFlight(b)' = InFlight(b)
    BY <2>1, <2>2
  <2> QED
    BY <1>1, <2>3, ContractStutter
<1>2. CASE FinishFailed(c, brs)
  BY <1>2, FailureOutsideHttp
<1> QED
  BY <1>1, <1>2 DEF RetryHttp

\* Where a failed attempt leaves the shared breaker: with what the attempt recorded
\* there, and without the operation.
LEMMA HttpAfterFailure ==
  ASSUME IInv, NEW c \in Callers, NEW brs, BreakersOK(brs),
         RetryHttp(c, brs) \/ FinishFailed(c, brs)
  PROVE /\ breaker'[HTTP] = brs[HTTP]
        /\ InFlight(HTTP)' = InFlight(HTTP) \ {c}
<1>0. HTTP \in Breakers /\ Endpoint(c) \in Breakers \ {HTTP}
  BY EndpointHere DEF Breakers
<1>1. CASE breaker' = brs /\ pc' = [pc EXCEPT ![c] = "httpWait"] /\ UNCHANGED stage
  <2>1. InFlight(HTTP)' \ {c} = InFlight(HTTP) \ {c}
    BY <1>0, <1>1, InFlightStay
  <2>2. c \notin InFlight(HTTP)'
    <3>1. pc'[c] = "httpWait"
      BY <1>1 DEF IInv, TypeOK
    <3> QED
      BY <3>1 DEF InFlight
  <2> QED
    BY <1>1, <2>1, <2>2
<1>2. CASE FinishFailed(c, brs)
  <2>1. BreakersOK(Failed(brs, Endpoint(c))) /\ Failed(brs, Endpoint(c))[HTTP] = brs[HTTP]
    BY <1>0, FailedEffect, OthersUntouched
  <2> QED
    BY <1>2, <2>1, OverInside DEF FinishFailed
<1> QED
  BY <1>1, <1>2 DEF RetryHttp

\* The end of an operation that is not inside its endpoint: its breaker sees nothing.
LEMMA OverNotInside ==
  ASSUME IInv, NEW c \in Callers, NEW ok, OperationOver(c, breaker, ok),
         pc[c] \notin InEndpoint, NEW b \in Breakers
  PROVE KeepsContract(b)
<1>0. BreakersOK(breaker) /\ Endpoint(c) \in Breakers \ {HTTP}
  BY CallersAreOK, EndpointHere
<1>1. CASE b \in {HTTP, Endpoint(c)}
  <2>1. breaker'[b] = breaker[b] /\ InFlight(b)' = InFlight(b) \ {c}
    BY <1>0, <1>1, OverInside
  <2>2. c \notin InFlight(b)
    BY <1>0, <1>1, EndpointHere DEF InFlight, InEndpoint
  <2> QED
    BY <2>1, <2>2, ContractStutter
<1>2. CASE b \notin {HTTP, Endpoint(c)}
  BY <1>0, <1>2, OverOutside
<1> QED
  BY <1>1, <1>2

\* A request that is answered, with or without operations that follow it.
LEMMA SuccessKeeps ==
  ASSUME IInv, NEW c \in Callers, Answer(c) \/ ResultLost(c), NEW b \in Breakers
  PROVE KeepsContract(b)
<1> DEFINE e == Endpoint(c)
           mid == Succeeded(breaker, HTTP)
           new == Succeeded(mid, e)
<1>0. /\ TypeOK /\ HTTP \in Breakers /\ e \in Breakers \ {HTTP} /\ BreakersOK(breaker)
      /\ pc[c] = "sending"
  BY CallersAreOK, EndpointHere DEF IInv, Breakers, Answer, ResultLost
<1>1. /\ BreakersOK(mid)
      /\ mid[HTTP].state = (IF breaker[HTTP].state = HALF_OPEN THEN CLOSED
                                                              ELSE breaker[HTTP].state)
      /\ mid[HTTP].expired = breaker[HTTP].expired
      /\ \A d \in Breakers : d # HTTP => mid[d] = breaker[d]
  BY <1>0, SucceededEffect, OthersUntouched
<1> HIDE DEF mid
<1>2. /\ BreakersOK(new)
      /\ new[e].state = (IF mid[e].state = HALF_OPEN THEN CLOSED ELSE mid[e].state)
      /\ new[e].expired = mid[e].expired
      /\ \A d \in Breakers : d # e => new[d] = mid[d]
  BY <1>0, <1>1, SucceededEffect, OthersUntouched
<1> HIDE DEF new
<1>3. CASE stage[c] = 0 /\ breaker' = mid /\ NextPart(c)
  <2>0. e = EndpointOf[c]
    BY <1>3, EndpointHere
  <2>1. pc' = [pc EXCEPT ![c] = "starting"] /\ stage' = [stage EXCEPT ![c] = 1]
    BY <1>3 DEF NextPart
  <2>2. /\ InFlight(b)' \ {c} = InFlight(b) \ {c}
        /\ c \in InFlight(b)' <=> b # HTTP /\ EndpointOf[c] = b
    <3>1. InFlight(b)' \ {c} = InFlight(b) \ {c}
      BY <1>0, <2>1, InFlightMove
    <3>2. c \in InFlight(b)' <=> IF b = HTTP THEN "starting" = "sending"
                                ELSE \/ EndpointAt(c, 1) = b /\ "starting" \in InEndpoint
                                     \/ EndpointOf[c] = b /\ 1 > 0
      BY <1>0, <2>1, InFlightMove
    <3> QED
      BY <3>1, <3>2 DEF InEndpoint
  <2>3. c \in InFlight(b) <=> b = HTTP \/ EndpointOf[c] = b
    BY <1>0, <1>3, <2>0 DEF InFlight, InEndpoint
  <2>4. CASE b = HTTP
    <3>1. InFlight(b)' = InFlight(b) \ {c} /\ c \in InFlight(b)
      BY <2>2, <2>3, <2>4
    <3> QED
      BY <1>1, <1>3, <2>4, <3>1, ContractSuccess
  <2>5. CASE b # HTTP
    <3>1. InFlight(b)' = InFlight(b)
      BY <2>2, <2>3, <2>5
    <3> QED
      BY <1>1, <1>3, <2>5, <3>1, ContractStutter
  <2> QED
    BY <2>4, <2>5
<1>4. ASSUME NEW ok \in BOOLEAN, OperationOver(c, new, ok) PROVE KeepsContract(b)
  <2>1. CASE b \in {HTTP, e}
    <3>1. breaker'[b] = new[b] /\ InFlight(b)' = InFlight(b) \ {c}
      BY <1>2, <1>4, <2>1, OverInside
    <3>2. c \in InFlight(b)
      BY <1>0, <2>1 DEF InFlight, InEndpoint
    <3>3. /\ new[b].state = (IF breaker[b].state = HALF_OPEN THEN CLOSED ELSE breaker[b].state)
          /\ new[b].expired = breaker[b].expired
      BY <1>0, <1>1, <1>2, <2>1
    <3> QED
      BY <3>1, <3>2, <3>3, ContractSuccess
  <2>2. CASE b \notin {HTTP, e}
    BY <1>1, <1>2, <1>4, <2>2, OverOutside
  <2> QED
    BY <2>1, <2>2
<1> QED
  BY <1>3, <1>4 DEF Answer, ResultLost, mid, new

\* Every step of the client keeps the contract of every breaker.
LEMMA ContractStep ==
  ASSUME IInv, [Next]_vars, NEW b \in Breakers
  PROVE KeepsContract(b)
<1>0. TypeOK /\ HTTP \in Breakers /\ BreakersOK(breaker)
  BY CallersAreOK DEF IInv, Breakers
<1>1. ASSUME NEW c \in Callers, EnterEndpoint(c) PROVE KeepsContract(b)
  <2>0. Endpoint(c) \in Breakers \ {HTTP}
    BY EndpointHere
  <2>1. /\ InFlight(b)' \ {c} = InFlight(b) \ {c}
        /\ c \in InFlight(b)'
             <=> b # HTTP /\ (Endpoint(c) = b \/ (EndpointOf[c] = b /\ stage[c] > 0))
    <3>1. pc' = [pc EXCEPT ![c] = "admitted"] /\ UNCHANGED stage
      BY <1>1 DEF EnterEndpoint
    <3>2. InFlight(b)' \ {c} = InFlight(b) \ {c}
      BY <3>1, InFlightStay
    <3>3. c \in InFlight(b)' <=> IF b = HTTP THEN "admitted" = "sending"
                                ELSE \/ Endpoint(c) = b /\ "admitted" \in InEndpoint
                                     \/ EndpointOf[c] = b /\ stage[c] > 0
      BY <3>1, InFlightStay
    <3> QED
      BY <3>2, <3>3 DEF InEndpoint
  <2>2. c \in InFlight(b) <=> b # HTTP /\ EndpointOf[c] = b /\ stage[c] > 0
    BY <1>1 DEF EnterEndpoint, InFlight, InEndpoint
  <2>3. CASE b = Endpoint(c)
    <3>1. InFlight(b)' = InFlight(b) \cup {c} /\ c \notin InFlight(b)
      BY <2>0, <2>1, <2>2, <2>3, EndpointHere
    <3>2. breaker'[b].state = IF breaker[b].state = OPEN THEN HALF_OPEN ELSE breaker[b].state
      BY <1>0, <1>1, <2>3, EnteredEffect, OthersUntouched DEF EnterEndpoint
    <3> QED
      BY <1>1, <2>3, <3>1, <3>2, ContractAdmit DEF EnterEndpoint
  <2>4. CASE b # Endpoint(c)
    <3>1. InFlight(b)' = InFlight(b)
      BY <2>1, <2>2, <2>4
    <3>2. breaker'[b] = breaker[b]
      BY <1>0, <1>1, <2>0, <2>4, EnteredEffect, OthersUntouched DEF EnterEndpoint
    <3> QED
      BY <3>1, <3>2, ContractStutter
  <2> QED
    BY <2>3, <2>4
<1>2. ASSUME NEW c \in Callers, RejectedByEndpoint(c) PROVE KeepsContract(b)
  <2>1. pc[c] \notin InEndpoint
    BY <1>2 DEF RejectedByEndpoint, InEndpoint
  <2>2. CASE OperationOver(c, breaker, FALSE)
    BY <2>1, <2>2, OverNotInside
  <2>3. CASE pc' = [pc EXCEPT ![c] = "endpointWait"] /\ UNCHANGED <<breaker, stage>>
    <3>1. /\ InFlight(b)' \ {c} = InFlight(b) \ {c}
          /\ c \in InFlight(b)' <=> b # HTTP /\ EndpointOf[c] = b /\ stage[c] > 0
      <4>1. InFlight(b)' \ {c} = InFlight(b) \ {c}
        BY <2>3, InFlightStay
      <4>2. c \in InFlight(b)' <=> IF b = HTTP THEN "endpointWait" = "sending"
                                  ELSE \/ Endpoint(c) = b /\ "endpointWait" \in InEndpoint
                                       \/ EndpointOf[c] = b /\ stage[c] > 0
        BY <2>3, InFlightStay
      <4> QED
        BY <4>1, <4>2 DEF InEndpoint
    <3>2. c \in InFlight(b) <=> b # HTTP /\ EndpointOf[c] = b /\ stage[c] > 0
      BY <2>1 DEF InFlight, InEndpoint
    <3>3. InFlight(b)' = InFlight(b)
      BY <3>1, <3>2
    <3> QED
      BY <2>3, <3>3, ContractStutter
  <2> QED
    BY <1>2, <2>2, <2>3 DEF RejectedByEndpoint
<1>3. ASSUME NEW c \in Callers, CachedPart(c) PROVE KeepsContract(b)
  BY <1>3, OverNotInside DEF CachedPart, InEndpoint
<1>4. ASSUME NEW c \in Callers, NoClient(c) PROVE KeepsContract(b)
  <2>1. CASE b # HTTP
    BY <1>0, <1>4, <2>1, FailureOutsideHttp DEF NoClient, InEndpoint
  <2>2. CASE b = HTTP
    <3>1. c \notin InFlight(b)
      BY <1>4, <2>2 DEF NoClient, InFlight
    <3>2. breaker'[b] = breaker[b] /\ InFlight(b)' = InFlight(b)
      BY <1>0, <1>4, <2>2, <3>1, HttpAfterFailure DEF NoClient
    <3> QED
      BY <3>2, ContractStutter
  <2> QED
    BY <2>1, <2>2
<1>5. ASSUME NEW c \in Callers, EnterHttp(c) PROVE KeepsContract(b)
  <2>1. /\ InFlight(b)' \ {c} = InFlight(b) \ {c}
        /\ c \in InFlight(b)' <=> \/ b = HTTP
                                  \/ Endpoint(c) = b
                                  \/ EndpointOf[c] = b /\ stage[c] > 0
    <3>1. pc' = [pc EXCEPT ![c] = "sending"] /\ UNCHANGED stage
      BY <1>5 DEF EnterHttp
    <3>2. InFlight(b)' \ {c} = InFlight(b) \ {c}
      BY <3>1, InFlightStay
    <3>3. c \in InFlight(b)' <=> IF b = HTTP THEN "sending" = "sending"
                                ELSE \/ Endpoint(c) = b /\ "sending" \in InEndpoint
                                     \/ EndpointOf[c] = b /\ stage[c] > 0
      BY <3>1, InFlightStay
    <3>4. Endpoint(c) # HTTP /\ EndpointOf[c] # HTTP
      BY EndpointHere, EndpointIsBreaker
    <3> QED
      BY <3>2, <3>3, <3>4 DEF InEndpoint
  <2>2. CASE b = HTTP
    <3>1. c \notin InFlight(b)
      BY <1>5, <2>2 DEF EnterHttp, InFlight
    <3>2. InFlight(b)' = InFlight(b) \cup {c}
      BY <2>1, <2>2, <3>1
    <3>3. breaker'[b].state = IF breaker[b].state = OPEN THEN HALF_OPEN ELSE breaker[b].state
      BY <1>0, <1>5, <2>2, EnteredEffect DEF EnterHttp
    <3> QED
      BY <1>5, <2>2, <3>1, <3>2, <3>3, ContractAdmit DEF EnterHttp
  <2>3. CASE b # HTTP
    <3>1. c \in InFlight(b) <=> Endpoint(c) = b \/ (EndpointOf[c] = b /\ stage[c] > 0)
      BY <1>5, <2>3 DEF EnterHttp, InFlight, InEndpoint
    <3>2. InFlight(b)' = InFlight(b)
      BY <2>1, <2>3, <3>1
    <3>3. breaker'[b] = breaker[b]
      BY <1>0, <1>5, <2>3, EnteredEffect, OthersUntouched DEF EnterHttp
    <3> QED
      BY <3>2, <3>3, ContractStutter
  <2> QED
    BY <2>2, <2>3
<1>6. ASSUME NEW c \in Callers, RejectedByHttp(c) PROVE KeepsContract(b)
  <2>1. CASE b # HTTP
    BY <1>0, <1>6, <2>1, RetryOutsideHttp DEF RejectedByHttp, InEndpoint
  <2>2. CASE b = HTTP
    <3>1. c \notin InFlight(b)
      BY <1>6, <2>2 DEF RejectedByHttp, InFlight
    <3>2. breaker'[b] = breaker[b] /\ InFlight(b)' = InFlight(b)
      BY <1>0, <1>6, <2>2, <3>1, HttpAfterFailure DEF RejectedByHttp
    <3> QED
      BY <3>2, ContractStutter
  <2> QED
    BY <2>1, <2>2
<1>7. ASSUME NEW c \in Callers, Answer(c) \/ ResultLost(c) PROVE KeepsContract(b)
  BY <1>7, SuccessKeeps
<1>8. ASSUME NEW c \in Callers, TransportError(c) \/ StatusError(c) PROVE KeepsContract(b)
  <2>1. /\ BreakersOK(Failed(breaker, HTTP))
        /\ \A d \in Breakers \ {HTTP} : Failed(breaker, HTTP)[d] = breaker[d]
    BY <1>0, FailedEffect, OthersUntouched
  <2>2. /\ pc[c] = "sending"
        /\ \/ RetryHttp(c, Failed(breaker, HTTP))
           \/ FinishFailed(c, Failed(breaker, HTTP))
    BY <1>8 DEF TransportError, StatusError
  <2>3. CASE b # HTTP
    BY <2>1, <2>2, <2>3, RetryOutsideHttp, FailureOutsideHttp DEF InEndpoint
  <2>4. CASE b = HTTP
    <3>1. c \in InFlight(b)
      BY <2>2, <2>4 DEF InFlight
    <3>2. breaker'[b] = Failed(breaker, HTTP)[HTTP] /\ InFlight(b)' = InFlight(b) \ {c}
      BY <2>1, <2>2, <2>4, HttpAfterFailure
    <3>3. breaker'[b].state \in {breaker[b].state, OPEN} /\ breaker'[b].expired = FALSE
      BY <1>0, <2>4, <3>2, FailedEffect
    <3> QED
      BY <3>1, <3>2, <3>3, ContractFailure
  <2> QED
    BY <2>3, <2>4
<1>9. ASSUME NEW c \in Callers, MalformedAnswer(c) PROVE KeepsContract(b)
  <2>1. /\ BreakersOK(Succeeded(breaker, HTTP))
        /\ \A d \in Breakers \ {HTTP} : Succeeded(breaker, HTTP)[d] = breaker[d]
    BY <1>0, SucceededEffect, OthersUntouched
  <2>2. pc[c] = "sending" /\ FinishFailed(c, Succeeded(breaker, HTTP))
    BY <1>9 DEF MalformedAnswer
  <2>3. CASE b # HTTP
    BY <2>1, <2>2, <2>3, FailureOutsideHttp DEF InEndpoint
  <2>4. CASE b = HTTP
    <3>1. c \in InFlight(b)
      BY <2>2, <2>4 DEF InFlight
    <3>2. breaker'[b] = Succeeded(breaker, HTTP)[HTTP] /\ InFlight(b)' = InFlight(b) \ {c}
      BY <2>1, <2>2, <2>4, HttpAfterFailure
    <3>3. /\ breaker'[b].state
               = IF breaker[b].state = HALF_OPEN THEN CLOSED ELSE breaker[b].state
          /\ breaker'[b].expired = breaker[b].expired
      BY <1>0, <2>4, <3>2, SucceededEffect
    <3> QED
      BY <3>1, <3>2, <3>3, ContractSuccess
  <2> QED
    BY <2>3, <2>4
<1>10. ASSUME NEW c \in Callers, NEW p \in {"idle", "cancelled"}, Leave(c, p), UNCHANGED breaker
       PROVE KeepsContract(b)
  <2>1. c \notin InFlight(b)' /\ InFlight(b)' \ {c} = InFlight(b) \ {c}
    BY <1>0, <1>10, LeftInFlight
  <2>2. CASE c \in InFlight(b)
    <3>1. InFlight(b)' = InFlight(b) \ {c}
      BY <2>1
    <3> QED
      BY <1>10, <2>2, <3>1, ContractCancel
  <2>3. CASE c \notin InFlight(b)
    <3>1. InFlight(b)' = InFlight(b)
      BY <2>1, <2>3
    <3> QED
      BY <1>10, <3>1, ContractStutter
  <2> QED
    BY <2>2, <2>3
<1>11. ASSUME NEW d \in Breakers, Expire(d) PROVE KeepsContract(b)
  <2>1. InFlight(b)' = InFlight(b)
    BY <1>11 DEF Expire, callVars, InFlight, Endpoint, Parts
  <2>2. CASE d = b
    <3>1. /\ breaker[b].state = OPEN /\ ~breaker[b].expired
          /\ breaker'[b].state = OPEN /\ breaker'[b].expired
      BY <1>0, <1>11, <2>2 DEF Expire, BreakersOK, BreakerState
    <3>2. ContractOf(b)!Expire
      BY <2>1, <3>1 DEF ContractOf!Expire, InFlight, OPEN
    <3> QED
      BY <3>2 DEF KeepsContract, ContractOf!Next
  <2>3. CASE d # b
    <3>1. breaker'[b] = breaker[b]
      BY <1>0, <1>11, <2>3 DEF Expire, BreakersOK
    <3> QED
      BY <2>1, <3>1, ContractStutter
  <2> QED
    BY <2>2, <2>3
<1>12. CASE UNCHANGED <<breaker, pc, stage>>
  <2>1. InFlight(b)' = InFlight(b)
    BY <1>12 DEF InFlight, Endpoint, Parts
  <2> QED
    BY <1>12, <2>1, ContractStutter
<1>13. ASSUME NEW c \in Callers, Cancel(c) \/ Cancelled(c) PROVE KeepsContract(b)
  BY <1>10, <1>13 DEF Cancel, Cancelled, Finish
<1>14. ASSUME NEW e \in FlakyEndpoints, Flip(e) PROVE KeepsContract(b)
  BY <1>12, <1>14 DEF Flip, callVars
<1>15. CASE UNCHANGED vars
  BY <1>12, <1>15 DEF vars
<1> QED
  BY <1>1, <1>2, <1>3, <1>4, <1>5, <1>6, <1>7, <1>8, <1>9, <1>11, <1>13, <1>14, <1>15
     DEF Next, Step

\* Every breaker of the client implements BreakerContract, whether it runs inside
\* another breaker (tws_http_client) or around one (the endpoints), and however the
\* operations overlap.
THEOREM ContractsKept == Spec => BreakersKeepContract
<1>1. Init => \A b \in Breakers : ContractOf(b)!Init
  <2> SUFFICES ASSUME Init, NEW b \in Breakers PROVE ContractOf(b)!Init
    OBVIOUS
  <2>1. InFlight(b) = {}
    BY DEF Init, InFlight, InEndpoint
  <2> QED
    BY <2>1 DEF Init, ContractOf!Init, InFlight, OPEN, CLOSED
<1>2. IInv /\ [Next]_vars
        => [\A b \in Breakers : [ContractOf(b)!Next]_(ContractOf(b)!vars)]_vars
  BY ContractStep DEF KeepsContract
<1> QED
  BY <1>1, <1>2, InvHolds, PTL DEF Spec, BreakersKeepContract
==============================================================================
