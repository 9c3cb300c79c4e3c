---------------------------- MODULE MCTwsClient ----------------------------
(* Instances of TwsClient for TLC: get_job_details with the operations nested  *)
(* in it beside a caller of one of those, and two unrelated operations.        *)
EXTENDS TwsClient, TLC

CONSTANTS c1, c2, details, history, dependencies, plan, jobs

MCEndpointOf == (c1 :> details) @@ (c2 :> dependencies)
MCNested ==
  (details :> <<history, dependencies>>) @@ (history :> << >>) @@ (dependencies :> << >>)

MCEndpointOfPlain == (c1 :> plan) @@ (c2 :> jobs)
MCNestedPlain == (plan :> << >>) @@ (jobs :> << >>)
============================================================================
