SPECIFICATION FairSpec
CONSTANTS
  plan = plan
  jobs = jobs
  details = details
  history = history
  dependencies = dependencies
  c1 = c1
  c2 = c2
  Endpoints = {details, history, dependencies}
  Callers = {c1, c2}
  EndpointOf <- MCEndpointOf
  Nested <- MCNested
  FlakyEndpoints = {history}
  http_fail_max = 2
  endpoint_fail_max = 1
  http_retries = 1
  endpoint_retries = 1
INVARIANTS
  TypeOK
  SendsAreBounded
PROPERTIES
  BreakersKeepContract
  OperationsEnd
  BreakersRecover
