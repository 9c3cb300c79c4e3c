SPECIFICATION FairSpec
CONSTANTS
  plan = plan
  jobs = jobs
  details = details
  history = history
  dependencies = dependencies
  c1 = c1
  c2 = c2
  Endpoints = {plan, jobs}
  Callers = {c1, c2}
  EndpointOf <- MCEndpointOfPlain
  Nested <- MCNestedPlain
  FlakyEndpoints = {plan}
  http_fail_max = 2
  endpoint_fail_max = 2
  http_retries = 1
  endpoint_retries = 1
INVARIANT
  NoCascade
