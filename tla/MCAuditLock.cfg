SPECIFICATION Spec
CONSTANTS
  m1 = m1
  m2 = m2
  a1 = a1
  a2 = a2
  c1 = c1
  None = None
  Memories = {m1, m2}
  Analyses = {a1, a2}
  Cleanups = {c1}
  Forced = {}
  lock_timeout = 1
  max_age = 2
INVARIANT
  OneAnalysisWhileLocked
