SPECIFICATION Spec
CONSTANTS
  s1 = s1
  s2 = s2
  r1 = r1
  r2 = r2
  good = good
  other = other
  bad = bad
  Statements = {s1}
  Requests = {r1, r2}
  Rows = {good}
  Sound = {good}
  NoRows = NoRows
  NoAsk = NoAsk
  ResendAfter = 0
  ExpireAfter = 1
  MaxLosses = 0
  MaxEdits = 1
  Faults = {"outage"}
SYMMETRY Symmetric
INVARIANTS
  PendingIsInFlight
CHECK_DEADLOCK FALSE
