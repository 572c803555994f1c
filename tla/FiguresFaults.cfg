SPECIFICATION Spec
CONSTANTS
  r1 = r1
  r2 = r2
  r3 = r3
  p1 = p1
  p2 = p2
  Requests = {r1}
  Readers = {p1}
  Scopes = {"ratios", "tax_estimate"}
  RatioScopes = {"ratios"}
  NoAsk = NoAsk
  NoFigure = NoFigure
  Idle = Idle
  ResendAfter = 0
  ExpireAfter = 1
  MaxLosses = 1
  MaxVersion = 1
  MaxReleases = 1
  Faults = {"redelivery", "failure", "outage", "loss", "release"}
SYMMETRY Symmetric
INVARIANTS
  TypeOK
  ResultCountsOnce
