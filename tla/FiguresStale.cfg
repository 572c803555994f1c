SPECIFICATION Spec
CONSTANTS
  r1 = r1
  r2 = r2
  r3 = r3
  p1 = p1
  p2 = p2
  Requests = {r1, r2}
  Readers = {p1}
  Scopes = {"ratios"}
  RatioScopes = {"ratios"}
  NoAsk = NoAsk
  NoFigure = NoFigure
  Idle = Idle
  ResendAfter = 0
  ExpireAfter = 1
  MaxLosses = 0
  MaxVersion = 2
  MaxReleases = 0
  Faults = {}
SYMMETRY Symmetric
INVARIANTS
  CurrentMeansCurrent
