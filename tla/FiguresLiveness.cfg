SPECIFICATION FairSpec
CONSTANTS
  r1 = r1
  r2 = r2
  r3 = r3
  p1 = p1
  p2 = p2
  Requests = {r1, r2}
  Readers = {p1}
  Scopes = {"tax_estimate"}
  RatioScopes = {}
  NoAsk = NoAsk
  NoFigure = NoFigure
  Idle = Idle
  ResendAfter = 0
  ExpireAfter = 1
  MaxLosses = 1
  MaxVersion = 1
  MaxReleases = 0
  Faults = {"loss"}
PROPERTIES
  
  PendingEnds
  FiguresCatchUp
CHECK_DEADLOCK FALSE
