SPECIFICATION FairSpec
CONSTANTS
  j1 = j1
  j2 = j2
  t1 = t1
  t2 = t2
  t3 = t3
  c1 = c1
  c2 = c2
  Jobs = {j1}
  Tickets = {t1}
  Keys = {"k"}
  Contents = {c1}
  Sweeps = {"s"}
  NoJob = "no job"
  NoTicket = "no ticket"
  TicketTTL = 1
  Skew = 0
  ResendAfter = 0
  ReapAfter = 1
  ReaperEvery = 1
  TmpMaxAge = 4
  Faults = {"redelivery", "repost", "outage", "loss", "refusal", "late"}
PROPERTIES
  ProcessingEnds
  AwaitingEnds
  RawFileGoes
