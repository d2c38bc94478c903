CONSTANTS
  d1 = d1  d2 = d2  d3 = d3  s1 = s1  r1 = r1  r2 = r2
  Deliveries = {d1}
  Sources = {s1}
  Lax = {}
  NoSource = NoSource
  NoDelivery = NoDelivery
  Requests = {r1, r2}
  Fanouts <- OneTarget
  BatchSize = 2
  MaxRounds = 2
  Lease = 2
  SendTimeout = 1
  MaxBackoff = 2
  DefaultBase = 1
  BackoffBase = 1
  RetryCap = 2
  RetryLimits <- JustTwo
  MaxCrashes = 0
  MaxStops = 0
  MaxFaults = 0
SPECIFICATION SafeSpec
SYMMETRY AllSymmetry
INVARIANTS ReplayHonoured
