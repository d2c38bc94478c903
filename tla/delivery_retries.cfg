CONSTANTS
  d1 = d1  d2 = d2  d3 = d3  s1 = s1  r1 = r1  r2 = r2
  Deliveries = {d1}
  Sources = {s1}
  Lax = {}
  NoSource = NoSource
  NoDelivery = NoDelivery
  Requests = {r1, r2}
  Fanouts <- OneTarget
  BatchSize = 1
  MaxRounds = 2
  Lease = 4
  SendTimeout = 2
  MaxBackoff = 3
  DefaultBase = 1
  BackoffBase = 2
  RetryCap = 2
  RetryLimits <- OneOrTwo
  MaxCrashes = 1
  MaxStops = 0
  MaxFaults = 1
SPECIFICATION SafeSpec
SYMMETRY AllSymmetry
INVARIANTS TypeOK Accounted AttemptBound LeaseHolds
PROPERTIES Spacing
