CONSTANTS
  d1 = d1  d2 = d2  d3 = d3  s1 = s1  r1 = r1  r2 = r2
  Deliveries = {d1}
  Sources = {s1}
  Lax = {s1}
  NoSource = NoSource
  NoDelivery = NoDelivery
  Requests = {r1}
  Fanouts <- OneTarget
  BatchSize = 2
  MaxRounds = 2
  Lease = 2
  SendTimeout = 1
  MaxBackoff = 2
  DefaultBase = 1
  BackoffBase = 1
  RetryCap = 2
  RetryLimits <- JustTwo
  MaxCrashes = 1
  MaxStops = 1
  MaxFaults = 1
SPECIFICATION Spec
PROPERTIES LifecycleLiveness StopReturns
