CONSTANTS
  s1 = s1  s2 = s2  m1 = m1  m2 = m2  m3 = m3  w1 = w1  w2 = w2  w3 = w3
  Sources = {s1}
  Mails = {m1}
  Box <- InBox1
  Broken = {}
  Looped = {}
  Slots = {w1, w2}
  None = None
  ChanCap = 1
  MaxPerCycle = 3
  SeenByFetch = FALSE
  MaySilence = FALSE
  MaxEdits = 1
  MaxSeconds = 1
  MaxErrors = 1
  MaxCrashes = 0
SPECIFICATION Spec
INVARIANTS ReloadKept
PROPERTIES Converges StopReturns FailedRetried
CHECK_DEADLOCK FALSE
