CONSTANTS
  s1 = s1  s2 = s2  m1 = m1  m2 = m2  m3 = m3  w1 = w1  w2 = w2  w3 = w3
  Sources = {s1}
  Mails = {m1, m2, m3}
  Box <- InBox1
  Broken = {m3}
  Looped = {}
  Slots = {w1, w2}
  None = None
  ChanCap = 1
  MaxPerCycle = 3
  SeenByFetch = TRUE
  MaySilence = TRUE
  MaxEdits = 1
  MaxSeconds = 1
  MaxErrors = 1
  MaxCrashes = 1
SPECIFICATION SafeSpec
INVARIANTS TakenOnce OneWorker NeverStuck
SYMMETRY SlotSymmetry
CHECK_DEADLOCK FALSE
