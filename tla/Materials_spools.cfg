\* One print over two slots, claimed by either side, while spools are swapped.
\* It may stop: once users have acted as often as they may, nothing is left to do.
CONSTANTS
  s1 = s1  s2 = s2  j1 = j1
  NoMat = noMat
  NoJob = noJob
  Mats = {m1, m2, m3}
  Slots = {s1, s2}
  Jobs = {j1}
  Estimate <- TwoSlots
  Measures <- TwoReports
  Keys = {k1}
  Full = 3
  Draw = 1
  MaxActs = 6
  MaxReads = 2
  MaxCrashes = 1
SPECIFICATION MatSpec
SYMMETRY MatSymmetry
INVARIANTS
  ConsumedOnce
  LeftIsBooked
  PaidByItsSpool
CHECK_DEADLOCK FALSE
