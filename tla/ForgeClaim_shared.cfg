\* Two jobs race for one printer, two central loops and a Courier.
CONSTANTS
  j1 = j1  j2 = j2  j3 = j3  p1 = p1  p2 = p2  s1 = s1  c1 = c1  l1 = l1  l2 = l2
  Central = central
  NoAgent = noAgent
  NoJob = noJob
  Jobs = {j1, j2}
  Couriers = {c1}
  Agents = {central, c1}
  Printers = {p1, p2}
  TargetOf <- OnePrinter
  Via <- ReachBoth
  CreatedAt <- InOrder
  Loops = {l1, l2}
  ClaimTimeout = 1
  MaxTime = 2
  MaxCrashes = 1
SPECIFICATION ClaimSpec
SYMMETRY LoopSymmetry
INVARIANTS
  NoDoublePrint
PROPERTIES
  KeepsPromise
