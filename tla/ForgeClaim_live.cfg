\* Two printers and a slicer: jobs do not starve, and end as their print ends.
CONSTANTS
  j1 = j1  j2 = j2  j3 = j3  p1 = p1  p2 = p2  s1 = s1  c1 = c1  l1 = l1  l2 = l2
  Central = central
  NoAgent = noAgent
  NoJob = noJob
  Jobs = {j1, j2, j3}
  Couriers = {c1}
  Agents = {central, c1}
  Printers = {p1, p2}
  TargetOf <- AllTargets
  Via <- ReachBoth
  CreatedAt <- WithTie
  Loops = {l1}
  ClaimTimeout = 0
  MaxTime = 1
  MaxCrashes = 1
SPECIFICATION LiveClaimSpec
INVARIANTS
  CompletedWasPrinted
PROPERTIES
  ClaimableIsTaken
