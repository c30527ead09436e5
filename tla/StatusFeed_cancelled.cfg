\* schema.forge.ts: a dispatched job becomes completed or failed, "status subscriber".
\* A print that is cancelled at the machine, seen and repeated, leaves it dispatched.
CONSTANTS
  j1 = j1  j2 = j2  c1 = c1  c2 = c2  s1 = s1
  NoAgent = noAgent
  NoJob = noJob
  Jobs = {j1, j2}
  Agents = {central}
  Kind <- KlipperAndOrca
  Cargo = {"gcode"}
  Inside = {"stl", "gcode"}
  CreatedAt <- InOrder
  Converters = {c1, c2}
  Slicers = {s1}
  MaxCrashes = 0
  MayDelete = TRUE
  Sizes = {0}
  MaxResend = 1
  NoPrint = noPrint
  PrintJobs = {p1}
  Feeds = {"sdcp"}
  Attempts <- OneToSeven
  MaxDrops = 1
  MaxRestarts = 0
SPECIFICATION PrintersSpec
PROPERTY
  CancelledIsLearnt
CHECK_DEADLOCK FALSE
