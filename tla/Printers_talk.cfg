\* Two converters and a slicer prepare a printer job and a slicer job, with a crash; a
\* file is sent by either sender to any of the five protocols, with every answer, refusal,
\* loss and late arrival; a printer is watched through two jobs, lost connections and a
\* restart.
\* It may stop: when every job is closed the loops only poll, a dispatch that is over is
\* over, and with the subscription gone nothing is left to watch.
CONSTANTS
  j1 = j1  j2 = j2  c1 = c1  c2 = c2  s1 = s1
  NoAgent = noAgent
  NoJob = noJob
  Jobs = {j1, j2}
  Agents = {central}
  Kind <- KlipperAndOrca
  Cargo = {"stl", "glb", "zip", "gcode"}
  Inside = {"stl", "gcode"}
  CreatedAt <- InOrder
  Converters = {c1, c2}
  Slicers = {s1}
  MaxCrashes = 1
  MayDelete = TRUE
  Sizes = {0, 1, 2}
  MaxResend = 3
  NoPrint = noPrint
  PrintJobs = {p1, p2}
  Feeds = {"moonraker", "octoprint", "bambu", "sdcp", "chitu"}
  Attempts <- OneToSeven
  MaxDrops = 3
  MaxRestarts = 1
SPECIFICATION PrintersSpec
INVARIANTS
  ConvertedOnce
  WholeFile
  RefusalMeansNoPrint
  NeverStranded
  
PROPERTIES
  PreparationEnds
  SendEnds
  DoneIsLearnt
CHECK_DEADLOCK FALSE
