\* Four requests change an inbox and its watcher; three slices arrive beside two models;
\* installs and updates of a slicer cross uses, an uninstall and a kill; three requests on
\* the catalogue or the Grimoire, with a listing that is read, or slices with profiles; a
\* printer is registered, reached, unbound and deleted while agents come and go.
\* It may stop: all that happens is bounded.
CONSTANTS
  bracket = bracket  vase = vase  plateOne = plateOne  plateTwo = plateTwo
  Paths = {here, away}
  Requests = {q1, q2}
  MaxStarts = 4
  MaxRequests = 4
  Sources = {bracket, vase}
  Files = {plateOne, plateTwo}
  Likeness <- PlatesAlike
  Hint <- SecondHints
  NoLoot = noLoot
  MaxArrivals = 3
  Pipelines = {p1, p2}
  Releases = {1, 2, 3}
  Tarballs = {2}
  Summed = {1}
  MaxInstalls = 3
  MaxKills = 1
  Users = {u1, u2}
  RowIds = {1, 2, 3}
  PageLimit = 1
  MaxWalks = 1
  ProfileIds = {1, 2, 3}
  SettingIds = {1}
  PinIds = {pin}
  Payloads = {b1, b2}
  BodyKeys = {k1}
  NoKey = noKey
  Things = {x1}
  MaxEdits = 3
  MaxSlices = 2
  MaxUpsets = 1
  Admins = {u2}
  System = system
  ProductIds = {1, 2, 3}
  PostKeys = {k1}
  Colorings <- OneOrTwo
  Fashions = {"solid", "multi-section"}
  Entries <- SomeEntries
  MaxCalls = 3
  AgentIds = {1, 2}
  PrinterIds = {m1}
  SlicerIds = {s1}
  CourierKeys = {c1}
  NoCourierKey = noCourierKey
  Setups = {b1, b2}
  RegKeys = {k1}
  NoRegKey = noRegKey
  MaxErrands = 4
SPECIFICATION WorkshopSpec
INVARIANTS
  
  QueueAgrees
  NoCircle
  OnlyWholeBinaries
  RecordMatchesFile
  WalkSeesEach
  PrintersStayReached
CHECK_DEADLOCK FALSE
