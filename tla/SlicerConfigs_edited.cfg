\* schema.forge.ts: "on subsequent slices the worker compares the current Grimoire
\* profile hash against `source_profile_hash` and re-materializes if they drift".  A
\* profile is sliced with, edited, and sliced with again.
\* It may stop: all that happens is bounded.
CONSTANTS
  Pipelines = {p1}
  Releases = {1}
  Tarballs = {}
  Summed = {1}
  MaxInstalls = 0
  MaxKills = 0
  Users = {u1}
  RowIds = {1, 2}
  PageLimit = 1
  MaxWalks = 0
  ProfileIds = {1, 2}
  SettingIds = {1}
  PinIds = {pin}
  Payloads = {b1, b2}
  BodyKeys = {k1}
  NoKey = noKey
  Things = {x1}
  MaxEdits = 2
  MaxSlices = 2
  MaxUpsets = 0
  Admins = {u1}
  System = system
  ProductIds = {1, 2}
  PostKeys = {k1}
  Colorings <- OneOrTwo
  Fashions = {"solid", "multi-section"}
  Entries <- SomeEntries
  MaxCalls = 1
  AgentIds = {1, 2}
  PrinterIds = {m1}
  SlicerIds = {s1}
  CourierKeys = {c1}
  NoCourierKey = noCourierKey
  Setups = {b1, b2}
  RegKeys = {k1}
  NoRegKey = noRegKey
  MaxErrands = 4
SPECIFICATION ShelvesSpec
INVARIANT
  SlicedAsEdited
CHECK_DEADLOCK FALSE
