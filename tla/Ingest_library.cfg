CONSTANTS
  j1 = j1  j2 = j2  j3 = j3  x = x  y = y
  NoJob = noJob
  Jobs = {j1, j2, j3}
  Items = {x, y}
  ItemOf <- TwoForOne
  Folder <- OneFolder
  Content <- Different
  LastFile = 2
  Workers = {w1, w2}
  MayMishash = TRUE
  MaxCrashes = 1
  Owners = {"user"}
  Admins = {}
  RootIds = {r1}
  ProposalIds = {p1, p2}
  ApplyIds = {a1, a2}
  Folders = {"dragon", "ann/mk1", "ann/mech"}
  Top = "."
  Names = {"dragon.3mf", "part.stl"}
  StemOf <- Stems
  KindOf <- Kinds
  Contents = {"b1", "b2"}
  NoFile = "none"
  Unread = "zeros"
  FirstTree <- FirstFiles
  Words = {"Mech", "Dragon", "Ann"}
  NoWord = "noWord"
  Tells <- InMetadata
  NameTells <- InNames
  FolderTells <- InFolders
  Templates = {"by creator"}
  Lands <- ByCreator
  Nowhere = "nowhere"
  Nobody = "nobody"
  NoProposal = noProposal
  MaxPerUser = 1
  MaxChosen = 2
  MaxCalls = 3
  MaxMishaps = 1
SPECIFICATION LibrarySpec
SYMMETRY WorkerSymmetry
INVARIANTS
  TrackedOnDisk
  
  
\* Every job may have settled: the loops sleep, nothing is left to post.
CHECK_DEADLOCK FALSE
