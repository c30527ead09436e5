\* Two loot, two roots on two devices, a file in the inbox; a restructure and the
\* inbox work at once, with one thing that goes wrong at any moment.
CONSTANTS
  r1 = r1  r2 = r2  inbox = inbox  c1 = c1  c2 = c2
  l1 = l1  l2 = l2  l3 = l3  f1 = f1  f2 = f2  f3 = f3
  x1 = x1  x2 = x2  x3 = x3  t1 = t1  t2 = t2
  Root = {r1, r2}
  Inbox = inbox
  Device <- Devices
  Collection = {c1, c2}
  RootOf <- Roots
  Loot = {l1, l2, l3}
  Row = {f1, f2, f3}
  LootOf <- Owners
  Template = {t1, t2}
  Stem <- Stems
  Path <- Paths
  NoStem = noStem
  Bytes = {x1, x3}
  Nothing = nothing  Half = half  Other = other
  NoRow = noRow  NoColl = noColl
  FirstDisk <- Disk
  FirstRow <- InRows
  FirstColl <- InColl
  FirstTpl <- InTpl
  Clerk = {clerk}
  Sorter = {sorter}
  MaxTasks = 2
  MaxTrouble = 1
SPECIFICATION StashSpec
INVARIANTS
  BytesKept
  
PROPERTIES
  RowsSettle
