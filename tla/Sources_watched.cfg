\* One subscription fired by all three: scheduler, user and push; or one source, any
\* of the five: refreshes of its credential, walks of its listing, fetches of its items.
\* It may stop: with no subscription left there is nothing to fire, and a source whose
\* credential is gone for good, and whose users are done, stands still.
CONSTANTS
  a = a
  NoSub = noSub
  NoJob = noJob
  Subs = {a}
  Adapter <- OneAdapter
  Watched = {a}
  Jobs = {j1, j2}
  Workers = {w1, w2}
  Threshold = 2
  MaxPublished = 2
  MaxTouches = 3
  MaxCrashes = 1
  Firing = firing
  Fetching = fetching
  Runs <- TwoRuns
  Requests = {q1}
  MaxTrouble = 1
  MaxActs = 3
  MaxItems = 4
  MaxVersion = 2
  PerPage = 2
  Backfill = 3
  MaxFiles = 2
  Listings <- UpToThree
  FileCap = 3
SPECIFICATION SourcesSpec
INVARIANTS
  EnqueuedOnce
  RowKeepsWorking
  ChoiceStands
  TellsEachOnce
  StagedApart
PROPERTIES
  PublishedIsEnqueued
CHECK_DEADLOCK FALSE
