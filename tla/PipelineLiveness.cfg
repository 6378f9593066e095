SPECIFICATION FairSpec
CONSTANTS
  Repos = {r1, r2}
  Sinces = {daily}
  Langs = {go}
  NoLang = NoLang
  NoRow = NoRow
  Uncategorized = Uncategorized
  Empty = Empty
  OldTables <- NewDatabase
  Workers = {w1}
  Tasks = {t1, t2}
  Sweep = Sweep
  Plans <- SyncsOnly
  Pages <- FullPage
  Answers <- SettlingAnswer
  NotFound = NotFound
  Failure = Failure
  NoRepo = NoRepo
  BatchSize = 2
  TopLimit = 1
  NextLimit = 1
  AllowForce = FALSE
  StoreFaults = FALSE
  MaxCrashes = 1
PROPERTIES PendingIsServed SyncEnds
