SPECIFICATION FairSpec
CONSTANTS
  Repos = {r1}
  Sinces = {daily}
  Langs = {go}
  NoLang = NoLang
  NoRow = NoRow
  Uncategorized = Uncategorized
  Empty = Empty
  OldTables <- NewDatabase
  Workers = {w1}
  Tasks = {t1}
  Sweep = Sweep
  Plans <- SyncsOnly
  Pages <- FullPage
  Answers <- PoisonedAnswer
  NotFound = NotFound
  Failure = Failure
  NoRepo = NoRepo
  BatchSize = 30
  TopLimit = 30
  NextLimit = 70
  AllowForce = FALSE
  StoreFaults = FALSE
  MaxCrashes = 0
PROPERTY SyncEnds
