SPECIFICATION Spec
CONSTANTS
  Repos = {r1, r2}
  Sinces = {daily}
  Langs = {go}
  NoLang = NoLang
  NoRow = NoRow
  Uncategorized = Uncategorized
  Empty = Empty
  OldTables <- NewDatabase
  Workers = {w1}
  Tasks = {t1}
  Sweep = Sweep
  Plans <- SyncsOnly
  Pages <- FullPage
  Answers <- KnownAnswer
  NotFound = NotFound
  Failure = Failure
  NoRepo = NoRepo
  BatchSize = 30
  TopLimit = 30
  NextLimit = 70
  AllowForce = TRUE
  StoreFaults = FALSE
  MaxCrashes = 0
PROPERTY RowsStayVisible
