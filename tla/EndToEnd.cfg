SPECIFICATION ServiceFairSpec
CONSTANTS
  Repos = {r1}
  Sinces = {daily}
  Langs = {go}
  NoLang = NoLang
  NoRow = NoRow
  OldTables <- NewDatabase
  Workers = {w1}
  Tasks = {t1, t2}
  Sweep = Sweep
  Plans <- SyncsOnly
  Pages <- PageOrNone
  Answers <- LostOrKnown
  NotFound = NotFound
  Failure = Failure
  NoRepo = NoRepo
  BatchSize = 1
  TopLimit = 1
  NextLimit = 1
  AllowForce = FALSE
  StoreFaults = FALSE
  MaxCrashes = 1
  Uncategorized = Uncategorized
  Empty = Empty
  Handlers = {h1}
  Queries <- NoneSomeOrStar
  ListLimit = 100
  Star = Star
  NoView = NoView
  NoQuery = NoQuery
INVARIANTS ServiceTypeOK OneSyncPerPeriod SettledWhenInvalidated OnlyStarIsMistaken SyncedRowsAreShown
PROPERTY RowsReachClients
