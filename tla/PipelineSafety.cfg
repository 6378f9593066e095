SPECIFICATION Spec
CONSTANTS
  Repos = {r1, r2}
  Sinces = {daily}
  Langs = {go}
  NoLang = NoLang
  NoRow = NoRow
  Uncategorized = Uncategorized
  Empty = Empty
  OldTables <- OldDatabase
  Workers = {w1}
  Tasks = {t1}
  Sweep = Sweep
  Plans <- SingleJobs
  Pages <- AnyPage
  Answers <- AnyAnswer
  NotFound = NotFound
  Failure = Failure
  NoRepo = NoRepo
  BatchSize = 2
  TopLimit = 1
  NextLimit = 1
  AllowForce = TRUE
  StoreFaults = TRUE
  MaxCrashes = 0
SYMMETRY Symmetry
INVARIANTS TypeOK OneHolderPerKey QueriesAgree
PROPERTIES LanguageNeverErased ImplementsLifecycle
