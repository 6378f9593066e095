SPECIFICATION FairSpec
CONSTANTS
  daily = daily
  languages = languages
  cleanup = cleanup
  Workers = {w1, w2}
  Closers = {c1, c2}
  ColdJobs <- SomeColdJobs
  CronJobs <- SomeCronJobs
  SpecFields <- FiveFields
  ParserFields = 6
CHECK_DEADLOCK FALSE
INVARIANTS TypeOK StoreOutlivesWorkers FailedNewLeavesNothing CloseMeansClosed
PROPERTY CloseReturns
