SPECIFICATION FairSpec
CONSTANTS
  daily = daily
  languages = languages
  cleanup = cleanup
  Workers = {w1}
  Closers = {c1}
  ColdJobs <- SomeColdJobs
  CronJobs <- SomeCronJobs
  SpecFields <- FiveFields
  ParserFields = 6
CHECK_DEADLOCK FALSE
PROPERTY JobsRunWhenDue
