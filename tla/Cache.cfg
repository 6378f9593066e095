SPECIFICATION FairSpec
CONSTANTS
  daily = daily
  weekly = weekly
  Handlers = {h1, h2}
  Sinces = {daily, weekly}
  Queries <- TwoPeriods
  NoFilter = NoFilter
  Star = Star
  NoEntry = NoEntry
  NoQuery = NoQuery
  TTL <- ShortTTL
  MaxTTL = 1
  MaxSpan = 1
  MaxVersion = 1
  StoreFaults = TRUE
INVARIANTS TypeOK LagIsBounded FreshAfterQuietInvalidate
PROPERTY StaleEntriesExpire
