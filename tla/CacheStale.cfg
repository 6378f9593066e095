SPECIFICATION Spec
CONSTANTS
  daily = daily
  weekly = weekly
  Handlers = {h1, h2}
  Sinces = {daily}
  Queries <- OneKey
  NoFilter = NoFilter
  Star = Star
  NoEntry = NoEntry
  NoQuery = NoQuery
  TTL <- DailyTTL
  MaxTTL = 1
  MaxSpan = 1
  MaxVersion = 2
  StoreFaults = FALSE
INVARIANT FreshAfterInvalidate
