SPECIFICATION FairSpec
CONSTANTS
  o = o
  a = a
  b = b
  c = c
  Blank = Blank
  Segments = {o, a, b, c}
  Repos <- ThreeRepos
  Sinces = {daily}
  since = daily
  Langs = {}
  Empty = Empty
  NoLang = NoLang
  NoRow = NoRow
  Pages <- SomePages
  Notices = {n1}
  BatchSize = 2
  TopLimit = 1
  NextLimit = 1
  MayFail = {"upsert", "top", "next", "rest"}
  MaxAge = 1
INVARIANTS TypeOK PageFirst ToldOnce
PROPERTY NoticesEnd
