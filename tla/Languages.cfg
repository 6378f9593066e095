SPECIFICATION FairSpec
CONSTANTS
  go = go
  rust = rust
  zig = zig
  Syncs = {s1, s2}
  Others = {o1}
  Menus <- SomeMenus
  Nobody = Nobody
  StoreFaults = TRUE
  MaxCrashes = 1
INVARIANTS TypeOK MenuIsWhole
PROPERTY SyncsEnd
