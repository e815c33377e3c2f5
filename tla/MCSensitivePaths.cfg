SPECIFICATION Spec
CONSTANTS
  PatternLists <- Lists
  Paths <- PlainPaths
  MaxPrefixes = 2
  PrefixLen = 2
  PathLen = 5
INVARIANTS
  WatchedExactly
