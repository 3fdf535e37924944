SPECIFICATION EndingsSpec
CONSTANTS
  Keys <- SmallKeys
  Vals = {v1, v2}
  Absent = Absent
  NoKey = NoKey
  Hash <- SmallHash
  InitCap = 8
  MaxCap = 16
  Units = {main, a, b}
  Main = main
  Modules = {iter, fmt}
  MaxUses = 2
  UseLists <- MixedUseLists
  Kinds = {"array", "map", "range", "lines"}
  ContinueIn = {"array", "range", "lines"}
  MaxSize = 5
  Half = 8
  Ends <- AllEnds
  MaxLog = 20
  Blanks = TRUE
  GrowIn = {"array", "map"}
  MaxGrowths = 2
  Stale = Stale
INVARIANTS LookupExact IndInv VisitsExactly GraphExact
PROPERTIES ImplementsMap ResizeEnds LoopsAndLoadingEnd
