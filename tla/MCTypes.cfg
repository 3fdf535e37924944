SPECIFICATION TypesSpec
CONSTANTS
  A = A
  B = B
  C = C
  NameList <- MCNames
  NameWraps = {"plain", "fixed", "own"}
  LeafWraps = {"plain"}
  Leaves = {"i8"}
  MaxParts = 3
  FixedLength = 2
  Spelling <- PlainSpelling
  Showable = {"i32"}
  Packs <- TwoPacks
  MaxRounds = 2
  MaxNames = 3
INVARIANTS CyclesReported HashesEmit LayoutExact InstancesExact
CHECK_DEADLOCK FALSE
