SPECIFICATION RuntimeSpec
CONSTANTS
  Keys = {k1, k2}
  MaxObjects = 7
  Elems = {e1, e2, e3}
  Blocks = {b1, b2}
  NULL = NULL
  Garbage = Garbage
  MaxLen = 3
  Reserves = {0, 1, 2}
  ElemSize = 2
  Word = 64
  Nested = FALSE
  FillOwned = FALSE
  InitialCapacity = 8
  Types <- MCTypes
  Roots <- MCRoots
  Literals = {"literal", "built"}
  Places = {s1, s2}
  MaxDepth = 4
  MaxParts = 2
  MaxBlocks = 20
  MaxSteps = 4
  Alphabet <- MCAlphabet
  MaxChars = 3
  MaxArg = 2
  Low <- MCLow
  High = 11
  Long = 99
  Paths = {p, q}
  Absent = Absent
  Dir = Dir
  NL = NL
  NUL = NUL
  Letters = {x}
  MaxBytes = 3
  LineBuffer = 3
  ReadBuffer = 2
  CopyBuffer = 2
  Junk <- MCJunk
  IntTypes <- ThreeTypes
  Default <- I4
  Wide = 12
  Lits = {0, 1, 3, 6}
  MaxSize = 2
  Tables <- MCTables
INVARIANTS OneOwner NothingDangles BufferExact OwnersExact ValuesExact KeysAgree TextExact LinesComeBack NumbersAgree
PROPERTIES ImplementsSeq CopyExact
SYMMETRY RuntimeSymmetry
CHECK_DEADLOCK FALSE
