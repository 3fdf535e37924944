CONSTANTS
    Enums <- MCEnums
    Base <- MCBase
    Leaf = "leaf"
    Scrutinee = "Root"
    Strange <- MCStrange
    IntTypes <- MCInts
    MaxNested = 2
    MaxArms = 3
    MaxCases = 3
    Elements <- TwoElements
    Kinds <- MCKinds
    Methods <- MCMethods
    UnitSizes <- TwoUnits
    FromLibrary = 1
    s1 = s1
    s2 = s2
    s3 = s3
    Symbols <- ThreeSymbols
    MaxRefs = 2
    MaxLocals = 1
SPECIFICATION FrontSpec
INVARIANTS NamesExact LayersAgree ExportComplete ImageClosed HelpersKept UnrollsToTheLoop ShallowMatchExact CasesDistinct
CHECK_DEADLOCK FALSE
