CONSTANTS
    Kinds = {"map"}
    ContinueIn = {"map"}
    MaxSize = 4
    Half = 8
    MaxLog = 20
    Ends <- AllEnds
    Blanks = FALSE
    GrowIn = {}
    MaxGrowths = 0
    Stale = Stale
SPECIFICATION LoopSpec
PROPERTIES LoopEnds
