CONSTANTS
    Names = {"x"}
    Styles <- AllStyles
    MaxLaps = 2
    Shadows = FALSE
    DeepRebinds = FALSE
SPECIFICATION Spec
INVARIANTS MemorySafe NoLeak GatesExact
