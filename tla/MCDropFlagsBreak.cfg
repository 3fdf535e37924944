CONSTANTS
    Names = {"x"}
    Styles <- BreakStyles
    MaxLaps = 2
    Shadows = FALSE
    DeepRebinds = TRUE
SPECIFICATION Spec
INVARIANTS NoUseAfterFree
