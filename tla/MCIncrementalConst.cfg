CONSTANTS
    m = m
    a = a
    b = b
    Order <- MainFirst
    Imports <- MainImports
    Refers <- MainImports
    Builders = {p}
    Settings = {mem2reg, O2}
    Editable = {"const"}
    EditsRace = FALSE
    MaxEdits = 1
    MaxBuilds = 2
SPECIFICATION Spec
INVARIANT LinksFresh
CHECK_DEADLOCK FALSE
