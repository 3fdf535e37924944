CONSTANTS
    m = m
    a = a
    b = b
    Order <- MainFirst
    Imports <- MainImports
    Refers <- MainImports
    Builders = {p, q}
    Settings = {mem2reg, O2}
    Editable = {"body", "sig", "ext"}
    EditsRace = FALSE
    MaxEdits = 1
    MaxBuilds = 3
SPECIFICATION ArtifactsSpec
CONSTANTS
    Sources <- FewSources
    Glob <- NameGlob
    NoDir = NoDir
    None = None
    Manifest = "toml"
    MaxCrashes = 1
INVARIANTS LinksCurrent InstalledWhole RestoreAgrees
PROPERTIES SameNameSameObject OthersUntouched
CHECK_DEADLOCK FALSE
SYMMETRY Symmetry
