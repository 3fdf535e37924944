CONSTANTS
    Main = main
    Units = {main, a}
    Modules = {}
    MaxUses = 1
    UseLists <- MixedUseLists
SPECIFICATION GraphSpec
INVARIANT ImportedPerkFound
