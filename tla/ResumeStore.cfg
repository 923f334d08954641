SPECIFICATION ResumeSpec
CONSTANTS
    s1 = s1
    s2 = s2
    whole = whole
    part = part
    nothing = nothing
    f1 = f1
    f2 = f2
    f3 = f3
    f4 = f4
    None = None
    Whole = whole
    Nothing = nothing
    Savers <- TwoSavers
    Selections <- TwoSelections
    Files <- FourFiles
    MaxStamp = 2
    MaxCrash = 1
    IOFails = TRUE
SYMMETRY StoreSymmetry
INVARIANTS
    RestoresAreSound
    SelectionSavedInTurn
