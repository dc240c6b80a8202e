CONSTANTS
    c1 = c1
    c2 = c2
    Classes = {c1, c2}
    Files <- AllFiles
    Removals = FALSE
    RemoveTaint = TRUE
    MaxEdits = 2
SPECIFICATION FairSpec
INVARIANTS LastAppliedIsApplied
PROPERTIES PassesComplete ConfigTakesEffect
