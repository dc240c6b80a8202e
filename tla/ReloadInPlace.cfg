CONSTANTS
    c1 = c1
    c2 = c2
    Classes = {c1, c2}
    Files <- AllFiles
    Removals = FALSE
    RemoveTaint = FALSE
    MaxEdits = 1
SPECIFICATION Spec
PROPERTIES ReloadsInPlace
