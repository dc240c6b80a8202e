CONSTANTS
    v1 = v1
    c1 = c1
    p1 = p1
    Volumes = {v1}
    NoVolume = NoVolume
    Classes = {c1}
    Paths = {p1}
    ClassOf <- OneClass
    PathOf <- OnePath
    ModeOf <- AllBlock
    PolicyOf <- AllDelete
    Configs <- JobConfigs
    Faults = {}
    MaxLag = 2
SPECIFICATION Spec
INVARIANTS NoPVWhileEitherCleans
