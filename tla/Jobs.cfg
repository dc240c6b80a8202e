CONSTANTS
    v1 = v1
    v2 = v2
    c1 = c1
    c2 = c2
    p1 = p1
    p2 = p2
    Volumes = {v1, v2}
    NoVolume = NoVolume
    Classes = {c1}
    Paths = {p1, p2}
    ClassOf <- OneClass
    PathOf <- OwnPaths
    ModeOf <- FilesystemAndBlock
    PolicyOf <- AllDelete
    Configs <- JobConfigs
    Faults = {"crash", "apiErrors", "ioErrors", "jobFails"}
    MaxLag = 3
SPECIFICATION Spec
INVARIANTS NoPVWhileCleaning CleanWhenOffered TimelyInv
PROPERTIES ImplementsLifecycle
