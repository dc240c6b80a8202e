CONSTANTS
    v1 = v1
    v2 = v2
    c1 = c1
    c2 = c2
    p1 = p1
    p2 = p2
    Volumes = {v1}
    NoVolume = NoVolume
    Classes = {c1}
    Paths = {p1}
    ClassOf <- OneClass
    PathOf <- OnePath
    ModeOf <- AllBlock
    PolicyOf <- AllDelete
    Configs <- EitherModeConfigs
    Faults = {"crash", "apiErrors", "ioErrors", "watchLag", "slowJobGC", "jobFails", "adminDelete", "adminPolicy", "adminReuse"}
    MaxLag = 3
SPECIFICATION Spec
INVARIANTS OnlyFinishedJobsDeleted JobsInv ProcTableProtocol CacheConverges
