CONSTANTS
    a = a
    b = b
    zone = zone
    Classes = {a, b}
    Files = {"f"}
    Deployments <- TheDeployments
    HostVolumes <- TheVolumes
    DeviceAt <- TheDevice
    BytesOf <- Sizes
    RootBytes = 5000
    NamePrefix = {}
    HostTerm = HostTerm
    Terms = {zone}
    MiB = 10
    GiB = 100
    Faults = {"listErrors", "updateErrors"}
SPECIFICATION Spec
INVARIANTS OfferedWiped CapacityHonest OwnSelector OneAffinity SuccessMeansBeta ObjectsInv WipedInv
PROPERTIES WipesOwnVolume
