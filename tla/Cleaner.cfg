CONSTANTS
    v1 = v1
    e1 = e1
    e2 = e2
    Volumes = {v1}
    Entries = {e1, e2}
    PipeCapacity = 2
    Faults = {"removeErrors", "scriptFails", "pipeErrors", "crash"}
SPECIFICATION FairSpec
INVARIANTS SucceededMeansWiped NoScriptAfterReport CleanerInv
PROPERTIES OutputIsLogged ImplementsCleaning CleaningEnds WipedAtLast
