CONSTANTS
    Instances = {n1, n2}
    MinBatch = 1
    MayDetach = TRUE
    MayReload = FALSE
    MaxModules = 3
    MaxDepth = 2
SPECIFICATION Spec
INVARIANTS ModuleLoadedWhileRunning
