CONSTANTS
    p1 = p1
    p2 = p2
    i1 = i1
    i2 = i2
    i3 = i3
    Procs = {p1, p2}
    Inputs = {i1, i2, i3}
    FirstInputs = i1
    Absent = Absent
    Garbage = Garbage
    MayRevert = FALSE
    MaxCrashes = 1
    MayUseMultiline = FALSE
    f1 = f1
    f2 = f2
    f3 = f3
    Files = {f1, f2, f3}
    ZigFiles = {f1, f2}
    Root = f1
    MaxReferences = 2
    v1 = v1
    v2 = v2
    Savers = {v1, v2}
    Texts = {x, y, z}
    FirstText = x
    Broken = Broken
    NoFile = NoFile
    MaxSaves = 3
SPECIFICATION FilesSpec
SYMMETRY ProcSymmetry
INVARIANTS TypesOK LockExclusive LoadedMatchesKey ImportsFound KeyCoversReachable
PROPERTIES ImplementsContentCache ImplementsDurableFile
