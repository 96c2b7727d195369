CONSTANTS
    d1 = d1
    d2 = d2
    zls = zls
    zig = zig
    e1 = e1
    p1 = p1
    p2 = p2
    Docs = {d1, d2}
    Sources = {zls}
    Batches = {Empty, e1}
    Empty = Empty
    Producers = {p1, p2}
    Idle = Idle
    MayReopen = FALSE
    MaxRevision = 2
    MaxSegments = 6
SPECIFICATION DiagnosticsSpec
CHECK_DEADLOCK FALSE
INVARIANTS OneKey ChangedQueueConsistent NoLostChange
PROPERTIES LateResultsRejected
