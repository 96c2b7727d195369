CONSTANTS
    Instances = {n1, n2}
    MinBatch = 1
    MayDetach = FALSE
    MayReload = FALSE
    MaxModules = 3
    MaxDepth = 3
    Placeholders = {h1}
    Schemas = {sa, sb}
    NoSchema = NoSchema
    NumProperties = 2
    Objects = {o1, o2}
    Narrow = {o1}
    Nil = Nil
    MaxCalls = 2
    Names = {a, b}
    MaxProperties = 2
    MaxEntries = 3
SPECIFICATION PartsSpec
CHECK_DEADLOCK FALSE
INVARIANTS TypesOK RefreshScheduled NoneForgotten CallsPinned PlaceholdersCurrent InspectorsCurrent RetentionMatches ExportsConform ClosedOnce LoadedConsistent SameExportsUnseen
PROPERTIES InstancesKeepTheirModule MigrationEnds MigrationKeepsObjects
