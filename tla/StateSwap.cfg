CONSTANTS
    NumProperties = 2
    Objects = {o1, o2}
    Narrow = {o1}
    Nil = Nil
    MaxCalls = 1
SPECIFICATION StateSpec
CHECK_DEADLOCK FALSE
PROPERTIES SyncKeepsExports
