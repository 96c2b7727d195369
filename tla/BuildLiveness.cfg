CONSTANTS
    s1 = s1
    s2 = s2
    a = a
    b = b
    i1 = i1
    i2 = i2
    Scripts = {s1}
    Contents = {a, b}
    Inputs = {i1, i2}
    FirstContent = a
    FirstInputs = i1
    None = None
    Moved = Moved
    Failures = {"prepare", "spawn", "compile", "timeout", "load", "remove", "lock", "stamp"}
    MayRevert = TRUE
    Others = {"edit", "inputs", "lock"}
    MaxEvents = 3
SPECIFICATION Spec
CHECK_DEADLOCK FALSE
PROPERTIES QueueDrains
