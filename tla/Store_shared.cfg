CONSTANTS
    Processes = {p1, p2}
    Names = {n1, n2}
    NoOne = NoOne
    MaxCommands = 3
    MaxStops = 1
SPECIFICATION Spec
INVARIANTS Current NeverInNeither
CHECK_DEADLOCK FALSE
