CONSTANTS
    p = p
    q = q
    c1 = c1
    c2 = c2
    Commands = {p, q}
    Configs = {c1, c2}
    MaxTasks = 2
    MaxStarts = 3
SPECIFICATION Spec
INVARIANTS BelievedOfItself
PROPERTIES NotesAreKept
SYMMETRY Symmetry
CHECK_DEADLOCK FALSE
