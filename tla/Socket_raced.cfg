CONSTANTS
    Daemons = {d1, d2, d3}
    Commands = {c1, c2}
    Stoppers = {s1}
    MaxKills = 2
SYMMETRY Alike
SPECIFICATION SocketSpec
INVARIANTS StoppedMeansClosed
PROPERTIES LiveLeftAlone
CHECK_DEADLOCK FALSE
