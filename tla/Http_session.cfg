CONSTANTS
    Handshakes = 2
    Servers <- AllServers
    Rounds = 1
SPECIFICATION Spec
INVARIANTS RunsOnce NoneLeftOpen NoteCostsNoCommand
PROPERTIES RequestsEnd
