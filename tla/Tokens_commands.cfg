CONSTANTS
    p = p
    q = q
    as1 = as1
    as2 = as2
    port1 = port1
    port2 = port2
    Commands = {p, q}
    Issuers = {as1, as2}
    Rotating = {as1}
    Ports = {port1, port2}
    MaxTokens = 3
    MaxRevoked = 1
    MaxStarts = 3
SPECIFICATION Spec
INVARIANTS PresentsItsOwn RotationIsFollowed
PROPERTIES RenewsWhenRefused
SYMMETRY Symmetry
CHECK_DEADLOCK FALSE
