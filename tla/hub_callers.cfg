SPECIFICATION Spec
CONSTANTS
    Conn = {c1, c2}
    UserKey = {u1, u2}
    NoClient = NoClient
    NoKey = NoKey
    AppKeys = {u1}
    Unregistering = TRUE
    Timeout = 1
    MaxTime = 2
    Word = 16
SYMMETRY Symmetry
INVARIANTS TypeOK MessageReachesUser SendAllOnce UserListTrue SweepComplete
PROPERTY SweepClosesExpired
