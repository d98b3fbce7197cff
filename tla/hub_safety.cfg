SPECIFICATION Spec
CONSTANTS
    Conn = {c1, c2}
    UserKey = {u1, u2}
    NoClient = NoClient
    NoKey = NoKey
    SendCap = 1
    Stalling = {}
    Leaving = {}
    Copies = {1}
    QueueCap = 1
    a1 = a1
    a2 = a2
    Addrs <- OwnAddr
    Unregistering = FALSE
    Broadcasting = TRUE
SYMMETRY Symmetry
INVARIANTS TypeOK UsersOnline CrashOnlyOnClosedSend LoopLeft

