SPECIFICATION Spec
CONSTANTS
    Conn = {c1, c2}
    UserKey = {u1}
    NoClient = NoClient
    NoKey = NoKey
    SendCap = 1
    Copies = {}
    QueueCap = 1
    a1 = a1
    a2 = a2
    Addrs <- AnyAddr
    Stalling = {}
    Leaving = {c1}
    Unregistering = TRUE
    Broadcasting = FALSE
SYMMETRY AddrSymmetry
CONSTRAINT OneUnregisters
PROPERTIES Presence OpenUsersKept UnreachableForGood
