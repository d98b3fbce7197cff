SPECIFICATION Spec
CONSTANTS
    Conn = {c1}
    UserKey = {u1}
    NoClient = NoClient
    NoKey = NoKey
    SendCap = 1
    Copies = {}
    QueueCap = 1
    a1 = a1
    a2 = a2
    Addrs <- OwnAddr
    Stalling = {}
    Leaving = {}
    Unregistering = FALSE
    Broadcasting = FALSE
INVARIANT LoggedInUsersListed
