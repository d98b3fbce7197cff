SPECIFICATION FairSpec
CONSTANTS
    Conn = {c1, c2}
    UserKey = {}
    NoClient = NoClient
    NoKey = NoKey
    SendCap = 1
    Stalling = {c1, c2}
    Leaving = {c1, c2}
    Copies = {1, 2}
    QueueCap = 1
    a1 = a1
    a2 = a2
    Addrs <- OwnAddr
    Unregistering = FALSE
    Broadcasting = FALSE
PROPERTIES RegistrationServed ConnectionTornDown
