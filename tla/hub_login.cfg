SPECIFICATION FairSpec
CONSTANTS
    Conn = {c1, c2}
    UserKey = {u1}
    NoClient = NoClient
    NoKey = NoKey
    SendCap = 1
    Stalling = {c1}
    Leaving = {}
    Copies = {1}
    QueueCap = 1
    a1 = a1
    a2 = a2
    Addrs <- OwnAddr
    Unregistering = FALSE
    Broadcasting = FALSE
INVARIANT NobodyHeldUp
PROPERTIES LoginDecided Conversations
