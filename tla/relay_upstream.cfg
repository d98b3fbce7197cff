SPECIFICATION Spec
CONSTANTS
    Browser = {b1}
    InboxCap = 2
    MaxFrames = 3
INVARIANT CloseClosesUpstream
CHECK_DEADLOCK FALSE
