SPECIFICATION FairSpec
CONSTANTS
    Browser = {b1, b2}
    InboxCap = 2
    MaxFrames = 4
INVARIANTS TypeOK RelayFirstOnly ConnectionsHeld
PROPERTIES BrowserReleased ReaderUnblocked LeaksForGood
CHECK_DEADLOCK FALSE
