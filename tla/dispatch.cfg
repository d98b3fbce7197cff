SPECIFICATION FairSpec
CONSTANTS
    MaxRequests = 2
    SendCap = 1
INVARIANTS TypeOK RepliesAccounted EffectsReported HandlesReleased
PROPERTIES RequestFinished Conversation
CHECK_DEADLOCK FALSE
