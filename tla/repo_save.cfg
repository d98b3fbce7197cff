SPECIFICATION FairSpec
CONSTANTS
    Call = {c1, c2, c3}
INVARIANT NobodyLeftBehind
PROPERTY CallEnds
CHECK_DEADLOCK FALSE
