SPECIFICATION Spec
CONSTANTS
    Call = {c1}
INVARIANT ErrorsReported
CHECK_DEADLOCK FALSE
