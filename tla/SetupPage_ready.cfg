CONSTANTS
    Call = {c1, c2}
    MaxInstalls = 2
SPECIFICATION Spec
CHECK_DEADLOCK FALSE
INVARIANT ReadyIsVerified
