CONSTANTS
    Call = {c1, c2}
    MaxInstalls = 1
SPECIFICATION FairSpec
CHECK_DEADLOCK FALSE
INVARIANTS OnlyAdminIsStranded FirstSuccessIsVerified
PROPERTIES FollowingEnds
