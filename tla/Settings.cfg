CONSTANTS
    Request = {r1, r2}
    Password = {p1, p2}
    Value = {v1, v2}
    Cert = {c1}
    None = None
    Nobody = Nobody
    MaxQueued = 1
    MaxServed = 2
    AllowCrash = TRUE
SPECIFICATION Spec
SYMMETRY Identities
INVARIANTS FailureRestores SuccessApplies
PROPERTY AtomicSpec
