CONSTANTS
    Request = {r1, r2}
    Password = {p1}
    Value = {v1}
    Cert = {c1}
    None = None
    Nobody = Nobody
    MaxQueued = 1
    MaxServed = 2
    AllowCrash = FALSE
SPECIFICATION Spec
PROPERTY ActivatesValidated
