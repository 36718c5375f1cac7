CONSTANTS
    Proof = {p1}
    Control = {k1}
SPECIFICATION Spec
INVARIANT BypassWasTested
