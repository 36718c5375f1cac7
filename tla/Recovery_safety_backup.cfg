CONSTANTS
    Job = {j1, j2}
    Archive = {a1}
    Content = {c1, c2}
    Data = {d1}
    Torn = Torn
    None = None
    Absent = Absent
    Partial = Partial
    Nobody = Nobody
    MaxSafety = 1
    Killable = {}
    HostCrashes = FALSE
SPECIFICATION Spec
INVARIANT SafetyHoldsReplacedProject
