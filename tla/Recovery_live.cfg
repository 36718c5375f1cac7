CONSTANTS
    Job = {j1, j2}
    Archive = {a1}
    Content = {c1}
    Data = {d1, d2}
    Torn = Torn
    None = None
    Absent = Absent
    Partial = Partial
    Nobody = Nobody
    MaxSafety = 1
    Killable = {"backup", "delete", "validate"}
    HostCrashes = FALSE
SPECIFICATION FairSpec
PROPERTIES LockReleased WatchdogResumes
