CONSTANTS
    Job = {j1, j2}
    Archive = {a1}
    Content = {c1, c2}
    Data = {d1}
    Torn = Torn
    None = None
    Absent = Absent
    Partial = Partial
    Nobody = Nobody
    MaxSafety = 2
    Killable = {"backup", "restore", "delete", "validate"}
    HostCrashes = TRUE
SPECIFICATION Spec
SYMMETRY Identities
INVARIANTS TypeOK ExclusiveRecovery TornIsRecoverable InstalledMatchesStaged
PROPERTY OnlyCheckedRestoreDisturbs
