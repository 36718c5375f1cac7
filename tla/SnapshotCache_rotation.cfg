CONSTANTS
    Reader = {r1, r2}
    Operator = {o1}
    Parts = 2
    TTL = 1
    None = None
    MaxTime = 2
    MaxChanges = 1
SPECIFICATION Spec
SYMMETRY Threads
INVARIANT NextSnapshotSeesOperation
