CONSTANTS
    Archive = {a1, a2}
    Key = {x, y}
    Value = {v1, v2}
    Text = {t1}
    Level = {info, critical}
    File = {f1, f2}
    Password = {s1, s2, weak}
    Good = {s1, s2}
    Channel = {email, telegram, discord}
    Configured = {email, telegram}
    Load = {l1, l2}
    Poll = {p1, p2}
    QuickAction = {q1, q2}
    Button = {b1}
    Plane = {"trusted", "iot"}
    Planes <- MCPlanes
    Container = {c1, c2}
    MaxRequests = 2
    MaxTimers = 2
    MaxReads = 2
    MaxUploads = 2
    MaxWorld = 1
    MaxQueries = 3
    Batch = 2
    MaxSize = 2
    MaxLines = 2
    MaxWire = 2
    MaxRuns = 3
    MaxChanges = 2
SPECIFICATION FairSpec
INVARIANTS ConfirmedIsDone SuccessIsSaved WorkIsUnderWay OneActionPerButton StreamsShowTheirSource VerdictIsEvidenced
PROPERTIES DraftSurvives ShownNeverGoesBack SilenceIsShown
