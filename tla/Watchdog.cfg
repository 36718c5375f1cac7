CONSTANTS
    Channel = {telegram, email}
    None = None
    AllowKill = TRUE
SPECIFICATION FairSpec
INVARIANTS MarksBelongToOutage MarksAreTruthful NoRepetition
PROPERTIES RecoveryFollowsAlarm AlarmArrives OutageEnds
