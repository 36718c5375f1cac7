SPECIFICATION Spec
CONSTANTS
    Sessions = 2
    MaxInstalls = 2
PROPERTY StaleRunnerKeepsOut
CHECK_DEADLOCK FALSE
