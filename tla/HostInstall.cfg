SPECIFICATION FairSpec
CONSTANTS
    Sessions = 2
    MaxInstalls = 2
INVARIANTS SuccessIsDeployed NoUnaskedDeployment
PROPERTIES SupersededRunnerEnds DeploymentIsAnswered
CHECK_DEADLOCK FALSE
