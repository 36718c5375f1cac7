CONSTANTS
    Proof = {p1, p2}
    Control = {k1}
SPECIFICATION FairSpec
INVARIANTS ProtectedWasTested OneProofAtATime
PROPERTIES LossIsSeen
