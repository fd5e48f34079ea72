CONSTANTS
    Mail = {m1, m2}
    MaxBeats = 2
    Modulus = 2
    MaxFaults = 2
SPECIFICATION FairSpec
INVARIANTS TypeOK PurgeLosesOnlyMoved DeleteLosesOnlyUncounted
PROPERTIES TerminationEnds
CHECK_DEADLOCK FALSE
