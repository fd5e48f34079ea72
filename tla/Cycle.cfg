CONSTANTS
    Group = {g1, g2, g3}
    Term = 2
    MaxFaults = 2
SPECIFICATION FairSpec
INVARIANTS TypeOK AtMostTermDown CompleteMeansReplaced
PROPERTIES CycleEnds
CHECK_DEADLOCK FALSE
