CONSTANTS
    Instance = {i1, i2}
    Address = {a1, a2, a3}
    Lambda = {l1, l2}
    None = None
    MaxCalls = 2
    MaxFaults = 2
SPECIFICATION Spec
SYMMETRY Symmetry
INVARIANTS TypeOK StoppedIsAccounted RunningHasAddress NameMatchesAddress LaunchedHasAddress
PROPERTIES LossIsAccounted
CHECK_DEADLOCK FALSE
