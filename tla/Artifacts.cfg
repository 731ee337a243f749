CONSTANTS
    None = None
    Releases <- TwoTrains
    Seeds <- TwoSeeds
    Threshold = 2
    MaxFaults = 2
SPECIFICATION Spec
INVARIANTS ServerIntact BothOrNeither
PROPERTIES QuarantineNotStaged VersionForward BootsEnd
CHECK_DEADLOCK FALSE
