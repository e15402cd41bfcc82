SPECIFICATION Spec
CONSTANTS
    Clock = {5, 6, 7, 8}
    Values = {1, 4}
    NaN = NaN
    None = None
    Bucket = 2
    MaxRows = 3
INVARIANTS TypeOK KillCosts FailsOnlyOnTornTail EveryFrameInOneBucket
CHECK_DEADLOCK FALSE
