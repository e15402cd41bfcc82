SPECIFICATION LockstepSpec
CONSTANTS
    QueueMax = 2
    MaxStarts = 1
    MaxFrames = 6
INVARIANTS SameSupply
