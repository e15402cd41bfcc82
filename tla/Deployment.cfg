SPECIFICATION FairSpec
CONSTANTS
    Boxes = {5, 10}
    Cameras = {c1, c2}
    BatchFrameCount = 2
    ViolenceCalls = 2
    ReadyTimeout = 1
    MaxFrames = 2
INVARIANTS TypeOK ServedOnceReady ResultsFit
CHECK_DEADLOCK FALSE
PROPERTIES ServerComesUp PollEnds WorkEnds
