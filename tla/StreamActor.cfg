SPECIFICATION FairSpec
CONSTANTS
    QueueMax = 2
    MaxStarts = 2
    MaxFrames = 3
INVARIANTS TypeOK NoWastedPut InOrderDelivery EveryPutAccounted NewestKept
PROPERTIES ImplementsChannel StopEndsThreads BufferedFrameLeaves
