SPECIFICATION FairSpec
CONSTANTS
    Clients = {f1, a1}
    Chainers = {f1}
    Stages = {"detect"}
    MaxConcurrency = 1
    MaxWorkers = 2
    MaxCalls = 3
INVARIANTS TypeOK SlotsRespected ChainIsSuccesses
PROPERTIES EveryCallEnds
CHECK_DEADLOCK FALSE
