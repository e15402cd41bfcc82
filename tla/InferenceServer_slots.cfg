SPECIFICATION Spec
CONSTANTS
    Clients = {f1, a1}
    Chainers = {f1}
    Stages = {"detect"}
    MaxConcurrency = 1
    MaxWorkers = 2
    MaxCalls = 2
INVARIANTS SameSlotsInTriton
CHECK_DEADLOCK FALSE
