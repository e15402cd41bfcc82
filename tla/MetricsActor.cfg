SPECIFICATION Spec
CONSTANTS
    Senders = {a1, a2}
    MaxSent = 2
INVARIANTS TypeOK NothingLostAtExit SenderOrderKept OnlyLastLatencyAtRisk LatenciesReachDisk
CHECK_DEADLOCK FALSE
