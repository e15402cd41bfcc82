SPECIFICATION Spec
CONSTANTS
    Senders = {a1, a2}
    MaxSent = 2
INVARIANTS SameLatencies
CHECK_DEADLOCK FALSE
