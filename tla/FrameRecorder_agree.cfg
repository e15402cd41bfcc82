SPECIFICATION Spec
CONSTANTS
    MaxRecorded = 3
    MaxAppends = 8
INVARIANTS TypeOK KeepsLast ContainersAgree
