CONSTANTS
    t1 = t1
    t2 = t2
    Thread = {t1, t2}
    Call <- MCCall
    Outputs <- MCOutputs
    NUL = NUL
    MaxCalls = 1
SYMMETRY Threads
SPECIFICATION Spec
INVARIANTS
    TypeOK
    MessageRight
    PartsAgree
    ErrnoKept
CHECK_DEADLOCK FALSE
