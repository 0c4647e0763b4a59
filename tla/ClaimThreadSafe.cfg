CONSTANTS
    t1 = t1
    t2 = t2
    Thread = {t1, t2}
    Call <- MCCall
    Outputs <- MCOutputs
    NUL = NUL
    MaxCalls = 1
SYMMETRY Threads
SPECIFICATION Spec
INVARIANT ThreadSafe
CHECK_DEADLOCK FALSE
