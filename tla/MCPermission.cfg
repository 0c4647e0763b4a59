SPECIFICATION Spec

CONSTANTS
    Uid = {1, 2}
    Gid = {1, 2}
    Type = {"reg", "dir"}
    Mode = {{}, {"r", "x"}, {"w"}}

CHECK_DEADLOCK FALSE

INVARIANTS
    AgreesWithKernel
    SaysWhyNot
