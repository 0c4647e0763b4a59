SPECIFICATION Spec

CONSTANTS
    Name <- NameMC
    LongNames = {}
    Root = "R"
    Cwd = "D"
    PATH_MAX = 9
    MAXSYMLINKS = 3
    Process <- User
    Scenarios <- FewMC
    SYMLOOP_MAX = 3
    CwdNames <- CwdNamesMC
    Confusing = {FALSE}
    MallocResults = {TRUE, FALSE}
    MayChange = TRUE
    Truncated <- TruncatedMC
    NULL = NULL

INVARIANTS
    NeverAborts
