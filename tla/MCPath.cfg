SPECIFICATION Spec

CONSTANTS
    Name <- NameMC
    LongNames <- LongNamesMC
    Root = "R"
    Cwd = "D"
    PATH_MAX = 9
    MAXSYMLINKS = 4
    Process <- User
    Scenarios <- AllMC
    SYMLOOP_MAX = 4
    CwdNames <- CwdNamesMC
    Confusing = {TRUE, FALSE}
    MallocResults = {TRUE}
    MayChange = FALSE
    Truncated <- TruncatedMC
    NULL = NULL

INVARIANTS
    TypeOK
    Truthful
    Complete
    SameQuestion
    BlamesTheRightObject
