SPECIFICATION Spec

CONSTANTS
    NULL = NULL
    Clients <- ClientsMC
    MallocResults = {TRUE, FALSE}

INVARIANT ExitOnce
