SPECIFICATION FairSpec

CONSTANTS
    NULL = NULL
    Clients <- ClientsMC
    MallocResults = {TRUE, FALSE}

INVARIANTS
    TypeOK
    OneOwner
    CallsAreLive
    Arrives
    StatusReported

PROPERTIES
    Ends
