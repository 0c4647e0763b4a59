CONSTANTS
    Name = {"A", "B"}
    Value = {"1", "2"}
    Unset = "unset"
    NULL = NULL
    Inherited <- MCInherited
    MaxEntries = 2
SPECIFICATION Spec
INVARIANTS
    TypeOK
    InArray
PROPERTIES
    IsEnvMap
    CallReturns
