\* No service listening: lookup falls back to its local stub.
CONSTANTS
    NoArg = NoArg
    SigpipeIgnored = {TRUE}
    Faults = {"connect"}
    Argvs <- MCArgvs
    DashTokens <- MCDashTokens
SPECIFICATION Spec
INVARIANT HandlerReadsParsedFields
CHECK_DEADLOCK FALSE
