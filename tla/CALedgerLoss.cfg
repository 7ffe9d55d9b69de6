\* A failed realloc in handle_cert_request drops the issued ledger.
CONSTANTS
    Hosts = {h1, h2}
    HostName = h1
    Callers = {c1, c2}
    NoCaller = NoCaller
    Mode = "federated"
    PriorModes = {"federated"}
    Faults = {"realloc"}
    RootTTL <- MCRootTTL
    IssuedTTL <- MCIssuedTTL
    SerialBits <- MCSerialBits
    WireBits <- MCWireBits
    MaxTime <- MCMaxTime
    MaxIssues <- MCMaxIssues
    MaxRestarts <- MCMaxRestarts
SPECIFICATION Spec
PROPERTY IssuedNeverPruned
CHECK_DEADLOCK FALSE
