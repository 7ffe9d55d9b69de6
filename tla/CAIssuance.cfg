\* Concurrent issuance on one CA in federated mode, with allocation
\* failures of the certificate and a restart.
CONSTANTS
    Hosts = {h1, h2}
    HostName = h1
    Callers = {c1, c2}
    NoCaller = NoCaller
    Mode = "federated"
    PriorModes = {"federated", "public"}
    Faults = {"malloc"}
    RootTTL <- MCRootTTL
    IssuedTTL <- MCIssuedTTL
    SerialBits <- MCSerialBits
    WireBits <- MCWireBits
    MaxTime <- MCMaxTime
    MaxIssues <- MCMaxIssues
    MaxRestarts <- MCMaxRestarts
SPECIFICATION Spec
INVARIANT HandedCertVerifies
PROPERTY LedgerRefined
CHECK_DEADLOCK FALSE
