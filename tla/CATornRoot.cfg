\* A process ended inside save_certificate leaves a ca.cert that loads as a root nobody saved.
CONSTANTS
    Hosts = {h1, h2}
    HostName = h1
    Callers = {c1, c2}
    NoCaller = NoCaller
    Mode = "federated"
    PriorModes = {"federated"}
    Faults = {"torn"}
    RootTTL <- MCRootTTL
    IssuedTTL <- MCIssuedTTL
    SerialBits <- MCSerialBits
    WireBits <- MCWireBits
    MaxTime <- MCMaxTime
    MaxIssues <- MCMaxIssues
    MaxRestarts <- MCMaxRestarts
SPECIFICATION Spec
INVARIANT RootIsGenuine
CHECK_DEADLOCK FALSE
