\* After a restart the CA hands out serials it already used under the same root.
CONSTANTS
    Hosts = {h1, h2}
    HostName = h1
    Callers = {c1, c2}
    NoCaller = NoCaller
    Mode = "federated"
    PriorModes = {"federated"}
    Faults = {}
    RootTTL <- MCRootTTL
    IssuedTTL <- MCIssuedTTL
    SerialBits <- MCSerialBits
    WireBits <- MCWireBits
    MaxTime <- MCMaxTime
    MaxIssues <- MCMaxIssues
    MaxRestarts <- MCMaxRestarts
SPECIFICATION Spec
INVARIANT SerialNeverReused
CHECK_DEADLOCK FALSE
