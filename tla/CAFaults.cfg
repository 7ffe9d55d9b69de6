\* Concurrent issuance on one CA in federated mode with every injected
\* failure: certificate allocation, ledger realloc, a torn ca.cert.
CONSTANTS
    Hosts = {h1, h2}
    HostName = h1
    Callers = {c1, c2}
    NoCaller = NoCaller
    Mode = "federated"
    PriorModes = {"federated"}
    Faults = {"malloc", "realloc", "torn"}
    RootTTL <- MCRootTTL
    IssuedTTL <- MCIssuedTTL
    SerialBits <- MCSerialBits
    WireBits <- MCWireBits
    MaxTime <- MCMaxTime
    MaxIssues <- MCMaxIssues
    MaxRestarts <- MCMaxRestarts
SPECIFICATION Spec
INVARIANT LedgerSerialsUnique
PROPERTY LockReleased
CHECK_DEADLOCK FALSE
