\* The client's socket or connect fails after its connection was created.
CONSTANTS
    Hosts = {h1, h2}
    HostName = h1
    ServerAddr = h2
    Mode = "private"
    PriorModes = {"private"}
    MainFaults = {}
    ServerFaults = {}
    ClientFaults = {"socket", "connect"}
    FDs <- MCFDs
    RootTTL <- MCRootTTL
    IssuedTTL <- MCIssuedTTL
    SerialBits <- MCSerialBits
    WireBits <- MCWireBits
SPECIFICATION Spec
INVARIANT ConnsDeletedAfterCleanup
CHECK_DEADLOCK FALSE
