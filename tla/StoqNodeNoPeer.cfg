\* Default arguments (--server equal to --hostname): the client thread polls without a connection.
CONSTANTS
    Hosts = {h1, h2}
    HostName = h1
    ServerAddr = h1
    Mode = "private"
    PriorModes = {"private"}
    MainFaults = {}
    ServerFaults = {}
    ClientFaults = {}
    FDs <- MCFDs
    RootTTL <- MCRootTTL
    IssuedTTL <- MCIssuedTTL
    SerialBits <- MCSerialBits
    WireBits <- MCWireBits
SPECIFICATION Spec
INVARIANT NoNullConnPoll
CHECK_DEADLOCK FALSE
