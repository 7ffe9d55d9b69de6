\* The server socket's bind fails while the client thread opens its socket.
CONSTANTS
    Hosts = {h1, h2}
    HostName = h1
    ServerAddr = h2
    Mode = "private"
    PriorModes = {"private"}
    MainFaults = {}
    ServerFaults = {"bind"}
    ClientFaults = {}
    FDs <- MCFDs
    RootTTL <- MCRootTTL
    IssuedTTL <- MCIssuedTTL
    SerialBits <- MCSerialBits
    WireBits <- MCWireBits
SPECIFICATION Spec
INVARIANT ConfigSocketsOwned
CHECK_DEADLOCK FALSE
