\* Private-mode node connecting to a peer, with every set-up failure: shutdown and the sockets it closes.
CONSTANTS
    Hosts = {h1, h2}
    HostName = h1
    ServerAddr = h2
    Mode = "private"
    PriorModes = {"private"}
    MainFaults = {"ca_init", "node_alloc", "server_thread", "client_thread"}
    ServerFaults = {"ca_init", "cert_req", "keys_alloc", "rand", "conn_new", "socket", "bind"}
    ClientFaults = {"ca_init", "cert_req", "conn_new", "socket", "connect", "send"}
    FDs <- MCFDs
    RootTTL <- MCRootTTL
    IssuedTTL <- MCIssuedTTL
    SerialBits <- MCSerialBits
    WireBits <- MCWireBits
SPECIFICATION Spec
INVARIANT TypeOK
INVARIANT SocketsClosedAfterCleanup
PROPERTY ShutdownCompletes
CHECK_DEADLOCK FALSE
