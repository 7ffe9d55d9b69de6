\* The server and client threads each load their own CA from ca.cert.
CONSTANTS
    Hosts = {h1, h2}
    HostName = h1
    ServerAddr = h2
    Mode = "federated"
    PriorModes = {"federated"}
    MainFaults = {}
    ServerFaults = {}
    ClientFaults = {}
    FDs <- MCFDs
    RootTTL <- MCRootTTL
    IssuedTTL <- MCIssuedTTL
    SerialBits <- MCSerialBits
    WireBits <- MCWireBits
SPECIFICATION Spec
INVARIANT NodeCertSerialsDistinct
CHECK_DEADLOCK FALSE
