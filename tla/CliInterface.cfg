\* Every command line of up to four words, every fault of the service
\* connection, of the helpers and of the peer, with SIGPIPE ignored by the
\* caller or left at its default.
CONSTANTS
    NoArg = NoArg
    SigpipeIgnored = {TRUE, FALSE}
    Faults = {"socket", "connect", "recv", "malloc", "config", "codec"}
    Argvs <- MCArgvs
    DashTokens <- MCDashTokens
SPECIFICATION Spec
INVARIANT TypeOK
INVARIANT ServiceSocketReleased
CHECK_DEADLOCK FALSE
