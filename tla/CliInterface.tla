----------------------------- MODULE CliInterface -----------------------------
(***************************************************************************)
(* The command-line client of src/src/cli_interface.c: handle_cli_command  *)
(* parses argv into a cli_command_t (parse_cli_args), process_cli_command  *)
(* runs the command locally or forwards it over the Unix socket to the     *)
(* service (connect_to_service, send_command_to_service,                   *)
(* receive_response_from_service, disconnect_from_service), and falls back *)
(* to a local stub when the service cannot be reached.                     *)
(*                                                                         *)
(* argv is a sequence of tokens from a small vocabulary; a field of the    *)
(* command holds the token it was copied from, or NoArg when it is NULL.   *)
(* The service is the environment: once connected it may answer, or close  *)
(* the connection, at any time.  The configuration manager and the packet  *)
(* codec are not in this repository; their results are free choices.       *)
(* Printing and logging are left out.                                      *)
(***************************************************************************)
EXTENDS Naturals, Sequences, FiniteSets
LOCAL INSTANCE SequencesExt

CONSTANTS
    Argvs,           \* command lines, argv[1..argc-1]
    DashTokens,      \* the tokens of Argvs that start with '-'
    NoArg,           \* a NULL field of cli_command_t
    SigpipeIgnored,  \* the dispositions of SIGPIPE the CLI may inherit: TRUE
                     \* when its caller ignores it (the CLI never sets it)
    Faults           \* subset of {"socket", "connect", "recv", "malloc",
                     \*            "config", "codec"}

ASSUME /\ {"--server", "--server=s"} \subseteq DashTokens
       /\ SigpipeIgnored \subseteq BOOLEAN
       /\ Faults \subseteq {"socket", "connect", "recv", "malloc", "config", "codec"}

Fields == {"profile_name", "param1", "param2", "param3"}
ArgTokens == UNION {Range(a) : a \in Argvs}
ServiceFd == 3   \* the descriptor socket() returns; its number does not matter

\* The command words parse_cli_args knows (lines 201-345) and, for each, the
\* fields its following arguments are copied into, in order.
ArgFields(w) ==
    CASE w \in {"help", "status", "list-profiles", "configure"} -> <<>>
      [] w \in {"start", "stop", "restart", "show-profile", "delete-profile",
                "connect", "disconnect"} -> <<"profile_name">>
      [] w = "add-profile"  -> <<"profile_name", "param2">>
      [] w = "edit-profile" -> <<"profile_name", "param2", "param3">>
      [] w \in {"register-domain", "send-data"} -> <<"param2", "param3">>
      [] w = "verify-cert"  -> <<"param2">>
      [] w \in {"lookup", "resolve", "register-tld"} -> <<"param1">>
CommandWords ==
    {"help", "status", "list-profiles", "configure", "start", "stop", "restart",
     "show-profile", "delete-profile", "connect", "disconnect", "add-profile",
     "edit-profile", "register-domain", "send-data", "verify-cert", "lookup",
     "resolve", "register-tld"}
\* start, stop and restart take their profile name only if one is given.
OptionalArg == {"start", "stop", "restart"}

\* The global-option loop (lines 170-192): the index of the command word
\* and the server address so far; index 0 when --server lacks its value.
RECURSIVE Options(_, _, _)
Options(argv, i, server) ==
    IF i > Len(argv) \/ argv[i] \notin DashTokens THEN [at |-> i, server |-> server]
    ELSE IF argv[i] = "--server"
         THEN IF i + 1 <= Len(argv) THEN Options(argv, i + 2, argv[i + 1])
              ELSE [at |-> 0, server |-> server]
    ELSE IF argv[i] = "--server=s" THEN Options(argv, i + 1, "s")
    ELSE [at |-> i, server |-> server]   \* unknown option: leave the loop

Failed == [ok |-> FALSE, type |-> "none", args |-> [f \in Fields |-> NoArg]]

\* parse_cli_args (lines 157-352): argv[1..] indexed as in C.
ParseCliArgs(argv) ==
    LET o    == Options(argv, 1, NoArg)
        i    == o.at
        w    == argv[i]
        n    == Len(argv) - i                       \* words after the command
        base == [f \in Fields |-> IF f = "param1" THEN o.server ELSE NoArg]
        Fill(fs) == [f \in Fields |->
                        IF \E k \in DOMAIN fs : fs[k] = f
                        THEN argv[i + CHOOSE k \in DOMAIN fs : fs[k] = f]
                        ELSE base[f]]
        Parsed(a) == [ok |-> TRUE, type |-> w, args |-> a]
    IN  IF i = 0 \/ i > Len(argv) \/ w \notin CommandWords THEN Failed
        ELSE IF w = "register-tld"
             THEN IF n >= 2 THEN Parsed([base EXCEPT !["profile_name"] = argv[i + 1],
                                                     !["param1"] = argv[i + 2]])
                  ELSE IF n = 1 THEN Parsed([base EXCEPT !["profile_name"] = argv[i + 1],
                                                         !["param1"] = argv[i + 1]])
                  ELSE Failed
        ELSE IF w \in OptionalArg
             THEN Parsed(IF n >= 1 THEN Fill(ArgFields(w)) ELSE base)
        ELSE IF n < Len(ArgFields(w)) THEN Failed
        ELSE IF w = "resolve" /\ n >= 3 /\ argv[i + 2] = "--server"
             THEN Parsed([Fill(ArgFields(w)) EXCEPT !["param2"] = argv[i + 3]])
        ELSE Parsed(Fill(ArgFields(w)))

\* The local handlers that only print and return 0: cmd_help (lines
\* 463-488), cmd_register_domain, cmd_verify_cert and cmd_send_data, stubs
\* that report success (lines 796-819).
PrintingHandlers == {"help", "register-domain", "verify-cert", "send-data"}

\* The configuration manager (not in this repository) may fail to start,
\* to load, or (show-profile) to find the profile (lines 514-620).
UsesConfig == {"list-profiles", "show-profile", "configure"}

\* Commands process_cli_command runs without the service, and the fields
\* each one reads without a NULL check.
LocalCommands == PrintingHandlers \cup UsesConfig
LocalReads(w) ==
    CASE w \in {"register-domain", "send-data"} -> {"param2", "param3"}
      [] w = "verify-cert" -> {"param2"}
      [] OTHER -> {}

\* What a local handler returns: 0 for the printing ones, and -1 from the
\* profile commands when the configuration manager fails.
LocalResults(w) ==
    IF w \in PrintingHandlers \/ "config" \notin Faults THEN {0} ELSE {0, -1}

\* The stub each command falls back to when the service is unreachable
\* (lines 80-83, 97-100, 106-136): its exit status and the fields it reads.
StubResult(w) ==
    IF w \in {"register-tld", "lookup"} \cup OptionalArg THEN 0 ELSE -1
StubReads(w) ==
    CASE w = "register-tld" -> {"profile_name"}
      [] w = "lookup"       -> {"param2"}
      [] OTHER              -> {}

VARIABLES
    pc,        \* where handle_cli_command is
    sigpipeIgnored, \* the process ignores SIGPIPE (inherited, fixed for the run)
    argv,      \* the command line
    cmd,       \* the parsed cli_command_t
    sock,      \* service_socket
    fdOpen,    \* the service descriptor is open
    peer,      \* the service's end: "none", "open", "replied", "closed"
    sendRet,   \* what send_command_to_service returned
    recvRet,   \* what receive_response_from_service returned
    response,  \* cmd_resolve: "received" when response_nexus_packet_len >= 0
    result,    \* the exit status handle_cli_command returns
    reads      \* history: fields the handlers dereferenced

vars == <<pc, sigpipeIgnored, argv, cmd, sock, fdOpen, peer, sendRet, recvRet, response,
          result, reads>>

-----------------------------------------------------------------------------
Init ==
    /\ pc = "parse"
    /\ sigpipeIgnored \in SigpipeIgnored
    /\ argv \in Argvs
    /\ cmd = Failed
    /\ sock = -1 /\ fdOpen = FALSE /\ peer = "none"
    /\ sendRet = -1 /\ recvRet = -1 /\ response = "none" /\ result = 0
    /\ reads = {}

\* handle_cli_command: help for a bare invocation, help and 1 for a parse
\* error, otherwise the parsed command goes to process_cli_command
\* (lines 835-863).
Parse ==
    /\ pc = "parse"
    /\ \/ /\ argv = <<>>
          /\ pc' = "done" /\ result' = 0 /\ UNCHANGED cmd
       \/ /\ argv # <<>> /\ ~ParseCliArgs(argv).ok
          /\ pc' = "done" /\ result' = 1 /\ UNCHANGED cmd
       \/ /\ argv # <<>> /\ ParseCliArgs(argv).ok
          /\ cmd' = ParseCliArgs(argv)
          /\ pc' = "dispatch" /\ UNCHANGED result
    /\ UNCHANGED <<sigpipeIgnored, argv, sock, fdOpen, peer, sendRet, recvRet, response, reads>>

\* process_cli_command's switch (lines 33-66): local commands run to
\* completion, resolve goes to cmd_resolve, the others try the service.
Dispatch ==
    /\ pc = "dispatch"
    /\ \/ /\ cmd.type \in LocalCommands
          /\ reads' = LocalReads(cmd.type)
          /\ result' \in LocalResults(cmd.type)
          /\ pc' = "done"
       \/ /\ cmd.type \notin LocalCommands
          /\ pc' = IF cmd.type = "resolve" THEN "prepare" ELSE "connect"
          /\ UNCHANGED <<result, reads>>
    /\ UNCHANGED <<sigpipeIgnored, argv, cmd, sock, fdOpen, peer, sendRet, recvRet, response>>

\* cmd_resolve up to the service (lines 636-701): the domain is a token, so
\* never empty; the query payload and the packet are serialised by the
\* codec, and a failure of either returns 1.
ResolvePrepare ==
    /\ pc = "prepare"
    /\ \/ /\ "codec" \in Faults
          /\ result' = 1 /\ pc' = "done"
       \/ /\ pc' = "connect" /\ UNCHANGED result
    /\ UNCHANGED <<sigpipeIgnored, argv, cmd, sock, fdOpen, peer, sendRet, recvRet, response, reads>>

\* Mutant of Connect: a failed connect() closes the descriptor but leaves
\* service_socket at its number (line 380 dropped).
ConnectNoReset ==
    /\ pc = "connect"
    /\ \/ /\ "socket" \in Faults
          /\ pc' = "fallback" /\ UNCHANGED <<sock, fdOpen, peer>>
       \/ /\ "connect" \in Faults
          /\ sock' = ServiceFd /\ pc' = "fallback" /\ UNCHANGED <<fdOpen, peer>>
       \/ /\ sock' = ServiceFd /\ fdOpen' = TRUE /\ peer' = "open"
          /\ pc' = "send"
    /\ UNCHANGED <<sigpipeIgnored, argv, cmd, sendRet, recvRet, response, result, reads>>

\* connect_to_service (lines 355-387).  A blocking connect() on a full
\* accept queue is a wait: the step is simply not taken yet.  Every path of a command closes the
\* socket again, so on entry service_socket is -1.
Connect ==
    /\ pc = "connect"
    /\ \/ /\ "socket" \in Faults
          /\ pc' = "fallback" /\ UNCHANGED <<sock, fdOpen, peer>>
       \/ /\ "connect" \in Faults        \* no service listening: close, -1
          /\ pc' = "fallback" /\ UNCHANGED <<sock, fdOpen, peer>>
       \/ /\ sock' = ServiceFd /\ fdOpen' = TRUE /\ peer' = "open"
          /\ pc' = "send"
    /\ UNCHANGED <<sigpipeIgnored, argv, cmd, sendRet, recvRet, response, result, reads>>

\* No service: the stub of register-tld, lookup, start, stop and restart,
\* -1 for the other forwarded commands, 1 for status (cmd_status, lines
\* 490-512).
Fallback ==
    /\ pc = "fallback" /\ cmd.type # "resolve"
    /\ reads' = StubReads(cmd.type)
    /\ result' = IF cmd.type = "status" THEN 1 ELSE StubResult(cmd.type)
    /\ pc' = "done"
    /\ UNCHANGED <<sigpipeIgnored, argv, cmd, sock, fdOpen, peer, sendRet, recvRet, response>>

\* No service for resolve: the direct network call, which is not in this
\* repository, returns a response or a negative length (lines 725-730).
ResolveDirect ==
    /\ pc = "fallback" /\ cmd.type = "resolve"
    /\ response' \in {"none", "received"}
    /\ pc' = "decode"
    /\ UNCHANGED <<sigpipeIgnored, argv, cmd, sock, fdOpen, peer, sendRet, recvRet, result, reads>>

\* send_command_to_service (lines 404-429).  Writing to a connection the
\* service has closed fails with EPIPE, after SIGPIPE, which ends the
\* process unless its caller ignores the signal.
Send ==
    /\ pc = "send"
    /\ \/ /\ peer = "closed"
          /\ pc' = IF sigpipeIgnored THEN "sent" ELSE "killed"
          /\ sendRet' = -1
       \/ /\ peer \in {"open", "replied"}
          /\ sendRet' = 0 /\ pc' = "sent"
    /\ UNCHANGED <<sigpipeIgnored, argv, cmd, sock, fdOpen, peer, recvRet, response, result, reads>>

\* status and resolve read the answer only when the send succeeded
\* (lines 499-501, 712-713); the other commands always try (lines 75-77,
\* 91-93, 141-143).
AfterSend ==
    /\ pc = "sent"
    /\ pc' = IF sendRet = 0 \/ cmd.type \notin {"status", "resolve"}
             THEN "recv" ELSE "disconnect"
    /\ UNCHANGED <<sigpipeIgnored, argv, cmd, sock, fdOpen, peer, sendRet, recvRet, response,
                   result, reads>>

\* receive_response_from_service (lines 431-460): malloc of the buffer,
\* then a blocking recv, with no timeout, that returns once the service
\* has answered or closed (0 bytes), or fails.
Receive ==
    /\ pc = "recv"
    /\ \/ /\ "malloc" \in Faults
          /\ recvRet' = -1
       \/ /\ peer \in {"replied", "closed"}
          /\ recvRet' \in IF "recv" \in Faults THEN {0, -1} ELSE {0}
    /\ pc' = "disconnect"
    /\ UNCHANGED <<sigpipeIgnored, argv, cmd, sock, fdOpen, peer, sendRet, response, result, reads>>

\* What a command returns once it has disconnected: status reports the
\* running service, resolve goes on to decode, the others return what the
\* send returned (lines 81, 101, 152, 506).
Returned(ret) ==
    CASE cmd.type = "status"  -> 0
      [] cmd.type = "resolve" -> result
      [] OTHER                -> ret

\* Mutant of Disconnect: the socket is left open for the next command.
DisconnectKeepsSocket ==
    /\ pc = "disconnect"
    /\ result' = Returned(sendRet)
    /\ response' = IF sendRet = 0 /\ recvRet = 0 THEN "received" ELSE "none"
    /\ pc' = IF cmd.type = "resolve" THEN "decode" ELSE "done"
    /\ UNCHANGED <<sigpipeIgnored, argv, cmd, sock, fdOpen, peer, sendRet, recvRet, reads>>

\* disconnect_from_service (lines 389-402) and the command's return; for
\* resolve, a response counts only when both the send and the receive
\* succeeded (lines 708-724).
Disconnect ==
    /\ pc = "disconnect"
    /\ sock' = -1 /\ fdOpen' = FALSE
    /\ result' = Returned(sendRet)
    /\ response' = IF sendRet = 0 /\ recvRet = 0 THEN "received" ELSE "none"
    /\ pc' = IF cmd.type = "resolve" THEN "decode" ELSE "done"
    /\ UNCHANGED <<sigpipeIgnored, argv, cmd, peer, sendRet, recvRet, reads>>

\* The rest of cmd_resolve (lines 732-792): no response returns 1; a
\* response is deserialised as a packet and then as a DNS payload by the
\* codec, which is not in this repository, so it may return 0 or 1.
Decode ==
    /\ pc = "decode"
    /\ result' \in IF response = "none" THEN {1} ELSE {0, 1}
    /\ pc' = "done"
    /\ UNCHANGED <<sigpipeIgnored, argv, cmd, sock, fdOpen, peer, sendRet, recvRet, response, reads>>

\* The service answers a request it received, or drops the connection.
ServiceReply ==
    /\ peer = "open" /\ fdOpen /\ sendRet = 0
    /\ peer' = "replied"
    /\ UNCHANGED <<pc, sigpipeIgnored, argv, cmd, sock, fdOpen, sendRet, recvRet, response,
                   result, reads>>

ServiceClose ==
    /\ peer \in {"open", "replied"} /\ fdOpen
    /\ peer' = "closed"
    /\ UNCHANGED <<pc, sigpipeIgnored, argv, cmd, sock, fdOpen, sendRet, recvRet, response,
                   result, reads>>

\* A step of the CLI's single thread.
CliStep ==
    \/ Parse \/ Dispatch \/ ResolvePrepare \/ Connect \/ Fallback \/ ResolveDirect
    \/ Send \/ AfterSend \/ Receive \/ Disconnect \/ Decode

Next == CliStep \/ ServiceReply \/ ServiceClose

\* No fairness: the CLI blocks in connect() while a silent service's
\* accept queue is full (line 377) and in recv() until the service answers
\* or closes (line 446), and nothing in this repository makes it do either.
Spec == Init /\ [][Next]_vars

-----------------------------------------------------------------------------
TypeOK ==
    /\ pc \in {"parse", "dispatch", "prepare", "connect", "fallback", "send",
               "sent", "recv", "disconnect", "decode", "done", "killed"}
    /\ sigpipeIgnored \in BOOLEAN
    /\ cmd.ok \in BOOLEAN
    /\ cmd.args \in [Fields -> ArgTokens \cup {"s", NoArg}]
    /\ sock \in {-1, ServiceFd} /\ fdOpen \in BOOLEAN
    /\ (sock = ServiceFd) = fdOpen
    /\ peer \in {"none", "open", "replied", "closed"}
    /\ sendRet \in {0, -1} /\ recvRet \in {0, -1}
    /\ response \in {"none", "received"}
    /\ result \in {-1, 0, 1}
    /\ reads \subseteq Fields

\* Every command that reached the service closes service_socket before
\* handle_cli_command returns: the descriptor is closed and the global is
\* back at -1, so a later connect_to_service opens a fresh connection
\* rather than reusing a dead one (the early return at line 356).
ServiceSocketReleased ==
    pc = "done" => sock = -1 /\ ~fdOpen

\* No handler dereferences a field of cli_command_t that parse_cli_args
\* left NULL for the command it parsed.
HandlerReadsParsedFields ==
    \A f \in reads : cmd.args[f] # NoArg
=============================================================================
