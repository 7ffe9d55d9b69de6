------------------------------- MODULE StoqNode -------------------------------
(***************************************************************************)
(* A node process: main() of src/src/main.c, init_node and cleanup_node   *)
(* of src/src/stoq_node.c, and the two polling threads with the            *)
(* transport set-up they call (init_stoq_server, init_stoq_client,         *)
(* stoq_client_connect, the process_events functions).                     *)
(*                                                                         *)
(* Main creates or loads ca.cert, starts the server thread and the client  *)
(* thread, sleeps until a signal clears global_running, then runs          *)
(* cleanup_node.  Each thread builds its own CA context from ca.cert,      *)
(* obtains a certificate, creates its ngtcp2 connection and UDP socket,    *)
(* and polls while node->running.  A failure on a set-up path clears       *)
(* node->running.  The transport (ngtcp2 and the peer) is the environment: *)
(* a received datagram may complete the handshake.  File descriptors are   *)
(* numbered as POSIX allocates them (lowest free number first), so a       *)
(* descriptor closed by one thread can be reused by the other.             *)
(***************************************************************************)
EXTENDS CertificateAuthority, FiniteSets

CONSTANTS
    HostName,      \* net_ctx->hostname (--hostname)
    ServerAddr,    \* net_ctx->server (--server); "" is the empty string
    Mode,          \* net_ctx->mode (--mode)
    PriorModes,    \* modes of earlier runs that may have left a ca.cert
    FDs,           \* descriptor numbers free for sockets (0-2 are stdio)
    MainFaults,    \* subset of {"ca_init", "node_alloc", "server_thread",
                   \*            "client_thread"}
    ServerFaults,  \* subset of {"ca_init", "cert_req", "keys_alloc", "rand",
                   \*            "conn_new", "socket", "bind"}
    ClientFaults   \* subset of {"ca_init", "cert_req", "conn_new", "socket",
                   \*            "connect", "send"}

ASSUME /\ HostName \in Hosts /\ Mode \in Modes /\ PriorModes \subseteq Modes
       /\ FDs \subseteq Nat \ {0, 1, 2}
       /\ MainFaults \subseteq {"ca_init", "node_alloc", "server_thread",
                                "client_thread"}
       /\ ServerFaults \subseteq {"ca_init", "cert_req", "keys_alloc", "rand",
                                  "conn_new", "socket", "bind"}
       /\ ClientFaults \subseteq {"ca_init", "cert_req", "conn_new", "socket",
                                  "connect", "send"}

Roles == {"server", "client"}

VARIABLES
    mainPc,         \* where main() is
    globalRunning,  \* global_running, cleared by the signal handler
    running,        \* node->running
    threadPc,       \* where each polling thread is
    conn,           \* each role's ngtcp2_conn: "none", "live", "leaked", "deleted"
    cfgConn,        \* the role's config->conn is non-NULL
    sock,           \* the role's config->sock: 0 (zeroed), -1, or a descriptor
    localSock,      \* the local sock of init_stoq_client before it is stored
    fdOwner,        \* which role's socket each descriptor is, or "free"
    hs,             \* ngtcp2_conn_get_handshake_completed for the role's conn
    connected,      \* node->server_connected / node->client_connected
    fileState,      \* ca.cert: "absent" or "written"
    fileCert,       \* its contents
    certs,          \* history: certificates the threads obtained
    crashed         \* the process died of a NULL dereference

vars == <<mainPc, globalRunning, running, threadPc, conn, cfgConn, sock,
          localSock, fdOwner, hs, connected, fileState, fileCert, certs, crashed>>

\* client_thread_func only connects out in private or federated mode to a
\* non-empty server other than itself (stoq_node.c lines 109-113).
ClientConnects ==
    Mode \in {"federated", "private"} /\ ServerAddr # "" /\ ServerAddr # HostName

\* socket() returns the lowest free descriptor.
LowestFreeFd == CHOOSE fd \in FDs :
                    fdOwner[fd] = "free" /\ \A g \in FDs : fdOwner[g] = "free" => fd <= g
HasFreeFd == \E fd \in FDs : fdOwner[fd] = "free"

-----------------------------------------------------------------------------
Init ==
    /\ mainPc = "init_ca"
    /\ globalRunning = TRUE
    /\ running = FALSE
    /\ threadPc = [r \in Roles |-> "none"]
    /\ conn = [r \in Roles |-> "none"]
    /\ cfgConn = [r \in Roles |-> FALSE]
    /\ sock = [r \in Roles |-> 0]
    /\ localSock = 0
    /\ fdOwner = [fd \in FDs |-> "free"]
    /\ hs = [r \in Roles |-> FALSE]
    /\ connected = [r \in Roles |-> FALSE]
    /\ \/ fileState = "absent" /\ fileCert = Persisted(NewRoot(Mode, HostName, 0))
       \/ fileState = "written"
          /\ fileCert \in {Persisted(NewRoot(m, h, 0)) : m \in PriorModes, h \in Hosts}
    /\ certs = {}
    /\ crashed = FALSE

\* The signal handler (main.c lines 18-22).
Signal ==
    /\ globalRunning
    /\ globalRunning' = FALSE
    /\ UNCHANGED <<mainPc, running, threadPc, conn, cfgConn, sock, localSock,
                   fdOwner, hs, connected, fileState, fileCert, certs, crashed>>

\* main: init_certificate_authority creates and saves the root when
\* ca.cert is absent; on failure main returns 1 (main.c lines 103-107).
MainInitCA ==
    /\ mainPc = "init_ca"
    /\ \/ /\ "ca_init" \in MainFaults
          /\ mainPc' = "exited"
          /\ UNCHANGED <<fileState, fileCert>>
       \/ /\ mainPc' = "init_node"
          /\ fileState' = "written"
          /\ fileCert' = IF fileState = "absent"
                         THEN Persisted(NewRoot(Mode, HostName, 0)) ELSE fileCert
    /\ UNCHANGED <<globalRunning, running, threadPc, conn, cfgConn, sock,
                   localSock, fdOwner, hs, connected, certs, crashed>>

\* init_node: allocate the node, set running, start the server thread
\* (stoq_node.c lines 12-50); any failure makes main return 1.
MainStartServer ==
    /\ mainPc = "init_node"
    /\ \/ /\ MainFaults \cap {"node_alloc", "server_thread"} # {}
          /\ mainPc' = "exited"
          /\ UNCHANGED <<running, threadPc>>
       \/ /\ mainPc' = "start_client"
          /\ running' = TRUE
          /\ threadPc' = [threadPc EXCEPT !["server"] = "init"]
    /\ UNCHANGED <<globalRunning, conn, cfgConn, sock, localSock, fdOwner, hs,
                   connected, fileState, fileCert, certs, crashed>>

\* init_node starts the client thread; if that fails it clears running and
\* joins the server thread before returning 1 (lines 52-66).
MainStartClient ==
    /\ mainPc = "start_client"
    /\ \/ /\ "client_thread" \in MainFaults
          /\ running' = FALSE
          /\ mainPc' = "join_failed"
          /\ UNCHANGED threadPc
       \/ /\ mainPc' = "wait"
          /\ threadPc' = [threadPc EXCEPT !["client"] = "start"]
          /\ UNCHANGED running
    /\ UNCHANGED <<globalRunning, conn, cfgConn, sock, localSock, fdOwner, hs,
                   connected, fileState, fileCert, certs, crashed>>

MainJoinFailed ==
    /\ mainPc = "join_failed" /\ threadPc["server"] = "exited"
    /\ mainPc' = "exited"
    /\ UNCHANGED <<globalRunning, running, threadPc, conn, cfgConn, sock,
                   localSock, fdOwner, hs, connected, fileState, fileCert, certs, crashed>>

\* main sleeps until global_running is cleared (main.c lines 120-125).
MainWait ==
    /\ mainPc = "wait" /\ ~globalRunning
    /\ mainPc' = "cleanup"
    /\ UNCHANGED <<globalRunning, running, threadPc, conn, cfgConn, sock,
                   localSock, fdOwner, hs, connected, fileState, fileCert, certs, crashed>>

\* Mutant: cleanup_node joins the threads without clearing running first.
CleanupSignalNoStop ==
    /\ mainPc = "cleanup"
    /\ mainPc' = "join_server"
    /\ UNCHANGED <<globalRunning, running, threadPc, conn, cfgConn, sock, localSock,
                   fdOwner, hs, connected, fileState, fileCert, certs, crashed>>

\* cleanup_node signals the threads (stoq_node.c line 163).
CleanupSignal ==
    /\ mainPc = "cleanup"
    /\ running' = FALSE
    /\ mainPc' = "join_server"
    /\ UNCHANGED <<globalRunning, threadPc, conn, cfgConn, sock, localSock,
                   fdOwner, hs, connected, fileState, fileCert, certs, crashed>>

\* pthread_join of the server, then of the client thread (lines 166-167).
CleanupJoin ==
    /\ \/ mainPc = "join_server" /\ threadPc["server"] = "exited"
          /\ mainPc' = "join_client"
       \/ mainPc = "join_client" /\ threadPc["client"] = "exited"
          /\ mainPc' = "release"
    /\ UNCHANGED <<globalRunning, running, threadPc, conn, cfgConn, sock,
                   localSock, fdOwner, hs, connected, fileState, fileCert, certs, crashed>>

\* Mutant: cleanup_node releases only the server's connection and socket.
ReleaseServerOnly ==
    /\ mainPc = "release"
    /\ conn' = [conn EXCEPT !["server"] = IF cfgConn["server"] THEN "deleted" ELSE @]
    /\ fdOwner' = [fd \in FDs |-> IF sock["server"] = fd THEN "free" ELSE fdOwner[fd]]
    /\ mainPc' = "done"
    /\ UNCHANGED <<globalRunning, running, threadPc, cfgConn, sock, localSock,
                   hs, connected, fileState, fileCert, certs, crashed>>

\* cleanup_node deletes each non-NULL connection and closes each config
\* socket above 0, then frees the node (lines 169-185).
Release ==
    /\ mainPc = "release"
    /\ conn' = [r \in Roles |-> IF cfgConn[r] THEN "deleted" ELSE conn[r]]
    /\ fdOwner' = [fd \in FDs |->
                      IF \E r \in Roles : sock[r] = fd THEN "free" ELSE fdOwner[fd]]
    /\ mainPc' = "done"
    /\ UNCHANGED <<globalRunning, running, threadPc, cfgConn, sock, localSock,
                   hs, connected, fileState, fileCert, certs, crashed>>

-----------------------------------------------------------------------------
(* The threads' set-up.  A set-up failure returns -1 to the thread          *)
(* function, which clears node->running and returns.                       *)

\* Leave the thread function after a failed set-up step.
SetupFailed(r) ==
    /\ running' = FALSE
    /\ threadPc' = [threadPc EXCEPT ![r] = "exited"]

\* init_stoq_server up to the connection (stoq_server.c lines 57-131):
\* its own CA context loaded from ca.cert, a certificate for the
\* hostname, a copy of the keys, random connection IDs, the server
\* connection stored in config->conn.
ServerSetup ==
    /\ threadPc["server"] = "init"
    /\ \/ /\ ServerFaults \cap {"ca_init", "cert_req", "keys_alloc", "rand",
                             "conn_new"} # {}
          /\ SetupFailed("server")
          /\ UNCHANGED <<conn, cfgConn, certs>>
       \/ /\ \E root \in Loaded(fileCert) :
                certs' = certs \cup {[role |-> "server",
                                      cert |-> NewCert(root, HostName, 0)]}
          /\ conn' = [conn EXCEPT !["server"] = "live"]
          /\ cfgConn' = [cfgConn EXCEPT !["server"] = TRUE]
          /\ threadPc' = [threadPc EXCEPT !["server"] = "socket"]
          /\ UNCHANGED running
    /\ UNCHANGED <<mainPc, globalRunning, sock, localSock, fdOwner, hs,
                   connected, fileState, fileCert, crashed>>

\* socket() into config->sock, made non-blocking (stoq_server.c lines 133-142).
ServerSocket ==
    /\ threadPc["server"] = "socket"
    /\ \/ /\ "socket" \in ServerFaults \/ ~HasFreeFd
          /\ sock' = [sock EXCEPT !["server"] = -1]
          /\ SetupFailed("server")
          /\ UNCHANGED fdOwner
       \/ /\ HasFreeFd
          /\ sock' = [sock EXCEPT !["server"] = LowestFreeFd]
          /\ fdOwner' = [fdOwner EXCEPT ![LowestFreeFd] = "server"]
          /\ threadPc' = [threadPc EXCEPT !["server"] = "bind"]
          /\ UNCHANGED running
    /\ UNCHANGED <<mainPc, globalRunning, conn, cfgConn, localSock, hs,
                   connected, fileState, fileCert, certs, crashed>>

\* bind(); on failure the socket is closed but config->sock keeps the
\* number (stoq_server.c lines 144-158).
ServerBind ==
    /\ threadPc["server"] = "bind"
    /\ \/ /\ "bind" \in ServerFaults
          /\ fdOwner' = [fdOwner EXCEPT ![sock["server"]] = "free"]
          /\ SetupFailed("server")
       \/ /\ threadPc' = [threadPc EXCEPT !["server"] = "loop"]
          /\ UNCHANGED <<running, fdOwner>>
    /\ UNCHANGED <<mainPc, globalRunning, conn, cfgConn, sock, localSock, hs,
                   connected, fileState, fileCert, certs, crashed>>

\* client_thread_func decides whether to connect out (stoq_node.c lines
\* 104-136); when it does not, it goes straight to the polling loop with
\* the zeroed client config.
ClientStart ==
    /\ threadPc["client"] = "start"
    /\ threadPc' = [threadPc EXCEPT !["client"] =
                        IF ClientConnects THEN "init" ELSE "loop"]
    /\ UNCHANGED <<mainPc, globalRunning, running, conn, cfgConn, sock, localSock,
                   fdOwner, hs, connected, fileState, fileCert, certs, crashed>>

\* init_stoq_client up to the connection (stoq_client.c lines 30-90): the
\* config is zeroed, a CA context is loaded from ca.cert, a certificate
\* obtained, and the connection created in a local variable.
ClientSetup ==
    /\ threadPc["client"] = "init"
    /\ \/ /\ ClientFaults \cap {"ca_init", "cert_req", "conn_new"} # {}
          /\ SetupFailed("client")
          /\ UNCHANGED <<conn, certs>>
       \/ /\ \E root \in Loaded(fileCert) :
                certs' = certs \cup {[role |-> "client",
                                      cert |-> NewCert(root, HostName, 0)]}
          /\ conn' = [conn EXCEPT !["client"] = "live"]
          /\ threadPc' = [threadPc EXCEPT !["client"] = "socket"]
          /\ UNCHANGED running
    /\ UNCHANGED <<mainPc, globalRunning, cfgConn, sock, localSock, fdOwner, hs,
                   connected, fileState, fileCert, crashed>>

\* Mutant: the result of socket() is not checked for -1.
ClientSocketUnchecked ==
    /\ threadPc["client"] = "socket"
    /\ localSock' = IF "socket" \in ClientFaults \/ ~HasFreeFd THEN -1 ELSE LowestFreeFd
    /\ fdOwner' = IF localSock' = -1 THEN fdOwner ELSE [fdOwner EXCEPT ![localSock'] = "client"]
    /\ threadPc' = [threadPc EXCEPT !["client"] = "connect"]
    /\ UNCHANGED <<mainPc, globalRunning, running, conn, cfgConn, sock, hs,
                   connected, fileState, fileCert, certs, crashed>>

\* socket() into the local sock; on failure the connection is lost with
\* the local variable (lines 92-101).
ClientSocket ==
    /\ threadPc["client"] = "socket"
    /\ \/ /\ "socket" \in ClientFaults \/ ~HasFreeFd
          /\ conn' = [conn EXCEPT !["client"] = "leaked"]
          /\ SetupFailed("client")
          /\ UNCHANGED <<localSock, fdOwner>>
       \/ /\ HasFreeFd
          /\ localSock' = LowestFreeFd
          /\ fdOwner' = [fdOwner EXCEPT ![LowestFreeFd] = "client"]
          /\ threadPc' = [threadPc EXCEPT !["client"] = "connect"]
          /\ UNCHANGED <<running, conn>>
    /\ UNCHANGED <<mainPc, globalRunning, cfgConn, sock, hs, connected,
                   fileState, fileCert, certs, crashed>>

\* connect() to the server; on failure the socket is closed and the
\* connection lost; on success conn, sock and the certificate are stored
\* in the config (lines 103-127).
ClientConnect ==
    /\ threadPc["client"] = "connect"
    /\ \/ /\ "connect" \in ClientFaults
          /\ fdOwner' = [fdOwner EXCEPT ![localSock] = "free"]
          /\ conn' = [conn EXCEPT !["client"] = "leaked"]
          /\ SetupFailed("client")
          /\ UNCHANGED <<cfgConn, sock>>
       \/ /\ cfgConn' = [cfgConn EXCEPT !["client"] = TRUE]
          /\ sock' = [sock EXCEPT !["client"] = localSock]
          /\ threadPc' = [threadPc EXCEPT !["client"] = "send"]
          /\ UNCHANGED <<running, fdOwner, conn>>
    /\ UNCHANGED <<mainPc, globalRunning, localSock, hs, connected, fileState,
                   fileCert, certs, crashed>>

\* stoq_client_connect sends the initial packet; a failed sendto returns
\* -1 (stoq_client.c lines 130-165, stoq_node.c lines 128-132).
ClientSendInitial ==
    /\ threadPc["client"] = "send"
    /\ \/ /\ "send" \in ClientFaults
          /\ SetupFailed("client")
       \/ /\ threadPc' = [threadPc EXCEPT !["client"] = "loop"]
          /\ UNCHANGED running
    /\ UNCHANGED <<mainPc, globalRunning, conn, cfgConn, sock, localSock, fdOwner,
                   hs, connected, fileState, fileCert, certs, crashed>>

-----------------------------------------------------------------------------
(* The polling loop, the same in both thread functions.                    *)

\* One call of stoq_server_process_events or stoq_client_process_events
\* (stoq_server.c 161-205, stoq_client.c 167-211): a non-blocking recvfrom,
\* and for a datagram ngtcp2_conn_read_pkt and write_pkt/sendto, which may
\* complete the handshake.  A client that never connected polls its
\* zero-initialised config->sock, descriptor 0, which is not a socket, so
\* nothing is read and ngtcp2 is not called.  The result is the set of
\* handshake states the call may leave.
ProcessEvents(r) ==
    IF cfgConn[r] THEN {hs, [hs EXCEPT ![r] = TRUE]} ELSE {hs}

\* The while (node->running) test and one call of process_events (stoq_node.c
\* lines 82-87 and 138-143), which never returns a negative value for a
\* non-NULL config.
Poll(r) ==
    /\ threadPc[r] = "loop"
    /\ \/ /\ ~running
          /\ threadPc' = [threadPc EXCEPT ![r] = "exited"]
          /\ UNCHANGED hs
       \/ /\ running
          /\ threadPc' = [threadPc EXCEPT ![r] = "check"]
          /\ hs' \in ProcessEvents(r)
    /\ UNCHANGED <<mainPc, globalRunning, running, conn, cfgConn, sock, localSock,
                   fdOwner, connected, fileState, fileCert, certs, crashed>>

\* ngtcp2_conn_get_handshake_completed(config->conn) and the one-time
\* latch of the connected flag, then usleep (lines 89-97, 145-153).  With
\* a NULL connection the call dereferences NULL and the process dies.
CheckHandshake(r) ==
    /\ threadPc[r] = "check"
    /\ crashed' = ~cfgConn[r]
    /\ connected' = IF cfgConn[r] /\ hs[r] THEN [connected EXCEPT ![r] = TRUE]
                                           ELSE connected
    /\ threadPc' = IF cfgConn[r] THEN [threadPc EXCEPT ![r] = "loop"] ELSE threadPc
    /\ UNCHANGED <<mainPc, globalRunning, running, conn, cfgConn, sock, localSock,
                   fdOwner, hs, fileState, fileCert, certs>>

-----------------------------------------------------------------------------
MainStep ==
    \/ MainInitCA \/ MainStartServer \/ MainStartClient \/ MainJoinFailed
    \/ MainWait \/ CleanupSignal \/ CleanupJoin \/ Release

ThreadStep(r) ==
    \/ r = "server" /\ (ServerSetup \/ ServerSocket \/ ServerBind)
    \/ r = "client" /\ (ClientStart \/ ClientSetup \/ ClientSocket
                        \/ ClientConnect \/ ClientSendInitial)
    \/ Poll(r) \/ CheckHandshake(r)

\* Once the process has died nothing moves.
Next ==
    /\ ~crashed
    /\ \/ MainStep \/ Signal
       \/ \E r \in Roles : ThreadStep(r)

\* Main and both threads are OS threads the scheduler keeps running; the
\* signal is up to the user and gets no fairness.
Fairness == WF_vars(MainStep) /\ \A r \in Roles : WF_vars(ThreadStep(r))

Spec == Init /\ [][Next]_vars /\ Fairness

-----------------------------------------------------------------------------
ThreadPcs == {"none", "init", "start", "socket", "bind", "connect", "send",
              "loop", "check", "exited"}
MainPcs == {"init_ca", "init_node", "start_client", "join_failed", "wait",
            "cleanup", "join_server", "join_client", "release", "done", "exited"}

TypeOK ==
    /\ mainPc \in MainPcs
    /\ threadPc \in [Roles -> ThreadPcs]
    /\ conn \in [Roles -> {"none", "live", "leaked", "deleted"}]
    /\ cfgConn \in [Roles -> BOOLEAN]
    /\ sock \in [Roles -> {-1, 0} \cup FDs]
    /\ localSock \in {0} \cup FDs
    /\ fdOwner \in [FDs -> {"free"} \cup Roles]
    /\ hs \in [Roles -> BOOLEAN] /\ connected \in [Roles -> BOOLEAN]
    /\ running \in BOOLEAN /\ globalRunning \in BOOLEAN /\ crashed \in BOOLEAN

\* When cleanup_node has run, every socket the threads opened is closed,
\* whichever set-up steps failed and whichever descriptor numbers were
\* reused on the way.
SocketsClosedAfterCleanup ==
    mainPc = "done" => \A fd \in FDs : fdOwner[fd] = "free"

\* When cleanup_node has run, every connection the threads created has been
\* deleted, whichever set-up steps failed.
ConnsDeletedAfterCleanup ==
    mainPc = "done" => \A r \in Roles : conn[r] \in {"none", "deleted"}

\* When cleanup_node closes the sockets, each config names a socket of its
\* own role: no descriptor is closed twice or on behalf of the other thread.
ConfigSocketsOwned ==
    mainPc = "release" => \A r \in Roles : sock[r] > 0 => fdOwner[sock[r]] = r

\* The process never dies in the polling loop (ngtcp2 is never handed a
\* NULL connection).
NoNullConnPoll == ~crashed

\* The server's and the client's certificates carry different serials.
NodeCertSerialsDistinct ==
    \A a, b \in certs : a.role # b.role => a.cert.serial # b.cert.serial

\* After the signal, main finishes: cleanup_node's joins return and the
\* process exits.
ShutdownCompletes == ~globalRunning ~> mainPc \in {"done", "exited"}

=============================================================================
