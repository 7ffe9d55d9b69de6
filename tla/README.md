# TLA+ models of stoq's trust-and-session core

These modules model the certificate authority, the node process and the
command-line client of `src/src/`. They are checked with TLC. Every action names the C lines it
translates, and `PROJECT.json` maps each definition to its lines.

## The system

| Part | Source | What it does |
|---|---|---|
| CertificateAuthority | `certificate_authority.c` | creates or loads the root (`init_certificate_authority`); issues under `ca->lock` (`handle_cert_request`, `sign_certificate`); verifies (`verify_certificate`) |
| CertificateStore | `certificate_authority.c` | `save_certificate` and `load_certificate` for the binary `ca.cert` |
| Node | `stoq_node.c`, `main.c` | main creates the CA, `init_node` starts a server thread and a client thread, a signal clears `global_running`, `cleanup_node` stops, joins and releases |
| Server session | `stoq_server.c` | `init_stoq_server`: its own CA, a certificate, keys, connection IDs, the ngtcp2 server conn, a socket and bind; `stoq_server_process_events` |
| Client session | `stoq_client.c` | `init_stoq_client`: its own CA, a certificate, the client conn, socket and connect; `stoq_client_connect`; `stoq_client_process_events` |
| CLI | `cli_interface.c` | `handle_cli_command`: `parse_cli_args`, then `process_cli_command` runs a command locally, forwards it over the global `service_socket`, or falls back to a stub; not called by `main.c` |
| Utilities | `network_context.c`, `utils.c` | logging and a clock read |

How the parts interact:

- The CA is the only state shared between callers.
- Inside a node, each thread calls `init_certificate_authority` itself. The context that main creates is passed to `init_node` and ignored. The threads therefore share only `ca.cert`, the descriptor table and `node->running`.

## Modules

- **`CertificateAuthority`** holds the pure operators. They are:
  - the certificate record (`Certs`, which also gives the garbage roots a torn file loads, the fields of `stoq_cert_t` in `certificate_authority.h` other than the key material and the federation signatures) and its type (`CertTypes`, `cert_type_t`);
  - the fields of a new root (`NewRoot`) and of an issued certificate (`NewCert`);
  - what signing does to the root (`SignedRoot`);
  - what the file keeps (`Persisted`: the serial cut to `WireBits` bits);
  - what loading returns (`Loaded`: every value of the uninitialised high bits);
  - the ledger loop and the decision of `verify_certificate` (`LedgerLookup`, `VerifyResult`).

  Key material is left out because the code zeroes it and signs nothing.

- **`CAIssuance`** models one CA process with concurrent callers of `handle_cert_request`.
  - State: `ca.cert` (`fileState`, `fileCert`), the root, the ledger (`issued`, a sequence of serials), `ca->lock` (`lockOwner`) and each caller's program counter.
  - Actions, one per block of the function: `Acquire` (lock), `AllocFail` and `Alloc` (malloc and fill), `Sign`, and `AppendIssuedFail` and `AppendIssued` (realloc and store).
  - Start-up actions: `CreateRoot` and `SaveRoot` (`fopen` truncates the file, then the writes follow), and `LoadRoot`.
  - `Restart` ends the process. Only `ca.cert` survives.
  - `Faults` selects the injected failures:
    - `malloc`: `handle_cert_request`'s certificate allocation fails;
    - `realloc`: the ledger `realloc` fails;
    - `torn`: the process dies between `fopen` and the writes.
  - History variables:
    - `handed`: the certificates returned, with their incarnation;
    - `saved`: the roots written to `ca.cert`.

- **`StoqNode`** models one node process.
  - Main: `MainInitCA`, `MainStartServer`, `MainStartClient`, `MainJoinFailed` and `MainWait`, then `cleanup_node` as `CleanupSignal`, `CleanupJoin` and `Release`.
  - The signal handler: `Signal`.
  - The server thread: `ServerSetup`, `ServerSocket` and `ServerBind`.
  - The client thread: `ClientStart`, `ClientSetup`, `ClientSocket`, `ClientConnect` and `ClientSendInitial`.
  - Both threads share one polling loop: `Poll`, then `CheckHandshake`. `ProcessEvents(r)` is one call of `stoq_server_process_events` or `stoq_client_process_events`. A client that never connected polls descriptor 0, which is not a socket, so its call reads nothing.
  - Each set-up failure is a disjunct of its step. Its fault must be in `MainFaults`, `ServerFaults` or `ClientFaults`.
  - Descriptors come from `FDs`, lowest free number first, as `socket()` allocates them. A number closed by one thread can therefore be reused by the other.
  - ngtcp2 and the peer form the environment. A poll may complete the handshake only when the role has a connection. Calling ngtcp2 with a NULL connection sets `crashed`, and nothing moves after that.
- **`CALedger`** is the abstract specification of the CA: while it is up, an issuance is one atomic step that advances the counter and appends the new serial to the ledger; stopping discards the ledger. `CAIssuance` instantiates it with the refinement mapping
  - `up <- phase # "down"`, `counter <- root.serial`,
  - `ledger <- issued \o SignedPending`: a certificate that was signed but not yet appended (the caller is between `sign_certificate` and the `realloc` at line 94) already counts as issued.

  The run `ca_issuance` checks `Ledger!Spec` as the property `LedgerRefined`. It holds because `ca->lock` is held from line 66 through the append; the unlocked mutant breaks it.

- **`CliInterface`** models one invocation of `handle_cli_command`.
  - `ParseCliArgs` is the whole of `parse_cli_args`: the option loop is the recursive operator `Options`, and each command word copies its arguments into the fields `ArgFields` names. A field is a token of argv or `NoArg` (NULL).
  - Actions: `Parse`, `Dispatch` (the switch of `process_cli_command` and the local handlers: `PrintingHandlers` only print and return 0, and the profile commands in `UsesConfig` may return -1; see `LocalResults`), `Connect`, `Fallback` (the stubs and `cmd_status`'s "not running"), `Send`, `AfterSend`, `Receive` and `Disconnect`.
  - `cmd_resolve` has three more steps: `ResolvePrepare` (serialising the query), `ResolveDirect` (the direct network call when no service is listening) and `Decode` (deserialising the response). `response` records whether a response of non-negative length came back.
  - The service is the environment: `ServiceReply` and `ServiceClose`. The config manager, the packet codec and the direct network call are not in this repository. Their results are free choices, and their failures are enabled by `Faults`.
  - `reads` records which fields a handler dereferences.
  - `sigpipeIgnored` is the SIGPIPE disposition that the process inherits. The CLI never sets it, and no caller is in this repository. It is drawn at `Init` from `SigpipeIgnored` and stays fixed. A `send()` on a closed connection returns -1 if the signal is ignored, and otherwise ends the process (`pc = "killed"`).
- **`MCCAIssuance`**, **`MCStoqNode`** and **`MCCliInterface`** give the bounds.

## Runs

The passing runs are:

| run | cfg | checks |
|---|---|---|
| ca_issuance | CAIssuance.cfg | `HandedCertVerifies`: in federated mode, every unexpired certificate returned in this incarnation verifies against its CA; `LedgerRefined`: the concurrent callers implement `CALedger` |
| ca_faults | CAFaults.cfg | Under malloc, realloc and torn-file faults: `LedgerSerialsUnique` (the lock keeps the read at line 79 and the increment at line 195 together), `LockReleased` (every path out of `handle_cert_request` unlocks) |
| node_shutdown | StoqNodeShutdown.cfg | Under every set-up failure: `SocketsClosedAfterCleanup` (after `cleanup_node` no descriptor is open), `ShutdownCompletes` (a signal leads to the process ending, because both joins return; `running` is set to 1 before the threads start and only ever set to 0 afterwards, so the interleavings of its atomic reads and writes are every outcome the build can produce), plus `TypeOK` |
| cli_service | CliInterface.cfg | For every command line of up to four words, under every fault, with SIGPIPE either ignored or at its default: `ServiceSocketReleased` (a command that connected closes the socket and resets `service_socket` before returning), plus `TypeOK`, whose conjunct `(sock = ServiceFd) = fdOpen` catches a failed connect that closes the descriptor without resetting `service_socket` |

The violation runs each check one property. Each records a disagreement
between the code and `spec.md`; see `findings` in `PROJECT.json`.

| run | property | what TLC shows |
|---|---|---|
| ca_ledger_loss | IssuedNeverPruned | a failed realloc replaces the ledger with NULL |
| ca_serial_reuse | SerialNeverReused | the advanced serial is never saved, so a restart reissues serial 2 |
| ca_torn_root | RootIsGenuine | a ca.cert truncated by a crash loads as a garbage root |
| node_no_peer | NoNullConnPoll | with `--server` equal to `--hostname` (the default), the client loop calls ngtcp2 with a NULL conn |
| node_bind_fail | ConfigSocketsOwned | after a failed bind, `config->sock` names a descriptor the client now owns, and cleanup closes it |
| node_client_leak | ConnsDeletedAfterCleanup | a failed `socket()` or `connect()` in `init_stoq_client` leaks the conn |
| node_dup_serial | NodeCertSerialsDistinct | each thread's own CA gives its certificate serial root+1 |
| cli_lookup_fallback | HandlerReadsParsedFields | with no service, the lookup stub prints `param2`, which the parser never set for lookup (it stored the hostname in `param1`) |

Every property of a passing run has a mutant in `PROJECT.json`: a plausible
bug in the mapped code that TLC catches.

## Bounds

- **Serials:** `SerialBits = 4` and `WireBits = 2` keep the truncation and the uninitialised high bits of the C code (64 and 32 bits) at a size TLC can enumerate. `MaxIssues = 2` keeps the serial from wrapping, which the real 64-bit counter never does.
- **Callers:** two callers are enough for a race on the serial and for contention on the lock.
- **Restarts:** one restart is enough to reuse a serial and to load a torn file.
- **Time:** `MaxTime = 2` with `IssuedTTL = 1` reaches a certificate exactly at its expiry and one past it.
- **Command lines:** every argv of up to four words over both `--server` forms, an unknown option `-v`, a plain word and seven command words. This reaches every parser branch for those words: a missing `--server` value, an option-only line, too few arguments, `register-tld` with one and two arguments, and `resolve ... --server x`.
- **Descriptors:** `FDs = {3, 4}` gives one socket to each role. The bind-fault case needs the server's closed number to be the client's next one, and it happens with these values.

## Fairness

- Each caller of `handle_cert_request`, main and both node threads are OS threads that keep running once started. They get weak fairness: `Step(c)`, `MainStep` and `ThreadStep(r)`.
- `SaveRoot` also gets weak fairness. It is the straight-line rest of `init_certificate_authority`.
- Nothing obliges a request, a restart, the clock or the signal to happen, so those get no fairness.
- The CLI gets no fairness. Its single thread blocks in `connect()` while a silent service's accept queue is full (line 377), and in `recv()` until the service answers or closes (line 446). Nothing in this repository makes the service do either. A liveness property for the CLI could only restate those waits as its exceptions, so none is checked.
- `CHECK_DEADLOCK FALSE` is set because the process really stops: after `Release`, on an `exited` path, on a crash, and when the CLI returns. The request count and the restarts are also bounded.

## Not modelled

- **Two callers on one CA in this program.** No CA context in this repository has two callers: each node thread builds its own context and makes one request, and main's context is never used. `ca_issuance` and `ca_faults` therefore check `handle_cert_request` as a component that spec section 5 says both tasks share, not an interleaving this program reaches today.
- **The handshake latch.** `connected` is set and read by its own thread only, directly after the poll (`stoq_node.c` 89-93, 145-150). `CheckHandshake` models it, but no property is stated about it: there is no interleaving to check.
- **`cleanup_node` called twice (spec scenario D).** `main.c` calls it once, so a second call is not a behaviour of this program.
- **The node freed after a failed client-thread start.** At `stoq_node.c:57`, `init_node` frees the node without deleting the server's connection or closing its socket. `main` then returns 1 at once, so the process exits and nothing can observe the leak.
- **The `running` flag.** Each read and write of it is an atomic step, which is what an aligned `volatile int` gives on the build targets. `ShutdownCompletes` covers every interleaving of those accesses.
- **Unit-level disagreements with spec section 8.** These are left to unit tests, not runs:
  - in private mode, a certificate issued to another host is `SelfSigned` with subject ≠ issuer, so `verify_certificate` (line 214) rejects it;
  - the subject is never checked (line 222);
  - a certificate is still accepted at exactly its expiry time (line 206, `now > expires`).
- **CLI observations without a run:**
  - `lookup` and `resolve` overwrite the global `--server` value in `param1` with their hostname (lines 307 and 338), so `--server` has no effect on them;
  - a `send()` to a service that has closed raises SIGPIPE (line 420). `cli_service` covers both dispositions (the killed path included). The harm, a death by signal with no message, is output and process status seen by a caller outside the repository, so no property states it;
  - `recv()` has no timeout (line 446), and `connect()` on the blocking Unix socket waits on a full accept queue (line 377), so a silent service hangs the CLI in either place;
  - a forwarded command returns what its send returned (lines 81, 101, 152), whatever the receive did. That is the code's design, and nothing states a different requirement;
- **The server certificate freed after a failed key allocation.** At `stoq_server.c:81`, `init_stoq_server` frees `server_cert`. `config->cert` and the thread's own `ca->issued` still point at it. Nothing reads either afterwards, because the thread exits and no other code uses that CA context, so no behaviour of this program dereferences them.
- **A short write of `ca.cert`.** `save_certificate` checks neither `fwrite` nor `fclose` (lines 115-130), so a full disk leaves a prefix of the root while init succeeds. This leaves the same torn file state that `ca_torn_root` loads. Adding it as a separate step on top of the issuance history makes `ca_faults` too large to finish in five minutes.
- **Not modelled at all:**
  - output text and logging, including `cmd_help`'s text, the messages of the stubs and the logging callbacks of `stoq_server.c` (lines 1-56; `verify_falcon_cert_callback` is never registered);
  - memory release (`free_certificate`, `free_cli_command`) and `init_cli_interface` / `cleanup_cli_interface`, which no program in this repository calls;
  - `system.h`, a `clock_gettime` shim compiled only on macOS, and `nexus_server.h`, whose structs no source file includes;
  - the ngtcp2 internals, which are the environment;
  - the config manager and the packet codec, which are not in this repository;
  - `add_federation_signature`, which is declared but never defined.
