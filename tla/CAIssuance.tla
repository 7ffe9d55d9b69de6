------------------------------ MODULE CAIssuance ------------------------------
(***************************************************************************)
(* One certificate authority context (ca_context_t) of                     *)
(* src/src/certificate_authority.c, shared by concurrent callers of        *)
(* handle_cert_request, together with the file ca.cert it is created from  *)
(* or loaded from, across restarts of the process.                        *)
(*                                                                         *)
(* init_certificate_authority creates and saves a root when ca.cert is     *)
(* absent and loads it otherwise.  handle_cert_request holds ca->lock      *)
(* while it fills in a certificate from the root's serial, lets            *)
(* sign_certificate advance that serial, and grows ca->issued with         *)
(* realloc.  A restart ends the process at any point; ca.cert survives.    *)
(* The certificates handed to callers are kept in the history variable    *)
(* handed, tagged with the incarnation (epoch) that issued them.           *)
(***************************************************************************)
EXTENDS CertificateAuthority, FiniteSets
LOCAL INSTANCE SequencesExt

CONSTANTS
    Callers,      \* threads that call handle_cert_request on this CA
    NoCaller,     \* lock owner when ca->lock is free
    HostName,     \* net_ctx->hostname of this process
    Mode,         \* net_ctx->mode of this process
    PriorModes,   \* modes of earlier runs that may have left a ca.cert
    Faults,       \* failures the environment may inject, a subset of
                  \* {"malloc", "realloc", "torn"}
    MaxTime,      \* bound on the abstract clock
    MaxIssues,    \* bound on requests served per incarnation
    MaxRestarts   \* bound on restarts of the process

ASSUME /\ HostName \in Hosts /\ Mode \in Modes /\ PriorModes \subseteq Modes
       /\ NoCaller \notin Callers
       /\ Faults \subseteq {"malloc", "realloc", "torn"}

VARIABLES
    fileState,  \* ca.cert: "absent", "torn" (truncated, not written), "written"
    fileCert,   \* what save_certificate wrote, when fileState = "written"
    phase,      \* the in-memory CA: "down", "saving" (root made, save open), "up"
    root,       \* *ca->ca_cert
    issued,     \* serials of ca->issued[0 .. issued_count-1]
    lockOwner,  \* holder of ca->lock
    pc,         \* where each caller is inside handle_cert_request
    pending,    \* the certificate a caller is building (new_cert)
    served,     \* requests begun in this incarnation (bounded)
    now,        \* the clock
    epoch,      \* incarnation of the process
    handed,     \* history: certificates returned to callers
    saved       \* history: roots save_certificate completed

vars == <<fileState, fileCert, phase, root, issued, lockOwner, pc, pending,
          served, now, epoch, handed, saved>>

Times == 0..MaxTime
PriorFiles == {Persisted(NewRoot(m, h, 0)) : m \in PriorModes, h \in Hosts}
\* A torn ca.cert is read field by field without checking fread: every
\* field keeps what the uninitialised allocation held.
GarbageRoots == Certs(Times)

\* Value of a certificate slot that holds nothing (a freed or unused pointer).
NoCert == NewRoot(Mode, HostName, 0)

-----------------------------------------------------------------------------
Init ==
    /\ \/ fileState = "absent" /\ fileCert = NewRoot(Mode, HostName, 0)
       \/ fileState = "written" /\ fileCert \in PriorFiles
    /\ phase = "down"
    /\ root = NoCert
    /\ issued = <<>>
    /\ lockOwner = NoCaller
    /\ pc = [c \in Callers |-> "idle"]
    /\ pending = [c \in Callers |-> NoCert]
    /\ served = 0
    /\ now = 0
    /\ epoch = 0
    /\ handed = {}
    /\ saved = IF fileState = "written" THEN {fileCert} ELSE {}

\* init_certificate_authority when access("ca.cert") fails: the root is
\* built and fopen("ca.cert", "wb") creates the file empty (lines 16-46,
\* 111).  A failed fopen ends the process; Restart covers that.
CreateRoot ==
    /\ phase = "down" /\ fileState = "absent"
    /\ root' = NewRoot(Mode, HostName, now)
    /\ fileState' = "torn"
    /\ phase' = "saving"
    /\ UNCHANGED <<fileCert, issued, lockOwner, pc, pending, served, now, epoch,
                   handed, saved>>

\* save_certificate writes the fields and closes the file (lines 115-131).
SaveRoot ==
    /\ phase = "saving"
    /\ fileState' = "written"
    /\ fileCert' = Persisted(root)
    /\ saved' = saved \cup {Persisted(root)}
    /\ phase' = "up"
    /\ UNCHANGED <<root, issued, lockOwner, pc, pending, served, now, epoch,
                   handed>>

\* init_certificate_authority when ca.cert exists: load_certificate
\* (lines 51-58, 135-171).  A torn file yields garbage fields.
LoadRoot ==
    /\ phase = "down" /\ fileState # "absent"
    /\ root' \in IF fileState = "written" THEN Loaded(fileCert) ELSE GarbageRoots
    /\ phase' = "up"
    /\ UNCHANGED <<fileState, fileCert, issued, lockOwner, pc, pending, served,
                   now, epoch, handed, saved>>

\* Mutant: the request proceeds without taking ca->lock.
AcquireUnlocked(c) ==
    /\ phase = "up" /\ pc[c] = "idle" /\ served < MaxIssues
    /\ lockOwner' = c
    /\ pc' = [pc EXCEPT ![c] = "alloc"]
    /\ served' = served + 1
    /\ UNCHANGED <<fileState, fileCert, phase, root, issued, pending, now,
                   epoch, handed, saved>>

\* handle_cert_request: pthread_mutex_lock (line 67).
Acquire(c) ==
    /\ phase = "up" /\ pc[c] = "idle" /\ served < MaxIssues
    /\ lockOwner = NoCaller
    /\ lockOwner' = c
    /\ pc' = [pc EXCEPT ![c] = "alloc"]
    /\ served' = served + 1
    /\ UNCHANGED <<fileState, fileCert, phase, root, issued, pending, now,
                   epoch, handed, saved>>

\* Mutant: the malloc failure path returns without unlocking.
AllocFailKeepsLock(c) ==
    /\ pc[c] = "alloc" /\ "malloc" \in Faults
    /\ pc' = [pc EXCEPT ![c] = "idle"]
    /\ UNCHANGED <<fileState, fileCert, phase, root, issued, lockOwner, pending,
                   served, now, epoch, handed, saved>>

\* malloc of the certificate fails: unlock and return -1 (lines 69-73).
AllocFail(c) ==
    /\ pc[c] = "alloc" /\ "malloc" \in Faults
    /\ lockOwner' = NoCaller
    /\ pc' = [pc EXCEPT ![c] = "idle"]
    /\ UNCHANGED <<fileState, fileCert, phase, root, issued, pending, served,
                   now, epoch, handed, saved>>

\* The certificate is filled in from the root (lines 75-84).
Alloc(c) ==
    /\ pc[c] = "alloc"
    /\ \E h \in Hosts : pending' = [pending EXCEPT ![c] = NewCert(root, h, now)]
    /\ pc' = [pc EXCEPT ![c] = "sign"]
    /\ UNCHANGED <<fileState, fileCert, phase, root, issued, lockOwner, served,
                   now, epoch, handed, saved>>

\* sign_certificate always returns 0 (lines 86-91, 190-198).
Sign(c) ==
    /\ pc[c] = "sign"
    /\ root' = SignedRoot(root)
    /\ pc' = [pc EXCEPT ![c] = "append"]
    /\ UNCHANGED <<fileState, fileCert, phase, issued, lockOwner, pending,
                   served, now, epoch, handed, saved>>

\* realloc fails: its NULL result overwrites ca->issued while
\* issued_count is kept, the certificate is freed, the lock released
\* (lines 94-99).
AppendIssuedFail(c) ==
    /\ pc[c] = "append" /\ "realloc" \in Faults
    /\ issued' = [i \in DOMAIN issued |-> Lost]
    /\ lockOwner' = NoCaller
    /\ pc' = [pc EXCEPT ![c] = "idle"]
    /\ pending' = [pending EXCEPT ![c] = NoCert]
    /\ UNCHANGED <<fileState, fileCert, phase, root, served, now,
                   epoch, handed, saved>>

\* The certificate is recorded, the lock released and the certificate
\* returned to the caller (lines 101-104).
AppendIssued(c) ==
    /\ pc[c] = "append"
    /\ issued' = Append(issued, pending[c].serial)
    /\ handed' = handed \cup {[cert |-> pending[c], epoch |-> epoch,
                               rootCreated |-> root.created]}
    /\ lockOwner' = NoCaller
    /\ pc' = [pc EXCEPT ![c] = "idle"]
    /\ pending' = [pending EXCEPT ![c] = NoCert]
    /\ UNCHANGED <<fileState, fileCert, phase, root, served, now,
                   epoch, saved>>

\* The process ends (signal, failed start-up, crash) and is started again;
\* only ca.cert survives.  Ending it between fopen and the writes leaves a
\* truncated file, which only the "torn" fault allows.
Restart ==
    /\ phase # "down" /\ epoch < MaxRestarts
    /\ phase = "saving" => "torn" \in Faults
    /\ phase' = "down"
    /\ issued' = <<>>
    /\ lockOwner' = NoCaller
    /\ pc' = [c \in Callers |-> "idle"]
    /\ pending' = [c \in Callers |-> NoCert]
    /\ root' = NoCert
    /\ served' = 0
    /\ epoch' = epoch + 1
    /\ UNCHANGED <<fileState, fileCert, now, handed, saved>>

Tick ==
    /\ now < MaxTime
    /\ now' = now + 1
    /\ UNCHANGED <<fileState, fileCert, phase, root, issued, lockOwner, pc,
                   pending, served, epoch, handed, saved>>

Step(c) == AllocFail(c) \/ Alloc(c) \/ Sign(c) \/ AppendIssuedFail(c) \/ AppendIssued(c)

Next ==
    \/ CreateRoot \/ SaveRoot \/ LoadRoot \/ Restart \/ Tick
    \/ \E c \in Callers : Acquire(c) \/ Step(c)

\* Each caller is a thread that keeps running once inside the function;
\* nothing obliges anyone to call it, to restart, or the clock to move.
Fairness == /\ WF_vars(SaveRoot)
            /\ \A c \in Callers : WF_vars(Step(c))

Spec == Init /\ [][Next]_vars /\ Fairness

-----------------------------------------------------------------------------
\* Concurrent requests to one CA never record the same serial twice: the
\* read of the root's serial (line 79) and its increment in
\* sign_certificate (line 195) are separated, and only ca->lock keeps a
\* second caller from reading the serial in between.
LedgerSerialsUnique ==
    \A i, j \in DOMAIN issued :
        i # j /\ issued[i] # Lost => issued[i] # issued[j]

\* Every unexpired certificate handle_cert_request returned in this
\* incarnation passes verify_certificate of the CA that issued it
\* (verify(issue(h)) succeeds).
HandedCertVerifies ==
    phase = "up" =>
        \A h \in handed :
            h.epoch = epoch /\ now <= h.cert.expires
                => VerifyResult(h.cert, root, issued, now) = "ok"

\* ca->lock, once taken by handle_cert_request, is released again on every
\* path out of the function.
LockReleased == lockOwner # NoCaller ~> lockOwner = NoCaller

\* The ledger of a running CA only grows: no entry that was recorded is
\* dropped or overwritten, whatever request fails afterwards.
IssuedNeverPruned ==
    [][phase = "up" /\ phase' = "up" => IsPrefix(issued, issued')]_vars

\* No two certificates handed out under the same root (same issuer and
\* root creation time), in any incarnation, carry the same serial.
SerialNeverReused ==
    \A a, b \in handed :
        /\ a # b
        /\ a.cert.issuer = b.cert.issuer
        /\ a.rootCreated = b.rootCreated
        => a.cert.serial # b.cert.serial

\* A running CA's root is one that save_certificate completely wrote.
RootIsGenuine ==
    phase = "up" => RootIdentity(root) \in {RootIdentity(s) : s \in saved}
\* The certificates signed but not yet stored: sign_certificate has
\* advanced the root's serial, the append to ca->issued is still to come.
SignedPending ==
    SetToSeq({pending[c].serial : c \in {d \in Callers : pc[d] = "append"}})

\* The CA seen as the abstract ledger: the root's serial is the counter,
\* and a signed certificate counts as issued.
Ledger == INSTANCE CALedger WITH
              up <- phase # "down",
              counter <- root.serial,
              ledger <- issued \o SignedPending

\* handle_cert_request implements atomic issuance: read serial, sign and
\* append, spread over several steps and callers, behave as one Issue of
\* the abstract ledger, and a failed request changes nothing.
LedgerRefined == Ledger!Spec
=============================================================================
