------------------------- MODULE CertificateAuthority -------------------------
(***************************************************************************)
(* Certificates and the side-effect-free part of                           *)
(* src/src/certificate_authority.c: how a root and an issued certificate   *)
(* are filled in, what signing does to the root, what the binary file      *)
(* keeps of a certificate and what reading it back yields, and the         *)
(* decision verify_certificate takes.  The modules that own CA state       *)
(* (CAIssuance, StoqNode) build their actions from these operators.        *)
(*                                                                         *)
(* Key material is left out: the code zeroes it (line 27) and signs        *)
(* nothing (line 193), so no decision depends on it.  Time is an abstract  *)
(* clock; RootTTL and IssuedTTL stand for the 365-day and 30-day windows.  *)
(***************************************************************************)
EXTENDS Integers, Sequences
LOCAL INSTANCE FiniteSetsExt

CONSTANTS
    Hosts,       \* hostnames that appear as subject or issuer
    RootTTL,     \* lifetime of the CA's root certificate (365 days)
    IssuedTTL,   \* lifetime of an issued certificate (30 days)
    SerialBits,  \* width of stoq_cert_t.serial (uint64_t), scaled down
    WireBits     \* width of the serial as save_certificate writes it (uint32_t)

ASSUME /\ RootTTL \in Nat /\ IssuedTTL \in Nat
       /\ WireBits \in 1..SerialBits

Modes     == {"private", "federated", "public"}
CertTypes == {"SelfSigned", "Federated", "Public"}
Serials   == 0..(2^SerialBits - 1)

\* Entry of ca->issued that no longer points at a certificate (the array
\* was lost by a failed realloc, or is fresh memory that was never written).
Lost == -1

\* stoq_cert_t without the key material and the federation signatures;
\* created and expires are both time_t, drawn from times.
Certs(times) ==
    [serial: Serials, created: times, expires: times, type: CertTypes,
     subject: Hosts, issuer: Hosts]

\* The type a new root gets from the network mode (lines 37-44).
CertTypeOfMode(mode) ==
    CASE mode = "private"   -> "SelfSigned"
      [] mode = "federated" -> "Federated"
      [] OTHER              -> "Public"

\* init_certificate_authority, no ca.cert yet: the new root (lines 26-44).
NewRoot(mode, host, now) ==
    [serial |-> 1, created |-> now, expires |-> now + RootTTL,
     type |-> CertTypeOfMode(mode), subject |-> host, issuer |-> host]

\* handle_cert_request fills in a fresh certificate (lines 75-84): the
\* serial is read from the root certificate's own serial field.
NewCert(root, host, now) ==
    [serial |-> (root.serial + 1) % 2^SerialBits, created |-> now,
     expires |-> now + IssuedTTL, type |-> root.type,
     subject |-> host, issuer |-> root.subject]

\* sign_certificate only advances the root's serial (lines 190-198).
SignedRoot(root) == [root EXCEPT !.serial = (@ + 1) % 2^SerialBits]

\* save_certificate writes sizeof(uint32_t) bytes of the 64-bit serial, the
\* low half on a little-endian host, and the other fields whole
\* (lines 108-132).
Persisted(cert) == [cert EXCEPT !.serial = @ % 2^WireBits]

\* load_certificate reads those bytes into a malloc'd, uninitialised
\* certificate (lines 135-171): the high bits of serial are whatever the
\* allocator left there, so every value is a possible outcome.
Loaded(file) ==
    { [file EXCEPT !.serial = file.serial + k * 2^WireBits] :
          k \in 0..(2^(SerialBits - WireBits) - 1) }

\* Mutant: the ledger loop stops one entry early (i < issued_count - 1).
LedgerLookupSkipLast(issued, serial) ==
    LET hits == {i \in 1..(Len(issued) - 1) : issued[i] \in {serial, Lost}}
    IN  IF hits = {} THEN "rejected"
        ELSE IF issued[Min(hits)] = Lost THEN "ub" ELSE "ok"

\* The loop of verify_certificate over ca->issued (lines 229-236): it stops
\* at the first entry whose serial matches; an entry that is Lost is read
\* through a dangling or uninitialised pointer first, which is "ub".
LedgerLookup(issued, serial) ==
    LET hits == {i \in DOMAIN issued : issued[i] \in {serial, Lost}}
    IN  IF hits = {} THEN "rejected"
        ELSE IF issued[Min(hits)] = Lost THEN "ub" ELSE "ok"

\* verify_certificate (lines 201-237): expiry, then the self-signed rule,
\* then issuer and ledger membership.
VerifyResult(cert, root, issued, now) ==
    IF now > cert.expires THEN "rejected"
    ELSE IF cert.type = "SelfSigned"
         THEN IF cert.subject = cert.issuer THEN "ok" ELSE "rejected"
    ELSE IF cert.issuer # root.subject THEN "rejected"
    ELSE LedgerLookup(issued, cert.serial)

\* The identity fields of a root, the ones that survive a save and a load.
RootIdentity(root) == [root EXCEPT !.serial = 0]
=============================================================================
