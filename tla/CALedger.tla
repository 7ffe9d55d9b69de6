------------------------------- MODULE CALedger -------------------------------
(***************************************************************************)
(* What an issuing certificate authority promises (spec.md, sections 3     *)
(* and 4.1), with no locks and no intermediate steps: while the CA is up,  *)
(* an issuance is one atomic step that takes the next serial after the    *)
(* counter, records it at the end of the ledger and advances the counter.  *)
(* Starting the CA picks some counter (a loaded root brings its own);      *)
(* stopping it discards the in-memory ledger.                              *)
(***************************************************************************)
EXTENDS Naturals, Sequences

CONSTANT SerialBits   \* width of the serial counter

VARIABLES
    up,       \* a CA context exists
    counter,  \* the serial last assigned
    ledger    \* serials issued by this context, in issuance order

Serials == 0..(2^SerialBits - 1)

Init == ~up /\ counter \in Serials /\ ledger = <<>>

Start ==
    /\ ~up
    /\ up' = TRUE
    /\ counter' \in Serials
    /\ UNCHANGED ledger

Issue ==
    /\ up
    /\ counter' = (counter + 1) % 2^SerialBits
    /\ ledger' = Append(ledger, counter')
    /\ UNCHANGED up

Stop ==
    /\ up
    /\ up' = FALSE
    /\ counter' \in Serials
    /\ ledger' = <<>>

Next == Start \/ Issue \/ Stop

Spec == Init /\ [][Next]_<<up, counter, ledger>>
=============================================================================
