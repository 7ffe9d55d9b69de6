------------------------------ MODULE MCStoqNode ------------------------------
(* Model-checking instance of StoqNode: two hostnames, two free socket     *)
(* descriptors (one per role), a 4-bit serial of which 2 bits are saved.   *)
EXTENDS StoqNode

MCRootTTL    == 3
MCIssuedTTL  == 1
MCSerialBits == 4
MCWireBits   == 2
MCFDs        == {3, 4}
=============================================================================
