----------------------------- MODULE MCCAIssuance -----------------------------
(* Model-checking instance of CAIssuance: two callers, two hostnames, a     *)
(* 4-bit serial of which save_certificate keeps 2 bits, clock up to 2.     *)
EXTENDS CAIssuance

MCRootTTL    == 3
MCIssuedTTL  == 1
MCSerialBits == 4
MCWireBits   == 2
MCMaxTime    == 2
MCMaxIssues  == 2
MCMaxRestarts == 1
=============================================================================
