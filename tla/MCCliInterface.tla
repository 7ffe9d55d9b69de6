---------------------------- MODULE MCCliInterface ----------------------------
(***************************************************************************)
(* Bounds for CliInterface: every command line of up to four words over a  *)
(* vocabulary with both --server forms, an unknown option, a plain word    *)
(* and the command words whose parsing or fallback differs.                *)
(***************************************************************************)
EXTENDS CliInterface

LOCAL SeqExt == INSTANCE SequencesExt

MCDashTokens == {"--server", "--server=s", "-v"}
MCWords == {"a", "status", "start", "lookup", "register-tld", "resolve",
            "show-profile", "add-profile"}
MCArgvs == SeqExt!BoundedSeq(MCDashTokens \cup MCWords, 4)
=============================================================================
