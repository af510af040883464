---------------------------- MODULE MCBlocklists ----------------------------
(***************************************************************************)
(* A small instance of Blocklists.                                         *)
(***************************************************************************)
EXTENDS Blocklists
=============================================================================
