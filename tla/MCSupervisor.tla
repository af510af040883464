---------------------------- MODULE MCSupervisor ----------------------------
(***************************************************************************)
(* Two threads, three processes and two writes: a restart that overtakes    *)
(* another, a start in the middle of a stop, and a respawn between them.   *)
(***************************************************************************)
EXTENDS Supervisor
=============================================================================
