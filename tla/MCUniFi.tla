------------------------------ MODULE MCUniFi ------------------------------
(***************************************************************************)
(* A small instance of UniFi: every way the peer can be set up, and of the *)
(* stores there were before, one that a backup holds with a lower serial.  *)
(***************************************************************************)
EXTENDS UniFi, TLC

AnyPeer == [mirror : BOOLEAN, claim : BOOLEAN]
OldStores == {[hosts |-> [n \in Names |-> v], serial |-> 0] : v \in Addresses}
Alike == Permutations(Names) \cup Permutations(Addresses)
=============================================================================
