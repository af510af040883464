--------------------------- MODULE MCStaticLeases ---------------------------
(***************************************************************************)
(* A small instance of StaticLeases: two MAC addresses, two IP addresses   *)
(* and a name, which is enough for any two records to clash in one of the  *)
(* three and in no other.                                                  *)
(***************************************************************************)
EXTENDS StaticLeases, TLC

Alike == Permutations(Macs) \cup Permutations(Ips) \cup Permutations(Ids)
         \cup Permutations(Requests)
=============================================================================
