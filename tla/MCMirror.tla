------------------------------ MODULE MCMirror ------------------------------
(***************************************************************************)
(* A small instance of Mirror: the sections "hosts" and "dns" live in the  *)
(* same store, and "dns" also carries the upstreams of the settings store, *)
(* whose serial the DNS and DHCP switches move.                            *)
(***************************************************************************)
EXTENDS Mirror, TLC

MCSections == {"hosts", "dns"}
MCStores == {"dns", "settings"}
MCSectionStore == [sec \in MCSections |-> "dns"]
MCCarriedBy == [sec \in MCSections |-> IF sec = "dns" THEN MCStores ELSE {"dns"}]
MCEdits == {{"hosts"}, MCSections}
MCLocalWrites == {{"hosts"}, MCSections}

\* The push threads are interchangeable.
MCSymmetry == Permutations(Pushes)
=============================================================================
