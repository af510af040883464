--------------------------- MODULE MCApplyChange ----------------------------
(***************************************************************************)
(* A small instance of ApplyChange for TLC.  Two stores stand for the six: *)
(* "dhcp", mirrored to peers, and "blocklists", which is not.  A store     *)
(* holds two bits, or the value 4, a record kept but rendered nowhere:     *)
(*   dhcp        bit 0: a duplicated static lease, in the dhcp-hosts file  *)
(*               that --test never reads and SIGHUP re-reads; bit 1: a     *)
(*               range, in the conf fragment 20-dhcp.conf                  *)
(*   blocklists  bit 0: something about a disabled list, rendered nowhere; *)
(*               bit 1: an enabled list, with a conf file of its own       *)
(* --test rejects the range together with the list (any conflict between   *)
(* two fragments would do); dnsmasq does not start on the duplicate.       *)
(***************************************************************************)
EXTENDS ApplyChange

MCStores == {"dhcp", "blocklists"}
MCContent == 0..4
MCFiles == {"dhcp-hosts", "20-dhcp.conf", "50-block.conf"}
MCHupOnly == {"dhcp-hosts"}
MCText == {0, 1}

MCRender(c) ==
  [f \in MCFiles |->
     CASE f = "dhcp-hosts"    -> c["dhcp"] % 2
       [] f = "20-dhcp.conf"  -> (c["dhcp"] \div 2) % 2
       [] f = "50-block.conf" -> IF (c["blocklists"] \div 2) % 2 = 1 THEN 1 ELSE Absent]

MCAccepts(r) == ~(r["20-dhcp.conf"] = 1 /\ r["50-block.conf"] = 1)
MCStarts(r) == r["dhcp-hosts"] # 1
MCDefaults == [s \in MCStores |-> 0]

\* The routes: a DHCP edit, a blocklist edit, and a write of both stores that
\* names only the mirrored sections (rollback, restore).
Edit(s, v) == [set |-> [x \in {s} |-> v], bumps |-> {s}, force |-> FALSE]
Both(d, b) == [set |-> [x \in MCStores |-> IF x = "dhcp" THEN d ELSE b],
               bumps |-> {"dhcp"}, force |-> FALSE]

MCRequests ==
  {Edit("dhcp", v) : v \in MCContent} \cup
  {Edit("blocklists", v) : v \in {0, 1, 2}} \cup
  {Both(3, 0), Both(0, 2), Both(2, 2)}
=============================================================================
