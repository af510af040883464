----------------------------- MODULE MCAccounts -----------------------------
(***************************************************************************)
(* A small instance of Accounts: the first administrator and one more      *)
(* user, two tokens of an administrator, and two web threads beside the    *)
(* command line.                                                           *)
(***************************************************************************)
EXTENDS Accounts, TLC

MCUsers == {"admin", "bob"}
MCTokens == {"old", "new"}
MCTokenRole == [t \in MCTokens |-> "admin"]
MCWriters == Requests \cup {Main, Cli}
MCPids == {Server, Shell}
MCProcessOf == [w \in MCWriters |-> IF w = Cli THEN Shell ELSE Server]

\* A backup of one administrator, with the one token, and one that is refused.
MCBackups ==
  {[role |-> [u \in MCUsers |-> IF u = "bob" THEN role ELSE "none"], must |-> {},
    token |-> [t \in MCTokens |-> IF t = "old" THEN "unused" ELSE "none"]] : role \in Roles}

\* The web threads are interchangeable.
MCSymmetry == Permutations(Requests)
=============================================================================
