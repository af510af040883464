---------------------------- MODULE MCProxySync ----------------------------
(***************************************************************************)
(* A small instance of ProxySync: two threads and two configurations, each *)
(* alike, so one of each orbit is enough for the safety properties.        *)
(***************************************************************************)
EXTENDS ProxySync, TLC

Alike == Permutations(Threads) \cup Permutations(Configs)
=============================================================================
