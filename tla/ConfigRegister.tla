--------------------------- MODULE ConfigRegister ---------------------------
(***************************************************************************)
(* What the apply pipeline promises to everything built on top of it: the  *)
(* configuration is one register.  An accepted change replaces it in one   *)
(* step, a rejected one leaves it alone, what it holds always passes       *)
(* `dnsmasq --test`, and the part that is mirrored to peers never changes  *)
(* without its serial moving.  Threads, files and the lock are not here:   *)
(* ApplyChange.tla shows how the code delivers this.                       *)
(***************************************************************************)
EXTENDS Naturals

CONSTANTS
  Stores,     \* the names of the JSON stores
  Content,    \* what one store may hold, its serial aside
  Mirrored,   \* the stores whose content is pushed to peers under a serial
  Legal(_)    \* the configurations dnsmasq accepts

VARIABLES
  config,     \* the committed content of every store
  version     \* the committed serial of every store

Init ==
  /\ config \in [Stores -> Content]
  /\ Legal(config)
  /\ version = [s \in Stores |-> 0]

\* One accepted change: any stores at once, all or nothing.
Commit ==
  \E new \in [Stores -> Content], bumped \in SUBSET Stores :
    /\ Legal(new)
    /\ \A s \in Mirrored : new[s] # config[s] => s \in bumped
    /\ config' = new
    /\ version' = [s \in Stores |-> IF s \in bumped THEN version[s] + 1
                                                    ELSE version[s]]

Spec == Init /\ [][Commit]_<<config, version>>
=============================================================================
