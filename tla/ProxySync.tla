------------------------------ MODULE ProxySync ------------------------------
(***************************************************************************)
(* The encrypted upstream (dnsmaqmgr/encdns.py): a store says whether      *)
(* dnscrypt-proxy is to run and with which configuration, and sync_proxy   *)
(* makes the supervised child agree with it.  It reads the store without   *)
(* a lock, then compares, writes, stops, starts or restarts in steps.      *)
(* It runs at boot and after every apply of every section; saving the      *)
(* settings brings the proxy up on the new configuration first, and syncs  *)
(* again when dnsmasq rejects the change.                                  *)
(*                                                                         *)
(* The child controller is Supervisor.tla, one call of which is several    *)
(* steps.  An apply has dnsmasq judge the store it has already saved, and  *)
(* puts the old one back when that is rejected: STORE_LOCK keeps other     *)
(* applies out meanwhile, but not a sync.                                  *)
(* The binary is installed; what has been written is kept by number, as    *)
(* the controller's processes remember which one they loaded.              *)
(***************************************************************************)
EXTENDS Supervisor

CONSTANTS
  Configs,      \* the proxy configurations an operator may choose
  Off,          \* the proxy is not to run (not enabled)
  NoConfig,     \* no proxy configuration was ever written
  MaxRequests   \* bound: requests in a behaviour

ASSUME ConfigAssumption == Off \notin Configs /\ NoConfig \notin Configs \cup {Off}
ASSUME RequestAssumption == MaxRequests \in Nat

VARIABLES
  store,        \* the encdns store
  kept,         \* the store before the apply under way, if one is: its snapshot
  texts,        \* the proxy's configuration file, as of each time it was written
  at,           \* per thread: where it is in a save, an apply or a sync
  saving,       \* per thread: what it is to save, or NoConfig for another section
  reverts,      \* per thread: its request is encdns_save, which syncs if rejected
  seen,         \* per thread: the store as its sync has read it
  changed,      \* per thread: its sync has rewritten the configuration file
  misled,       \* history: a sync read or acted on a store that is not the one in
                \* force, and none has read that one since
  requests      \* how many requests there have been

child    == vars
mine     == <<saving, reverts, seen, changed>>
stores   == <<store, kept>>
syncVars == <<child, stores, texts, at, mine, misled, requests>>

Choices == Configs \cup {Off}
Text == texts[written]

\* The app boots with any store and an old file, and one thread syncs.
SyncInit ==
  /\ Init
  /\ store \in Choices /\ kept = store
  /\ \E old \in Configs \cup {NoConfig} : texts = [n \in 0..MaxWrites |-> old]
  /\ \E boot \in Threads : at = [t \in Threads |-> IF t = boot THEN "sync" ELSE "idle"]
  /\ saving = [t \in Threads |-> NoConfig] /\ reverts = [t \in Threads |-> FALSE]
  /\ seen = [t \in Threads |-> Off]
  /\ changed = [t \in Threads |-> FALSE] /\ misled = FALSE /\ requests = 0

GoOn(t, step) == at' = [at EXCEPT ![t] = step]

-----------------------------------------------------------------------------
(* Requests                                                                *)

\* The server accepts requests when the boot's sync is over.
Admit(t) ==
  /\ at[t] = "idle" /\ requests < MaxRequests /\ requests' = requests + 1
  /\ requests = 0 => \A u \in Threads : at[u] = "idle"

\* encdns_save, with settings the proxy's own check accepts.
Save(t, choice) ==
  /\ Admit(t)
  /\ saving' = [saving EXCEPT ![t] = choice]
  /\ reverts' = [reverts EXCEPT ![t] = TRUE]
  /\ GoOn(t, IF choice = Off THEN "apply" ELSE "write")
  /\ UNCHANGED <<child, stores, texts, seen, changed, misled>>

\* Any other apply: a rollback or a restore with an encdns store of its own, or a
\* change of another section.
OtherApply(t, choice) ==
  /\ Admit(t) /\ GoOn(t, "apply")
  /\ saving' = [saving EXCEPT ![t] = choice]
  /\ UNCHANGED <<child, stores, texts, reverts, seen, changed, misled>>

\* write_text_atomic of the configuration file.
WriteText(choice) ==
  /\ WriteConfig
  /\ texts' = [n \in 0..MaxWrites |-> IF n > written THEN choice ELSE texts[n]]

WriteNew(t) ==
  /\ at[t] = "write" /\ WriteText(saving[t]) /\ GoOn(t, "bring up")
  /\ UNCHANGED <<stores, mine, misled, requests>>

\* The save looks whether the proxy runs, and restarts or starts it.
BringUp(t) ==
  /\ at[t] = "bring up" /\ GoOn(t, IF Running THEN "restart" ELSE "start")
  /\ UNCHANGED <<child, stores, texts, mine, misled, requests>>

\* apply_change takes the lock and lets mutate() save the store ...
Mutate(t) ==
  /\ at[t] = "apply" /\ \A u \in Threads : at[u] # "validate"
  /\ store' = IF saving[t] = NoConfig THEN store ELSE saving[t]
  /\ GoOn(t, "validate")
  /\ UNCHANGED <<child, kept, texts, mine, misled, requests>>

Finish(t, step) ==
  /\ at[t] = "validate" /\ GoOn(t, step)
  /\ saving' = [saving EXCEPT ![t] = NoConfig]
  /\ reverts' = [reverts EXCEPT ![t] = FALSE]
  /\ UNCHANGED <<child, texts, seen, changed, misled, requests>>

\* ... then dnsmasq takes the new files, and the apply ends in a sync ...
Accept(t) == Finish(t, "sync") /\ kept' = store /\ UNCHANGED store

\* A mutant: a rejected save does not sync the proxy again.
RejectNoRevert(t) == Finish(t, "idle") /\ store' = kept /\ UNCHANGED kept

\* ... or rejects them: the store is put back, and only a save syncs.
Reject(t) ==
  /\ Finish(t, IF reverts[t] THEN "sync" ELSE "idle")
  /\ store' = kept /\ UNCHANGED kept

-----------------------------------------------------------------------------
(* sync_proxy                                                              *)

\* It takes no lock, so it may read what an apply has saved and will take back.
ReadStore(t) ==
  /\ at[t] = "sync"
  /\ seen' = [seen EXCEPT ![t] = store]
  /\ changed' = [changed EXCEPT ![t] = FALSE]
  /\ GoOn(t, IF store = Off THEN "stop" ELSE "compare")
  /\ misled' = (store # kept)
  /\ UNCHANGED <<child, stores, texts, saving, reverts, requests>>

\* The file is rewritten if it is not the rendering of what was read.
Compare(t) ==
  /\ at[t] = "compare" /\ GoOn(t, "ensure")
  /\ \/ Text # seen[t] /\ WriteText(seen[t]) /\ changed' = [changed EXCEPT ![t] = TRUE]
     \/ Text = seen[t] /\ UNCHANGED <<child, texts, changed>>
  /\ UNCHANGED <<stores, saving, reverts, seen, misled, requests>>

Ensure(t) ==
  /\ at[t] = "ensure"
  /\ GoOn(t, IF ~Running THEN "start" ELSE IF changed[t] THEN "restart" ELSE "idle")
  /\ UNCHANGED <<child, stores, texts, mine, misled, requests>>

-----------------------------------------------------------------------------
(* Calls of the controller                                                 *)

Call(t) ==
  /\ call[t] = "none"
  /\ \/ at[t] = "stop" /\ Interrupt(t, "stop")
     \/ at[t] = "restart" /\ Interrupt(t, "restart")
     \/ at[t] = "start" /\ Enter(t, "start")
  /\ UNCHANGED <<stores, texts, at, mine, misled, requests>>

\* A call goes on.  When it returns, a save applies if the proxy is up and syncs
\* if it is not, and a sync is over.
Controller(t) ==
  /\ Advance(t)
  /\ \/ call'[t] # "none" /\ UNCHANGED <<at, saving, reverts, misled>>
     \/ /\ call'[t] = "none" /\ reverts[t] /\ Running' /\ GoOn(t, "apply")
        /\ UNCHANGED <<saving, reverts, misled>>
     \/ /\ call'[t] = "none" /\ reverts[t] /\ ~Running' /\ GoOn(t, "sync")
        /\ saving' = [saving EXCEPT ![t] = NoConfig]
        /\ reverts' = [reverts EXCEPT ![t] = FALSE]
        /\ UNCHANGED misled
     \/ /\ call'[t] = "none" /\ ~reverts[t] /\ GoOn(t, "idle")
        /\ misled' = (misled \/ kept # seen[t])
        /\ UNCHANGED <<saving, reverts>>
  /\ UNCHANGED <<stores, texts, seen, changed, requests>>

\* The child and its watchers.
ChildAlone ==
  /\ \E p \in 1..MaxSpawns : Watch(p) \/ Dies(p)
  /\ UNCHANGED <<stores, texts, at, mine, misled, requests>>

-----------------------------------------------------------------------------

Proceed(t) ==
  \/ WriteNew(t) \/ BringUp(t)
  \/ Mutate(t) \/ Accept(t) \/ Reject(t)
  \/ ReadStore(t) \/ Compare(t) \/ Ensure(t)
  \/ Call(t) \/ Controller(t)

SyncNext ==
  \/ \E t \in Threads : \/ Proceed(t)
                        \/ \E choice \in Choices : Save(t, choice)
                        \/ \E choice \in Choices \cup {NoConfig} : OtherApply(t, choice)
  \/ ChildAlone

SyncSpec == SyncInit /\ [][SyncNext]_syncVars

-----------------------------------------------------------------------------
(* Properties                                                              *)

SyncTypeOK ==
  /\ store \in Choices /\ kept \in Choices
  /\ texts \in [0..MaxWrites -> Configs \cup {NoConfig}]
  /\ at \in [Threads -> {"idle", "write", "bring up", "apply", "validate", "sync",
                         "compare", "ensure", "start", "restart", "stop"}]
  /\ saving \in [Threads -> Choices \cup {NoConfig}] /\ reverts \in [Threads -> BOOLEAN]
  /\ seen \in [Threads -> Choices]
  /\ changed \in [Threads -> BOOLEAN] /\ misled \in BOOLEAN
  /\ requests \in 0..MaxRequests

\* What the store asks for: the proxy is down and nobody will bring it back, or
\* the file is right, what runs has loaded it, and what has died is watched over.
Agrees ==
  IF store = Off
  THEN ~Running /\ (stopping \/ proc = 0 \/ watcher[proc] = "over")
  ELSE /\ Text = store /\ proc # 0 /\ ~stopping
       /\ IF Running THEN texts[loaded[proc]] = store ELSE watcher[proc] # "over"

\* When nobody is at work the proxy agrees with the store: after saves that cross,
\* applies that dnsmasq rejects and starts that fail.  Two things are excepted, until
\* a sync reads the store in force again: a sync that read a store before dnsmasq had
\* accepted it, and one that acted on a store another request had replaced since.
QuietMeansSynced ==
  (\A t \in Threads : at[t] = "idle") /\ ~misled => Agrees

\* sync_proxy: "Make the running proxy match the store - idempotent, safe to call
\* from any apply path (boot, save, rollback, restore)".  The same, without exception.
AlwaysSynced == (\A t \in Threads : at[t] = "idle") => Agrees
=============================================================================
