---------------------------- MODULE ApplyChange -----------------------------
(***************************************************************************)
(* The choke point between the JSON stores and the running dnsmasq         *)
(* (dnsmaqmgr/dnsmasq.py, apply_change), step by step: the web server's    *)
(* threads take STORE_LOCK, snapshot, mutate, render, validate, and then   *)
(* either restore the snapshot or write the rendered files, bump the       *)
(* serials and record the change; the daemon is reloaded or restarted only *)
(* after the lock is released.  Between any two steps another thread may   *)
(* run, dnsmasq may die, the app may be killed, and a disk write may raise.*)
(*                                                                         *)
(* A store is its content and its serial, saved together by one atomic     *)
(* file replace.  What a configuration renders to, what `dnsmasq --test`   *)
(* accepts and what dnsmasq manages to start with are parameters: the      *)
(* --test run sees only the conf fragments, so the last two differ.        *)
(***************************************************************************)
EXTENDS Naturals, FiniteSets

CONSTANTS
  Threads, NoThread,
  Stores, Content,
  Files, HupOnly,     \* rendered files; those dnsmasq re-reads on SIGHUP
  Text, Absent,       \* what a file may hold; Absent: there is no such file
  Render(_),          \* [Stores -> Content] to [Files -> Text \cup {Absent}]
  Accepts(_),         \* dnsmasq --test passes on these rendered files
  Starts(_),          \* dnsmasq comes up on these rendered files
  Defaults,           \* the content of the stores on first boot
  Requests,           \* what routes ask apply_change for, see Request
  Mirrored,           \* the stores build_payload sends with their serial
  Unlisted,           \* the stores record() ignores when nothing was rendered
  Supervise,          \* TRUE: dnsmasq is a supervised child (Docker)
  FaultKinds,         \* the faults that may happen: "crash", "abort"
  MaxFaults,          \* bound: faults in a behaviour
  MaxSerial           \* bound: no change starts once a serial reaches it

NoWrites == [s \in {} |-> Absent]
NoRequest == [set |-> NoWrites, bumps |-> {}, force |-> FALSE]
\* POST /api/dnsmasq/apply: re-render everything and restart.
ForceApply == [set |-> NoWrites, bumps |-> {}, force |-> TRUE]

\* A route's call: what its mutate() saves, and the stores its sections name.
Request == [set : UNION {[S -> Content] : S \in SUBSET Stores},
            bumps : SUBSET Stores, force : {FALSE}]

Rendering == [Files -> Text \cup {Absent}]
Contents == [Stores -> Content]
Serials == [Stores -> Nat]

ASSUME ThreadAssumption == NoThread \notin Threads
ASSUME RenderAssumption ==
  /\ \A c \in Contents : /\ Render(c) \in Rendering
                         /\ \A f \in HupOnly : Render(c)[f] # Absent
  /\ HupOnly \subseteq Files /\ Absent \notin Text
  /\ \A r \in Rendering : Accepts(r) \in BOOLEAN /\ Starts(r) \in BOOLEAN
ASSUME RequestAssumption ==
  /\ Requests \subseteq Request
  /\ Mirrored \subseteq Stores
  \* every route that writes a mirrored store names its section
  /\ \A r \in Requests : DOMAIN r.set \cap Mirrored \subseteq r.bumps
ASSUME DefaultsAssumption ==
  Defaults \in Contents /\ Accepts(Render(Defaults)) /\ Starts(Render(Defaults))
ASSUME BoundAssumption ==
  /\ MaxSerial \in Nat /\ MaxFaults \in Nat
  /\ FaultKinds \subseteq {"crash", "abort"} /\ Supervise \in BOOLEAN

VARIABLES
  content, serial,   \* the JSON stores on disk
  conf,              \* the rendered files on disk
  lock,              \* the thread inside STORE_LOCK, or NoThread
  pc, req, snap,     \* per thread: where it is, its call, its snapshot
  saves, writes,     \* per thread: stores and files it has yet to write
  act,               \* per thread: the service action it owes
  logged,            \* the stores in the newest changelog entry, or Absent
  up, running,       \* dnsmasq: alive, and the files it has loaded
  alive,             \* the app is running
  faults,            \* how many faults have happened
  torn,              \* history: an apply died half-way and none has healed it
  missed,            \* history: a failed apply left files dnsmasq has not been
                     \* started on since
  seen               \* history: the <<store, serial, content>> peers were sent

disk   == <<content, serial, conf>>
locals == <<pc, req, snap, saves, writes, act>>
daemon == <<up, running, missed>>
hist   == <<alive, faults, torn>>
vars   == <<disk, lock, locals, logged, daemon, hist, seen>>

NoSnap == Absent
Snapshot == [content : Contents, serial : Serials]
Steps == {"idle", "mutate", "restore", "write", "bump", "service"}
InLock == {"mutate", "restore", "write", "bump"}

Init ==
  /\ content = Defaults /\ serial = [s \in Stores |-> 0]
  /\ conf = Render(Defaults)
  /\ lock = NoThread
  /\ pc = [t \in Threads |-> "idle"]
  /\ req = [t \in Threads |-> NoRequest]
  /\ snap = [t \in Threads |-> NoSnap]
  /\ saves = [t \in Threads |-> {}]
  /\ writes = [t \in Threads |-> {}]
  /\ act = [t \in Threads |-> "none"]
  /\ logged = Absent
  /\ up = TRUE /\ running = conf
  /\ alive = TRUE /\ faults = 0 /\ torn = FALSE /\ missed = FALSE
  /\ seen = {}

-----------------------------------------------------------------------------
(* The steps of a thread                                                   *)

\* Locals at rest: what a thread remembers once it is out of the lock.
Forget(t) ==
  /\ req' = [req EXCEPT ![t] = NoRequest]
  /\ snap' = [snap EXCEPT ![t] = NoSnap]
  /\ saves' = [saves EXCEPT ![t] = {}]
  /\ writes' = [writes EXCEPT ![t] = {}]

Goto(t, step) == pc' = [pc EXCEPT ![t] = step]

\* with STORE_LOCK: snapshot every store, then enter mutate().
Acquire(t, r) ==
  /\ alive /\ pc[t] = "idle" /\ lock = NoThread
  /\ \A s \in Stores : serial[s] < MaxSerial
  /\ lock' = t
  /\ Goto(t, "mutate")
  /\ req' = [req EXCEPT ![t] = r]
  /\ snap' = [snap EXCEPT ![t] = [content |-> content, serial |-> serial]]
  /\ saves' = [saves EXCEPT ![t] = DOMAIN r.set]
  /\ UNCHANGED <<disk, writes, act, logged, daemon, hist, seen>>

\* mutate() saves one of its stores; the serial in it is the one it loaded.
SaveStore(t, s) ==
  /\ pc[t] = "mutate" /\ s \in saves[t]
  /\ content' = [content EXCEPT ![s] = req[t].set[s]]
  /\ saves' = [saves EXCEPT ![t] = @ \ {s}]
  /\ UNCHANGED <<serial, conf, lock, pc, req, snap, writes, act, logged,
                 daemon, hist, seen>>

Rendered == Render(content)
Changed == {f \in Files : Rendered[f] # Absent /\ conf[f] # Rendered[f]}

\* A mutant: one SIGHUP-refreshable file among the changes is enough.
DiffRenderAnyHup(changed) ==
  IF changed = {} THEN "none"
  ELSE IF changed \cap HupOnly # {} THEN "reload" ELSE "restart"

\* diff_render: nothing, only SIGHUP-refreshable files, or anything else.
DiffRender(changed) ==
  IF changed = {} THEN "none"
  ELSE IF changed \subseteq HupOnly THEN "reload" ELSE "restart"

\* A mutant: the temp render is never tested.
ValidateOkUntested(t) ==
  /\ pc[t] = "mutate" /\ saves[t] = {}
  /\ Goto(t, "write")
  /\ writes' = [writes EXCEPT ![t] = {f \in Files : Rendered[f] # Absent}]
  /\ act' = [act EXCEPT ![t] = IF req[t].force THEN "restart"
                               ELSE DiffRender(Changed)]
  /\ UNCHANGED <<disk, lock, req, snap, saves, logged, daemon, hist, seen>>

\* validate_render accepts: classify the change and start writing the files.
ValidateOk(t) ==
  /\ pc[t] = "mutate" /\ saves[t] = {}
  /\ Accepts(Rendered)
  /\ Goto(t, "write")
  /\ writes' = [writes EXCEPT ![t] = {f \in Files : Rendered[f] # Absent}]
  /\ act' = [act EXCEPT ![t] = IF req[t].force THEN "restart"
                               ELSE DiffRender(Changed)]
  /\ UNCHANGED <<disk, lock, req, snap, saves, logged, daemon, hist, seen>>

\* A mutant: only the stores of the sections the caller named.
RestoredStoresNamed(t) == req[t].bumps

\* The stores a rejected change puts back: all of them, not only its own.
RestoredStores(t) == Stores

\* validate_render rejects: put every snapshot back, one store at a time.
ValidateRejected(t) ==
  /\ pc[t] = "mutate" /\ saves[t] = {} /\ ~req[t].force
  /\ ~Accepts(Rendered)
  /\ Goto(t, "restore")
  /\ saves' = [saves EXCEPT ![t] = RestoredStores(t)]
  /\ UNCHANGED <<disk, lock, req, snap, writes, act, logged, daemon, hist, seen>>

RestoreStore(t, s) ==
  /\ pc[t] = "restore" /\ s \in saves[t]
  /\ content' = [content EXCEPT ![s] = snap[t].content[s]]
  /\ serial' = [serial EXCEPT ![s] = snap[t].serial[s]]
  /\ saves' = [saves EXCEPT ![t] = @ \ {s}]
  /\ UNCHANGED <<conf, lock, pc, req, snap, writes, act, logged, daemon, hist, seen>>

\* The 400 answer, out of the lock: after the last restore, or at once for a
\* forced re-render, which has changed nothing.
ReturnRejected(t) ==
  /\ saves[t] = {}
  /\ \/ pc[t] = "restore"
     \/ pc[t] = "mutate" /\ req[t].force /\ ~Accepts(Rendered)
  /\ Goto(t, "idle") /\ lock' = NoThread /\ Forget(t)
  /\ UNCHANGED <<disk, act, logged, daemon, hist, seen>>

\* write_render: one atomic file replace.
WriteFile(t, f) ==
  /\ pc[t] = "write" /\ f \in writes[t]
  /\ conf' = [conf EXCEPT ![f] = Rendered[f]]
  /\ writes' = [writes EXCEPT ![t] = @ \ {f}]
  /\ UNCHANGED <<content, serial, lock, pc, req, snap, saves, act, logged,
                 daemon, hist, seen>>

Strays == {f \in Files : Rendered[f] = Absent /\ conf[f] # Absent}
\* A mutant: the pruned files do not count as a change.
PrunedActionIgnored(a) == a

\* A removed file is invisible to diff_render: it always forces a restart.
PrunedAction(a) == IF Strays # {} THEN "restart" ELSE a

\* prune_blocklist_confs: remove the files the configuration no longer has.
Prune(t) ==
  /\ pc[t] = "write" /\ writes[t] = {}
  /\ conf' = [f \in Files |-> IF f \in Strays THEN Absent ELSE conf[f]]
  /\ torn' = FALSE
  /\ act' = [act EXCEPT ![t] = PrunedAction(@)]
  /\ IF req[t].force
     THEN Goto(t, "service") /\ lock' = NoThread /\ Forget(t)
     ELSE /\ Goto(t, "bump")
          /\ saves' = [saves EXCEPT ![t] = req[t].bumps]
          /\ UNCHANGED <<lock, req, snap, writes>>
  /\ UNCHANGED <<content, serial, logged, daemon, alive, faults, seen>>

\* A mutant: the serial is counted in memory and not saved.
BumpSerialLost(t, s) ==
  /\ pc[t] = "bump" /\ s \in saves[t]
  /\ saves' = [saves EXCEPT ![t] = @ \ {s}]
  /\ UNCHANGED <<disk, lock, pc, req, snap, writes, act, logged,
                 daemon, hist, seen>>
\* A mutant: the serial is counted down.
BumpSerialDown(t, s) ==
  /\ pc[t] = "bump" /\ s \in saves[t]
  /\ serial' = [serial EXCEPT ![s] = @ - 1]
  /\ saves' = [saves EXCEPT ![t] = @ \ {s}]
  /\ UNCHANGED <<content, conf, lock, pc, req, snap, writes, act, logged,
                 daemon, hist, seen>>

\* The serials of the stores the sections name move, one save each.
BumpSerial(t, s) ==
  /\ pc[t] = "bump" /\ s \in saves[t]
  /\ serial' = [serial EXCEPT ![s] = @ + 1]
  /\ saves' = [saves EXCEPT ![t] = @ \ {s}]
  /\ UNCHANGED <<content, conf, lock, pc, req, snap, writes, act, logged,
                 daemon, hist, seen>>
\* A mutant: whatever rendered nothing is skipped.
IsNoiseUnrendered(t) == act[t] = "none"

\* changelog.record skips what rendered nothing and changed no listed store.
IsNoise(t) ==
  /\ act[t] = "none"
  /\ \A s \in Stores \ Unlisted : content[s] = snap[t].content[s]

\* changelog.record, then leave the with-block with a service action to do.
Record(t) ==
  /\ pc[t] = "bump" /\ saves[t] = {}
  /\ logged' = IF IsNoise(t) THEN logged ELSE content
  /\ Goto(t, "service") /\ lock' = NoThread /\ Forget(t)
  /\ UNCHANGED <<disk, act, daemon, hist, seen>>

-----------------------------------------------------------------------------
(* The daemon                                                              *)

StartDaemon ==
  IF Starts(conf) THEN up' = TRUE /\ running' = conf /\ missed' = FALSE
                  ELSE up' = FALSE /\ UNCHANGED <<running, missed>>

\* ctl.reload(): SIGHUP re-reads the host files; a dead child is started, an
\* inactive unit is not.
Hup ==
  IF up THEN /\ UNCHANGED <<up, missed>>
             /\ running' = [f \in Files |-> IF f \in HupOnly THEN conf[f]
                                                             ELSE running[f]]
  ELSE IF Supervise THEN StartDaemon ELSE UNCHANGED daemon

Service(t) ==
  /\ pc[t] = "service"
  /\ CASE act[t] = "restart" -> StartDaemon
       [] act[t] = "reload"  -> Hup
       [] act[t] = "none"    -> UNCHANGED daemon
  /\ act' = [act EXCEPT ![t] = "none"]
  /\ Goto(t, "idle")
  /\ UNCHANGED <<disk, lock, req, snap, saves, writes, logged, hist, seen>>

\* The restart and cache-flush buttons: a service action and nothing else.
ServiceRoute(t, a) ==
  /\ alive /\ pc[t] = "idle"
  /\ act' = [act EXCEPT ![t] = a]
  /\ Goto(t, "service")
  /\ UNCHANGED <<disk, lock, req, snap, saves, writes, logged, daemon, hist, seen>>

DaemonDies ==
  /\ up /\ up' = FALSE
  /\ UNCHANGED <<disk, lock, locals, logged, running, missed, hist, seen>>

\* The supervisor's watcher starts the dead child again.
Respawn ==
  /\ Supervise /\ alive /\ ~up
  /\ Starts(conf) /\ StartDaemon
  /\ UNCHANGED <<disk, lock, locals, logged, hist, seen>>

-----------------------------------------------------------------------------
(* The peers, and the faults                                               *)

\* peers.build_payload: one consistent snapshot of the stores, under the lock.
BuildPayload ==
  /\ alive /\ lock = NoThread
  /\ seen' = seen \cup {<<s, serial[s], content[s]>> : s \in Mirrored}
  /\ UNCHANGED <<disk, lock, locals, logged, daemon, hist>>

\* A disk write raises (full disk): the with-block is left as it stands, with
\* nothing restored and no service action.
Abort(t) ==
  /\ "abort" \in FaultKinds /\ faults < MaxFaults
  /\ \/ pc[t] \in {"mutate", "restore", "bump"} /\ saves[t] # {}
     \/ pc[t] = "write" /\ writes[t] # {}
  /\ Goto(t, "idle") /\ lock' = NoThread /\ Forget(t)
  /\ act' = [act EXCEPT ![t] = "none"]
  /\ torn' = TRUE /\ faults' = faults + 1
  /\ missed' = (missed \/ pc[t] \in {"write", "bump"})
  /\ UNCHANGED <<disk, logged, up, running, alive, seen>>

\* The app is killed; a supervised dnsmasq dies with it, a systemd unit lives.
Crash ==
  /\ "crash" \in FaultKinds /\ faults < MaxFaults /\ alive
  /\ alive' = FALSE
  /\ lock' = NoThread
  /\ pc' = [t \in Threads |-> "idle"]
  /\ req' = [t \in Threads |-> NoRequest]
  /\ snap' = [t \in Threads |-> NoSnap]
  /\ saves' = [t \in Threads |-> {}]
  /\ writes' = [t \in Threads |-> {}]
  /\ act' = [t \in Threads |-> "none"]
  /\ torn' = (torn \/ lock # NoThread) /\ faults' = faults + 1
  /\ up' = (up /\ ~Supervise)
  /\ UNCHANGED <<disk, logged, running, missed, seen>>

\* ensure_render: only files that are missing are written, strays are pruned.
BootRender ==
  [f \in Files |-> IF Rendered[f] = Absent THEN Absent
                   ELSE IF conf[f] = Absent THEN Rendered[f] ELSE conf[f]]

\* A mutant: the child is started before the missing files are rendered.
BootFilesUnrendered == conf

\* What the child is started on: the boot order of app.py renders first.
BootFiles == BootRender

Boot ==
  /\ ~alive /\ alive' = TRUE
  /\ conf' = BootRender
  /\ IF Supervise /\ Starts(BootFiles)
     THEN up' = TRUE /\ running' = BootFiles /\ missed' = FALSE
     ELSE UNCHANGED daemon
  /\ UNCHANGED <<content, serial, lock, locals, logged, faults, torn, seen>>

-----------------------------------------------------------------------------

\* What a thread does on its own once it has a request.
Step(t) ==
  \/ \E s \in Stores : SaveStore(t, s) \/ RestoreStore(t, s) \/ BumpSerial(t, s)
  \/ \E f \in Files : WriteFile(t, f)
  \/ ValidateOk(t) \/ ValidateRejected(t) \/ ReturnRejected(t)
  \/ Prune(t) \/ Record(t) \/ Service(t)

Ask(t) ==
  \/ \E r \in Requests \cup {ForceApply} : Acquire(t, r)
  \/ \E a \in {"reload", "restart"} : ServiceRoute(t, a)

Next ==
  \/ \E t \in Threads : Step(t) \/ Ask(t) \/ Abort(t)
  \/ BuildPayload \/ DaemonDies \/ Respawn \/ Crash \/ Boot

Spec == Init /\ [][Next]_vars

\* A thread inside apply_change never waits on anyone, so it goes on.
FairSpec == Spec /\ \A t \in Threads : WF_vars(Step(t))

-----------------------------------------------------------------------------
(* Properties                                                              *)

TypeOK ==
  /\ content \in Contents /\ serial \in Serials /\ conf \in Rendering
  /\ lock \in Threads \cup {NoThread}
  /\ pc \in [Threads -> Steps]
  /\ req \in [Threads -> Requests \cup {NoRequest, ForceApply}]
  /\ snap \in [Threads -> Snapshot \cup {NoSnap}]
  /\ saves \in [Threads -> SUBSET Stores]
  /\ writes \in [Threads -> SUBSET Files]
  /\ act \in [Threads -> {"none", "reload", "restart"}]
  /\ logged \in Contents \cup {Absent}
  /\ up \in BOOLEAN /\ running \in Rendering
  /\ alive \in BOOLEAN /\ faults \in 0..MaxFaults
  /\ torn \in BOOLEAN /\ missed \in BOOLEAN
  /\ seen \subseteq Stores \X Nat \X Content

\* Whoever takes STORE_LOCK finds the files on disk to be exactly what the
\* stores render to, and dnsmasq accepts them: a rejected change has left
\* nothing behind, in its own stores or in another thread's.  After a fault
\* half-way, the next change that goes through makes it true again.
LockFreeConsistent ==
  lock = NoThread /\ ~torn => conf = Render(content) /\ Accepts(conf)

\* Two payloads that carry the same serial for a store carry the same content:
\* a receiver that compares serials cannot mistake one version for another.
SerialIdentifiesContent ==
  \A a, b \in seen : a[1] = b[1] /\ a[2] = b[2] => a[3] = b[3]

\* When every thread has finished, a living dnsmasq runs the files on disk:
\* reloads and restarts are done outside the lock and in any order, and a
\* daemon that died may have been started on a half-written set.  An apply that
\* raised half-way owes it nothing until dnsmasq is next started.
IdleMeansCurrent ==
  (\A t \in Threads : pc[t] = "idle") /\ up /\ ~missed => running = conf

\* Once there is a history, its newest entry holds the stores as they are.
ChangelogCurrent ==
  lock = NoThread /\ logged # Absent =>
    \A s \in Stores \ Unlisted : logged[s] = content[s]

\* The same of every store: what README says of the changelog.
EveryChangeRecorded ==
  lock = NoThread /\ logged # Absent => logged = content

\* A file dnsmasq has not loaded is loaded before long, unless dnsmasq dies.
DriftRepaired ==
  \A f \in Files : (up /\ running[f] # conf[f]) ~> (running[f] = conf[f] \/ ~up)

-----------------------------------------------------------------------------
(* The register the pipeline implements                                    *)

\* The committed stores: the snapshot while a thread is inside the lock.
Committed == IF lock = NoThread THEN [content |-> content, serial |-> serial]
                                ELSE snap[lock]
LegalContent(c) == Accepts(Render(c))

Register == INSTANCE ConfigRegister WITH
  Legal <- LegalContent, config <- Committed.content, version <- Committed.serial

\* Seen through the lock, the pipeline is one register that changes atomically.
RefinesRegister == Register!Spec

Starting ==
  up' /\ (~up \/ \E t \in Threads : act[t] = "restart" /\ Service(t))

\* Whenever dnsmasq is started, the files it reads are the rendering of one
\* configuration: the one before a change or the one after it.
StartsOnOneRender ==
  [][Starting => running' \in {Render(content), Render(Committed.content)}]_vars
=============================================================================
