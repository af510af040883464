----------------------------- MODULE Supervisor -----------------------------
(***************************************************************************)
(* The app as the supervisor of a child process (dnsmaqmgr/dnsmasq.py,     *)
(* ChildController): dnsmasq in Docker, dnscrypt-proxy everywhere.  Web    *)
(* threads restart, reload, start and stop the child with no lock held     *)
(* across the steps of one call; a watcher thread per process respawns its *)
(* process after a pause if it dies on its own.  The controller's lock is  *)
(* held within a step and never between two, so it is not a variable.      *)
(*                                                                         *)
(* A process loads the configuration when it is spawned; the configuration *)
(* is the number of times it has been written.  That Popen itself raises   *)
(* is not modelled.                                                        *)
(***************************************************************************)
EXTENDS Naturals, FiniteSets

CONSTANTS
  Threads,
  MaxSpawns,    \* bound: processes spawned in a behaviour
  MaxWrites     \* bound: configurations written

ASSUME BoundAssumption == MaxSpawns \in Nat \ {0} /\ MaxWrites \in Nat

Procs == 1..MaxSpawns
None == 0        \* self._proc before the first start

VARIABLES
  written,       \* how often the configuration has been written
  spawned,       \* how many processes there have been: they are 1..spawned
  proc,          \* self._proc
  stopping,      \* self._stopping
  alive,         \* per process: it has not exited
  loaded,        \* per process: the configuration it runs
  watcher,       \* per process: its _watch thread, waiting, in its pause or over
  pc, call,      \* per thread: where it is, and in which call
  target,        \* per thread: the process restart or stop has in hand
  asked          \* per thread, history: what was written when the call began

controller == <<proc, stopping>>
processes  == <<spawned, alive, loaded, watcher>>
callers    == <<pc, call, target, asked>>
vars       == <<written, controller, processes, callers>>

Running == proc # None /\ alive[proc]

Init ==
  /\ written = 0 /\ spawned = 0
  /\ proc = None /\ stopping = FALSE
  /\ alive = [p \in Procs |-> FALSE] /\ loaded = [p \in Procs |-> 0]
  /\ watcher = [p \in Procs |-> "over"]
  /\ pc = [t \in Threads |-> "idle"] /\ call = [t \in Threads |-> "none"]
  /\ target = [t \in Threads |-> None] /\ asked = [t \in Threads |-> 0]

-----------------------------------------------------------------------------

CanSpawn == spawned < MaxSpawns

\* A mutant: the new process is not remembered as the child.
SpawnUnassigned ==
  /\ spawned' = spawned + 1 /\ proc' = proc
  /\ alive' = [alive EXCEPT ![spawned'] = TRUE]
  /\ loaded' = [loaded EXCEPT ![spawned'] = written]

\* _spawn: a new process, and a watcher for it.
Spawn ==
  /\ spawned' = spawned + 1 /\ proc' = spawned'
  /\ alive' = [alive EXCEPT ![spawned'] = TRUE]
  /\ loaded' = [loaded EXCEPT ![spawned'] = written]

Goto(t, step) == pc' = [pc EXCEPT ![t] = step]

\* apply_change or encdns writes the child's files, before it calls on it.
WriteConfig ==
  /\ written < MaxWrites /\ written' = written + 1
  /\ UNCHANGED <<controller, processes, callers>>

Begin(t, op, step) ==
  /\ pc[t] = "idle"
  /\ Goto(t, step)
  /\ call' = [call EXCEPT ![t] = op]
  /\ asked' = [asked EXCEPT ![t] = written]

\* restart() and stop(): from here on a death is not unexpected.
Interrupt(t, op) ==
  /\ Begin(t, op, "terminate")
  /\ stopping' = TRUE
  /\ target' = [target EXCEPT ![t] = proc]
  /\ UNCHANGED <<written, proc, processes>>

\* A mutant: the process is told to terminate and not waited for.
GoneAtOnce(t) == TRUE

\* wait(), after a terminate and perhaps a kill: the process has exited.
Gone(t) == ~(target[t] # None /\ alive[target[t]])

\* terminate() or kill() takes effect.
Terminate(t) ==
  /\ pc[t] = "terminate" /\ target[t] # None /\ alive[target[t]]
  /\ alive' = [alive EXCEPT ![target[t]] = FALSE]
  /\ UNCHANGED <<written, controller, spawned, loaded, watcher, callers>>

Return(t) ==
  /\ Goto(t, "idle")
  /\ call' = [call EXCEPT ![t] = "none"]
  /\ target' = [target EXCEPT ![t] = None]

Terminated(t) ==
  /\ pc[t] = "terminate" /\ Gone(t)
  /\ IF call[t] = "stop" THEN Return(t) ELSE Goto(t, "start") /\ UNCHANGED <<call, target>>
  /\ UNCHANGED <<written, controller, processes, asked>>

\* start(), and reload() when the child is dead: a running one is only signalled
\* to re-read the files it can re-read, and nothing here changes.
Enter(t, op) ==
  /\ Begin(t, op, "start")
  /\ op = "reload" => ~Running
  /\ UNCHANGED <<written, controller, processes, target>>

\* A mutant: any child counts, a dead one too.
AlreadyUpAny == proc # None

AlreadyUp == Running

\* start(): whoever comes second finds the child running and leaves it alone.
Start(t) ==
  /\ pc[t] = "start"
  /\ stopping' = FALSE
  /\ \/ AlreadyUp /\ Return(t) /\ UNCHANGED <<proc, processes>>
     \/ /\ ~AlreadyUp /\ CanSpawn /\ Spawn
        /\ watcher' = [watcher EXCEPT ![spawned'] = "waiting"]
        /\ Goto(t, "settle") /\ UNCHANGED <<call, target>>
  /\ UNCHANGED <<written, asked>>

\* start(), after its short sleep: the answer says whether the child is up.
Settle(t) ==
  /\ pc[t] = "settle" /\ Return(t)
  /\ UNCHANGED <<written, controller, processes, asked>>

\* The child exits on its own: a crash, a bad configuration, a signal.
Dies(p) ==
  /\ alive[p] /\ spawned < MaxSpawns
  /\ alive' = [alive EXCEPT ![p] = FALSE]
  /\ UNCHANGED <<written, controller, spawned, loaded, watcher, callers>>

\* _watch, when its process has exited: over if that was meant, else a pause.
Notice(p) ==
  /\ watcher[p] = "waiting" /\ ~alive[p]
  /\ watcher' = [watcher EXCEPT ![p] = IF stopping \/ p # proc THEN "over" ELSE "pause"]
  /\ UNCHANGED <<written, controller, spawned, alive, loaded, callers>>

\* A mutant: the pause is not followed by a second look.
StillMineOnce(p) == TRUE

\* After the pause: nobody has stopped the child or started another.
StillMine(p) == ~stopping /\ p = proc

Respawn(p) ==
  /\ watcher[p] = "pause"
  /\ IF StillMine(p)
     THEN /\ CanSpawn /\ Spawn
          /\ watcher' = [watcher EXCEPT ![p] = "over", ![spawned'] = "waiting"]
          /\ UNCHANGED stopping
     ELSE /\ watcher' = [watcher EXCEPT ![p] = "over"]
          /\ UNCHANGED <<controller, spawned, alive, loaded>>
  /\ UNCHANGED <<written, callers>>

-----------------------------------------------------------------------------

Advance(t) == Terminate(t) \/ Terminated(t) \/ Start(t) \/ Settle(t)
Watch(p) == Notice(p) \/ Respawn(p)

Next ==
  \/ \E t \in Threads : \/ Advance(t)
                        \/ \E op \in {"restart", "stop"} : Interrupt(t, op)
                        \/ \E op \in {"start", "reload"} : Enter(t, op)
  \/ \E p \in Procs : Watch(p) \/ Dies(p)
  \/ WriteConfig

Spec == Init /\ [][Next]_vars

\* Threads and watchers run; nothing makes a child live or a caller call.
FairSpec ==
  /\ Spec
  /\ \A t \in Threads : WF_vars(Advance(t))
  /\ \A p \in Procs : WF_vars(Watch(p))

-----------------------------------------------------------------------------
(* Properties                                                              *)

TypeOK ==
  /\ written \in 0..MaxWrites /\ spawned \in 0..MaxSpawns
  /\ proc = spawned /\ stopping \in BOOLEAN
  /\ alive \in [Procs -> BOOLEAN] /\ loaded \in [Procs -> 0..MaxWrites]
  /\ watcher \in [Procs -> {"waiting", "pause", "over"}]
  /\ pc \in [Threads -> {"idle", "terminate", "start", "settle"}]
  /\ call \in [Threads -> {"none", "restart", "stop", "start", "reload"}]
  /\ target \in [Threads -> Procs \cup {None}]
  /\ asked \in [Threads -> 0..MaxWrites]

\* Restarts, starts and the watchers' respawns never leave two children alive.
OneChild == \A p, q \in Procs : alive[p] /\ alive[q] => p = q

\* Unless a stop or a restart is under way, or the last word was stop, somebody
\* watches over the child: no order of calls and deaths leaves it dead for good.
Watched == ~stopping /\ proc # None => watcher[proc] # "over"

\* When a restart returns, the child has loaded the configuration as it was when
\* the restart was asked for, or a newer one, even when another thread's start
\* or a watcher's respawn was quicker.
RestartLoads ==
  [][\A t \in Threads : call[t] = "restart" /\ call'[t] = "none" =>
       loaded'[proc'] >= asked[t]]_vars

\* A child that died is running again before long, unless it is to be stopped
\* or (the bound) no more processes are spawned.
ComesBack == (~stopping /\ ~Running /\ proc # None) ~> (Running \/ stopping \/ ~CanSpawn)
=============================================================================
