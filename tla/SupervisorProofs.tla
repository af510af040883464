-------------------------- MODULE SupervisorProofs --------------------------
(***************************************************************************)
(* Proofs about Supervisor, for any number of threads and processes, and   *)
(* about ProxySync, the encrypted upstream, which is built on it.          *)
(***************************************************************************)
EXTENDS ProxySync, TLAPS

-----------------------------------------------------------------------------
(* The inductive invariant                                                 *)

\* Only the newest process can be alive, and its watcher has not left it; a
\* watcher in its pause has seen its process exit.
Sole == \A p \in Procs : /\ alive[p] => p = proc /\ watcher[p] = "waiting"
                         /\ watcher[p] = "pause" => ~alive[p]

\* A restart has in hand the newest process of its beginning; the processes
\* spawned after that have loaded what was written by then.
Fresh == \A t \in Threads :
  call[t] = "restart" =>
    /\ asked[t] <= written /\ target[t] <= proc
    /\ \A p \in Procs : target[t] < p /\ p <= proc => loaded[p] >= asked[t]
    /\ pc[t] \in {"terminate", "start", "settle"}
    /\ pc[t] = "settle" => target[t] < proc
    /\ pc[t] = "start" => target[t] = None \/ ~alive[target[t]]

\* A thread that is not in a call has none in hand.
Calling == \A t \in Threads : pc[t] = "idle" <=> call[t] = "none"

IInv == TypeOK /\ Sole /\ Watched /\ Fresh /\ Calling

LEMMA InitIInv == Init => IInv
<1> SUFFICES ASSUME Init PROVE IInv
  OBVIOUS
<1>1. TypeOK
  <2>1. 0 \in 0..MaxWrites /\ 0 \in 0..MaxSpawns
    BY BoundAssumption
  <2>2. /\ alive \in [Procs -> BOOLEAN] /\ loaded \in [Procs -> 0..MaxWrites]
        /\ watcher \in [Procs -> {"waiting", "pause", "over"}]
    BY <2>1 DEF Init
  <2>3. /\ pc \in [Threads -> {"idle", "terminate", "start", "settle"}]
        /\ call \in [Threads -> {"none", "restart", "stop", "start", "reload"}]
        /\ target \in [Threads -> Procs \cup {None}]
        /\ asked \in [Threads -> 0..MaxWrites]
    BY <2>1 DEF Init
  <2>4. /\ written \in 0..MaxWrites /\ spawned \in 0..MaxSpawns
        /\ proc = spawned /\ stopping \in BOOLEAN
    BY <2>1 DEF Init, None
  <2> QED
    BY <2>2, <2>3, <2>4 DEF TypeOK
<1>2. Sole
  BY DEF Init, Sole
<1>3. Watched
  BY DEF Init, Watched
<1>4. Fresh /\ Calling
  BY DEF Init, Fresh, Calling
<1> QED
  BY <1>1, <1>2, <1>3, <1>4 DEF IInv

-----------------------------------------------------------------------------
(* A new process                                                           *)

\* Spawning while nothing is alive: the new process is the only one, with a
\* watcher of its own and the configuration as it is.
LEMMA SpawnFacts ==
  ASSUME IInv, CanSpawn, Spawn, ~Running, NEW w \in [Procs -> {"waiting", "pause", "over"}],
         watcher' = [w EXCEPT ![spawned'] = "waiting"],
         \A p \in Procs : w[p] = "pause" => watcher[p] = "pause",
         UNCHANGED written
  PROVE  /\ spawned' \in Procs /\ spawned' = spawned + 1 /\ proc' = spawned'
         /\ alive' \in [Procs -> BOOLEAN] /\ loaded' \in [Procs -> 0..MaxWrites]
         /\ watcher' \in [Procs -> {"waiting", "pause", "over"}]
         /\ Sole'
         /\ watcher'[proc'] = "waiting"
         /\ alive'[proc'] /\ loaded'[proc'] = written
         /\ \A p \in Procs : p <= proc => loaded'[p] = loaded[p] /\ ~alive'[p]
<1>1. spawned \in 0..MaxSpawns /\ MaxSpawns \in Nat /\ proc = spawned
  BY BoundAssumption DEF IInv, TypeOK
<1>2. spawned' = spawned + 1 /\ spawned' \in Procs /\ proc' = spawned'
  BY <1>1 DEF Spawn, CanSpawn, Procs
<1>3. \A p \in Procs : ~alive[p]
  BY <1>1 DEF Running, IInv, Sole, None, Procs
<1>4. /\ alive' = [alive EXCEPT ![spawned'] = TRUE]
      /\ loaded' = [loaded EXCEPT ![spawned'] = written]
  BY DEF Spawn
<1>5. /\ alive' \in [Procs -> BOOLEAN] /\ loaded' \in [Procs -> 0..MaxWrites]
      /\ watcher' \in [Procs -> {"waiting", "pause", "over"}]
  BY <1>2, <1>4 DEF IInv, TypeOK
<1>6. /\ alive'[proc'] /\ loaded'[proc'] = written /\ watcher'[proc'] = "waiting"
      /\ \A p \in Procs \ {proc'} : alive'[p] = alive[p] /\ loaded'[p] = loaded[p]
                                    /\ watcher'[p] = w[p]
  BY <1>2, <1>4 DEF IInv, TypeOK
<1>7. \A p \in Procs : p <= proc => p # proc'
  BY <1>1, <1>2 DEF Procs
<1>8. Sole'
  BY <1>3, <1>6 DEF Sole
<1> QED
  BY <1>2, <1>3, <1>5, <1>6, <1>7, <1>8

\* What a new process is to a restart under way.
Renewed(u) ==
  call[u] = "restart" =>
    /\ target[u] < proc' /\ target[u] <= proc'
    /\ \A p \in Procs : target[u] < p /\ p <= proc' => loaded'[p] >= asked[u]
    /\ target[u] = None \/ ~alive'[target[u]]

\* The new process has loaded all that was written before any restart under way.
LEMMA SpawnRenews ==
  ASSUME IInv, NEW u \in Threads, spawned' \in Procs, spawned' = spawned + 1,
         proc' = spawned', loaded'[proc'] = written,
         \A p \in Procs : p <= proc => loaded'[p] = loaded[p] /\ ~alive'[p]
  PROVE  Renewed(u)
<1> SUFFICES ASSUME call[u] = "restart" PROVE Renewed(u)
  BY DEF Renewed
<1>1. proc' = proc + 1 /\ proc \in Nat
  BY BoundAssumption DEF IInv, TypeOK, Procs
<1>2. /\ asked[u] <= written /\ target[u] <= proc
      /\ \A p \in Procs : target[u] < p /\ p <= proc => loaded[p] >= asked[u]
      /\ asked[u] \in Nat /\ written \in Nat
  BY BoundAssumption DEF IInv, Fresh, TypeOK
<1>3. target[u] \in Procs \cup {None} /\ target[u] \in Nat
  BY BoundAssumption DEF IInv, TypeOK, Procs, None
<1>4. target[u] < proc' /\ target[u] <= proc'
  BY <1>1, <1>2, <1>3
<1>5. ASSUME NEW p \in Procs, target[u] < p, p <= proc' PROVE loaded'[p] >= asked[u]
  <2>1. CASE p = proc'
    BY <1>2, <2>1
  <2>2. CASE p # proc'
    <3>1. p <= proc
      BY <1>1, <1>5, <2>2 DEF Procs
    <3> QED
      BY <1>2, <1>5, <3>1
  <2> QED
    BY <2>1, <2>2
<1>6. target[u] = None \/ ~alive'[target[u]]
  BY <1>2, <1>3
<1> QED
  BY <1>4, <1>5, <1>6 DEF Renewed

-----------------------------------------------------------------------------
(* The steps of a caller                                                   *)

\* A step that leaves the processes and the watchers alone.
LEMMA CallStep ==
  ASSUME IInv, NEW t \in Threads, UNCHANGED <<written, processes, proc>>,
         stopping' \in BOOLEAN, Watched',
         pc' \in [Threads -> {"idle", "terminate", "start", "settle"}],
         call' \in [Threads -> {"none", "restart", "stop", "start", "reload"}],
         target' \in [Threads -> Procs \cup {None}],
         asked' \in [Threads -> 0..MaxWrites],
         \A u \in Threads \ {t} : /\ pc'[u] = pc[u] /\ call'[u] = call[u]
                                  /\ target'[u] = target[u] /\ asked'[u] = asked[u],
         pc'[t] = "idle" <=> call'[t] = "none",
         call'[t] = "restart" =>
           /\ asked'[t] <= written /\ target'[t] <= proc
           /\ \A p \in Procs : target'[t] < p /\ p <= proc => loaded[p] >= asked'[t]
           /\ pc'[t] \in {"terminate", "start", "settle"}
           /\ pc'[t] = "settle" => target'[t] < proc
           /\ pc'[t] = "start" => target'[t] = None \/ ~alive[target'[t]]
  PROVE  IInv'
<1>1. TypeOK'
  BY DEF IInv, TypeOK, processes
<1>2. Sole'
  BY DEF IInv, Sole, processes
<1>3. Fresh'
  <2> SUFFICES ASSUME NEW u \in Threads, call'[u] = "restart"
               PROVE  /\ asked'[u] <= written /\ target'[u] <= proc
                      /\ \A p \in Procs : target'[u] < p /\ p <= proc => loaded[p] >= asked'[u]
                      /\ pc'[u] \in {"terminate", "start", "settle"}
                      /\ pc'[u] = "settle" => target'[u] < proc
                      /\ pc'[u] = "start" => target'[u] = None \/ ~alive[target'[u]]
    BY DEF Fresh, processes
  <2>1. CASE u = t
    BY <2>1
  <2>2. CASE u # t
    BY <2>2 DEF IInv, Fresh
  <2> QED
    BY <2>1, <2>2
<1>4. Calling'
  BY DEF IInv, Calling
<1> QED
  BY <1>1, <1>2, <1>3, <1>4 DEF IInv

LEMMA InterruptStep ==
  ASSUME IInv, NEW t \in Threads, NEW op \in {"restart", "stop"}, Interrupt(t, op)
  PROVE  IInv'
<1> USE DEF Interrupt, Begin, Goto
<1>1. proc \in Procs \cup {None} /\ written \in 0..MaxWrites
  BY BoundAssumption DEF IInv, TypeOK, Procs, None
<1>2. /\ pc' = [pc EXCEPT ![t] = "terminate"] /\ call' = [call EXCEPT ![t] = op]
      /\ target' = [target EXCEPT ![t] = proc] /\ asked' = [asked EXCEPT ![t] = written]
  OBVIOUS
<1>3. Watched'
  BY DEF Watched
<1>4. /\ pc'[t] = "terminate" /\ call'[t] = op /\ target'[t] = proc /\ asked'[t] = written
  BY <1>2 DEF IInv, TypeOK
<1>5. proc <= proc /\ written <= written /\ \A p \in Procs : ~(proc < p /\ p <= proc)
  BY <1>1, BoundAssumption DEF Procs, None
<1>6. /\ pc' \in [Threads -> {"idle", "terminate", "start", "settle"}]
      /\ call' \in [Threads -> {"none", "restart", "stop", "start", "reload"}]
      /\ target' \in [Threads -> Procs \cup {None}]
      /\ asked' \in [Threads -> 0..MaxWrites]
      /\ \A u \in Threads \ {t} : /\ pc'[u] = pc[u] /\ call'[u] = call[u]
                                  /\ target'[u] = target[u] /\ asked'[u] = asked[u]
  BY <1>1, <1>2 DEF IInv, TypeOK
<1> QED
  BY <1>3, <1>4, <1>5, <1>6, CallStep

LEMMA EnterStep ==
  ASSUME IInv, NEW t \in Threads, NEW op \in {"start", "reload"}, Enter(t, op)
  PROVE  IInv'
<1> USE DEF Enter, Begin, Goto, controller
<1>1. /\ pc'[t] = "start" /\ call'[t] = op
      /\ pc' \in [Threads -> {"idle", "terminate", "start", "settle"}]
      /\ call' \in [Threads -> {"none", "restart", "stop", "start", "reload"}]
      /\ asked' \in [Threads -> 0..MaxWrites]
      /\ \A u \in Threads \ {t} : /\ pc'[u] = pc[u] /\ call'[u] = call[u]
                                  /\ asked'[u] = asked[u]
  BY DEF IInv, TypeOK
<1>2. Watched'
  BY DEF IInv, Watched, processes
<1>3. stopping' \in BOOLEAN /\ target' \in [Threads -> Procs \cup {None}]
  BY DEF IInv, TypeOK
<1> QED
  BY <1>1, <1>2, <1>3, CallStep

\* A call ends: nothing is asked of it any more.
LEMMA ReturnStep ==
  ASSUME IInv, NEW t \in Threads, Return(t), UNCHANGED <<written, processes, proc, asked>>,
         stopping' \in BOOLEAN, Watched'
  PROVE  IInv'
<1> USE DEF Return, Goto
<1>1. /\ pc'[t] = "idle" /\ call'[t] = "none"
      /\ pc' \in [Threads -> {"idle", "terminate", "start", "settle"}]
      /\ call' \in [Threads -> {"none", "restart", "stop", "start", "reload"}]
      /\ target' \in [Threads -> Procs \cup {None}]
      /\ asked' \in [Threads -> 0..MaxWrites]
      /\ \A u \in Threads \ {t} : /\ pc'[u] = pc[u] /\ call'[u] = call[u]
                                  /\ target'[u] = target[u] /\ asked'[u] = asked[u]
  BY DEF IInv, TypeOK
<1> QED
  BY <1>1, CallStep

LEMMA TerminatedStep ==
  ASSUME IInv, NEW t \in Threads, Terminated(t)
  PROVE  IInv'
<1> USE DEF Terminated, controller
<1>1. Watched' /\ stopping' \in BOOLEAN
  BY DEF IInv, TypeOK, Watched, processes
<1>2. CASE call[t] = "stop"
  BY <1>1, <1>2, ReturnStep
<1>3. CASE call[t] # "stop"
  <2>1. /\ pc'[t] = "start" /\ pc' \in [Threads -> {"idle", "terminate", "start", "settle"}]
        /\ \A u \in Threads \ {t} : pc'[u] = pc[u]
        /\ UNCHANGED <<call, target, asked>>
    BY <1>3 DEF Goto, IInv, TypeOK
  <2>2. call[t] # "none"
    BY DEF IInv, Calling
  <2>3. target[t] = None \/ ~alive[target[t]]
    BY DEF Gone
  <2>4. call[t] = "restart" =>
           /\ asked[t] <= written /\ target[t] <= proc
           /\ \A p \in Procs : target[t] < p /\ p <= proc => loaded[p] >= asked[t]
    BY DEF IInv, Fresh
  <2> QED
    BY <1>1, <2>1, <2>2, <2>3, <2>4, CallStep DEF IInv, TypeOK
<1> QED
  BY <1>2, <1>3

LEMMA SettleStep ==
  ASSUME IInv, NEW t \in Threads, Settle(t)
  PROVE  IInv'
<1>1. Watched' /\ stopping' \in BOOLEAN
  BY DEF Settle, controller, IInv, TypeOK, Watched, processes
<1> QED
  BY <1>1, ReturnStep DEF Settle, controller

-----------------------------------------------------------------------------
(* The steps that change the processes                                     *)

\* start() when nothing runs, the only call that makes a process.
LEMMA StartStep ==
  ASSUME IInv, NEW t \in Threads, Start(t)
  PROVE  IInv'
<1>1. CASE AlreadyUp /\ Return(t) /\ UNCHANGED <<proc, processes>>
  <2>1. Watched'
    BY <1>1 DEF AlreadyUp, Running, IInv, TypeOK, Sole, Watched, processes, Procs, None
  <2> QED
    BY <1>1, <2>1, ReturnStep DEF Start
<1>2. CASE /\ ~AlreadyUp /\ CanSpawn /\ Spawn
           /\ watcher' = [watcher EXCEPT ![spawned'] = "waiting"]
           /\ Goto(t, "settle") /\ UNCHANGED <<call, target>>
  <2>1. /\ spawned' \in Procs /\ spawned' = spawned + 1 /\ proc' = spawned'
        /\ alive' \in [Procs -> BOOLEAN] /\ loaded' \in [Procs -> 0..MaxWrites]
        /\ watcher' \in [Procs -> {"waiting", "pause", "over"}]
        /\ Sole' /\ watcher'[proc'] = "waiting"
        /\ alive'[proc'] /\ loaded'[proc'] = written
        /\ \A p \in Procs : p <= proc => loaded'[p] = loaded[p] /\ ~alive'[p]
    BY <1>2, SpawnFacts DEF Start, AlreadyUp, IInv, TypeOK
  <2>2. /\ pc[t] = "start" /\ pc'[t] = "settle"
        /\ pc' \in [Threads -> {"idle", "terminate", "start", "settle"}]
        /\ \A u \in Threads \ {t} : pc'[u] = pc[u]
        /\ UNCHANGED <<written, call, target, asked>> /\ stopping' = FALSE
    BY <1>2 DEF Start, Goto, IInv, TypeOK
  <2>3. spawned' \in 0..MaxSpawns /\ proc' = proc + 1 /\ proc \in Nat
    BY <2>1, BoundAssumption DEF IInv, TypeOK, Procs
  <2>4. TypeOK'
    BY <2>1, <2>2, <2>3 DEF IInv, TypeOK
  <2>5. Watched'
    BY <2>1 DEF Watched
  <2>6. Calling'
    BY <2>2 DEF IInv, Calling
  <2>7. IInv /\ \A u \in Threads : Renewed(u)
    BY <2>1, SpawnRenews
  <2>8. Fresh'
    BY <2>2, <2>7 DEF IInv, Fresh, Renewed
  <2> QED
    BY <2>1, <2>4, <2>5, <2>6, <2>8 DEF IInv
<1> QED
  BY <1>1, <1>2 DEF Start

\* A death, meant or not, changes nothing but that.
LEMMA DeathStep ==
  ASSUME IInv, NEW p \in Procs, alive' = [alive EXCEPT ![p] = FALSE],
         UNCHANGED <<written, controller, spawned, loaded, watcher, callers>>
  PROVE  IInv'
<1> USE DEF controller, callers
<1>1. ~alive'[p] /\ (\A q \in Procs : alive'[q] => alive[q]) /\ alive' \in [Procs -> BOOLEAN]
  BY DEF IInv, TypeOK
<1>2. TypeOK'
  BY <1>1 DEF IInv, TypeOK
<1>3. Sole'
  BY <1>1 DEF IInv, Sole
<1>4. Watched' /\ Calling'
  BY DEF IInv, Watched, Calling
<1>5. Fresh'
  <2> SUFFICES ASSUME NEW u \in Threads, call[u] = "restart", pc[u] = "start",
                      target[u] # None
               PROVE  ~alive'[target[u]]
    BY DEF IInv, Fresh
  <2>1. target[u] \in Procs /\ ~alive[target[u]]
    BY DEF IInv, TypeOK, Fresh
  <2> QED
    BY <1>1, <2>1
<1> QED
  BY <1>2, <1>3, <1>4, <1>5 DEF IInv

\* A watcher moves on, and nothing else does.
LEMMA NoticeStep ==
  ASSUME IInv, NEW p \in Procs, Notice(p)
  PROVE  IInv'
<1> USE DEF Notice, controller, callers
<1>1. /\ watcher' \in [Procs -> {"waiting", "pause", "over"}]
      /\ watcher'[p] = IF stopping \/ p # proc THEN "over" ELSE "pause"
      /\ \A q \in Procs \ {p} : watcher'[q] = watcher[q]
      /\ ~alive[p]
  BY DEF IInv, TypeOK
<1>2. TypeOK'
  BY <1>1 DEF IInv, TypeOK
<1>3. Sole'
  BY <1>1 DEF IInv, Sole
<1>4. Watched'
  <2>1. proc # None => proc \in Procs
    BY BoundAssumption DEF IInv, TypeOK, Procs, None
  <2> QED
    BY <1>1, <2>1 DEF IInv, Watched
<1>5. Fresh' /\ Calling'
  BY DEF IInv, Fresh, Calling
<1> QED
  BY <1>2, <1>3, <1>4, <1>5 DEF IInv

LEMMA RespawnStep ==
  ASSUME IInv, NEW q \in Procs, Respawn(q)
  PROVE  IInv'
<1>1. CASE ~StillMine(q)
  <2> USE DEF Respawn, controller, callers
  <2>1. /\ watcher' \in [Procs -> {"waiting", "pause", "over"}]
        /\ watcher'[q] = "over" /\ \A p \in Procs \ {q} : watcher'[p] = watcher[p]
        /\ UNCHANGED <<alive, loaded, spawned, proc, stopping, pc, call, target, asked, written>>
    BY <1>1 DEF IInv, TypeOK
  <2>2. TypeOK'
    BY <2>1 DEF IInv, TypeOK
  <2>3. ~alive[q]
    BY DEF IInv, Sole
  <2>4. Sole'
    BY <2>1, <2>3 DEF IInv, Sole
  <2>5. Watched'
    <3>1. proc # None => proc \in Procs
      BY BoundAssumption DEF IInv, TypeOK, Procs, None
    <3> QED
      BY <1>1, <2>1, <3>1 DEF IInv, Watched, StillMine
  <2>6. Fresh' /\ Calling'
    BY <2>1 DEF IInv, Fresh, Calling
  <2> QED
    BY <2>2, <2>4, <2>5, <2>6 DEF IInv
<1>2. CASE StillMine(q)
  <2> DEFINE w == [watcher EXCEPT ![q] = "over"]
  <2>1. /\ CanSpawn /\ Spawn /\ UNCHANGED <<written, stopping, pc, call, target, asked>>
        /\ watcher' = [w EXCEPT ![spawned'] = "waiting"]
        /\ ~Running
    BY <1>2 DEF Respawn, StillMine, callers, Running, IInv, Sole
  <2>2. /\ w \in [Procs -> {"waiting", "pause", "over"}]
        /\ \A p \in Procs : w[p] = "pause" => watcher[p] = "pause"
    BY DEF IInv, TypeOK
  <2> HIDE DEF w
  <2>3. /\ spawned' \in Procs /\ spawned' = spawned + 1 /\ proc' = spawned'
        /\ alive' \in [Procs -> BOOLEAN] /\ loaded' \in [Procs -> 0..MaxWrites]
        /\ watcher' \in [Procs -> {"waiting", "pause", "over"}]
        /\ Sole' /\ watcher'[proc'] = "waiting"
        /\ alive'[proc'] /\ loaded'[proc'] = written
        /\ \A p \in Procs : p <= proc => loaded'[p] = loaded[p] /\ ~alive'[p]
    BY <2>1, <2>2, SpawnFacts
  <2>4. spawned' \in 0..MaxSpawns /\ proc' = proc + 1 /\ proc \in Nat
    BY <2>3, BoundAssumption DEF IInv, TypeOK, Procs
  <2>5. TypeOK'
    BY <2>1, <2>3, <2>4 DEF IInv, TypeOK
  <2>6. Watched' /\ Calling'
    BY <2>1, <2>3 DEF Watched, Calling, IInv
  <2>7. IInv /\ \A u \in Threads : Renewed(u)
    BY <2>3, SpawnRenews
  <2>8. Fresh'
    BY <2>1, <2>7 DEF IInv, Fresh, Renewed
  <2> QED
    BY <2>3, <2>5, <2>6, <2>8 DEF IInv
<1> QED
  BY <1>1, <1>2

-----------------------------------------------------------------------------
(* The theorems                                                            *)

LEMMA NextIInv == IInv /\ [Next]_vars => IInv'
<1> SUFFICES ASSUME IInv, [Next]_vars PROVE IInv'
  OBVIOUS
<1>1. ASSUME NEW t \in Threads, Advance(t) PROVE IInv'
  <2>1. CASE Terminate(t)
    <3>1. target[t] \in Procs
      BY <2>1 DEF Terminate, IInv, TypeOK
    <3> QED
      BY <2>1, <3>1, DeathStep DEF Terminate
  <2> QED
    BY <1>1, <2>1, TerminatedStep, StartStep, SettleStep DEF Advance
<1>2. ASSUME NEW t \in Threads, NEW op \in {"restart", "stop"}, Interrupt(t, op) PROVE IInv'
  BY <1>2, InterruptStep
<1>3. ASSUME NEW t \in Threads, NEW op \in {"start", "reload"}, Enter(t, op) PROVE IInv'
  BY <1>3, EnterStep
<1>4. ASSUME NEW p \in Procs, Watch(p) \/ Dies(p) PROVE IInv'
  BY <1>4, NoticeStep, RespawnStep, DeathStep DEF Watch, Dies
<1>5. CASE WriteConfig
  <2> USE DEF WriteConfig, controller, processes, callers
  <2>1. written' \in 0..MaxWrites /\ written' = written + 1 /\ written \in Nat
    BY <1>5, BoundAssumption DEF IInv, TypeOK
  <2>2. TypeOK'
    BY <1>5, <2>1 DEF IInv, TypeOK
  <2>3. Sole' /\ Watched' /\ Calling'
    BY <1>5 DEF IInv, Sole, Watched, Calling
  <2>4. \A t \in Threads : asked[t] \in Nat /\ (asked[t] <= written => asked[t] <= written')
    BY <2>1, BoundAssumption DEF IInv, TypeOK
  <2>5. Fresh'
    BY <1>5, <2>4 DEF IInv, Fresh
  <2> QED
    BY <2>2, <2>3, <2>5 DEF IInv
<1>6. CASE UNCHANGED vars
  <2> USE DEF vars, controller, processes, callers
  <2>1. TypeOK'
    BY <1>6 DEF IInv, TypeOK
  <2>2. Sole' /\ Watched' /\ Calling' /\ Fresh'
    BY <1>6 DEF IInv, Sole, Watched, Calling, Fresh
  <2> QED
    BY <2>1, <2>2 DEF IInv
<1> QED
  BY <1>1, <1>2, <1>3, <1>4, <1>5, <1>6 DEF Next

\* ChildController: the invariant holds in every state, however calls, deaths and
\* respawns follow each other.
THEOREM Inductive == Spec => []IInv
<1>1. Init => IInv
  BY InitIInv
<1>2. IInv /\ [Next]_vars => IInv'
  BY NextIInv
<1> QED
  BY <1>1, <1>2, PTL DEF Spec

\* ChildController: every variable keeps its type, and the child it remembers is
\* the newest process there is.
THEOREM TypeCorrect == Spec => []TypeOK
<1>1. IInv => TypeOK
  BY DEF IInv
<1> QED
  BY <1>1, Inductive, PTL

\* ChildController: restarts, starts and respawns never leave two children alive.
THEOREM AtMostOneChild == Spec => []OneChild
<1>1. IInv => OneChild
  BY DEF IInv, Sole, OneChild
<1> QED
  BY <1>1, Inductive, PTL

\* ChildController._watch: a child that is not meant to be down has a watcher
\* that has not given it up.
THEOREM NeverAbandoned == Spec => []Watched
<1>1. IInv => Watched
  BY DEF IInv
<1> QED
  BY <1>1, Inductive, PTL

\* A restart only ends in a child that has loaded what was written before it.
LEMMA RestartEnds ==
  ASSUME IInv, NEW t \in Threads, [Next]_vars, call[t] = "restart", call'[t] = "none"
  PROVE  loaded'[proc'] >= asked[t]
<1>1. ASSUME NEW u \in Threads, u # t, Advance(u) PROVE FALSE
  BY <1>1 DEF Advance, Terminate, Terminated, Start, Settle, Return, callers, IInv, TypeOK
<1>2. ASSUME Advance(t) PROVE loaded'[proc'] >= asked[t]
  <2>1. CASE Settle(t)
    <3>1. target[t] < proc /\ \A p \in Procs : target[t] < p /\ p <= proc => loaded[p] >= asked[t]
      BY <2>1 DEF Settle, IInv, Fresh
    <3>2. target[t] \in Nat /\ proc \in 0..MaxSpawns
      BY BoundAssumption DEF IInv, TypeOK, Procs, None
    <3>3. proc \in Procs /\ proc <= proc
      BY <3>1, <3>2, BoundAssumption DEF Procs
    <3> QED
      BY <3>3, <2>1, <3>1, <3>2 DEF Settle, controller, processes
  <2>2. CASE Start(t)
    <3>1. AlreadyUp /\ UNCHANGED <<proc, processes>>
      BY <2>2 DEF Start
    <3>2. proc \in Procs /\ alive[proc]
      BY <3>1, BoundAssumption DEF AlreadyUp, Running, IInv, TypeOK, Procs, None
    <3>3. /\ target[t] <= proc /\ (target[t] = None \/ ~alive[target[t]])
          /\ \A p \in Procs : target[t] < p /\ p <= proc => loaded[p] >= asked[t]
      BY <2>2 DEF Start, IInv, Fresh
    <3>4. target[t] \in Nat /\ proc \in Nat /\ proc # target[t]
      BY <3>2, <3>3, BoundAssumption DEF IInv, TypeOK, Procs, None
    <3>5. target[t] < proc /\ proc <= proc
      BY <3>3, <3>4
    <3> QED
      BY <3>1, <3>2, <3>3, <3>5 DEF processes
  <2>3. ~Terminate(t)
    BY DEF Terminate, callers
  <2>4. ~Terminated(t)
    BY DEF Terminated
  <2> QED
    BY <1>2, <2>1, <2>2, <2>3, <2>4 DEF Advance
<1>3. ASSUME NEW u \in Threads, NEW op \in {"restart", "stop", "start", "reload"}, Begin(u, op, "start") \/ Begin(u, op, "terminate")
      PROVE  FALSE
  <2>1. call' = [call EXCEPT ![u] = op]
    BY <1>3 DEF Begin
  <2>2. call'[t] \in {call[t], op}
    BY <2>1 DEF IInv, TypeOK
  <2> QED
    BY <2>2
<1>4. ASSUME NEW p \in Procs, Watch(p) \/ Dies(p) PROVE FALSE
  BY <1>4 DEF Watch, Notice, Respawn, Dies, callers
<1>5. ~WriteConfig /\ ~UNCHANGED vars
  BY DEF WriteConfig, vars, callers
<1>6. ASSUME NEW u \in Threads, Advance(u) PROVE loaded'[proc'] >= asked[t]
  BY <1>1, <1>2, <1>6
<1> QED
  BY <1>3, <1>4, <1>5, <1>6 DEF Next, Interrupt, Enter

\* ChildController.restart: when it returns, the child runs the configuration as
\* it was when the restart was asked for, or a newer one, whoever spawned it.
THEOREM RestartIsEffective == Spec => RestartLoads
<1>1. IInv /\ [Next]_vars =>
        [\A t \in Threads : call[t] = "restart" /\ call'[t] = "none" =>
           loaded'[proc'] >= asked[t]]_vars
  BY RestartEnds
<1> QED
  BY <1>1, Inductive, PTL DEF Spec, RestartLoads

-----------------------------------------------------------------------------
(* The encrypted upstream on top of it: ProxySync                          *)

\* Which step of a save or a sync a thread may be in, by what it saves and by
\* what it has read; in a call, it is at the step that made the call.
ShapeOf(t) ==
  /\ call[t] # "none" => call[t] = at[t]
  /\ call[t] = "stop" => pc[t] = "terminate"
  /\ saving[t] # NoConfig =>
       at[t] \in {"write", "bring up", "start", "restart", "apply", "validate"}
  /\ saving[t] = Off => at[t] \in {"apply", "validate"}
  /\ reverts[t] => saving[t] # NoConfig
  /\ at[t] \in {"write", "bring up"} => reverts[t]
  /\ at[t] \in {"start", "restart"} /\ ~reverts[t] => seen[t] # Off /\ saving[t] = NoConfig
  /\ at[t] \in {"compare", "ensure"} => seen[t] # Off
  /\ at[t] = "stop" => seen[t] = Off
Shape == \A t \in Threads : ShapeOf(t)

\* A child that runs and is to stop has somebody who is terminating it.
StopPending ==
  stopping /\ Running => \E u \in Threads : pc[u] = "terminate" /\ target[u] = proc

\* A thread that will have the child load the file as it is.
Owes(t) ==
  \/ at[t] = "bring up"
  \/ at[t] = "ensure" /\ changed[t]
  \/ at[t] = "restart" /\ (call[t] = "none" \/ (pc[t] = "terminate" /\ target[t] = proc))

\* A child that runs on an older file than the one on disk is owed a restart.
LoadedOwed == Running /\ texts[loaded[proc]] # Text => \E t \in Threads : Owes(t)

\* A store that has not been accepted is there only while it is being judged.
Judged == store # kept => \E t \in Threads : at[t] = "validate"

\* A thread that will read the store yet, and one that acts on a store that is not
\* in force: it ends in a sync that was misled.
Coming(t) == reverts[t] \/ at[t] = "sync"
Doomed(t) ==
  /\ ~reverts[t] /\ seen[t] # kept
  /\ at[t] \in {"stop", "start", "restart"} \/ (at[t] = "ensure" /\ changed[t])
Unsettled == misled \/ \E t \in Threads : Coming(t) \/ Doomed(t)

\* A thread that will see to it that the child is up.
OnWay(t) ==
  \/ at[t] \in {"compare", "ensure"}
  \/ at[t] \in {"start", "restart"} /\ (call[t] = "none" \/ pc[t] \in {"terminate", "start"})

\* The file and the child are as the store in force says, or somebody at work makes them so.
HeadedDown == stopping \/ \E t \in Threads : at[t] = "stop" /\ call[t] = "none"
HeadedText == Text = kept \/ \E t \in Threads : at[t] = "compare" /\ seen[t] = kept
HeadedUp   == (proc # None /\ ~stopping) \/ \E t \in Threads : OnWay(t)
Headed     == IF kept = Off THEN HeadedDown ELSE HeadedText /\ HeadedUp

Placed  == IInv /\ SyncTypeOK /\ Shape
SyncInv == Placed /\ Judged /\ StopPending /\ LoadedOwed /\ (~Unsettled => Headed)

\* What a thread does, without the child and its watchers.
Applies(t) == \E choice \in Choices \cup {NoConfig} : OtherApply(t, choice)
Moves(t) == Proceed(t) \/ Applies(t) \/ \E choice \in Choices : Save(t, choice)

\* Every step is a step of the controller, or leaves it alone.
LEMMA SyncStepIsChildStep == [SyncNext]_syncVars => [Next]_vars
<1> SUFFICES ASSUME [SyncNext]_syncVars PROVE [Next]_vars
  OBVIOUS
<1>1. ASSUME NEW t \in Threads, Proceed(t) PROVE Next \/ UNCHANGED vars
  <2>1. CASE WriteNew(t) \/ Compare(t)
    BY <2>1 DEF WriteNew, Compare, WriteText, Next, child
  <2>2. CASE Call(t)
    BY <2>2 DEF Call, Next
  <2>3. CASE Controller(t)
    BY <2>3 DEF Controller, Next
  <2>4. CASE BringUp(t) \/ Mutate(t) \/ Accept(t) \/ Reject(t) \/ ReadStore(t) \/ Ensure(t)
    BY <2>4 DEF BringUp, Mutate, Accept, Reject, Finish, ReadStore, Ensure, child
  <2> QED
    BY <1>1, <2>1, <2>2, <2>3, <2>4 DEF Proceed
<1>2. ASSUME NEW t \in Threads, Applies(t) \/ \E choice \in Choices : Save(t, choice)
      PROVE  UNCHANGED vars
  BY <1>2 DEF Applies, OtherApply, Save, child
<1>3. ASSUME ChildAlone PROVE Next
  BY <1>3 DEF ChildAlone, Next, Procs
<1>4. ASSUME UNCHANGED syncVars PROVE UNCHANGED vars
  BY <1>4 DEF syncVars, child
<1> QED
  BY <1>1, <1>2, <1>3, <1>4 DEF SyncNext, Applies

-----------------------------------------------------------------------------
(* Where the threads are                                                   *)

LEMMA SyncInitInv == SyncInit => SyncInv
<1> SUFFICES ASSUME SyncInit PROVE SyncInv
  OBVIOUS
<1> USE DEF SyncInit
<1>1. Init /\ IInv
  BY InitIInv
<1>2. SyncTypeOK
  <2>1. texts \in [0..MaxWrites -> Configs \cup {NoConfig}]
    OBVIOUS
  <2>2. at \in [Threads -> {"idle", "write", "bring up", "apply", "validate", "sync", "compare",
                           "ensure", "start", "restart", "stop"}]
    OBVIOUS
  <2>3. /\ saving \in [Threads -> Choices \cup {NoConfig}] /\ seen \in [Threads -> Choices]
        /\ changed \in [Threads -> BOOLEAN] /\ misled \in BOOLEAN
        /\ reverts \in [Threads -> BOOLEAN] /\ kept \in Choices
    BY DEF Choices
  <2>4. requests \in 0..MaxRequests
    BY RequestAssumption
  <2> QED
    BY <2>1, <2>2, <2>3, <2>4 DEF SyncTypeOK
<1>3. Shape
  BY <1>1, ConfigAssumption DEF Init, Shape, ShapeOf
<1>4. ~Running /\ StopPending /\ LoadedOwed
  BY <1>1 DEF Init, Running, StopPending, LoadedOwed
<1>5. Unsettled
  BY DEF Unsettled, Coming
<1>6. Judged
  BY DEF Judged
<1> QED
  BY <1>1, <1>2, <1>3, <1>4, <1>5, <1>6 DEF SyncInv, Placed

\* A thread's step leaves what the other threads are doing alone.
LEMMA CallerAlone ==
  ASSUME IInv, NEW t \in Threads, NEW u \in Threads \ {t},
         \/ Advance(t)
         \/ \E op \in {"restart", "stop"} : Interrupt(t, op)
         \/ \E op \in {"start", "reload"} : Enter(t, op)
  PROVE  pc'[u] = pc[u] /\ call'[u] = call[u] /\ target'[u] = target[u]
<1>1. CASE Advance(t)
  BY <1>1 DEF Advance, Terminate, Terminated, Start, Settle, Return, Goto, callers, IInv, TypeOK
<1>2. ASSUME NEW op \in {"restart", "stop"}, Interrupt(t, op) PROVE
        pc'[u] = pc[u] /\ call'[u] = call[u] /\ target'[u] = target[u]
  BY <1>2 DEF Interrupt, Begin, Goto, IInv, TypeOK
<1>3. ASSUME NEW op \in {"start", "reload"}, Enter(t, op) PROVE
        pc'[u] = pc[u] /\ call'[u] = call[u] /\ target'[u] = target[u]
  BY <1>3 DEF Enter, Begin, Goto, IInv, TypeOK
<1> QED
  BY <1>1, <1>2, <1>3

\* What is the same of a thread before and after somebody else's step.
AsBefore(u) ==
  /\ at'[u] = at[u] /\ saving'[u] = saving[u] /\ reverts'[u] = reverts[u]
  /\ seen'[u] = seen[u] /\ changed'[u] = changed[u]
  /\ pc'[u] = pc[u] /\ call'[u] = call[u] /\ target'[u] = target[u]

LEMMA OthersStay ==
  ASSUME Placed, NEW t \in Threads, NEW u \in Threads \ {t}, Moves(t)
  PROVE  AsBefore(u)
<1> USE DEF Placed, GoOn, mine
<1>1. ASSUME UNCHANGED <<pc, call, target>>,
             \/ WriteNew(t) \/ BringUp(t) \/ Mutate(t) \/ Accept(t) \/ Reject(t)
             \/ ReadStore(t) \/ Compare(t) \/ Ensure(t)
      PROVE  AsBefore(u)
  BY <1>1 DEF WriteNew, BringUp, Mutate, Accept, Reject, Finish, ReadStore, Compare, Ensure,
              SyncTypeOK, AsBefore
<1>2. ASSUME \/ WriteNew(t) \/ BringUp(t) \/ Mutate(t) \/ Accept(t) \/ Reject(t)
             \/ ReadStore(t) \/ Compare(t) \/ Ensure(t)
      PROVE  UNCHANGED <<pc, call, target>>
  BY <1>2 DEF WriteNew, BringUp, Mutate, Accept, Reject, Finish, ReadStore, Compare, Ensure,
              WriteText, WriteConfig, child, vars, callers
<1>3. CASE Call(t)
  <2>1. pc'[u] = pc[u] /\ call'[u] = call[u] /\ target'[u] = target[u]
    BY <1>3, CallerAlone DEF Call
  <2> QED
    BY <1>3, <2>1 DEF Call, AsBefore
<1>4. CASE Controller(t)
  <2>1. pc'[u] = pc[u] /\ call'[u] = call[u] /\ target'[u] = target[u]
    BY <1>4, CallerAlone DEF Controller
  <2>2. at'[u] = at[u] /\ saving'[u] = saving[u] /\ reverts'[u] = reverts[u]
    BY <1>4 DEF Controller, SyncTypeOK
  <2> QED
    BY <1>4, <2>1, <2>2 DEF Controller, AsBefore
<1>5. CASE Applies(t) \/ \E choice \in Choices : Save(t, choice)
  <2>1. UNCHANGED <<pc, call, target, seen, changed>>
    BY <1>5 DEF Applies, OtherApply, Save, child, vars, callers
  <2>2. at'[u] = at[u] /\ saving'[u] = saving[u] /\ reverts'[u] = reverts[u]
    BY <1>5 DEF Applies, OtherApply, Save, Admit, SyncTypeOK
  <2> QED
    BY <2>1, <2>2 DEF AsBefore
<1> QED
  BY <1>1, <1>2, <1>3, <1>4, <1>5 DEF Moves, Proceed

\* A thread that is not in a call has none in hand, and is not waiting for one.
LEMMA NotInCall ==
  ASSUME Placed, NEW t \in Threads, at[t] \notin {"start", "restart", "stop"}
  PROVE  call[t] = "none" /\ pc[t] = "idle"
<1>1. call[t] \in {"none", "restart", "stop", "start", "reload"}
      /\ at[t] \in {"idle", "write", "bring up", "apply", "validate", "sync", "compare",
                    "ensure", "start", "restart", "stop"}
  BY DEF Placed, IInv, TypeOK, SyncTypeOK
<1>2. call[t] = "none"
  BY <1>1 DEF Placed, Shape, ShapeOf
<1> QED
  BY <1>2 DEF Placed, IInv, Calling

\* In a call, it is at the step that made the call.
LEMMA InCall ==
  ASSUME Placed, NEW t \in Threads, pc[t] # "idle"
  PROVE  /\ call[t] # "none" /\ call[t] = at[t] /\ at[t] \in {"start", "restart", "stop"}
         /\ at[t] = "stop" => pc[t] = "terminate"
<1>1. call[t] # "none" /\ call[t] = at[t]
  BY DEF Placed, Shape, ShapeOf, IInv, Calling
<1>2. /\ call[t] \in {"none", "restart", "stop", "start", "reload"}
      /\ at[t] \in {"idle", "write", "bring up", "apply", "validate", "sync", "compare",
                    "ensure", "start", "restart", "stop"}
  BY DEF Placed, IInv, TypeOK, SyncTypeOK
<1> QED
  BY <1>1, <1>2 DEF Placed, Shape, ShapeOf

\* What a call of the controller may turn into, at its caller.
LEMMA CallGoesOn ==
  ASSUME Placed, NEW t \in Threads, Advance(t)
  PROVE  /\ pc[t] # "idle"
         /\ call'[t] \in {call[t], "none"}
         /\ call'[t] = "stop" => pc'[t] = "terminate"
<1> USE DEF Placed, IInv, TypeOK, Return, Goto
<1>1. CASE Terminate(t)
  <2>1. pc[t] = "terminate" /\ UNCHANGED <<pc, call>>
    BY <1>1 DEF Terminate, callers
  <2> QED
    BY <2>1
<1>2. CASE Terminated(t)
  <2>1. CASE call[t] = "stop"
    BY <1>2, <2>1 DEF Terminated
  <2>2. CASE call[t] # "stop"
    BY <1>2, <2>2 DEF Terminated
  <2> QED
    BY <2>1, <2>2
<1>3. CASE Start(t) \/ Settle(t)
  <2>1. pc[t] \in {"start", "settle"} /\ (UNCHANGED call \/ call' = [call EXCEPT ![t] = "none"])
    BY <1>3 DEF Start, Settle
  <2>2. call[t] # "stop"
    BY <2>1 DEF Shape, ShapeOf
  <2> QED
    BY <2>1, <2>2
<1> QED
  BY <1>1, <1>2, <1>3 DEF Advance

\* The file is written by a save of a configuration, or by a sync that read one.
LEMMA TextTyped ==
  ASSUME SyncTypeOK, NEW choice \in Configs, WriteText(choice)
  PROVE  texts' \in [0..MaxWrites -> Configs \cup {NoConfig}]
BY DEF SyncTypeOK, WriteText

\* The bound on requests.
LEMMA Admitted ==
  ASSUME SyncTypeOK, NEW t \in Threads, Admit(t)
  PROVE  requests' \in 0..MaxRequests
<1>1. requests \in 0..MaxRequests /\ requests < MaxRequests /\ requests' = requests + 1
  BY DEF SyncTypeOK, Admit
<1> QED
  BY <1>1, RequestAssumption

LEMMA PlacedMove ==
  ASSUME Placed, IInv', NEW t \in Threads, Moves(t)
  PROVE  SyncTypeOK' /\ ShapeOf(t)'
<1> DEFINE Places == {"idle", "write", "bring up", "apply", "validate", "sync", "compare",
                      "ensure", "start", "restart", "stop"}
<1>1. /\ store \in Choices /\ kept \in Choices
      /\ texts \in [0..MaxWrites -> Configs \cup {NoConfig}]
      /\ at \in [Threads -> Places]
      /\ saving \in [Threads -> Choices \cup {NoConfig}] /\ reverts \in [Threads -> BOOLEAN]
      /\ seen \in [Threads -> Choices]
      /\ changed \in [Threads -> BOOLEAN] /\ misled \in BOOLEAN
      /\ requests \in 0..MaxRequests
  BY DEF Placed, SyncTypeOK
<1>2. ShapeOf(t)
  BY DEF Placed, Shape
<1>3. Off \notin Configs /\ NoConfig \notin Choices
  BY ConfigAssumption DEF Choices
<1> USE DEF GoOn, mine, stores
<1>4. CASE \E choice \in Choices : Save(t, choice)
  <2> PICK choice \in Choices : Save(t, choice)
    BY <1>4
  <2> USE DEF Save, Admit
  <2>1. call[t] = "none" /\ UNCHANGED <<call, pc>>
    BY NotInCall DEF child, vars, callers
  <2>2. requests' \in 0..MaxRequests
    BY Admitted DEF Placed
  <2>3. /\ at'[t] = IF choice = Off THEN "apply" ELSE "write"
        /\ saving'[t] = choice /\ at' \in [Threads -> Places]
        /\ saving' \in [Threads -> Choices \cup {NoConfig}]
        /\ reverts'[t] /\ reverts' \in [Threads -> BOOLEAN]
    BY <1>1
  <2>4. SyncTypeOK'
    BY <1>1, <2>2, <2>3 DEF SyncTypeOK
  <2> QED
    BY <1>3, <2>1, <2>3, <2>4 DEF ShapeOf
<1>5. CASE Applies(t)
  <2> PICK choice \in Choices \cup {NoConfig} : OtherApply(t, choice)
    BY <1>5 DEF Applies
  <2> USE DEF OtherApply, Admit
  <2>1. call[t] = "none" /\ UNCHANGED <<call, pc>>
    BY NotInCall DEF child, vars, callers
  <2>2. requests' \in 0..MaxRequests
    BY Admitted DEF Placed
  <2>3. /\ at'[t] = "apply" /\ at' \in [Threads -> Places]
        /\ saving'[t] = choice /\ saving' \in [Threads -> Choices \cup {NoConfig}]
    BY <1>1
  <2>4. SyncTypeOK'
    BY <1>1, <2>2, <2>3 DEF SyncTypeOK
  <2>5. ~reverts'[t]
    BY <1>2 DEF ShapeOf
  <2> QED
    BY <1>3, <2>1, <2>3, <2>4, <2>5 DEF ShapeOf
<1>6. CASE WriteNew(t)
  <2> USE <1>6 DEF WriteNew
  <2>1. call[t] = "none" /\ UNCHANGED <<call, pc>>
    BY NotInCall DEF WriteText, WriteConfig, callers
  <2>2. saving[t] \in Configs
    BY <1>1, <1>2 DEF ShapeOf, Choices
  <2>3. texts' \in [0..MaxWrites -> Configs \cup {NoConfig}]
    BY <2>2, TextTyped DEF Placed
  <2>4. at'[t] = "bring up" /\ at' \in [Threads -> Places]
    BY <1>1
  <2>5. SyncTypeOK'
    BY <1>1, <2>3, <2>4 DEF SyncTypeOK
  <2> QED
    BY <1>2, <1>3, <2>1, <2>2, <2>4, <2>5 DEF ShapeOf
<1>7. CASE BringUp(t)
  <2> USE <1>7 DEF BringUp
  <2>1. call[t] = "none" /\ UNCHANGED <<call, pc>>
    BY NotInCall DEF child, vars, callers
  <2>2. at'[t] \in {"start", "restart"} /\ at' \in [Threads -> Places]
    BY <1>1
  <2>3. SyncTypeOK'
    BY <1>1, <2>2 DEF SyncTypeOK
  <2> QED
    BY <1>2, <2>1, <2>2, <2>3 DEF ShapeOf
<1>8. CASE Mutate(t)
  <2> USE <1>8 DEF Mutate
  <2>1. call[t] = "none" /\ UNCHANGED <<call, pc>>
    BY NotInCall DEF child, vars, callers
  <2>2. at'[t] = "validate" /\ at' \in [Threads -> Places] /\ store' \in Choices
    BY <1>1
  <2>3. SyncTypeOK'
    BY <1>1, <2>2 DEF SyncTypeOK
  <2> QED
    BY <1>2, <2>1, <2>2, <2>3 DEF ShapeOf
<1>9. CASE Accept(t) \/ Reject(t)
  <2> USE <1>9 DEF Accept, Reject, Finish
  <2>1. call[t] = "none" /\ UNCHANGED <<call, pc>>
    BY NotInCall DEF child, vars, callers
  <2>2. /\ at'[t] \in {"sync", "idle"} /\ at' \in [Threads -> Places]
        /\ saving'[t] = NoConfig /\ saving' \in [Threads -> Choices \cup {NoConfig}]
        /\ ~reverts'[t] /\ reverts' \in [Threads -> BOOLEAN]
    BY <1>1
  <2>3. store' \in Choices /\ kept' \in Choices
    BY <1>1
  <2>4. SyncTypeOK'
    BY <1>1, <2>2, <2>3 DEF SyncTypeOK
  <2> QED
    BY <1>3, <2>1, <2>2, <2>4 DEF ShapeOf, Choices
<1>10. CASE ReadStore(t)
  <2> USE <1>10 DEF ReadStore
  <2>1. call[t] = "none" /\ UNCHANGED <<call, pc>>
    BY NotInCall DEF child, vars, callers
  <2>2. /\ at'[t] = IF store = Off THEN "stop" ELSE "compare"
        /\ seen'[t] = store /\ saving'[t] = saving[t]
        /\ at' \in [Threads -> Places] /\ seen' \in [Threads -> Choices]
        /\ changed' \in [Threads -> BOOLEAN] /\ misled' \in BOOLEAN
    BY <1>1
  <2>3. saving[t] = NoConfig /\ ~reverts[t] /\ UNCHANGED reverts
    BY <1>2 DEF ShapeOf
  <2>4. SyncTypeOK'
    BY <1>1, <2>2 DEF SyncTypeOK
  <2> QED
    BY <1>3, <2>1, <2>2, <2>3, <2>4 DEF ShapeOf, Choices
<1>11. CASE Compare(t)
  <2> USE <1>11 DEF Compare
  <2>1. call[t] = "none" /\ UNCHANGED <<call, pc>>
    BY NotInCall DEF WriteText, WriteConfig, child, vars, callers
  <2>2. seen[t] \in Configs
    BY <1>1, <1>2 DEF ShapeOf, Choices
  <2>3. texts' \in [0..MaxWrites -> Configs \cup {NoConfig}]
    BY <1>1, <2>2, TextTyped DEF Placed
  <2>4. /\ at'[t] = "ensure" /\ at' \in [Threads -> Places]
        /\ changed' \in [Threads -> BOOLEAN]
    BY <1>1
  <2>5. SyncTypeOK'
    BY <1>1, <2>3, <2>4 DEF SyncTypeOK
  <2> QED
    BY <1>2, <1>3, <2>1, <2>2, <2>4, <2>5 DEF ShapeOf
<1>12. CASE Ensure(t)
  <2> USE <1>12 DEF Ensure
  <2>1. call[t] = "none" /\ UNCHANGED <<call, pc>>
    BY NotInCall DEF child, vars, callers
  <2>2. at'[t] \in {"start", "restart", "idle"} /\ at' \in [Threads -> Places]
    BY <1>1
  <2>3. SyncTypeOK'
    BY <1>1, <2>2 DEF SyncTypeOK
  <2> QED
    BY <1>2, <2>1, <2>2, <2>3 DEF ShapeOf
<1>13. CASE Call(t)
  <2>1. SyncTypeOK'
    BY <1>1, <1>13 DEF Call, SyncTypeOK
  <2>2. UNCHANGED <<at, saving, reverts, seen>>
    BY <1>13 DEF Call
  <2>3. call'[t] = at[t] /\ (at[t] = "stop" => pc'[t] = "terminate")
    BY <1>13 DEF Call, Interrupt, Enter, Begin, Goto, Placed, IInv, TypeOK
  <2> QED
    BY <1>2, <2>1, <2>2, <2>3 DEF ShapeOf
<1>14. CASE Controller(t)
  <2> USE DEF Controller
  <2>1. /\ pc[t] # "idle" /\ call'[t] \in {call[t], "none"}
        /\ call'[t] = "stop" => pc'[t] = "terminate"
    BY <1>14, CallGoesOn
  <2>2. /\ call[t] # "none" /\ call[t] = at[t] /\ at[t] \in {"start", "restart", "stop"}
    BY <2>1, InCall
  <2>3. /\ at' \in [Threads -> Places] /\ saving' \in [Threads -> Choices \cup {NoConfig}]
        /\ misled' \in BOOLEAN /\ reverts' \in [Threads -> BOOLEAN]
    BY <1>1, <1>14
  <2>4. SyncTypeOK'
    BY <1>1, <1>14, <2>3 DEF SyncTypeOK
  <2>5. seen'[t] = seen[t]
    BY <1>14
  <2>6. CASE call'[t] # "none" /\ UNCHANGED <<at, saving, reverts, misled>>
    BY <1>2, <2>1, <2>2, <2>4, <2>5, <2>6 DEF ShapeOf
  <2>7. CASE /\ call'[t] = "none" /\ reverts[t]
             /\ GoOn(t, "apply") /\ UNCHANGED <<saving, reverts>>
    <3>1. at'[t] = "apply" /\ saving'[t] = saving[t] /\ reverts'[t] /\ saving[t] # NoConfig
      BY <1>1, <1>2, <2>7 DEF ShapeOf
    <3> QED
      BY <1>3, <2>4, <2>7, <3>1 DEF ShapeOf, Choices
  <2>8. CASE /\ call'[t] = "none" /\ GoOn(t, "sync")
             /\ saving' = [saving EXCEPT ![t] = NoConfig]
             /\ reverts' = [reverts EXCEPT ![t] = FALSE]
    <3>1. at'[t] = "sync" /\ saving'[t] = NoConfig /\ ~reverts'[t]
      BY <1>1, <2>8
    <3> QED
      BY <1>3, <2>4, <2>8, <3>1 DEF ShapeOf, Choices
  <2>9. CASE /\ call'[t] = "none" /\ ~reverts[t]
             /\ GoOn(t, "idle") /\ UNCHANGED <<saving, reverts>>
    <3>1. at'[t] = "idle" /\ saving'[t] = NoConfig /\ ~reverts'[t]
      BY <1>1, <1>2, <2>2, <2>9 DEF ShapeOf
    <3> QED
      BY <1>3, <2>4, <2>9, <3>1 DEF ShapeOf, Choices
  <2> QED
    BY <1>14, <2>6, <2>7, <2>8, <2>9
<1> QED
  BY <1>4, <1>5, <1>6, <1>7, <1>8, <1>9, <1>10, <1>11, <1>12, <1>13,
     <1>14 DEF Moves, Proceed

LEMMA PlacedStep ==
  ASSUME Placed, [SyncNext]_syncVars
  PROVE  Placed'
<1>1. IInv'
  BY SyncStepIsChildStep, NextIInv DEF Placed
<1>2. ASSUME NEW t \in Threads, Moves(t) PROVE Placed'
  <2>1. SyncTypeOK' /\ ShapeOf(t)'
    BY <1>1, <1>2, PlacedMove
  <2>2. ASSUME NEW u \in Threads \ {t} PROVE ShapeOf(u)'
    <3>1. AsBefore(u) /\ ShapeOf(u)
      BY <1>2, <2>2, OthersStay DEF Placed, Shape
    <3> QED
      BY <3>1 DEF AsBefore, ShapeOf
  <2>3. Shape'
    BY <2>1, <2>2 DEF Shape
  <2> QED
    BY <1>1, <2>1, <2>3 DEF Placed
<1>3. CASE ChildAlone
  <2>1. UNCHANGED <<stores, texts, at, mine, misled, requests>>
    BY <1>3 DEF ChildAlone
  <2>2. UNCHANGED <<pc, call>>
    BY <1>3 DEF ChildAlone, Watch, Notice, Respawn, Dies, callers
  <2> QED
    BY <1>1, <2>1, <2>2 DEF Placed, SyncTypeOK, Shape, ShapeOf, mine, stores
<1>4. CASE UNCHANGED syncVars
  BY <1>1, <1>4 DEF syncVars, child, vars, callers, mine, stores, Placed, SyncTypeOK, Shape, ShapeOf
<1> QED
  BY <1>2, <1>3, <1>4 DEF SyncNext, Moves, Applies

-----------------------------------------------------------------------------
(* The child: who stops it, and what it has loaded                         *)

\* A stop under way names the child it is to end, or there is none to end.
LEMMA StopPendingStep ==
  ASSUME IInv, StopPending, [Next]_vars
  PROVE  StopPending'
<1> DEFINE Ends(u) == pc[u] = "terminate" /\ target[u] = proc
<1> SUFFICES ASSUME stopping', Running' PROVE \E u \in Threads : Ends(u)'
  BY DEF StopPending
<1>1. ASSUME NEW u \in Threads, Ends(u), proc' = proc, pc'[u] = pc[u], target'[u] = target[u]
      PROVE  \E v \in Threads : Ends(v)'
  BY <1>1
<1>2. ASSUME UNCHANGED <<proc, stopping, pc, target>>, \A p \in Procs : alive'[p] => alive[p]
      PROVE  \E v \in Threads : Ends(v)'
  <2>1. proc # None => proc \in Procs
    BY BoundAssumption DEF IInv, TypeOK, Procs, None
  <2>2. Running
    BY <1>2, <2>1 DEF Running
  <2> QED
    BY <1>2, <2>2 DEF StopPending
<1>3. ASSUME NEW t \in Threads, NEW op \in {"restart", "stop"}, Interrupt(t, op)
      PROVE  \E v \in Threads : Ends(v)'
  <2>1. pc'[t] = "terminate" /\ target'[t] = proc /\ proc' = proc
    BY <1>3 DEF Interrupt, Begin, Goto, IInv, TypeOK
  <2> QED
    BY <2>1
<1>4. ASSUME NEW t \in Threads, UNCHANGED <<controller, processes>>, pc[t] # "terminate" \/ ~Ends(t),
             \A u \in Threads \ {t} : pc'[u] = pc[u] /\ target'[u] = target[u]
      PROVE  \E v \in Threads : Ends(v)'
  <2>1. stopping /\ Running
    BY <1>4 DEF controller, processes, Running
  <2>2. PICK u \in Threads : Ends(u)
    BY <2>1 DEF StopPending
  <2> QED
    BY <1>1, <1>4, <2>2 DEF controller
<1>5. ASSUME NEW t \in Threads, NEW op \in {"start", "reload"}, Enter(t, op)
      PROVE  \E v \in Threads : Ends(v)'
  <2>1. pc[t] = "idle" /\ UNCHANGED <<controller, processes>>
    BY <1>5 DEF Enter, Begin
  <2> QED
    BY <1>4, <1>5, <2>1, CallerAlone
<1>6. ASSUME NEW t \in Threads, Advance(t) PROVE \E v \in Threads : Ends(v)'
  <2>1. CASE Terminate(t)
    <3>1. /\ UNCHANGED <<proc, stopping, pc, target>>
          /\ \A p \in Procs : alive'[p] => alive[p]
      BY <2>1 DEF Terminate, controller, callers, IInv, TypeOK
    <3> QED
      BY <1>2, <3>1
  <2>2. CASE Terminated(t)
    <3>1. UNCHANGED <<controller, processes>> /\ Gone(t)
      BY <2>2 DEF Terminated
    <3>2. ~Ends(t)
      BY <3>1 DEF Gone, Running, controller, processes
    <3> QED
      BY <1>4, <1>6, <3>1, <3>2, CallerAlone
  <2>3. CASE Start(t)
    BY <2>3 DEF Start
  <2>4. CASE Settle(t)
    <3>1. UNCHANGED <<controller, processes>> /\ pc[t] # "terminate"
      BY <2>4 DEF Settle
    <3> QED
      BY <1>4, <1>6, <3>1, CallerAlone
  <2> QED
    BY <1>6, <2>1, <2>2, <2>3, <2>4 DEF Advance
<1>7. ASSUME NEW p \in Procs, Watch(p) \/ Dies(p) PROVE \E v \in Threads : Ends(v)'
  <2>1. UNCHANGED <<pc, target, stopping>>
    BY <1>7 DEF Watch, Notice, Respawn, Dies, controller, callers
  <2>2. UNCHANGED proc /\ \A q \in Procs : alive'[q] => alive[q]
    BY <1>7, <2>1 DEF Watch, Notice, Respawn, Dies, StillMine, controller, IInv, TypeOK
  <2> QED
    BY <1>2, <2>1, <2>2
<1>8. CASE WriteConfig \/ UNCHANGED vars
  BY <1>2, <1>8 DEF WriteConfig, vars, controller, processes, callers
<1> QED
  BY <1>3, <1>5, <1>6, <1>7, <1>8 DEF Next

\* A process that is spawned loads the file as it is.
LEMMA LoadsCurrent ==
  ASSUME IInv, CanSpawn, Spawn, UNCHANGED <<written, texts>>
  PROVE  texts'[loaded'[proc']] = Text' /\ proc' # None
<1>1. spawned \in 0..MaxSpawns /\ MaxSpawns \in Nat /\ spawned < MaxSpawns
  BY BoundAssumption DEF IInv, TypeOK, CanSpawn
<1>2. spawned' \in Procs /\ proc' = spawned' /\ proc' # None
  BY <1>1 DEF Spawn, Procs, None
<1>3. loaded'[proc'] = written
  BY <1>2 DEF Spawn, IInv, TypeOK
<1> QED
  BY <1>2, <1>3 DEF Text

\* What a step of one thread has to show: the child was owed a restart by
\* another thread, or is by this one.
LEMMA OwedByOthers ==
  ASSUME Placed, LoadedOwed, NEW t \in Threads, Moves(t), Running' => Running,
         UNCHANGED <<written, texts, proc, loaded>>, Running' /\ Owes(t) => Owes(t)'
  PROVE  LoadedOwed'
<1> SUFFICES ASSUME Running', texts'[loaded'[proc']] # Text' PROVE \E u \in Threads : Owes(u)'
  BY DEF LoadedOwed
<1>1. PICK u \in Threads : Owes(u)
  BY DEF LoadedOwed, Text
<1>2. CASE u = t
  BY <1>1, <1>2
<1>3. CASE u # t
  <2>1. AsBefore(u)
    BY <1>3, OthersStay
  <2> QED
    BY <1>1, <2>1 DEF AsBefore, Owes
<1> QED
  BY <1>2, <1>3

LEMMA LoadedOwedMove ==
  ASSUME Placed, LoadedOwed, NEW t \in Threads, Moves(t)
  PROVE  LoadedOwed'
<1>1. at \in [Threads -> {"idle", "write", "bring up", "apply", "validate", "sync", "compare",
                          "ensure", "start", "restart", "stop"}]
  BY DEF Placed, SyncTypeOK
<1> USE DEF GoOn, mine, child, vars, controller, processes, callers
<1>2. ASSUME UNCHANGED <<vars, texts>>, at[t] \notin {"bring up", "ensure", "restart"}
      PROVE  LoadedOwed'
  <2>1. UNCHANGED Running /\ ~Owes(t)
    BY <1>2 DEF Running, Owes
  <2> QED
    BY <1>2, <2>1, OwedByOthers
<1>3. CASE \/ Applies(t) \/ \E choice \in Choices : Save(t, choice)
           \/ Mutate(t) \/ Accept(t) \/ Reject(t) \/ ReadStore(t)
  BY <1>2, <1>3 DEF Applies, OtherApply, Save, Admit, Mutate, Accept, Reject, Finish, ReadStore
<1>4. CASE WriteNew(t)
  <2>1. at'[t] = "bring up"
    BY <1>1, <1>4 DEF WriteNew
  <2> QED
    BY <2>1 DEF LoadedOwed, Owes
<1>5. CASE BringUp(t)
  <2>1. UNCHANGED <<vars, texts>> /\ at[t] = "bring up"
    BY <1>5 DEF BringUp
  <2>2. UNCHANGED Running /\ call[t] = "none"
    BY <2>1, NotInCall DEF Running
  <2>3. Running => at'[t] = "restart"
    BY <1>1, <1>5 DEF BringUp
  <2>4. Running' => Owes(t)'
    BY <2>1, <2>2, <2>3 DEF Owes
  <2> QED
    BY <2>1, <2>2, <2>4, OwedByOthers
<1>6. CASE Compare(t)
  <2>1. CASE UNCHANGED <<child, texts>>
    BY <1>2, <1>6, <2>1 DEF Compare
  <2>2. CASE changed' = [changed EXCEPT ![t] = TRUE]
    <3>1. at'[t] = "ensure" /\ changed'[t]
      BY <1>1, <1>6, <2>2 DEF Compare, Placed, SyncTypeOK
    <3> QED
      BY <3>1 DEF LoadedOwed, Owes
  <2> QED
    BY <1>6, <2>1, <2>2 DEF Compare
<1>7. CASE Ensure(t)
  <2>1. UNCHANGED <<vars, texts, changed>> /\ at[t] = "ensure"
    BY <1>7 DEF Ensure
  <2>2. UNCHANGED Running /\ call[t] = "none"
    BY <2>1, NotInCall DEF Running
  <2>3. Running /\ changed[t] => at'[t] = "restart"
    BY <1>1, <1>7 DEF Ensure
  <2>4. Running' /\ Owes(t) => Owes(t)'
    BY <2>1, <2>2, <2>3 DEF Owes
  <2> QED
    BY <2>1, <2>2, <2>4, OwedByOthers
<1>8. CASE Call(t)
  <2>1. UNCHANGED <<written, texts, at, proc, loaded, alive, changed>>
    BY <1>8 DEF Call, Interrupt, Enter
  <2>2. at[t] = "restart" => pc'[t] = "terminate" /\ target'[t] = proc
    BY <1>8 DEF Call, Interrupt, Begin, Goto, Placed, IInv, TypeOK
  <2>3. Owes(t) => Owes(t)'
    BY <2>1, <2>2 DEF Owes
  <2>4. UNCHANGED Running
    BY <2>1 DEF Running
  <2> QED
    BY <2>1, <2>3, <2>4, OwedByOthers
<1>9. CASE Controller(t)
  <2>1. Advance(t) /\ UNCHANGED <<texts, changed>> /\ (call'[t] # "none" => UNCHANGED at)
    BY <1>9 DEF Controller
  <2>2. pc[t] # "idle" /\ call[t] # "none" /\ call[t] = at[t] /\ at[t] \in {"start", "restart", "stop"}
    BY <2>1, CallGoesOn, InCall
  <2>3. Owes(t) => pc[t] = "terminate" /\ target[t] = proc
    BY <2>2 DEF Owes
  <2>4. CASE Terminate(t)
    <3>1. UNCHANGED <<written, texts, proc, loaded, pc, target, call, changed, at>>
      BY <2>1, <2>2, <2>4 DEF Terminate
    <3>2. \A p \in Procs : alive'[p] => alive[p]
      BY <2>4 DEF Terminate, Placed, IInv, TypeOK
    <3>3. proc # None => proc \in Procs
      BY BoundAssumption DEF Placed, IInv, TypeOK, Procs, None
    <3>4. Running' => Running
      BY <3>1, <3>2, <3>3 DEF Running
    <3>5. Owes(t) => Owes(t)'
      BY <3>1 DEF Owes
    <3> QED
      BY <3>1, <3>4, <3>5, OwedByOthers
  <2>5. CASE Terminated(t) \/ Settle(t) \/ (Start(t) /\ UNCHANGED <<proc, processes>>)
    <3>1. UNCHANGED <<written, texts, proc, loaded, alive>>
      BY <2>1, <2>5 DEF Terminated, Settle, Start
    <3>2. UNCHANGED Running
      BY <3>1 DEF Running
    <3>3. Running => ~Owes(t)
      BY <2>3, <2>5 DEF Terminated, Gone, Settle, Start, Running
    <3> QED
      BY <3>1, <3>2, <3>3, OwedByOthers
  <2>6. CASE Start(t) /\ CanSpawn /\ Spawn
    BY <2>1, <2>6, LoadsCurrent DEF Start, Placed, LoadedOwed
  <2> QED
    BY <2>1, <2>4, <2>5, <2>6 DEF Advance, Start
<1> QED
  BY <1>3, <1>4, <1>5, <1>6, <1>7, <1>8, <1>9 DEF Moves, Proceed

LEMMA LoadedOwedAlone ==
  ASSUME Placed, LoadedOwed, ChildAlone
  PROVE  LoadedOwed'
<1>1. UNCHANGED <<written, texts, at, changed, pc, call, target>>
  BY DEF ChildAlone, mine, Watch, Notice, Respawn, Dies, callers
<1>2. PICK p \in Procs : Watch(p) \/ Dies(p)
  BY DEF ChildAlone, Procs
<1>3. CASE Respawn(p) /\ StillMine(p)
  BY <1>1, <1>3, LoadsCurrent DEF Respawn, Placed, LoadedOwed
<1>4. CASE Notice(p) \/ Dies(p) \/ (Respawn(p) /\ ~StillMine(p))
  <2>1. UNCHANGED <<proc, loaded>> /\ \A q \in Procs : alive'[q] => alive[q]
    BY <1>4 DEF Notice, Dies, Respawn, controller, Placed, IInv, TypeOK
  <2>2. proc # None => proc \in Procs
    BY BoundAssumption DEF Placed, IInv, TypeOK, Procs, None
  <2>3. Running' => Running
    BY <2>1, <2>2 DEF Running
  <2> QED
    BY <1>1, <2>1, <2>3 DEF LoadedOwed, Owes, Text
<1> QED
  BY <1>2, <1>3, <1>4 DEF Watch

-----------------------------------------------------------------------------
(* The store, the file and the child                                       *)

\* Only reading the store settles what was to be read: every other step leaves a
\* thread that is coming or doomed, or ends in a sync that was misled.
LEMMA UnsettledStays ==
  ASSUME Placed, NEW t \in Threads, Moves(t), ~ReadStore(t), Unsettled
  PROVE  Unsettled'
<1> DEFINE Loose(u) == Coming(u) \/ Doomed(u)
<1>1. /\ at \in [Threads -> {"idle", "write", "bring up", "apply", "validate", "sync", "compare",
                             "ensure", "start", "restart", "stop"}]
      /\ saving \in [Threads -> Choices \cup {NoConfig}]
  BY DEF Placed, SyncTypeOK
<1>2. ShapeOf(t) /\ reverts \in [Threads -> BOOLEAN]
  BY DEF Placed, Shape, SyncTypeOK
<1> USE DEF GoOn, mine, stores
<1>3. CASE misled
  <2>1. misled'
    BY <1>3 DEF Moves, Proceed, Applies, OtherApply, Save, WriteNew, BringUp, Mutate, Accept,
                Reject, Finish, Compare, Ensure, Call, Controller
  <2> QED
    BY <2>1 DEF Unsettled
<1>4. ASSUME NEW u \in Threads, Loose(u), UNCHANGED kept, u = t => Loose(t)'
      PROVE  Unsettled'
  <2>1. CASE u = t
    BY <1>4, <2>1 DEF Unsettled
  <2>2. CASE u # t
    <3>1. AsBefore(u)
      BY <2>2, OthersStay
    <3>2. Loose(u)'
      BY <1>4, <3>1 DEF AsBefore, Coming, Doomed
    <3> QED
      BY <3>2 DEF Unsettled
  <2> QED
    BY <2>1, <2>2
<1>5. ASSUME NEW u \in Threads, Loose(u) PROVE Unsettled'
  <2>1. CASE \E choice \in Choices : Save(t, choice)
    <3>1. PICK choice \in Choices : Save(t, choice)
      BY <2>1
    <3>2. reverts'[t]
      BY <1>2, <3>1 DEF Save
    <3> QED
      BY <3>2 DEF Unsettled, Coming
  <2>2. CASE Applies(t) \/ Mutate(t)
    <3>1. UNCHANGED <<kept, reverts>> /\ at[t] \in {"idle", "apply"}
      BY <2>2 DEF Applies, OtherApply, Admit, Mutate
    <3>2. Loose(t) => Loose(t)'
      BY <3>1 DEF Coming, Doomed
    <3> QED
      BY <1>4, <1>5, <3>1, <3>2
  <2>3. CASE WriteNew(t) \/ BringUp(t)
    <3>1. UNCHANGED reverts /\ reverts[t]
      BY <1>2, <2>3 DEF WriteNew, BringUp, ShapeOf
    <3> QED
      BY <3>1 DEF Unsettled, Coming
  <2>4. CASE Accept(t) \/ Reject(t)
    <3>1. CASE at'[t] = "sync"
      BY <3>1 DEF Unsettled, Coming
    <3>2. CASE at'[t] # "sync"
      <4>1. UNCHANGED kept /\ ~reverts[t] /\ at[t] = "validate"
        BY <1>1, <2>4, <3>2 DEF Accept, Reject, Finish
      <4>2. ~Loose(t)
        BY <4>1 DEF Coming, Doomed
      <4> QED
        BY <1>4, <1>5, <4>1, <4>2
    <3> QED
      BY <3>1, <3>2
  <2>5. CASE Compare(t)
    <3>1. UNCHANGED kept /\ at[t] = "compare"
      BY <2>5 DEF Compare
    <3>2. ~Loose(t)
      BY <1>2, <3>1 DEF Coming, Doomed, ShapeOf
    <3> QED
      BY <1>4, <1>5, <3>1, <3>2
  <2>6. CASE Ensure(t)
    <3>1. UNCHANGED <<kept, reverts, seen, changed>> /\ at[t] = "ensure"
      BY <2>6 DEF Ensure
    <3>2. changed[t] => at'[t] \in {"start", "restart"}
      BY <1>1, <2>6 DEF Ensure
    <3>3. Loose(t) => Loose(t)'
      BY <1>2, <3>1, <3>2 DEF Coming, Doomed, ShapeOf
    <3> QED
      BY <1>4, <1>5, <3>1, <3>3
  <2>7. CASE Call(t)
    <3>1. UNCHANGED <<kept, reverts, seen, changed, at>>
      BY <2>7 DEF Call
    <3>2. Loose(t) => Loose(t)'
      BY <3>1 DEF Coming, Doomed
    <3> QED
      BY <1>4, <1>5, <3>1, <3>2
  <2>8. CASE Controller(t)
    <3>1. UNCHANGED <<kept, seen, changed>> /\ Advance(t)
      BY <2>8 DEF Controller
    <3>2. call[t] = at[t] /\ at[t] \in {"start", "restart", "stop"}
      BY <3>1, CallGoesOn, InCall
    <3>3. CASE call'[t] # "none" /\ UNCHANGED <<at, reverts>>
      <4>1. Loose(t) => Loose(t)'
        BY <3>1, <3>3 DEF Coming, Doomed
      <4> QED
        BY <1>4, <1>5, <3>1, <4>1
    <3>4. CASE reverts[t] /\ (UNCHANGED reverts \/ GoOn(t, "sync"))
      <4>1. reverts'[t] \/ at'[t] = "sync"
        BY <1>1, <3>4
      <4> QED
        BY <4>1 DEF Unsettled, Coming
    <3>5. CASE ~reverts[t] /\ misled' = (misled \/ kept # seen[t])
      <4>1. Loose(t) => misled'
        BY <3>2, <3>5 DEF Coming, Doomed
      <4>2. u = t => Unsettled'
        BY <1>5, <4>1 DEF Unsettled
      <4> QED
        BY <1>4, <1>5, <3>1, <4>2
    <3> QED
      BY <2>8, <3>3, <3>4, <3>5 DEF Controller
  <2> QED
    BY <2>1, <2>2, <2>3, <2>4, <2>5, <2>6, <2>7, <2>8 DEF Moves, Proceed
<1> QED
  BY <1>3, <1>5 DEF Unsettled

\* A sync that has just read the store in force is heading for what it says.
LEMMA ReadHeads ==
  ASSUME Placed, NEW t \in Threads, ReadStore(t)
  PROVE  Headed' \/ Unsettled'
<1>1. CASE store # kept
  BY <1>1 DEF ReadStore, Unsettled
<1>2. CASE store = kept
  <2>1. /\ UNCHANGED <<kept, call>>
        /\ seen'[t] = kept /\ at'[t] = IF kept = Off THEN "stop" ELSE "compare"
    BY <1>2 DEF ReadStore, GoOn, stores, child, vars, callers, Placed, SyncTypeOK
  <2>2. call[t] = "none"
    BY NotInCall DEF ReadStore
  <2> QED
    BY <2>1, <2>2 DEF Headed, HeadedDown, HeadedText, HeadedUp, OnWay
<1> QED
  BY <1>1, <1>2

\* What a step of one thread has to show when every thread at work has read what
\* the store says: each of the parts is as it was, or this thread sees to it.
LEMMA HeadedByOthers ==
  ASSUME Placed, Headed, NEW t \in Threads, Moves(t), UNCHANGED kept,
         kept = Off =>
           \/ stopping'
           \/ ~stopping /\ ~(at[t] = "stop" /\ call[t] = "none"),
         kept # Off =>
           /\ \/ Text' = kept
              \/ Text' = Text /\ ~(at[t] = "compare" /\ seen[t] = kept)
           /\ \/ OnWay(t)'
              \/ proc' # None /\ ~stopping'
              \/ UNCHANGED <<proc, stopping>> /\ ~OnWay(t)
  PROVE  Headed'
<1>1. \A u \in Threads \ {t} : AsBefore(u)
  BY OthersStay
<1>2. CASE kept = Off
  <2>1. HeadedDown'
    BY <1>1, <1>2 DEF Headed, HeadedDown, AsBefore
  <2> QED
    BY <1>2, <2>1 DEF Headed
<1>3. CASE kept # Off
  <2>1. HeadedText'
    BY <1>1, <1>3 DEF Headed, HeadedText, AsBefore
  <2>2. HeadedUp'
    <3>1. ASSUME NEW u \in Threads \ {t}, OnWay(u) PROVE HeadedUp'
      BY <1>1, <3>1 DEF HeadedUp, AsBefore, OnWay
    <3> QED
      BY <1>3, <3>1 DEF Headed, HeadedUp
  <2> QED
    BY <1>3, <2>1, <2>2 DEF Headed
<1> QED
  BY <1>2, <1>3

LEMMA HeadedMove ==
  ASSUME Placed, StopPending, ~Unsettled, Headed, NEW t \in Threads, Moves(t), ~ReadStore(t)
  PROVE  Headed' \/ Unsettled'
<1>1. at \in [Threads -> {"idle", "write", "bring up", "apply", "validate", "sync", "compare",
                          "ensure", "start", "restart", "stop"}]
  BY DEF Placed, SyncTypeOK
<1>2. ShapeOf(t) /\ reverts \in [Threads -> BOOLEAN]
  BY DEF Placed, Shape, SyncTypeOK
<1>3. ~reverts[t] /\ at[t] # "sync"
  BY DEF Unsettled, Coming
<1>4. ASSUME NEW u \in Threads, \/ at[u] \in {"stop", "start", "restart"}
                                \/ at[u] = "ensure" /\ changed[u]
      PROVE  seen[u] = kept
  BY <1>4 DEF Unsettled, Coming, Doomed
<1> USE DEF GoOn, mine, stores, child, vars, controller, processes, callers
<1>5. CASE \E choice \in Choices : Save(t, choice)
  <2>1. PICK choice \in Choices : Save(t, choice)
    BY <1>5
  <2>2. reverts'[t]
    BY <1>2, <2>1 DEF Save
  <2> QED
    BY <2>2 DEF Unsettled, Coming
<1>6. CASE Applies(t) \/ Mutate(t)
  <2>1. at[t] \in {"idle", "apply"} /\ UNCHANGED <<vars, kept, texts>>
    BY <1>6 DEF Applies, OtherApply, Admit, Mutate
  <2> QED
    BY <2>1, HeadedByOthers DEF Text, OnWay
<1>7. ~WriteNew(t) /\ ~BringUp(t)
  BY <1>2, <1>3 DEF WriteNew, BringUp, ShapeOf
<1>8. CASE Accept(t) \/ Reject(t)
  <2>1. CASE at'[t] = "sync"
    BY <2>1 DEF Unsettled, Coming
  <2>2. CASE at'[t] # "sync"
    <3>1. at[t] = "validate" /\ UNCHANGED <<vars, kept, texts>>
      BY <1>1, <1>3, <1>8, <2>2 DEF Accept, Reject, Finish
    <3> QED
      BY <3>1, HeadedByOthers DEF Text, OnWay
  <2> QED
    BY <2>1, <2>2
<1>9. CASE Compare(t)
  <2>1. /\ at[t] = "compare" /\ at'[t] = "ensure" /\ UNCHANGED <<kept, reverts, seen, stopping>>
        /\ seen[t] # Off
    BY <1>1, <1>2, <1>9 DEF Compare, ShapeOf, WriteText, WriteConfig
  <2>2. OnWay(t)'
    BY <2>1 DEF OnWay
  <2>3. CASE Text = seen[t] /\ UNCHANGED <<child, texts>>
    <3>1. Text' = Text
      BY <2>3 DEF Text
    <3>2. Text' = kept \/ ~(at[t] = "compare" /\ seen[t] = kept)
      BY <2>3, <3>1
    <3> QED
      BY <2>1, <2>2, <3>1, <3>2, HeadedByOthers
  <2>4. CASE Text # seen[t] /\ WriteText(seen[t]) /\ changed' = [changed EXCEPT ![t] = TRUE]
    <3>1. changed'[t]
      BY <2>4 DEF Placed, SyncTypeOK
    <3>2. CASE seen[t] # kept
      BY <1>3, <2>1, <3>1, <3>2 DEF Unsettled, Doomed
    <3>3. CASE seen[t] = kept
      <4>1. written' = written + 1 /\ written \in 0..MaxWrites /\ written < MaxWrites
        BY <2>4 DEF WriteText, WriteConfig, Placed, IInv, TypeOK
      <4>2. written' \in 0..MaxWrites /\ written' > written
        BY <4>1, BoundAssumption
      <4>3. Text' = kept
        BY <2>4, <3>3, <4>2 DEF WriteText, Text
      <4> QED
        BY <2>1, <2>2, <3>3, <4>3, HeadedByOthers
    <3> QED
      BY <3>2, <3>3
  <2> QED
    BY <1>9, <2>3, <2>4 DEF Compare
<1>10. CASE Ensure(t)
  <2>1. at[t] = "ensure" /\ UNCHANGED <<vars, kept, texts, seen, reverts>> /\ call[t] = "none"
    BY <1>10, NotInCall DEF Ensure
  <2>2. CASE at'[t] \in {"start", "restart"}
    BY <2>1, <2>2, HeadedByOthers DEF Text, OnWay
  <2>3. CASE at'[t] \notin {"start", "restart"}
    <3>1. Running
      BY <1>1, <1>10, <2>3 DEF Ensure
    <3>2. proc' # None
      BY <2>1, <3>1 DEF Running
    <3>3. CASE ~stopping
      BY <2>1, <3>2, <3>3, HeadedByOthers DEF Text
    <3>4. CASE stopping
      <4>1. PICK u \in Threads : pc[u] = "terminate" /\ target[u] = proc
        BY <3>1, <3>4 DEF StopPending
      <4>2. at[u] \in {"start", "restart", "stop"}
        BY <4>1, InCall
      <4>3. CASE kept = Off
        BY <2>1, <3>4, <4>3, HeadedByOthers
      <4>4. CASE kept # Off
        <5>1. at[u] # "stop"
          BY <1>4, <4>2, <4>4 DEF Placed, Shape, ShapeOf
        <5>2. u # t
          BY <2>1, <4>2
        <5>3. OnWay(u)'
          BY <2>1, <4>1, <4>2, <5>1, <5>2, OthersStay DEF OnWay, AsBefore
        <5>4. HeadedUp'
          BY <5>3 DEF HeadedUp
        <5>5. HeadedText'
          <6>1. \A v \in Threads \ {t} : AsBefore(v)
            BY OthersStay
          <6> QED
            BY <2>1, <4>4, <6>1 DEF Headed, HeadedText, AsBefore, Text
        <5> QED
          BY <2>1, <4>4, <5>4, <5>5 DEF Headed
      <4> QED
        BY <4>3, <4>4
    <3> QED
      BY <3>3, <3>4
  <2> QED
    BY <2>2, <2>3
<1>11. CASE Call(t)
  <2>1. UNCHANGED <<kept, texts, at, written>> /\ call[t] = "none"
    BY <1>11 DEF Call, Interrupt, Enter
  <2>2. Text' = Text
    BY <2>1 DEF Text
  <2>3. CASE at[t] = "stop"
    <3>1. kept = Off
      BY <1>2, <1>4, <2>3 DEF ShapeOf
    <3>2. stopping'
      BY <1>11, <2>3 DEF Call, Interrupt
    <3> QED
      BY <2>1, <3>1, <3>2, HeadedByOthers
  <2>4. CASE at[t] \in {"start", "restart"}
    <3>1. kept # Off
      BY <1>2, <1>3, <1>4, <2>4 DEF ShapeOf
    <3>2. pc'[t] \in {"terminate", "start"}
      BY <1>11, <2>4 DEF Call, Interrupt, Enter, Begin, Goto, Placed, IInv, TypeOK
    <3>3. OnWay(t)'
      BY <2>1, <2>4, <3>2 DEF OnWay
    <3> QED
      BY <2>1, <2>2, <2>4, <3>1, <3>3, HeadedByOthers
  <2> QED
    BY <1>11, <2>3, <2>4 DEF Call
<1>12. CASE Controller(t)
  <2>1. /\ Advance(t) /\ UNCHANGED <<kept, texts, seen>>
        /\ call'[t] # "none" => UNCHANGED at
    BY <1>12 DEF Controller
  <2>2. /\ pc[t] # "idle" /\ call[t] # "none" /\ call[t] = at[t]
        /\ at[t] \in {"start", "restart", "stop"} /\ (at[t] = "stop" => pc[t] = "terminate")
    BY <2>1, CallGoesOn, InCall
  <2>3. IF at[t] = "stop" THEN kept = Off ELSE kept # Off
    BY <1>2, <1>3, <1>4, <2>2 DEF ShapeOf
  <2>4. written' = written /\ Text' = Text
    BY <2>1 DEF Advance, Terminate, Terminated, Start, Settle, Text
  <2>5. CASE Terminate(t)
    <3>1. UNCHANGED <<pc, call, proc, stopping>> /\ UNCHANGED at
      BY <2>1, <2>2, <2>5 DEF Terminate
    <3>2. OnWay(t) => OnWay(t)'
      BY <3>1 DEF OnWay
    <3> QED
      BY <2>1, <2>2, <2>4, <3>1, <3>2, HeadedByOthers
  <2>6. CASE Terminated(t)
    <3>1. UNCHANGED <<proc, stopping>>
      BY <2>6 DEF Terminated
    <3>2. CASE at[t] = "stop"
      BY <2>1, <2>2, <2>3, <3>1, <3>2, HeadedByOthers
    <3>3. CASE at[t] # "stop"
      <4>1. call' = call /\ pc'[t] = "start"
        BY <2>2, <2>6, <3>3 DEF Terminated, Goto, Placed, IInv, TypeOK
      <4>2. OnWay(t)'
        BY <2>1, <2>2, <3>3, <4>1 DEF OnWay
      <4> QED
        BY <2>1, <2>2, <2>3, <2>4, <3>3, <4>2, HeadedByOthers
    <3> QED
      BY <3>2, <3>3
  <2>7. CASE Start(t)
    <3>1. ~stopping' /\ pc[t] = "start" /\ at[t] # "stop"
      BY <2>2, <2>7 DEF Start
    <3>2. proc' # None
      <4>1. CASE AlreadyUp /\ UNCHANGED proc
        BY <4>1 DEF AlreadyUp, Running
      <4>2. CASE CanSpawn /\ Spawn
        BY <2>1, <2>4, <4>2, LoadsCurrent DEF Placed
      <4> QED
        BY <2>7, <4>1, <4>2 DEF Start
    <3> QED
      BY <2>1, <2>2, <2>3, <2>4, <3>1, <3>2, HeadedByOthers
  <2>8. CASE Settle(t)
    <3>1. UNCHANGED <<proc, stopping>> /\ pc[t] = "settle" /\ at[t] # "stop"
      BY <2>2, <2>8 DEF Settle
    <3>2. ~OnWay(t)
      BY <2>2, <3>1 DEF OnWay
    <3> QED
      BY <2>1, <2>2, <2>3, <2>4, <3>1, <3>2, HeadedByOthers
  <2> QED
    BY <2>1, <2>5, <2>6, <2>7, <2>8 DEF Advance
<1> QED
  BY <1>5, <1>6, <1>7, <1>8, <1>9, <1>10, <1>11, <1>12 DEF Moves, Proceed

\* The child on its own changes neither what is settled nor where it is heading.
LEMMA HeadedAlone ==
  ASSUME Placed, ChildAlone, ~Unsettled => Headed
  PROVE  ~Unsettled' => Headed'
<1>1. /\ UNCHANGED <<written, texts, kept, at, reverts, seen, changed, misled, pc, call>>
      /\ UNCHANGED stopping
  BY DEF ChildAlone, mine, stores, Watch, Notice, Respawn, Dies, callers, controller
<1>2. Unsettled' = Unsettled
  BY <1>1 DEF Unsettled, Coming, Doomed
<1>3. proc # None => proc' # None
  <2>1. PICK p \in Procs : Watch(p) \/ Dies(p)
    BY DEF ChildAlone, Procs
  <2>2. CASE Respawn(p) /\ StillMine(p)
    BY <1>1, <2>2, LoadsCurrent DEF Respawn, Placed
  <2>3. CASE Notice(p) \/ Dies(p) \/ (Respawn(p) /\ ~StillMine(p))
    BY <2>3 DEF Notice, Dies, Respawn, controller
  <2> QED
    BY <2>1, <2>2, <2>3 DEF Watch
<1>4. HeadedDown => HeadedDown'
  BY <1>1 DEF HeadedDown
<1>5. HeadedText => HeadedText'
  BY <1>1 DEF HeadedText, Text
<1>6. HeadedUp => HeadedUp'
  BY <1>1, <1>3 DEF HeadedUp, OnWay
<1> QED
  BY <1>1, <1>2, <1>4, <1>5, <1>6 DEF Headed

\* Whoever has saved a store that is not accepted yet is waiting for dnsmasq's verdict.
LEMMA JudgedStep ==
  ASSUME Placed, Judged, [SyncNext]_syncVars
  PROVE  Judged'
<1> USE DEF GoOn, mine, stores
<1>1. ASSUME NEW t \in Threads, Moves(t) PROVE Judged'
  <2>1. CASE Mutate(t)
    <3>1. at'[t] = "validate"
      BY <2>1 DEF Mutate, Placed, SyncTypeOK
    <3> QED
      BY <3>1 DEF Judged
  <2>2. CASE Accept(t) \/ Reject(t)
    BY <2>2 DEF Accept, Reject, Judged
  <2>3. CASE ~Mutate(t) /\ ~Accept(t) /\ ~Reject(t)
    <3>1. UNCHANGED stores /\ at[t] # "validate"
      <4>1. CASE Controller(t)
        <5>1. at[t] \in {"start", "restart", "stop"}
          BY <4>1, CallGoesOn, InCall DEF Controller
        <5> QED
          BY <4>1, <5>1 DEF Controller
      <4>2. CASE ~Controller(t)
        BY <1>1, <2>3, <4>2 DEF Moves, Proceed, Applies, OtherApply, Save, Admit, WriteNew,
             BringUp, ReadStore, Compare, Ensure, Call
      <4> QED
        BY <4>1, <4>2
    <3>2. ASSUME NEW u \in Threads, at[u] = "validate" PROVE at'[u] = "validate"
      BY <1>1, <3>1, <3>2, OthersStay DEF AsBefore
    <3> QED
      BY <3>1, <3>2 DEF Judged
  <2> QED
    BY <2>1, <2>2, <2>3
<1>2. CASE ChildAlone \/ UNCHANGED syncVars
  BY <1>2 DEF ChildAlone, syncVars, Judged
<1> QED
  BY <1>1, <1>2 DEF SyncNext, Moves, Applies

LEMMA SyncNextInv ==
  ASSUME SyncInv, [SyncNext]_syncVars
  PROVE  SyncInv'
<1>1. Placed'
  BY PlacedStep DEF SyncInv
<1>2. StopPending'
  BY SyncStepIsChildStep, StopPendingStep DEF SyncInv, Placed
<1>3. Judged'
  BY JudgedStep DEF SyncInv
<1>4. ASSUME NEW t \in Threads, Moves(t) PROVE LoadedOwed' /\ (~Unsettled' => Headed')
  <2>1. LoadedOwed'
    BY <1>4, LoadedOwedMove DEF SyncInv
  <2>2. CASE ReadStore(t)
    BY <2>1, <2>2, ReadHeads DEF SyncInv
  <2>3. CASE ~ReadStore(t)
    BY <1>4, <2>1, <2>3, UnsettledStays, HeadedMove DEF SyncInv
  <2> QED
    BY <2>2, <2>3
<1>5. CASE ChildAlone
  BY <1>1, <1>2, <1>3, <1>5, LoadedOwedAlone, HeadedAlone DEF SyncInv
<1>6. CASE UNCHANGED syncVars
  <2>1. LoadedOwed'
    BY <1>6 DEF syncVars, child, vars, controller, processes, callers, mine, SyncInv, LoadedOwed,
                Owes, Text, Running
  <2>2. Unsettled' = Unsettled
    BY <1>6 DEF syncVars, mine, stores, Unsettled, Coming, Doomed
  <2>3. Headed => Headed'
    BY <1>6 DEF syncVars, child, vars, controller, callers, mine, stores, Headed, HeadedDown,
                HeadedText, HeadedUp, OnWay, Text
  <2> QED
    BY <1>1, <1>2, <1>3, <2>1, <2>2, <2>3 DEF SyncInv
<1> QED
  BY <1>1, <1>2, <1>3, <1>4, <1>5, <1>6 DEF SyncInv, SyncNext, Moves, Applies

LEMMA QuietAgrees == SyncInv => QuietMeansSynced
<1> SUFFICES ASSUME SyncInv, \A t \in Threads : at[t] = "idle", ~misled PROVE Agrees
  BY DEF QuietMeansSynced
<1>1. \A t \in Threads : pc[t] = "idle"
  BY NotInCall DEF SyncInv
<1>2. \A t \in Threads : ~Coming(t) /\ ~Doomed(t)
  BY DEF SyncInv, Placed, Shape, ShapeOf, Coming, Doomed
<1>3. kept = store
  BY DEF SyncInv, Judged
<1>4. Headed
  BY <1>2 DEF SyncInv, Unsettled
<1>5. ~(stopping /\ Running)
  BY <1>1 DEF SyncInv, StopPending
<1>6. CASE store = Off
  BY <1>3, <1>4, <1>5, <1>6 DEF Headed, HeadedDown, Agrees
<1>7. CASE store # Off
  <2>1. Text = store /\ proc # None /\ ~stopping
    BY <1>3, <1>4, <1>7 DEF Headed, HeadedText, HeadedUp, OnWay
  <2>2. Running => texts[loaded[proc]] = Text
    BY DEF SyncInv, LoadedOwed, Owes
  <2>3. watcher[proc] # "over"
    BY <2>1 DEF SyncInv, Placed, IInv, Watched
  <2> QED
    BY <1>7, <2>1, <2>2, <2>3 DEF Agrees, None
<1> QED
  BY <1>6, <1>7

\* encdns.sync_proxy and encdns_save: when nobody is at work the proxy is as the
\* store says, on the file that is on disk, unless a sync read a store that dnsmasq
\* had not accepted yet or acted on one that another request had replaced, and no
\* sync has read the store in force since.
THEOREM QuietIsSynced == SyncSpec => []QuietMeansSynced
<1>1. SyncInit => SyncInv
  BY SyncInitInv
<1>2. SyncInv /\ [SyncNext]_syncVars => SyncInv'
  BY SyncNextInv
<1>3. SyncInv => QuietMeansSynced
  BY QuietAgrees
<1> QED
  BY <1>1, <1>2, <1>3, PTL DEF SyncSpec
=============================================================================
