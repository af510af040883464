------------------------------- MODULE Alerts -------------------------------
(***************************************************************************)
(* Alerts (dnsmaqmgr/alerts.py, events.py).  The ticker's thread evaluates *)
(* what is watched once in a period: it reads the state file, probes with  *)
(* no lock held, merges what it owns into the file and delivers what is    *)
(* due, one by one.  The listener's thread announces a new device at once, *)
(* when dnsmasq's hook reports a lease.  And every restart of dnsmasq by   *)
(* the app is noted in the same file, so that it is no alarm.              *)
(*                                                                         *)
(* Time passes in periods of the ticker; a time stamp is kept as an age in *)
(* periods, and an age grows no further than the limit it is compared      *)
(* with.  A pass of the ticker, a delivery and a restart each take less    *)
(* than a period.  Whether the webhook answers changes nothing: an alert   *)
(* that failed counts as sent.                                             *)
(***************************************************************************)
EXTENDS Integers, FiniteSets

CONSTANTS
  Macs,
  Faults,        \* certificate, encrypted upstream and shadowing faults
  Profiles,      \* what settings operators use: each is a set of sets of kinds of alert
  Full, Low,     \* leases from which the pool is full, and below which it re-arms
  Cooldown,      \* periods between two alerts of one key
  Grace,         \* periods in which a restart by the app explains a reset
  MaxCount,      \* bound: dnsmasq's counters
  NoMac

ASSUME AgeAssumption == Cooldown \in Nat \ {0} /\ Grace \in Nat \ {0}
ASSUME BoundAssumption == MaxCount \in Nat

\* Alerts of different conditions go by different keys.
Services == {"pool", "down", "restarted"}
ASSUME KeyAssumption ==
  Macs \cap Faults = {} /\ (Macs \cup Faults) \cap Services = {} /\ NoMac \notin Macs

Kinds == {"new_device", "pool_high", "service_down", "fault"}
Keys == Macs \cup Faults \cup Services
Unknown == -1    \* no counters to compare with

VARIABLES
  profile,       \* the settings this operator chooses from
  enabled,       \* the alerts store: the kinds alerted on, none when it is off
  state,         \* the alerts_state store
  leased, statics,   \* who has a lease, and who a static one
  running, count,    \* dnsmasq and its counters
  faults,        \* the faults there are now
  tick,          \* the ticker: idle, evaluating (with what it has read) or sending
  seen,          \*   what it has read
  due,           \*   what it has yet to deliver
  ticked,        \* the ticker has begun this period's pass
  announcing,    \* the listener: the device it delivers
  restarting,    \* the app is about to restart dnsmasq
  since,         \* history: per key, the age of its last delivery
  told,          \* history: devices announced
  excused,       \* history: devices there from the baseline on, or static once
  crashed,       \* history: dnsmasq went down by itself after the last look
  looked,        \* history: the age of that look at its counters
  overtaken      \* history: what happened after the ticker read the state

world  == <<leased, statics, running, count, faults>>
ticker == <<tick, seen, due, ticked>>
ghosts == <<since, told, excused, crashed, looked, overtaken>>
vars   == <<profile, enabled, state, world, ticker, announcing, restarting, ghosts>>

Nothing == [file |-> {}, leased |-> {}, statics |-> {}, enabled |-> {}]
NoOvertaking == [restart |-> FALSE, announced |-> {}]

\* What this operator never watches need not happen.
Watchable(kind) == \E kinds \in profile : kind \in kinds

Init ==
  /\ profile \in Profiles /\ enabled \in profile
  /\ state = [baselined |-> FALSE, known |-> {}, alerted |-> FALSE, counters |-> Unknown,
              age |-> [k \in Keys |-> Cooldown], restartAge |-> Grace + 1]
  /\ leased \in SUBSET {m \in Macs : Watchable("new_device")} /\ statics \in SUBSET leased
  /\ running = TRUE /\ count = 0 /\ faults = {}
  /\ tick = "idle" /\ seen = Nothing
  /\ due = {} /\ ticked = FALSE /\ announcing = NoMac /\ restarting = FALSE
  /\ since = [k \in Keys |-> Cooldown] /\ told = {} /\ excused = {}
  /\ crashed = FALSE /\ looked = 0 /\ overtaken = NoOvertaking

Older(age, limit) == IF age < limit THEN age + 1 ELSE limit

\* time.time(): a period is over when its pass is.
Pass ==
  /\ ticked /\ tick = "idle" /\ announcing = NoMac /\ ~restarting
  /\ ticked' = FALSE
  /\ state' = [state EXCEPT !.age = [k \in Keys |-> Older(@[k], Cooldown)],
                            !.restartAge = Older(@, Grace + 1)]
  /\ since' = [k \in Keys |-> Older(since[k], Cooldown)]
  /\ looked' = Older(looked, Grace + 1)
  /\ UNCHANGED <<profile, enabled, world, tick, seen, due, announcing, restarting,
                 told, excused, crashed, overtaken>>

-----------------------------------------------------------------------------
(* The world                                                               *)

Lease(m) ==
  /\ Watchable("new_device")
  /\ leased' = IF m \in leased THEN leased \ {m} ELSE leased \cup {m}
  /\ UNCHANGED <<profile, enabled, state, statics, running, count, faults, ticker, announcing,
                 restarting, ghosts>>

EditStatic(m) ==
  /\ Watchable("new_device")
  /\ statics' = IF m \in statics THEN statics \ {m} ELSE statics \cup {m}
  /\ UNCHANGED <<profile, enabled, state, leased, running, count, faults, ticker, announcing,
                 restarting, ghosts>>

Query ==
  /\ Watchable("service_down") /\ running /\ count < MaxCount /\ count' = count + 1
  /\ UNCHANGED <<profile, enabled, state, leased, statics, running, faults, ticker, announcing,
                 restarting, ghosts>>

\* dnsmasq dies, or its supervisor brings it back.
Crash ==
  /\ Watchable("service_down") /\ running /\ running' = FALSE /\ count' = 0 /\ crashed' = TRUE
  /\ UNCHANGED <<profile, enabled, state, leased, statics, faults, ticker, announcing,
                 restarting, since, told, excused, looked, overtaken>>

Respawn ==
  /\ ~running /\ running' = TRUE
  /\ UNCHANGED <<profile, enabled, state, leased, statics, count, faults, ticker, announcing,
                 restarting, ghosts>>

Fault(f) ==
  /\ Watchable("fault")
  /\ faults' = IF f \in faults THEN faults \ {f} ELSE faults \cup {f}
  /\ UNCHANGED <<profile, enabled, state, leased, statics, running, count, ticker, announcing,
                 restarting, ghosts>>

-----------------------------------------------------------------------------
(* The app's requests                                                      *)

\* alerts_save.
SaveSettings(kinds) ==
  /\ enabled' = kinds /\ enabled' # enabled
  /\ UNCHANGED <<profile, state, world, ticker, announcing, restarting, ghosts>>

\* note_expected_restart, before an apply or an operator restarts dnsmasq.
NoteExpected ==
  /\ Watchable("service_down") /\ ~restarting /\ restarting' = TRUE
  /\ state' = [state EXCEPT !.restartAge = 0]
  /\ overtaken' = [overtaken EXCEPT !.restart = @ \/ tick = "evaluating"]
  /\ UNCHANGED <<profile, enabled, world, ticker, announcing, since, told, excused, crashed, looked>>

Restart ==
  /\ restarting /\ restarting' = FALSE
  /\ running' = TRUE /\ count' = 0
  /\ UNCHANGED <<profile, enabled, state, leased, statics, faults, ticker, announcing, ghosts>>

-----------------------------------------------------------------------------
(* The listener                                                            *)

\* lease_event, for a datagram the leases file agrees with: the hook's own, a
\* late or a repeated one.
LeaseEvent(m) ==
  /\ announcing = NoMac /\ m \in leased
  /\ "new_device" \in enabled /\ state.baselined
  /\ m \notin statics \cup state.known
  /\ state.age[m] = Cooldown
  /\ state' = [state EXCEPT !.known = @ \cup {m}]
  /\ announcing' = m
  /\ overtaken' = [overtaken EXCEPT !.announced = @ \cup {m}]
  /\ UNCHANGED <<profile, enabled, world, ticker, restarting, since, told, excused, crashed, looked>>

Delivered(k) ==
  /\ state' = [state EXCEPT !.age[k] = 0]
  /\ since' = [since EXCEPT ![k] = 0]
  /\ told' = told \cup ({k} \cap Macs)

\* lease_event has delivered, and says so in the file.
Announced ==
  /\ announcing # NoMac /\ Delivered(announcing)
  /\ announcing' = NoMac
  /\ UNCHANGED <<profile, enabled, world, ticker, restarting, excused, crashed, looked, overtaken>>

-----------------------------------------------------------------------------
(* The ticker                                                              *)

\* tick reads its file, the leases and the static leases in one piece.
TickRead ==
  /\ tick = "idle" /\ ~ticked /\ ticked' = TRUE
  /\ IF enabled = {} THEN UNCHANGED <<tick, seen, overtaken>>
     ELSE /\ tick' = "evaluating"
          /\ seen' = [file |-> state, leased |-> leased, statics |-> statics,
                      enabled |-> enabled]
          /\ overtaken' = NoOvertaking
  /\ UNCHANGED <<profile, enabled, state, world, due, announcing, restarting,
                 since, told, excused, crashed, looked>>

\* _check_new_devices
NewDevices ==
  IF "new_device" \in seen.enabled /\ seen.file.baselined
  THEN seen.leased \ (seen.file.known \cup seen.statics) ELSE {}

KnownThen ==
  IF "new_device" \notin seen.enabled THEN seen.file.known
  ELSE (IF seen.file.baselined THEN seen.file.known ELSE {})
       \cup seen.leased \cup seen.statics

\* _check_pools
PoolFull == Cardinality(seen.leased) >= Full

Filled == IF "pool_high" \in seen.enabled /\ PoolFull /\ ~seen.file.alerted
          THEN {"pool"} ELSE {}

AlertedThen ==
  IF "pool_high" \notin seen.enabled THEN seen.file.alerted
  ELSE PoolFull \/ (seen.file.alerted /\ Cardinality(seen.leased) >= Low)

\* _check_service, which looks at dnsmasq now; it may not answer.
Reset == seen.file.counters # Unknown /\ count < seen.file.counters
Explained == seen.file.restartAge <= Grace

ServiceFound(answers) ==
  IF "service_down" \notin seen.enabled THEN {}
  ELSE IF ~running THEN {"down"}
  ELSE IF answers /\ Reset /\ ~Explained THEN {"restarted"} ELSE {}

CountersThen(answers) ==
  IF "service_down" \notin seen.enabled THEN seen.file.counters
  ELSE IF ~running THEN Unknown
  ELSE IF answers THEN count ELSE seen.file.counters

\* A mutant: nothing else is looked at while dnsmasq is down.
FaultsFoundIfUp == IF "fault" \in seen.enabled /\ running THEN faults ELSE {}

\* _check_cert, _check_encdns and _check_shadowing: what is wrong now.
FaultsFound == IF "fault" \in seen.enabled THEN faults ELSE {}

Candidates(answers) == NewDevices \cup Filled \cup ServiceFound(answers) \cup FaultsFound

\* A mutant: one cool-down for the new devices of all.
RestedByKind(k) ==
  IF k \in Macs THEN \A m \in Macs : seen.file.age[m] = Cooldown
  ELSE seen.file.age[k] = Cooldown

\* The key has not been alerted within its cool-down.
Rested(k) == seen.file.age[k] = Cooldown

Evaluated(answers) ==
  [seen.file EXCEPT !.baselined = @ \/ "new_device" \in seen.enabled, !.known = KnownThen,
                    !.alerted = AlertedThen, !.counters = CountersThen(answers)]

\* A mutant: the state is saved whole, as it was read and evaluated.
MergedWhole(by) == by

\* Only what the checks own is written over the file as it is by now.
Merged(by) ==
  [state EXCEPT !.baselined = by.baselined, !.known = by.known,
                !.alerted = by.alerted, !.counters = by.counters]

Finish == tick' = IF due' = {} THEN "idle" ELSE "sending"

\* The checks, and the merge.  They read different things, so one step will do.
Evaluate ==
  /\ tick = "evaluating" /\ seen' = Nothing
  /\ \E answers \in BOOLEAN :
       /\ due' = {k \in Candidates(answers) : Rested(k)}
       /\ state' = Merged(Evaluated(answers))
       /\ IF "service_down" \in seen.enabled /\ (answers \/ ~running)
          THEN looked' = 0 /\ crashed' = FALSE
          ELSE UNCHANGED <<looked, crashed>>
  /\ Finish
  /\ excused' = excused \cup (IF "new_device" \notin seen.enabled THEN {}
                              ELSE seen.statics \cup
                                   (IF seen.file.baselined THEN {} ELSE seen.leased))
  /\ UNCHANGED <<profile, enabled, world, ticked, announcing, restarting, since, told, overtaken>>

\* One alert is delivered, and that is noted.
TickSend(k) ==
  /\ tick = "sending" /\ k \in due /\ Delivered(k)
  /\ due' = due \ {k}
  /\ Finish
  /\ UNCHANGED <<profile, enabled, world, seen, ticked, announcing, restarting, excused, crashed, looked, overtaken>>

-----------------------------------------------------------------------------

World ==
  \/ \E m \in Macs : Lease(m) \/ EditStatic(m)
  \/ \E f \in Faults : Fault(f)
  \/ Query \/ Crash \/ Respawn

Ticker == TickRead \/ Evaluate \/ \E k \in Keys : TickSend(k)

Next ==
  \/ Pass \/ World \/ Ticker
  \/ \E kinds \in profile : SaveSettings(kinds)
  \/ NoteExpected \/ Restart
  \/ \E m \in Macs : LeaseEvent(m)
  \/ Announced

Spec == Init /\ [][Next]_vars

\* The threads run and time passes; nothing makes a datagram arrive.
FairSpec ==
  /\ Spec
  /\ WF_vars(Ticker) /\ WF_vars(Announced) /\ WF_vars(Restart) /\ SF_vars(Pass)

-----------------------------------------------------------------------------
(* Properties                                                              *)

TypeOK ==
  /\ enabled \in profile
  /\ state.known \subseteq Macs /\ state.counters \in Unknown..MaxCount
  /\ state.age \in [Keys -> 0..Cooldown] /\ state.restartAge \in 0..(Grace + 1)
  /\ tick \in {"idle", "evaluating", "sending"} /\ due \subseteq Keys
  /\ (due # {}) <=> (tick = "sending")
  /\ announcing \in Macs \cup {NoMac}

\* No device slips in unannounced: one that counts as known was there when alerts
\* began, has had a static lease, was announced or is being announced, whichever
\* of the two threads saw it first and whatever the other wrote meanwhile.
KnownMeansTold ==
  state.known \subseteq excused \cup told \cup due \cup {announcing}

\* Nobody is told twice within a cool-down, except of a device the listener has
\* announced since the ticker read its state.
TellOnce ==
  [][\A k \in (due' \ due) \cup ({announcing'} \ {announcing, NoMac}) :
       since[k] = Cooldown \/ k \in overtaken.announced]_vars

\* A restart the app itself has made is not reported as long as the counters were
\* looked at within the grace before, unless it came between the ticker's reading
\* of its state and its look at the counters.
NoFalseAlarm ==
  [][\A k \in (due' \ due) :
       k = "restarted" => crashed \/ overtaken.restart \/ looked > Grace]_vars

\* A fault that stays is told of, at the latest when its last alert has cooled
\* down, whatever else goes wrong.
FaultsAreTold ==
  \A f \in Faults :
    (f \in faults /\ "fault" \in enabled) ~>
      (since[f] < Cooldown \/ f \notin faults \/ "fault" \notin enabled)

\* note_expected_restart is there "so the alerts tick can tell a deliberate restart
\* (counters reset) from a crash": the same, whenever the restart comes.
DeliberateIsNoAlarm ==
  [][\A k \in (due' \ due) : k = "restarted" => crashed \/ looked > Grace]_vars
=============================================================================
