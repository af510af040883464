---------------------------- MODULE AlertsProofs ----------------------------
(***************************************************************************)
(* Proofs about Alerts, for any devices and faults, any settings the       *)
(* operators choose from, any thresholds, cool-down and grace: no device   *)
(* is known that nobody was told of, nobody is told twice within a         *)
(* cool-down, and a restart the app has made is no alarm, whatever the     *)
(* ticker, the listener and an apply write to the file between each other. *)
(***************************************************************************)
EXTENDS Alerts, TLAPS

-----------------------------------------------------------------------------
(* The invariants                                                          *)

States == [baselined : BOOLEAN, known : SUBSET Macs, alerted : BOOLEAN,
           counters : Unknown..MaxCount, age : [Keys -> 0..Cooldown],
           restartAge : 0..(Grace + 1)]

\* What the ticker has read is a state of the file and the devices of then.
SeenTyped ==
  tick = "evaluating" =>
    seen.file \in States /\ seen.leased \subseteq Macs /\ seen.statics \subseteq Macs

FileTyped == state \in States /\ enabled \in profile

WorldTyped ==
  /\ leased \subseteq Macs /\ statics \subseteq Macs /\ faults \subseteq Faults
  /\ count \in 0..MaxCount /\ looked \in Nat
  /\ overtaken \in [restart : BOOLEAN, announced : SUBSET Macs]

\* The ticker delivers in the sending half of a pass that it began this period.
TurnsTyped ==
  /\ tick \in {"idle", "evaluating", "sending"} /\ due \subseteq Keys
  /\ (due # {}) <=> (tick = "sending")
  /\ tick # "idle" => ticked
  /\ announcing \in Macs \cup {NoMac}

Typed == FileTyped /\ WorldTyped /\ SeenTyped /\ TurnsTyped

\* The cool-downs in the file are those of what was delivered.
Ages == since = state.age

\* What the ticker has read is still so, but for a restart since and for devices
\* announced since or being announced when it read.
StillRead ==
  tick = "evaluating" =>
    /\ seen.file.counters = state.counters
    /\ overtaken.restart \/ seen.file.restartAge = state.restartAge
    /\ \A k \in Keys : seen.file.age[k] = Cooldown =>
                         since[k] = Cooldown \/ k \in seen.file.known \cup overtaken.announced
    /\ announcing \in {NoMac} \cup seen.file.known \cup overtaken.announced

\* A device that is being announced when a period begins is in the file.
Written == announcing # NoMac /\ ~ticked => announcing \in state.known

\* Who was alerted on within the cool-down was told of, as the file has it and as
\* the ticker has read it; and what the ticker read as known was told.
ToldRead ==
  tick = "evaluating" =>
    /\ seen.file.known \subseteq excused \cup told \cup {announcing}
    /\ \A m \in Macs : seen.file.age[m] # Cooldown => m \in told

Heard == (\A m \in Macs : since[m] # Cooldown => m \in told) /\ ToldRead

\* Counters behind those in the file mean a crash, or a restart by the app after
\* the last look.
Looks ==
  /\ restarting => state.restartAge = 0
  /\ state.counters # Unknown /\ count < state.counters =>
       crashed \/ state.restartAge <= looked

-----------------------------------------------------------------------------
(* Time and keys                                                           *)

LEMMA OlderIs ==
  ASSUME NEW limit \in Nat, NEW age \in 0..limit
  PROVE  Older(age, limit) \in 0..limit /\ Older(limit, limit) = limit
BY DEF Older

\* Nothing that ages overtakes what ages with it.
LEMMA OlderKeepsOrder ==
  ASSUME NEW limit \in Nat, NEW a \in 0..limit, NEW b \in Nat, a <= b
  PROVE  Older(a, limit) <= Older(b, limit) /\ Older(b, limit) \in Nat
BY DEF Older

\* What the checks find, and what they keep.
LEMMA EvaluateTypes ==
  ASSUME Typed, tick = "evaluating", NEW answers \in BOOLEAN
  PROVE  /\ Candidates(answers) \subseteq Keys
         /\ KnownThen \subseteq Macs /\ AlertedThen \in BOOLEAN
         /\ CountersThen(answers) \in Unknown..MaxCount
         /\ Merged(Evaluated(answers)) =
              [state EXCEPT !.baselined = seen.file.baselined \/ "new_device" \in seen.enabled,
                            !.known = KnownThen, !.alerted = AlertedThen,
                            !.counters = CountersThen(answers)]
<1> USE DEF Typed, SeenTyped, States
<1>1. Candidates(answers) \subseteq Keys
  BY DEF Candidates, NewDevices, Filled, ServiceFound, FaultsFound, Keys, Services, WorldTyped
<1>2. KnownThen \subseteq Macs
  BY DEF KnownThen
<1>3. AlertedThen \in BOOLEAN
  BY DEF AlertedThen, PoolFull
<1>4. CountersThen(answers) \in Unknown..MaxCount
  BY BoundAssumption DEF CountersThen, WorldTyped, Unknown
<1>5. Merged(Evaluated(answers)) =
        [state EXCEPT !.baselined = seen.file.baselined \/ "new_device" \in seen.enabled,
                      !.known = KnownThen, !.alerted = AlertedThen,
                      !.counters = CountersThen(answers)]
  <2>1. /\ Evaluated(answers).baselined = (seen.file.baselined \/ "new_device" \in seen.enabled)
        /\ Evaluated(answers).known = KnownThen
        /\ Evaluated(answers).alerted = AlertedThen
        /\ Evaluated(answers).counters = CountersThen(answers)
    BY DEF Evaluated
  <2> QED
    BY <2>1 DEF Merged
<1> QED
  BY <1>1, <1>2, <1>3, <1>4, <1>5

-----------------------------------------------------------------------------
(* Types                                                                   *)

LEMMA TypedAtFirst == Init => Typed
<1> SUFFICES ASSUME Init PROVE Typed
  OBVIOUS
<1>1. state \in States
  BY AgeAssumption, BoundAssumption DEF Init, States, Unknown
<1>2. FileTyped /\ WorldTyped
  BY <1>1, BoundAssumption DEF Init, FileTyped, WorldTyped, NoOvertaking
<1> QED
  BY <1>2 DEF Init, Typed, SeenTyped, TurnsTyped

LEMMA DeliveredTypes ==
  ASSUME FileTyped, NEW k \in Keys, Delivered(k)
  PROVE  /\ state' \in States /\ state'.known = state.known
         /\ state'.counters = state.counters /\ state'.restartAge = state.restartAge
         /\ state'.age = [state.age EXCEPT ![k] = 0]
BY AgeAssumption DEF FileTyped, Delivered, States

LEMMA PassTypes ==
  ASSUME FileTyped, WorldTyped, Pass
  PROVE  /\ state' \in States /\ looked' \in Nat /\ state'.known = state.known
         /\ state'.counters = state.counters
         /\ state'.restartAge = Older(state.restartAge, Grace + 1)
         /\ state'.age = [k \in Keys |-> Older(state.age[k], Cooldown)]
<1>1. /\ Cooldown \in Nat /\ Grace + 1 \in Nat /\ state \in States /\ looked \in Nat
  BY AgeAssumption DEF FileTyped, WorldTyped
<1>2. /\ state' = [state EXCEPT !.age = [k \in Keys |-> Older(state.age[k], Cooldown)],
                                !.restartAge = Older(state.restartAge, Grace + 1)]
      /\ looked' = Older(looked, Grace + 1)
  BY <1>1 DEF Pass, States
<1>3. \A k \in Keys : Older(state.age[k], Cooldown) \in 0..Cooldown
  BY <1>1, OlderIs DEF States
<1>4. Older(state.restartAge, Grace + 1) \in 0..(Grace + 1)
  BY <1>1, OlderIs DEF States
<1>5. looked' \in Nat
  BY <1>1, <1>2 DEF Older
<1>6. [k \in Keys |-> Older(state.age[k], Cooldown)] \in [Keys -> 0..Cooldown]
  BY <1>3
<1> HIDE DEF Older
<1> QED
  BY <1>1, <1>2, <1>4, <1>5, <1>6 DEF States

LEMMA TypedKept == Typed /\ [Next]_vars => Typed'
<1> SUFFICES ASSUME Typed, [Next]_vars PROVE Typed'
  OBVIOUS
<1> USE DEF Typed
<1>1. CASE UNCHANGED vars
  BY <1>1 DEF vars, world, ticker, ghosts, FileTyped, WorldTyped, SeenTyped, TurnsTyped
<1>2. CASE Pass
  <2>1. FileTyped' /\ WorldTyped'
    BY <1>2, PassTypes DEF Pass, FileTyped, WorldTyped, world
  <2> QED
    BY <1>2, <2>1 DEF Pass, SeenTyped, TurnsTyped
<1>3. CASE World
  <2>1. WorldTyped'
    BY <1>3, BoundAssumption
       DEF World, Lease, EditStatic, Fault, Query, Crash, Respawn, WorldTyped, ghosts
  <2>2. UNCHANGED <<state, enabled, profile, ticker, announcing>>
    BY <1>3 DEF World, Lease, EditStatic, Fault, Query, Crash, Respawn
  <2> QED
    BY <2>1, <2>2 DEF FileTyped, SeenTyped, TurnsTyped, ticker
<1>4. ASSUME NEW kinds \in profile, SaveSettings(kinds)
      PROVE  Typed'
  BY <1>4 DEF SaveSettings, FileTyped, WorldTyped, SeenTyped, TurnsTyped, world, ticker, ghosts
<1>5. CASE NoteExpected
  <2>1. FileTyped'
    BY <1>5, AgeAssumption DEF NoteExpected, FileTyped, States
  <2>2. WorldTyped'
    BY <1>5 DEF NoteExpected, WorldTyped, world
  <2> QED
    BY <1>5, <2>1, <2>2 DEF NoteExpected, SeenTyped, TurnsTyped, ticker
<1>6. CASE Restart
  BY <1>6, BoundAssumption
     DEF Restart, FileTyped, WorldTyped, SeenTyped, TurnsTyped, ticker, ghosts
<1>7. ASSUME NEW m \in Macs, LeaseEvent(m)
      PROVE  Typed'
  <2>1. FileTyped'
    BY <1>7 DEF LeaseEvent, FileTyped, States
  <2>2. WorldTyped'
    BY <1>7 DEF LeaseEvent, WorldTyped, world
  <2> QED
    BY <1>7, <2>1, <2>2 DEF LeaseEvent, SeenTyped, TurnsTyped, ticker
<1>8. CASE Announced
  <2>1. announcing \in Keys /\ Delivered(announcing)
    BY <1>8 DEF Announced, TurnsTyped, Keys
  <2>2. FileTyped'
    BY <1>8, <2>1, DeliveredTypes DEF Announced, FileTyped
  <2> QED
    BY <1>8, <2>2 DEF Announced, WorldTyped, SeenTyped, TurnsTyped, world, ticker
<1>9. CASE TickRead
  <2>1. FileTyped' /\ TurnsTyped'
    BY <1>9 DEF TickRead, FileTyped, TurnsTyped
  <2>2. WorldTyped'
    <3>1. NoOvertaking \in [restart : BOOLEAN, announced : SUBSET Macs]
      BY DEF NoOvertaking
    <3>2. UNCHANGED overtaken \/ overtaken' = NoOvertaking
      BY <1>9 DEF TickRead
    <3> QED
      BY <1>9, <3>1, <3>2 DEF TickRead, WorldTyped, world
  <2>3. SeenTyped'
    BY <1>9 DEF TickRead, FileTyped, WorldTyped, SeenTyped
  <2> QED
    BY <2>1, <2>2, <2>3
<1>10. CASE Evaluate
  <2>1. PICK answers \in BOOLEAN :
          /\ due' = {k \in Candidates(answers) : Rested(k)}
          /\ state' = Merged(Evaluated(answers))
          /\ IF "service_down" \in seen.enabled /\ (answers \/ ~running)
             THEN looked' = 0 /\ crashed' = FALSE
             ELSE UNCHANGED <<looked, crashed>>
    BY <1>10 DEF Evaluate
  <2>2. /\ tick = "evaluating" /\ Finish
        /\ UNCHANGED <<profile, enabled, world, ticked, announcing, overtaken>>
    BY <1>10 DEF Evaluate
  <2>3. /\ Candidates(answers) \subseteq Keys
        /\ KnownThen \subseteq Macs /\ AlertedThen \in BOOLEAN
        /\ CountersThen(answers) \in Unknown..MaxCount
        /\ state' = [state EXCEPT !.baselined = seen.file.baselined \/ "new_device" \in seen.enabled,
                                  !.known = KnownThen, !.alerted = AlertedThen,
                                  !.counters = CountersThen(answers)]
    BY <2>1, <2>2, EvaluateTypes
  <2>4. FileTyped'
    BY <2>2, <2>3 DEF FileTyped, SeenTyped, States
  <2>5. WorldTyped'
    BY <2>1, <2>2 DEF WorldTyped, world
  <2>6. TurnsTyped' /\ SeenTyped'
    BY <2>1, <2>2, <2>3 DEF TurnsTyped, SeenTyped, Finish
  <2> QED
    BY <2>4, <2>5, <2>6
<1>11. ASSUME NEW k \in Keys, TickSend(k)
       PROVE  Typed'
  <2>1. FileTyped'
    BY <1>11, DeliveredTypes DEF TickSend, FileTyped
  <2> QED
    BY <1>11, <2>1 DEF TickSend, WorldTyped, SeenTyped, TurnsTyped, Finish, world
<1> QED
  BY <1>1, <1>2, <1>3, <1>4, <1>5, <1>6, <1>7, <1>8, <1>9, <1>10, <1>11 DEF Next, Ticker

LEMMA TypeIsKept == Spec => []Typed
BY TypedAtFirst, TypedKept, PTL DEF Spec

\* The alerts store and the state file hold what they should, ages stay within the
\* limits they are compared with, and there is something due just as long as the
\* ticker is delivering.
THEOREM TypeCorrect == Spec => []TypeOK
<1>1. Typed => TypeOK
  BY DEF Typed, FileTyped, TurnsTyped, States, TypeOK
<1> QED
  BY <1>1, TypeIsKept, PTL

-----------------------------------------------------------------------------
(* What steps do to the file                                               *)

\* The world's steps and the settings' leave the alerts' own state alone.
LEMMA Elsewhere ==
  ASSUME UNCHANGED vars \/ World \/ \E kinds \in profile : SaveSettings(kinds)
  PROVE  /\ UNCHANGED <<state, tick, seen, due, ticked, announcing, restarting>>
         /\ UNCHANGED <<since, told, excused, looked, overtaken>>
BY DEF vars, world, ticker, ghosts, World, Lease, EditStatic, Fault, Query, Crash, Respawn,
       SaveSettings

LEMMA EvaluateMeans ==
  ASSUME Typed, Evaluate
  PROVE  /\ tick = "evaluating" /\ tick' # "evaluating" /\ ticked
         /\ \E answers \in BOOLEAN :
              /\ due' = {k \in Candidates(answers) : Rested(k)}
              /\ state'.counters = CountersThen(answers)
              /\ IF "service_down" \in seen.enabled /\ (answers \/ ~running)
                 THEN looked' = 0 /\ crashed' = FALSE
                 ELSE UNCHANGED <<looked, crashed>>
         /\ state'.known = KnownThen
         /\ state'.age = state.age /\ state'.restartAge = state.restartAge
         /\ UNCHANGED <<count, ticked, announcing, restarting, since, told, overtaken>>
<1>1. PICK answers \in BOOLEAN :
        /\ due' = {k \in Candidates(answers) : Rested(k)}
        /\ state' = Merged(Evaluated(answers))
        /\ IF "service_down" \in seen.enabled /\ (answers \/ ~running)
           THEN looked' = 0 /\ crashed' = FALSE
           ELSE UNCHANGED <<looked, crashed>>
  BY DEF Evaluate
<1>2. /\ tick = "evaluating" /\ Finish
      /\ UNCHANGED <<count, ticked, announcing, restarting, since, told, overtaken>>
  BY DEF Evaluate, world
<1>3. state' = [state EXCEPT !.baselined = seen.file.baselined \/ "new_device" \in seen.enabled,
                             !.known = KnownThen, !.alerted = AlertedThen,
                             !.counters = CountersThen(answers)]
  BY <1>1, <1>2, EvaluateTypes
<1>4. /\ state'.counters = CountersThen(answers) /\ state'.known = KnownThen
      /\ state'.age = state.age /\ state'.restartAge = state.restartAge
  BY <1>3 DEF Typed, FileTyped, States
<1>5. tick' # "evaluating" /\ ticked
  BY <1>2 DEF Finish, Typed, TurnsTyped
<1> QED
  BY <1>1, <1>2, <1>4, <1>5

LEMMA AgesKept == Typed /\ Ages /\ [Next]_vars => Ages'
<1> SUFFICES ASSUME Typed, Ages, [Next]_vars PROVE Ages'
  OBVIOUS
<1> USE DEF Typed, Ages
<1>1. CASE UNCHANGED vars \/ World \/ \E kinds \in profile : SaveSettings(kinds)
  BY <1>1, Elsewhere
<1>2. CASE Pass
  BY <1>2, PassTypes DEF Pass
<1>3. CASE NoteExpected \/ Restart \/ TickRead \/ \E m \in Macs : LeaseEvent(m)
  <2>1. UNCHANGED since
    BY <1>3 DEF NoteExpected, Restart, TickRead, LeaseEvent, ghosts
  <2>2. state'.age = state.age
    BY <1>3 DEF NoteExpected, Restart, TickRead, LeaseEvent, FileTyped, States
  <2> QED
    BY <2>1, <2>2
<1>4. ASSUME NEW k \in Keys, Delivered(k)
      PROVE  Ages'
  BY <1>4, DeliveredTypes DEF Delivered
<1>5. CASE Announced
  BY <1>4, <1>5 DEF Announced, TurnsTyped, Keys
<1>6. CASE Evaluate
  BY <1>6, EvaluateMeans
<1>7. ASSUME NEW k \in Keys, TickSend(k)
      PROVE  Ages'
  BY <1>4, <1>7 DEF TickSend
<1> QED
  BY <1>1, <1>2, <1>3, <1>5, <1>6, <1>7 DEF Next, Ticker

LEMMA WrittenKept == Typed /\ Written /\ [Next]_vars => Written'
<1> SUFFICES ASSUME Typed, Written, [Next]_vars PROVE Written'
  OBVIOUS
<1> USE DEF Typed, Written
<1>1. CASE UNCHANGED vars \/ World \/ \E kinds \in profile : SaveSettings(kinds)
  BY <1>1, Elsewhere
<1>2. CASE Pass
  BY <1>2 DEF Pass
<1>3. CASE NoteExpected \/ Restart
  <2>1. UNCHANGED <<announcing, ticked>> /\ state'.known = state.known
    BY <1>3 DEF NoteExpected, Restart, ticker, FileTyped, States
  <2> QED
    BY <2>1
<1>4. ASSUME NEW m \in Macs, LeaseEvent(m)
      PROVE  Written'
  BY <1>4 DEF LeaseEvent, FileTyped, States
<1>5. CASE Announced
  BY <1>5 DEF Announced
<1>6. CASE TickRead
  BY <1>6 DEF TickRead
<1>7. CASE Evaluate
  BY <1>7, EvaluateMeans
<1>8. ASSUME NEW k \in Keys, TickSend(k)
      PROVE  Written'
  BY <1>8 DEF TickSend, TurnsTyped
<1> QED
  BY <1>1, <1>2, <1>3, <1>4, <1>5, <1>6, <1>7, <1>8 DEF Next, Ticker

LEMMA StillReadKept ==
  Typed /\ Ages /\ Written /\ StillRead /\ [Next]_vars => StillRead'
<1> SUFFICES ASSUME Typed, Ages, Written, StillRead, [Next]_vars PROVE StillRead'
  OBVIOUS
<1> USE DEF Typed, StillRead
<1>1. CASE UNCHANGED vars \/ World \/ \E kinds \in profile : SaveSettings(kinds)
  BY <1>1, Elsewhere
<1>2. CASE Pass
  BY <1>2 DEF Pass
<1>3. CASE NoteExpected
  <2>1. /\ UNCHANGED <<tick, seen, since, announcing>> /\ state'.counters = state.counters
        /\ overtaken' = [overtaken EXCEPT !.restart = @ \/ tick = "evaluating"]
    BY <1>3 DEF NoteExpected, ticker, FileTyped, States
  <2> QED
    BY <2>1 DEF WorldTyped
<1>4. CASE Restart
  BY <1>4 DEF Restart, ticker, ghosts
<1>5. ASSUME NEW m \in Macs, LeaseEvent(m)
      PROVE  StillRead'
  <2>1. /\ UNCHANGED <<tick, seen, since>> /\ announcing' = m
        /\ state'.counters = state.counters /\ state'.restartAge = state.restartAge
        /\ overtaken' = [overtaken EXCEPT !.announced = @ \cup {m}]
    BY <1>5 DEF LeaseEvent, ticker, FileTyped, States
  <2> QED
    BY <2>1 DEF WorldTyped
<1>6. CASE Announced
  <2>1. announcing \in Keys /\ announcing # NoMac /\ Delivered(announcing)
    BY <1>6 DEF Announced, TurnsTyped, Keys
  <2>2. /\ UNCHANGED <<tick, seen, overtaken>> /\ announcing' = NoMac
        /\ state'.counters = state.counters /\ state'.restartAge = state.restartAge
    BY <1>6, <2>1, DeliveredTypes DEF Announced, ticker
  <2>3. \A k \in Keys : k # announcing => since'[k] = since[k]
    BY <2>1 DEF Delivered, Ages, FileTyped, States
  <2> QED
    BY <2>1, <2>2, <2>3
<1>7. CASE TickRead
  <2>1. CASE enabled = {}
    BY <1>7, <2>1 DEF TickRead, TurnsTyped
  <2>2. CASE enabled # {}
    <3>1. /\ seen'.file = state /\ UNCHANGED <<state, announcing, since>> /\ ~ticked
      BY <1>7, <2>2 DEF TickRead
    <3> QED
      BY <3>1 DEF Ages, Written
  <2> QED
    BY <2>1, <2>2
<1>8. CASE Evaluate
  BY <1>8, EvaluateMeans
<1>9. ASSUME NEW k \in Keys, TickSend(k)
      PROVE  StillRead'
  BY <1>9 DEF TickSend, Finish
<1> QED
  BY <1>1, <1>2, <1>3, <1>4, <1>5, <1>6, <1>7, <1>8, <1>9 DEF Next, Ticker

-----------------------------------------------------------------------------
(* Nobody slips in                                                         *)

\* What counts as known, and what the ticker has read as known, was told of.
LEMMA KnownKept ==
  Typed /\ Ages /\ Heard /\ KnownMeansTold /\ [Next]_vars => Heard' /\ KnownMeansTold'
<1> SUFFICES ASSUME Typed, Ages, Heard, KnownMeansTold, [Next]_vars
             PROVE  Heard' /\ KnownMeansTold'
  OBVIOUS
<1> USE DEF Typed
<1>k. state.known \subseteq Macs /\ Cooldown \in Nat
  BY AgeAssumption DEF FileTyped, States
<1>1. CASE UNCHANGED vars \/ World \/ \E kinds \in profile : SaveSettings(kinds)
  BY <1>1, Elsewhere DEF Heard, ToldRead, KnownMeansTold
<1>2. CASE Pass
  <2>1. state'.known = state.known /\ UNCHANGED <<tick, due, announcing, told, excused>>
    BY <1>2, PassTypes DEF Pass
  <2>2. tick = "idle" /\ \A m \in Macs : since'[m] = Older(since[m], Cooldown)
    BY <1>2 DEF Pass, Keys
  <2>3. \A m \in Macs : since'[m] # Cooldown => since[m] # Cooldown
    BY <1>k, <2>2, OlderIs
  <2> QED
    BY <2>1, <2>2, <2>3 DEF Heard, ToldRead, KnownMeansTold
<1>3. CASE NoteExpected \/ Restart
  <2>1. /\ UNCHANGED <<tick, seen, due, announcing, since, told, excused>>
        /\ state'.known = state.known
    BY <1>3 DEF NoteExpected, Restart, ticker, ghosts, FileTyped, States
  <2> QED
    BY <2>1 DEF Heard, ToldRead, KnownMeansTold
<1>4. ASSUME NEW m \in Macs, LeaseEvent(m)
      PROVE  Heard' /\ KnownMeansTold'
  <2>1. /\ UNCHANGED <<tick, seen, due, since, told, excused>>
        /\ announcing = NoMac /\ announcing' = m /\ state'.known = state.known \cup {m}
    BY <1>4 DEF LeaseEvent, ticker, FileTyped, States
  <2>2. NoMac \notin state.known
    BY <1>k, KeyAssumption
  <2>3. KnownMeansTold'
    BY <2>1, <2>2 DEF KnownMeansTold
  <2>4. Heard'
    <3>1. tick = "evaluating" => NoMac \notin seen.file.known
      BY KeyAssumption DEF SeenTyped, States
    <3> QED
      BY <2>1, <3>1 DEF Heard, ToldRead
  <2> QED
    BY <2>3, <2>4
<1>d. \* Whoever is delivered to has been told.
      ASSUME NEW k \in Keys, Delivered(k)
      PROVE  /\ told \subseteq told' /\ (k \in Macs => k \in told')
             /\ \A m \in Macs : since'[m] # Cooldown => since[m] # Cooldown \/ m = k
             /\ state'.known = state.known
  <2>1. since \in [Keys -> 0..Cooldown]
    BY DEF Ages, FileTyped, States
  <2>2. since' = [since EXCEPT ![k] = 0] /\ told' = told \cup ({k} \cap Macs)
    BY <1>d DEF Delivered
  <2>3. state'.known = state.known
    BY <1>d, DeliveredTypes
  <2> QED
    BY <2>1, <2>2, <2>3 DEF Keys
<1>5. CASE Announced
  <2>1. announcing \in Macs /\ announcing \in Keys /\ Delivered(announcing)
    BY <1>5 DEF Announced, TurnsTyped, Keys
  <2>2. UNCHANGED <<tick, seen, due, excused>>
    BY <1>5 DEF Announced, ticker
  <2> QED
    BY <1>d, <2>1, <2>2 DEF Heard, ToldRead, KnownMeansTold
<1>6. CASE TickRead
  <2>1. /\ UNCHANGED <<state, due, announcing, since, told, excused>> /\ due = {}
        /\ tick' # "evaluating" \/ seen'.file = state
    BY <1>6 DEF TickRead, TurnsTyped
  <2> QED
    BY <2>1 DEF Heard, ToldRead, KnownMeansTold, Ages
<1>7. CASE Evaluate
  <2>1. /\ tick = "evaluating" /\ tick' # "evaluating" /\ state'.known = KnownThen
        /\ UNCHANGED <<announcing, since, told>>
    BY <1>7, EvaluateMeans
  <2>2. PICK answers \in BOOLEAN : due' = {k \in Candidates(answers) : Rested(k)}
    BY <1>7, EvaluateMeans
  <2>3. /\ excused \subseteq excused'
        /\ "new_device" \in seen.enabled => seen.statics \subseteq excused'
        /\ "new_device" \in seen.enabled /\ ~seen.file.baselined => seen.leased \subseteq excused'
    BY <1>7 DEF Evaluate
  <2>4. ASSUME NEW m \in KnownThen
        PROVE  m \in excused' \cup told' \cup due' \cup {announcing'}
    <3>1. CASE m \in seen.file.known
      BY <2>1, <2>3, <3>1 DEF Heard, ToldRead
    <3>2. CASE "new_device" \in seen.enabled /\ m \in seen.statics
      BY <2>3, <3>2
    <3>3. CASE "new_device" \in seen.enabled /\ m \in seen.leased /\ ~seen.file.baselined
      BY <2>3, <3>3
    <3>4. CASE /\ "new_device" \in seen.enabled /\ m \in seen.leased /\ seen.file.baselined
               /\ m \notin seen.file.known \cup seen.statics
      <4>1. m \in Candidates(answers) /\ m \in Macs
        BY <2>1, <3>4 DEF Candidates, NewDevices, SeenTyped
      <4>2. CASE Rested(m)
        BY <2>2, <4>1, <4>2
      <4>3. CASE ~Rested(m)
        BY <2>1, <4>1, <4>3 DEF Rested, Heard, ToldRead
      <4> QED
        BY <4>2, <4>3
    <3> QED
      BY <3>1, <3>2, <3>3, <3>4 DEF KnownThen
  <2>5. KnownMeansTold'
    BY <2>1, <2>4 DEF KnownMeansTold
  <2> QED
    BY <2>1, <2>5 DEF Heard, ToldRead
<1>8. ASSUME NEW k \in Keys, TickSend(k)
      PROVE  Heard' /\ KnownMeansTold'
  <2>1. /\ Delivered(k) /\ due' = due \ {k} /\ UNCHANGED <<announcing, excused>>
        /\ tick' # "evaluating"
    BY <1>8 DEF TickSend, Finish
  <2> QED
    BY <1>d, <1>k, <2>1 DEF Heard, ToldRead, KnownMeansTold
<1> QED
  BY <1>1, <1>2, <1>3, <1>4, <1>5, <1>6, <1>7, <1>8 DEF Next, Ticker

LEMMA AgesCorrect == Spec => []Ages
<1>1. Init => Ages
  BY DEF Init, Ages
<1> QED
  BY <1>1, AgesKept, TypeIsKept, PTL DEF Spec

\* The ticker and the listener both write the list of known devices, the ticker from
\* a list it read before it probed the network.  However their steps fall, a device
\* is on it only if there is no need to tell of it, or someone has been told, or is
\* about to be.
THEOREM NobodySlipsIn == Spec => []KnownMeansTold
<1>1. Init => Heard /\ KnownMeansTold
  BY DEF Init, Heard, ToldRead, KnownMeansTold, Keys
<1> QED
  BY <1>1, KnownKept, AgesCorrect, TypeIsKept, PTL DEF Spec

-----------------------------------------------------------------------------
(* Nobody is told twice                                                    *)

LEMMA OnceAtEachStep ==
  ASSUME Typed, Ages, StillRead, [Next]_vars,
         NEW k \in (due' \ due) \cup ({announcing'} \ {announcing, NoMac})
  PROVE  since[k] = Cooldown \/ k \in overtaken.announced
<1> USE DEF Typed
<1>1. CASE UNCHANGED vars \/ World \/ \E kinds \in profile : SaveSettings(kinds)
  BY <1>1, Elsewhere
<1>2. CASE Pass \/ NoteExpected \/ Restart \/ Announced \/ TickRead \/ \E q \in Keys : TickSend(q)
  BY <1>2 DEF Pass, NoteExpected, Restart, Announced, TickRead, TickSend, ticker
<1>3. ASSUME NEW m \in Macs, LeaseEvent(m)
      PROVE  since[k] = Cooldown
  BY <1>3 DEF LeaseEvent, Ages, ticker
<1>4. CASE Evaluate
  <2>1. tick = "evaluating" /\ UNCHANGED announcing
    BY <1>4, EvaluateMeans
  <2>2. PICK answers \in BOOLEAN : due' = {q \in Candidates(answers) : Rested(q)}
    BY <1>4, EvaluateMeans
  <2>3. k \in Candidates(answers) /\ k \in Keys /\ seen.file.age[k] = Cooldown
    BY <2>1, <2>2, EvaluateTypes DEF Rested
  <2>4. k \notin seen.file.known
    <3>1. k \in NewDevices \/ k \notin Macs
      BY <2>3, KeyAssumption
         DEF Candidates, Filled, ServiceFound, FaultsFound, Services, WorldTyped
    <3> QED
      BY <2>1, <3>1 DEF NewDevices, SeenTyped, States
  <2> QED
    BY <2>1, <2>3, <2>4 DEF StillRead
<1> QED
  BY <1>1, <1>2, <1>3, <1>4 DEF Next, Ticker

LEMMA StillReadCorrect == Spec => []StillRead
<1>1. Init => Written /\ StillRead
  BY DEF Init, Written, StillRead
<1> QED
  BY <1>1, WrittenKept, StillReadKept, AgesCorrect, TypeIsKept, PTL DEF Spec

\* The cool-down is looked up in what was read before the probes and written after
\* the delivery.  Even so an alert starts on its way only when the last one of its
\* key has cooled down, but for a device that the listener has announced in between.
THEOREM ToldOnce == Spec => TellOnce
<1>1. Typed /\ Ages /\ StillRead /\ [Next]_vars =>
        [\A k \in (due' \ due) \cup ({announcing'} \ {announcing, NoMac}) :
           since[k] = Cooldown \/ k \in overtaken.announced]_vars
  BY OnceAtEachStep
<1> QED
  BY <1>1, TypeIsKept, AgesCorrect, StillReadCorrect, PTL DEF Spec, TellOnce

-----------------------------------------------------------------------------
(* A restart by the app is no alarm                                        *)

LEMMA LooksKept == Typed /\ StillRead /\ Looks /\ [Next]_vars => Looks'
<1> SUFFICES ASSUME Typed, StillRead, Looks, [Next]_vars PROVE Looks'
  OBVIOUS
<1> USE DEF Typed
<1>t. /\ state.counters \in Int /\ count \in Int /\ looked \in Nat /\ Grace + 1 \in Nat
      /\ state.restartAge \in 0..(Grace + 1)
  BY AgeAssumption, BoundAssumption DEF FileTyped, WorldTyped, States, Unknown
<1>1. CASE UNCHANGED vars \/ \E kinds \in profile : SaveSettings(kinds)
  <2>1. UNCHANGED <<state, restarting, count, crashed, looked>>
    BY <1>1 DEF vars, world, ghosts, SaveSettings
  <2> QED
    BY <2>1 DEF Looks
<1>2. CASE World
  <2>1. UNCHANGED <<state, restarting, looked>>
    BY <1>2, Elsewhere
  <2>2. \/ UNCHANGED <<count, crashed>>
        \/ count' = count + 1 /\ UNCHANGED crashed
        \/ crashed'
    BY <1>2 DEF World, Lease, EditStatic, Fault, Query, Crash, Respawn, ghosts
  <2> QED
    BY <1>t, <2>1, <2>2 DEF Looks
<1>3. CASE Pass
  <2>1. /\ UNCHANGED <<count, crashed, restarting>> /\ ~restarting
        /\ state'.counters = state.counters
        /\ state'.restartAge = Older(state.restartAge, Grace + 1)
        /\ looked' = Older(looked, Grace + 1)
    BY <1>3, PassTypes DEF Pass, world
  <2>2. state.restartAge <= looked =>
          Older(state.restartAge, Grace + 1) <= Older(looked, Grace + 1)
    BY <1>t, OlderKeepsOrder
  <2> QED
    BY <2>1, <2>2 DEF Looks
<1>4. CASE NoteExpected
  <2>1. /\ UNCHANGED <<count, crashed, looked>> /\ state'.restartAge = 0
    BY <1>4 DEF NoteExpected, world, FileTyped, States
  <2> QED
    BY <1>t, <2>1 DEF Looks
<1>5. CASE Restart
  <2>1. UNCHANGED <<state, crashed, looked>> /\ restarting /\ restarting' = FALSE
    BY <1>5 DEF Restart, ghosts
  <2> QED
    BY <1>t, <2>1 DEF Looks
<1>6. CASE \/ \E m \in Macs : LeaseEvent(m)
           \/ Announced \/ TickRead \/ \E k \in Keys : TickSend(k)
  <2>1. /\ UNCHANGED <<count, crashed, looked, restarting>>
        /\ state'.counters = state.counters /\ state'.restartAge = state.restartAge
    BY <1>6 DEF LeaseEvent, Announced, TickRead, TickSend, Delivered, world, FileTyped, States
  <2> QED
    BY <2>1 DEF Looks
<1>7. CASE Evaluate
  <2>1. /\ tick = "evaluating" /\ state'.restartAge = state.restartAge
        /\ UNCHANGED <<count, restarting>>
    BY <1>7, EvaluateMeans
  <2>2. PICK answers \in BOOLEAN :
          /\ state'.counters = CountersThen(answers)
          /\ IF "service_down" \in seen.enabled /\ (answers \/ ~running)
             THEN looked' = 0 /\ crashed' = FALSE
             ELSE UNCHANGED <<looked, crashed>>
    BY <1>7, EvaluateMeans
  <2>3. seen.file.counters = state.counters
    BY <2>1 DEF StillRead
  <2> QED
    BY <1>t, <2>1, <2>2, <2>3 DEF CountersThen, Looks
<1> QED
  BY <1>1, <1>2, <1>3, <1>4, <1>5, <1>6, <1>7 DEF Next, Ticker

LEMMA NoAlarmAtEachStep ==
  ASSUME Typed, StillRead, Looks, [Next]_vars, "restarted" \in due' \ due
  PROVE  crashed \/ overtaken.restart \/ looked > Grace
<1> USE DEF Typed
<1>1. due' \subseteq due \/ Evaluate
  <2>1. CASE UNCHANGED vars \/ World \/ \E kinds \in profile : SaveSettings(kinds)
    BY <2>1, Elsewhere
  <2>2. CASE \/ Pass \/ NoteExpected \/ Restart \/ Announced \/ TickRead
             \/ (\E q \in Keys : TickSend(q)) \/ (\E m \in Macs : LeaseEvent(m))
    BY <2>2 DEF Pass, NoteExpected, Restart, Announced, TickRead, TickSend, LeaseEvent, ticker
  <2> QED
    BY <2>1, <2>2 DEF Next, Ticker
<1>2. Evaluate
  BY <1>1
<1>3. tick = "evaluating"
  BY <1>2, EvaluateMeans
<1>4. PICK answers \in BOOLEAN : due' = {q \in Candidates(answers) : Rested(q)}
  BY <1>2, EvaluateMeans
<1>5. "restarted" \in ServiceFound(answers)
  <2>1. "restarted" \notin Macs \cup Faults
    BY KeyAssumption DEF Services
  <2> QED
    BY <1>3, <1>4, <2>1
       DEF Candidates, NewDevices, Filled, FaultsFound, SeenTyped, WorldTyped
<1>6. /\ seen.file.counters # Unknown /\ count < seen.file.counters
      /\ ~(seen.file.restartAge <= Grace)
  BY <1>5 DEF ServiceFound, Reset, Explained
<1>7. /\ seen.file.counters = state.counters
      /\ overtaken.restart \/ seen.file.restartAge = state.restartAge
  BY <1>3 DEF StillRead
<1>8. crashed \/ state.restartAge <= looked
  BY <1>6, <1>7 DEF Looks
<1>9. state.restartAge \in Int /\ looked \in Int /\ Grace \in Int
  BY AgeAssumption DEF FileTyped, WorldTyped, States
<1> QED
  BY <1>6, <1>7, <1>8, <1>9

\* Every restart the app makes is noted before it is made: the reset of the counters
\* that follows is explained, if the ticker read the file after that, by a note within
\* the grace, unless the last look at the counters is longer ago than that.
THEOREM RestartsAreExplained == Spec => NoFalseAlarm
<1>1. Init => Looks
  BY DEF Init, Looks
<1>2. Typed /\ StillRead /\ Looks /\ [Next]_vars =>
        [\A k \in (due' \ due) :
           k = "restarted" => crashed \/ overtaken.restart \/ looked > Grace]_vars
  BY NoAlarmAtEachStep
<1> QED
  BY <1>1, <1>2, LooksKept, TypeIsKept, StillReadCorrect, PTL DEF Spec, NoFalseAlarm
=============================================================================
