---------------------------- MODULE MirrorProofs ----------------------------
(***************************************************************************)
(* Proofs about Mirror, for any sections, stores, push threads and bounds: *)
(* the record of a source never claims a version the standby does not have *)
(* (Lineage), serials order what is sent under them (SerialOrdersContent), *)
(* an up-to-date push is not refused (FreshNeverStale), and what was       *)
(* answered ok stays mirrored (AnsweredMeansMirrored).                     *)
(***************************************************************************)
EXTENDS Mirror, TLAPS, WellFoundedInduction

-----------------------------------------------------------------------------
(* Max                                                                     *)

\* A set of natural numbers with a bound has a greatest member.
LEMMA MaxProperties ==
  ASSUME NEW S, NEW n \in Nat, S \subseteq 0..n, S # {}
  PROVE  Max(S) \in S /\ \A y \in S : y <= Max(S)
<1> DEFINE Bounds == {b \in Nat : \A y \in S : y <= b}
<1>1. n \in Bounds
  OBVIOUS
<1>2. PICK m \in Bounds : \A k \in Bounds : <<k, m>> \notin OpToRel(<, Nat)
  BY <1>1, WFMin, NatLessThanWellFounded, Zenon
<1>3. \A k \in Bounds : ~(k < m)
  BY <1>2, Zenon DEF OpToRel
<1>4. m \in S
  <2>1. SUFFICES ASSUME m \notin S PROVE FALSE
    OBVIOUS
  <2>2. PICK y \in S : TRUE
    OBVIOUS
  <2>3. m # 0
    BY <2>1, <2>2
  <2>4. m - 1 \in Bounds
    BY <2>1, <2>3
  <2> QED
    BY <2>4, <1>3
<1>5. m \in S /\ \A y \in S : m >= y
  BY <1>4
<1>6. Max(S) \in S /\ \A y \in S : Max(S) >= y
  BY <1>5, Zenon DEF Max
<1> QED
  BY <1>6

LEMMA MaxOfOne == ASSUME NEW x \in Nat PROVE Max({x}) = x
BY DEF Max

-----------------------------------------------------------------------------
(* The serial that labels a section                                        *)

Serials == [Stores -> 0..MaxSerial]

\* The serial that labels a section when these are the serials of the stores.
Label(f, sec) == Max({f[s] : s \in CarriedBy[sec]})

LEMMA LabelIs ==
  ASSUME NEW f \in Serials, NEW sec \in Sections
  PROVE  /\ \E s \in CarriedBy[sec] : Label(f, sec) = f[s]
         /\ \A s \in CarriedBy[sec] : f[s] <= Label(f, sec)
         /\ Label(f, sec) \in 0..MaxSerial
<1> DEFINE S == {f[s] : s \in CarriedBy[sec]}
<1>1. CarriedBy[sec] \subseteq Stores /\ CarriedBy[sec] # {}
  BY SectionAssumption
<1>2. S \subseteq 0..MaxSerial /\ S # {}
  BY <1>1 DEF Serials
<1>3. Max(S) \in S /\ \A y \in S : y <= Max(S)
  BY <1>2, MaxProperties, BoundAssumption
<1> QED
  BY <1>2, <1>3 DEF Label

\* While no store's serial goes back, neither does a section's.
LEMMA LabelGrows ==
  ASSUME NEW f \in Serials, NEW g \in Serials, \A s \in Stores : f[s] <= g[s],
         NEW sec \in Sections
  PROVE  Label(f, sec) <= Label(g, sec)
<1>1. PICK s \in CarriedBy[sec] : Label(f, sec) = f[s]
  BY LabelIs
<1>2. s \in Stores
  BY SectionAssumption
<1>3. g[s] <= Label(g, sec) /\ Label(g, sec) \in 0..MaxSerial
  BY LabelIs
<1> QED
  BY <1>1, <1>2, <1>3 DEF Serials

LEMMA SectionSerialIsLabel == \A sec : SectionSerial(sec) = Label(serial, sec)
BY DEF SectionSerial, Label

-----------------------------------------------------------------------------
(* Typing, in parts                                                        *)

Contents == (0..MaxEdits) \cup {Local}
Phases == {"none", "sent", "checked", "ok", "error"}

PrimaryTyped ==
  /\ mine \in [Sections -> 0..MaxEdits] /\ serial \in Serials
  /\ owed \subseteq Sections /\ lowered \in BOOLEAN

ThreadsTyped ==
  /\ pc \in [Pushes -> {"idle", "waiting", "sent"}]
  /\ wanted \in [Pushes -> SUBSET Sections] /\ pushing \in Pushes \cup {NoPush}

RequestsTyped ==
  /\ handler \in [Pushes -> Phases] /\ message \in [Pushes -> Payload \cup {NoMessage}]
  /\ \A p \in Pushes : handler[p] = "none" <=> message[p] = NoMessage

SentTyped == sent \subseteq Sections \X (0..MaxSerial) \X (0..MaxEdits)

StandbyTyped ==
  /\ have \in [Sections -> Contents] /\ accept \in BOOLEAN /\ crossed \in BOOLEAN
  /\ source \in Source \cup {NoSource} /\ writing \subseteq Sections

LEMMA TypeParts ==
  TypeOK <=> /\ PrimaryTyped /\ ThreadsTyped /\ RequestsTyped /\ SentTyped /\ StandbyTyped
             /\ upsets \in 0..MaxUpsets
BY DEF TypeOK, PrimaryTyped, ThreadsTyped, RequestsTyped, SentTyped, StandbyTyped,
       Serials, Contents, Phases

\* A payload, and what is in it.
LEMMA PayloadIs ==
  ASSUME NEW S \in SUBSET Sections, NEW d \in [S -> 0..MaxEdits], NEW n \in [S -> 0..MaxSerial]
  PROVE  [data |-> d, serials |-> n] \in Payload
BY DEF Payload

LEMMA PayloadHas ==
  ASSUME NEW m \in Payload
  PROVE  /\ DOMAIN m.data \subseteq Sections
         /\ m.data \in [DOMAIN m.data -> 0..MaxEdits]
         /\ m.serials \in [DOMAIN m.data -> 0..MaxSerial]
         /\ m # NoMessage
<1>1. PICK S \in SUBSET Sections : m \in [data : [S -> 0..MaxEdits], serials : [S -> 0..MaxSerial]]
  BY DEF Payload
<1> QED
  BY <1>1, MessageAssumption

LEMMA SentPayload ==
  ASSUME PrimaryTyped, NEW secs \in SUBSET Sections
  PROVE  /\ [data |-> [sec \in secs |-> mine[sec]],
             serials |-> [sec \in secs |-> SectionSerial(sec)]] \in Payload
         /\ \A sec \in secs : <<sec, SectionSerial(sec), mine[sec]>>
                                \in Sections \X (0..MaxSerial) \X (0..MaxEdits)
<1>1. \A sec \in secs : SectionSerial(sec) \in 0..MaxSerial
  BY LabelIs, SectionSerialIsLabel DEF PrimaryTyped
<1> QED
  BY <1>1, PayloadIs DEF PrimaryTyped

\* A message in flight is a payload.
LEMMA MessageHas ==
  ASSUME RequestsTyped, NEW p \in Pushes, handler[p] # "none"
  PROVE  /\ message[p] \in Payload
         /\ Pushed(p) \subseteq Sections
         /\ message[p].data \in [Pushed(p) -> 0..MaxEdits]
         /\ message[p].serials \in [Pushed(p) -> 0..MaxSerial]
BY PayloadHas DEF RequestsTyped, Pushed

LEMMA SourceHas ==
  ASSUME StandbyTyped, NEW sec \in Sections
  PROVE  /\ source # NoSource => source.serials \in [Sections -> (0..MaxSerial) \cup {Unseen}]
         /\ Seen(sec) \in (0..MaxSerial) \cup {Unseen}
         /\ Recorded[sec] = Seen(sec)
<1>1. source # NoSource => source.serials \in [Sections -> (0..MaxSerial) \cup {Unseen}]
  BY DEF StandbyTyped, Source
<1> QED
  BY <1>1 DEF Seen, Recorded

-----------------------------------------------------------------------------
(* Typing, operator by operator                                            *)

LEMMA StartPushTyped ==
  ASSUME ThreadsTyped, NEW p \in Pushes, NEW secs \in SUBSET Sections, StartPush(p, secs)
  PROVE  ThreadsTyped'
BY DEF ThreadsTyped, StartPush

LEMMA LeaveTyped ==
  ASSUME ThreadsTyped, NEW p \in Pushes, Leave(p)
  PROVE  ThreadsTyped'
BY DEF ThreadsTyped, Leave

LEMMA ForgetTyped ==
  ASSUME RequestsTyped, NEW p \in Pushes, Forget(p)
  PROVE  RequestsTyped'
BY DEF RequestsTyped, Forget, Phases

LEMMA ReplyTyped ==
  ASSUME RequestsTyped, NEW p \in Pushes, NEW answer \in {"ok", "error"},
         handler[p] # "none", Reply(p, answer)
  PROVE  RequestsTyped'
<1>1. CASE pc[p] = "sent"
  BY <1>1 DEF RequestsTyped, Reply, Phases
<1>2. CASE pc[p] # "sent"
  BY <1>2, ForgetTyped DEF Reply
<1> QED
  BY <1>1, <1>2

LEMMA SendTyped ==
  ASSUME PrimaryTyped, RequestsTyped, SentTyped, NEW p \in Pushes,
         NEW secs \in SUBSET Sections, Send(p, secs)
  PROVE  RequestsTyped' /\ SentTyped'
<1> DEFINE m == [data |-> [sec \in secs |-> mine[sec]],
                 serials |-> [sec \in secs |-> SectionSerial(sec)]]
<1>1. m \in Payload /\ m # NoMessage
  BY SentPayload, MessageAssumption
<1>2. message' = [message EXCEPT ![p] = m] /\ handler' = [handler EXCEPT ![p] = "sent"]
  BY DEF Send
<1>3. RequestsTyped'
  <2> HIDE DEF m
  <2> QED
    BY <1>1, <1>2 DEF RequestsTyped, Phases
<1>4. SentTyped'
  BY SentPayload DEF Send, SentTyped
<1> QED
  BY <1>3, <1>4

LEMMA MergedTyped ==
  ASSUME RequestsTyped, StandbyTyped, NEW p \in Pushes, handler[p] # "none"
  PROVE  /\ [serials |-> Merged(p), sections |-> Pushed(p)] \in Source
         /\ [sec \in Sections |-> IF sec \in Pushed(p) THEN message[p].data[sec]
                                                        ELSE have[sec]]
              \in [Sections -> Contents]
<1>1. \A sec \in Sections : Recorded[sec] \in (0..MaxSerial) \cup {Unseen}
  BY SourceHas
<1>2. /\ Pushed(p) \subseteq Sections
      /\ message[p].data \in [Pushed(p) -> 0..MaxEdits]
      /\ message[p].serials \in [Pushed(p) -> 0..MaxSerial]
  BY MessageHas
<1>3. Merged(p) \in [Sections -> (0..MaxSerial) \cup {Unseen}]
  BY <1>1, <1>2 DEF Merged
<1> QED
  BY <1>2, <1>3 DEF Source, StandbyTyped, Contents

-----------------------------------------------------------------------------
(* Typing, action by action                                                *)

LEMMA InitTyped == Init => TypeOK
<1> SUFFICES ASSUME Init PROVE TypeOK
  OBVIOUS
<1>1. PrimaryTyped
  <2>1. 0 \in 0..MaxEdits /\ 0 \in 0..MaxSerial
    BY BoundAssumption
  <2>2. mine \in [Sections -> 0..MaxEdits] /\ serial \in Serials
    BY <2>1 DEF Init, Serials
  <2>3. owed \subseteq Sections /\ lowered \in BOOLEAN
    BY DEF Init
  <2> QED
    BY <2>2, <2>3 DEF PrimaryTyped
<1>2. ThreadsTyped /\ SentTyped
  BY DEF Init, ThreadsTyped, SentTyped
<1>3. RequestsTyped
  BY DEF Init, RequestsTyped, Phases
<1>4. StandbyTyped
  BY DEF Init, StandbyTyped, Contents
<1>5. upsets \in 0..MaxUpsets
  BY BoundAssumption DEF Init
<1> QED
  BY <1>1, <1>2, <1>3, <1>4, <1>5, TypeParts

LEMMA UpsetTyped == upsets \in 0..MaxUpsets /\ Upset => upsets' \in 0..MaxUpsets
BY BoundAssumption DEF Upset

LEMMA EditTyped ==
  ASSUME TypeOK, NEW secs \in Edits, Edit(secs)
  PROVE  TypeOK'
<1> USE TypeParts
<1>1. secs \subseteq Sections
  BY SectionAssumption
<1>2. ThreadsTyped'
  BY <1>1, StartPushTyped DEF Edit
<1>3. PrimaryTyped'
  <2>1. \A sec \in secs : mine[sec] + 1 \in 0..MaxEdits
    BY <1>1, BoundAssumption DEF Edit, PrimaryTyped
  <2>2. \A s \in Stores : s \in Bumped(secs) => serial[s] + 1 \in 0..MaxSerial
    BY BoundAssumption DEF Edit, PrimaryTyped, Serials
  <2> QED
    BY <1>1, <2>1, <2>2 DEF Edit, PrimaryTyped, Serials
<1>4. UNCHANGED <<requests, standby, upsets>>
  BY DEF Edit
<1> QED
  BY <1>2, <1>3, <1>4 DEF TypeOK, requests, standby, RequestsTyped, SentTyped, StandbyTyped,
     PrimaryTyped, ThreadsTyped, Serials, Phases, Contents, Pushed

LEMMA ToggleTyped ==
  ASSUME TypeOK, NEW s \in Stores, Toggle(s)
  PROVE  TypeOK'
<1>1. serial[s] + 1 \in 0..MaxSerial
  BY BoundAssumption DEF Toggle, TypeOK
<1> QED
  BY <1>1 DEF Toggle, TypeOK, threads, requests, standby

LEMMA RestoreBackupTyped ==
  ASSUME TypeOK, NEW old \in [Stores -> 0..MaxSerial], RestoreBackup(old)
  PROVE  TypeOK'
<1> USE TypeParts
<1>1. ThreadsTyped'
  BY StartPushTyped DEF RestoreBackup
<1>2. PrimaryTyped'
  <2>1. \A sec \in Sections : mine[sec] + 1 \in 0..MaxEdits
    BY BoundAssumption DEF RestoreBackup, PrimaryTyped
  <2>2. \A s \in Stores : old[s] \in 0..MaxSerial /\ old[s] + 1 \in 0..MaxSerial
    BY BoundAssumption DEF RestoreBackup
  <2>3. lowered' \in BOOLEAN
    BY DEF RestoreBackup, PrimaryTyped
  <2> QED
    BY <2>1, <2>2, <2>3 DEF RestoreBackup, PrimaryTyped, Serials
<1>3. UNCHANGED <<requests, standby>> /\ upsets' \in 0..MaxUpsets
  BY UpsetTyped DEF RestoreBackup
<1> QED
  BY <1>1, <1>2, <1>3 DEF TypeOK, requests, standby, RequestsTyped, SentTyped, StandbyTyped,
     PrimaryTyped, ThreadsTyped, Serials, Phases, Contents

LEMMA SendingTyped ==
  ASSUME TypeOK, NEW p \in Pushes, PushAll(p) \/ SyncNow(p)
  PROVE  TypeOK'
<1> USE TypeParts
<1>1. wanted[p] \subseteq Sections
  BY DEF ThreadsTyped
<1>2. RequestsTyped' /\ SentTyped'
  BY <1>1, SendTyped DEF PushAll, SyncNow
<1>3. ThreadsTyped'
  BY DEF PushAll, SyncNow, Send, ThreadsTyped
<1>4. UNCHANGED <<primary, standby, upsets>>
  BY DEF PushAll, SyncNow
<1> QED
  BY <1>2, <1>3, <1>4 DEF TypeOK, primary, standby, RequestsTyped, SentTyped, StandbyTyped,
     PrimaryTyped, ThreadsTyped, Serials, Phases, Contents

LEMMA LeavingTyped ==
  ASSUME TypeOK, NEW p \in Pushes, Answer(p) \/ Timeout(p)
  PROVE  TypeOK'
<1> USE TypeParts
<1>1. ThreadsTyped'
  BY LeaveTyped DEF Answer, Timeout
<1>2. RequestsTyped'
  BY ForgetTyped DEF Answer, Timeout, RequestsTyped
<1>3. /\ UNCHANGED <<mine, serial, lowered, sent, standby>> /\ owed' \subseteq owed
      /\ upsets' \in 0..MaxUpsets
  BY UpsetTyped DEF Answer, Timeout, primary
<1> QED
  BY <1>1, <1>2, <1>3 DEF TypeOK, standby, RequestsTyped, SentTyped, StandbyTyped,
     PrimaryTyped, ThreadsTyped, Serials, Phases, Contents

LEMMA PrimaryDiesTyped == TypeOK /\ PrimaryDies => TypeOK'
<1> SUFFICES ASSUME TypeOK, PrimaryDies PROVE TypeOK'
  OBVIOUS
<1>1. upsets' \in 0..MaxUpsets
  BY UpsetTyped DEF PrimaryDies, TypeOK
<1> QED
  BY <1>1 DEF TypeOK, PrimaryDies, primary, standby

LEMMA HandlingTyped ==
  ASSUME TypeOK, NEW p \in Pushes, Receive(p) \/ ApplyPush(p) \/ DropPush(p)
  PROVE  TypeOK'
<1> USE TypeParts
<1>1. handler[p] # "none"
  BY DEF Receive, ApplyPush, DropPush
<1>2. RequestsTyped'
  <2>1. CASE \E answer \in {"ok", "error"} : Reply(p, answer)
    BY <1>1, <2>1, ReplyTyped
  <2>2. CASE handler' = [handler EXCEPT ![p] = "checked"] /\ UNCHANGED message
    BY <1>1, <2>2 DEF RequestsTyped, Phases
  <2> QED
    BY <2>1, <2>2 DEF Receive, ApplyPush, DropPush
<1>3. StandbyTyped'
  <2>1. CASE ApplyPush(p)
    BY <1>1, <2>1, MergedTyped DEF ApplyPush, StandbyTyped
  <2>2. CASE Receive(p) \/ DropPush(p)
    BY <2>2 DEF Receive, DropPush, StandbyTyped, standby
  <2> QED
    BY <2>1, <2>2
<1>4. UNCHANGED <<primary, threads, sent>> /\ upsets' \in 0..MaxUpsets
  BY UpsetTyped DEF Receive, ApplyPush, DropPush
<1> QED
  BY <1>2, <1>3, <1>4 DEF TypeOK, primary, threads, RequestsTyped, SentTyped, StandbyTyped,
     PrimaryTyped, ThreadsTyped, Serials, Phases, Contents

LEMMA LocalTyped ==
  ASSUME TypeOK,
         (\E secs \in LocalWrites : StartWrite(secs)) \/ FinishWrite \/ Detach \/ SetAccept
  PROVE  TypeOK'
<1>1. upsets' \in 0..MaxUpsets
  BY UpsetTyped DEF TypeOK, StartWrite, FinishWrite, Detach, SetAccept
<1>2. UNCHANGED <<primary, threads, requests>>
  BY DEF StartWrite, FinishWrite, Detach, SetAccept
<1>3. StandbyTyped'
  <2> USE TypeParts DEF StandbyTyped
  <2>1. ASSUME NEW secs \in LocalWrites, StartWrite(secs) PROVE StandbyTyped'
    BY <2>1, SectionAssumption DEF StartWrite
  <2>2. CASE FinishWrite
    BY <2>2 DEF FinishWrite, Contents
  <2>3. CASE Detach \/ SetAccept
    <3>1. crossed' \in BOOLEAN /\ accept' \in BOOLEAN
      BY <2>3 DEF Detach, SetAccept
    <3> QED
      BY <2>3, <3>1 DEF Detach, SetAccept
  <2> QED
    BY <2>1, <2>2, <2>3
<1> QED
  BY <1>1, <1>2, <1>3 DEF TypeOK, primary, threads, requests, StandbyTyped, Contents

LEMMA StepTyped == TypeOK /\ [Next]_vars => TypeOK'
<1> SUFFICES ASSUME TypeOK, [Next]_vars PROVE TypeOK'
  OBVIOUS
<1>1. CASE UNCHANGED vars
  BY <1>1 DEF TypeOK, vars, primary, threads, requests, standby
<1>2. CASE Next
  BY <1>2, EditTyped, ToggleTyped, RestoreBackupTyped, SendingTyped, LeavingTyped,
     PrimaryDiesTyped, HandlingTyped, LocalTyped DEF Next
<1> QED
  BY <1>1, <1>2

\* Every variable keeps its type, for any sections, stores, threads and bounds.
LEMMA TypeCorrect == Spec => []TypeOK
BY InitTyped, StepTyped, PTL DEF Spec

-----------------------------------------------------------------------------
(* What a step does to the requests                                        *)

\* A request as the standby has it: its payload, and what it says of a section.
Carries(p, sec) == handler[p] # "none" /\ sec \in Pushed(p)

\* The request p is new, and says of every section what holds of the primary now.
SentNow(p) ==
  /\ handler'[p] = "sent"
  /\ \A sec \in Sections : Carries(p, sec)' =>
       /\ message'[p].serials[sec] = SectionSerial(sec) /\ message'[p].data[sec] = mine[sec]
       /\ <<sec, SectionSerial(sec), mine[sec]>> \in sent'
  /\ UNCHANGED <<mine, serial, lowered, standby>>

\* The request p was there before, with the same payload.
Kept(p) == handler[p] # "none" /\ message'[p] = message[p]

\* Whatever was sent stays sent, and what is new is the state of the primary.
SentGrows ==
  /\ sent \subseteq sent'
  /\ \A a \in sent' \ sent :
       /\ UNCHANGED <<mine, serial, lowered>>
       /\ \E sec \in Sections : a = <<sec, SectionSerial(sec), mine[sec]>>

LEMMA SendIs ==
  ASSUME TypeOK, NEW p \in Pushes, NEW secs \in SUBSET Sections, Send(p, secs),
         UNCHANGED <<mine, serial, lowered, standby>>
  PROVE  SentNow(p) /\ SentGrows /\ \A q \in Pushes \ {p} : UNCHANGED <<handler[q], message[q]>>
<1> DEFINE m == [data |-> [sec \in secs |-> mine[sec]],
                 serials |-> [sec \in secs |-> SectionSerial(sec)]]
<1>1. message' = [message EXCEPT ![p] = m] /\ handler' = [handler EXCEPT ![p] = "sent"]
  BY DEF Send
<1>2. message'[p] = m /\ handler'[p] = "sent"
  BY <1>1 DEF TypeOK
<1>3. sent' = sent \cup {<<sec, SectionSerial(sec), mine[sec]>> : sec \in secs}
  BY DEF Send
<1>4. \A sec : Carries(p, sec)' => sec \in secs
  BY <1>2 DEF Carries, Pushed
<1>5. \A sec \in secs : message'[p].serials[sec] = SectionSerial(sec)
                        /\ message'[p].data[sec] = mine[sec]
  BY <1>2
<1>6. SentNow(p)
  BY <1>2, <1>3, <1>4, <1>5 DEF SentNow
<1>7. SentGrows
  BY <1>3 DEF SentGrows
<1>8. \A q \in Pushes \ {p} : UNCHANGED <<handler[q], message[q]>>
  <2> HIDE DEF m
  <2> QED
    BY <1>1 DEF TypeOK
<1> QED
  BY <1>6, <1>7, <1>8

LEMMA ReplyIs ==
  ASSUME TypeOK, NEW p \in Pushes, NEW answer \in {"ok", "error"}, Reply(p, answer),
         handler[p] # "none"
  PROVE  /\ \A q \in Pushes \ {p} : UNCHANGED <<handler[q], message[q]>>
         /\ handler'[p] = answer \/ handler'[p] = "none"
         /\ handler'[p] # "none" => message'[p] = message[p]
BY DEF TypeOK, Reply, Forget

LEMMA RequestsStep ==
  ASSUME TypeOK, [Next]_vars
  PROVE  /\ \A p \in Pushes : handler'[p] # "none" => Kept(p) \/ SentNow(p)
         /\ SentGrows
<1> DEFINE Claim == /\ \A p \in Pushes : handler'[p] # "none" => Kept(p) \/ SentNow(p)
                    /\ SentGrows
<1> DEFINE Fewer == /\ \A p \in Pushes : handler'[p] # "none" => Kept(p)
                    /\ UNCHANGED sent
<1>1. Fewer => Claim
  BY DEF SentGrows
<1>2. ASSUME NEW p \in Pushes, PushAll(p) \/ SyncNow(p) PROVE Claim
  <2>1. UNCHANGED <<mine, serial, lowered, standby>>
    BY <1>2 DEF PushAll, SyncNow, primary
  <2>2. PICK secs \in SUBSET Sections : Send(p, secs)
    BY <1>2 DEF PushAll, SyncNow, TypeOK
  <2> QED
    BY <2>1, <2>2, SendIs DEF Kept
<1>3. ASSUME NEW p \in Pushes, Answer(p) \/ Timeout(p) PROVE Fewer
  <2>1. UNCHANGED sent
    BY <1>3 DEF Answer, Timeout
  <2>2. CASE Forget(p)
    BY <2>1, <2>2, TypeParts DEF Forget, Kept, RequestsTyped
  <2>3. CASE UNCHANGED <<message, handler>>
    BY <2>1, <2>3 DEF Kept
  <2> QED
    BY <1>3, <2>2, <2>3 DEF Answer, Timeout
<1>4. CASE PrimaryDies
  <2>1. UNCHANGED sent
    BY <1>4 DEF PrimaryDies
  <2>2. ASSUME NEW p \in Pushes, handler'[p] # "none" PROVE Kept(p)
    BY <1>4, <2>2 DEF PrimaryDies, Kept
  <2> QED
    BY <1>1, <2>1, <2>2
<1>5. ASSUME NEW p \in Pushes, Receive(p) \/ ApplyPush(p) \/ DropPush(p) PROVE Fewer
  <2>1. UNCHANGED sent /\ handler[p] # "none"
    BY <1>5 DEF Receive, ApplyPush, DropPush
  <2>2. CASE \E answer \in {"ok", "error"} : Reply(p, answer)
    BY <2>1, <2>2, ReplyIs DEF Kept
  <2>3. CASE handler' = [handler EXCEPT ![p] = "checked"] /\ UNCHANGED message
    BY <2>1, <2>3 DEF TypeOK, Kept
  <2> QED
    BY <1>5, <2>2, <2>3 DEF Receive, ApplyPush, DropPush
<1>6. ASSUME UNCHANGED requests PROVE Fewer
  BY <1>6 DEF requests, Kept
<1>7. CASE UNCHANGED requests
  BY <1>1, <1>6, <1>7
<1>8. ASSUME Next, ~UNCHANGED requests,
             ~\E p \in Pushes : PushAll(p) \/ SyncNow(p) \/ Answer(p) \/ Timeout(p)
                                  \/ Receive(p) \/ ApplyPush(p) \/ DropPush(p)
      PROVE  PrimaryDies
  BY <1>8 DEF Next, Edit, Toggle, RestoreBackup, StartWrite, FinishWrite, Detach, SetAccept
<1> QED
  BY <1>1, <1>2, <1>3, <1>4, <1>5, <1>7, <1>8 DEF vars, requests

-----------------------------------------------------------------------------
(* What a step does to the standby                                         *)

LEMMA StandbyStep ==
  ASSUME [Next]_vars
  PROVE  \/ UNCHANGED <<have, source>>
         \/ \E p \in Pushes : ApplyPush(p)
         \/ FinishWrite
         \/ Detach
<1>1. ASSUME NEW p \in Pushes, PushAll(p) \/ SyncNow(p) \/ Answer(p) \/ Timeout(p)
                               \/ Receive(p) \/ DropPush(p)
      PROVE  UNCHANGED <<have, source>>
  BY <1>1 DEF PushAll, SyncNow, Answer, Timeout, Receive, DropPush, standby
<1>2. CASE (\E secs \in Edits : Edit(secs)) \/ (\E s \in Stores : Toggle(s))
           \/ (\E old \in [Stores -> 0..MaxSerial] : RestoreBackup(old)) \/ PrimaryDies
  BY <1>2 DEF Edit, Toggle, RestoreBackup, PrimaryDies, standby
<1>3. CASE (\E secs \in LocalWrites : StartWrite(secs)) \/ SetAccept \/ UNCHANGED vars
  BY <1>3 DEF StartWrite, SetAccept, vars, standby
<1> QED
  BY <1>1, <1>2, <1>3 DEF Next

\* What the standby holds once a push has been applied.
LEMMA ApplyPushIs ==
  ASSUME TypeOK, NEW p \in Pushes, ApplyPush(p), NEW sec \in Sections
  PROVE  /\ handler[p] = "checked" /\ handler[p] # "none"
         /\ sec \in Pushed(p) => /\ have'[sec] = message[p].data[sec]
                                 /\ Seen(sec)' = message[p].serials[sec]
         /\ sec \notin Pushed(p) => have'[sec] = have[sec] /\ Seen(sec)' = Seen(sec)
<1>1. handler[p] = "checked"
  BY DEF ApplyPush
<1>2. Recorded[sec] = Seen(sec)
  BY SourceHas, TypeParts
<1>3. source' = [serials |-> Merged(p), sections |-> Pushed(p)] /\ source' # NoSource
  BY <1>1, TypeParts, MergedTyped, MessageAssumption DEF ApplyPush
<1>4. Seen(sec)' = Merged(p)[sec]
  BY <1>3 DEF Seen
<1>5. Seen(sec)' = IF sec \in Pushed(p) THEN message[p].serials[sec] ELSE Seen(sec)
  BY <1>2, <1>4 DEF Merged
<1>6. have'[sec] = IF sec \in Pushed(p) THEN message[p].data[sec] ELSE have[sec]
  BY DEF ApplyPush
<1> QED
  BY <1>1, <1>5, <1>6

-----------------------------------------------------------------------------
(* The record and the content belong together                              *)

\* What a request says of a section was sent.
Honest == \A p \in Pushes, sec \in Sections : Carries(p, sec) =>
            <<sec, message[p].serials[sec], message[p].data[sec]>> \in sent

LEMMA StepHonest ==
  ASSUME TypeOK, Honest, [Next]_vars
  PROVE  Honest'
<1> SUFFICES ASSUME NEW p \in Pushes, NEW sec \in Sections, Carries(p, sec)'
             PROVE  <<sec, message'[p].serials[sec], message'[p].data[sec]>> \in sent'
  BY DEF Honest
<1>1. handler'[p] # "none"
  BY DEF Carries
<1>2. CASE Kept(p)
  <2>1. Carries(p, sec)
    BY <1>2 DEF Kept, Carries, Pushed
  <2> QED
    BY <1>2, <2>1, RequestsStep DEF Kept, Honest, SentGrows
<1>3. CASE SentNow(p)
  BY <1>3 DEF SentNow
<1> QED
  BY <1>1, <1>2, <1>3, RequestsStep

LEMMA StepLineage ==
  ASSUME TypeOK, Honest, Lineage, [Next]_vars
  PROVE  Lineage'
<1> SUFFICES ASSUME NEW sec \in Sections, Seen(sec)' # Unseen, have'[sec] # Local
             PROVE  <<sec, Seen(sec)', have'[sec]>> \in sent'
  BY DEF Lineage
<1>1. sent \subseteq sent'
  BY RequestsStep DEF SentGrows
<1>2. CASE UNCHANGED <<have, source>>
  BY <1>1, <1>2 DEF Lineage, Seen
<1>3. ASSUME NEW p \in Pushes, ApplyPush(p) PROVE <<sec, Seen(sec)', have'[sec]>> \in sent'
  <2>1. CASE sec \in Pushed(p)
    BY <1>1, <1>3, <2>1, ApplyPushIs DEF Honest, Carries
  <2>2. CASE sec \notin Pushed(p)
    BY <1>1, <1>3, <2>2, ApplyPushIs DEF Lineage
  <2> QED
    BY <2>1, <2>2
<1>4. CASE FinishWrite
  <2>1. sec \notin writing /\ have'[sec] = have[sec] /\ Seen(sec)' = Seen(sec)
    BY <1>4 DEF FinishWrite, Seen
  <2> QED
    BY <1>1, <2>1 DEF Lineage
<1>5. CASE Detach
  BY <1>5 DEF Detach, Seen
<1> QED
  BY <1>2, <1>3, <1>4, <1>5, StandbyStep

\* The content the standby holds from its source and the serial on record for it
\* were sent together by build_payload, through all that mirror_receive, local
\* writes, detaches, timeouts and deaths interleave.
THEOREM RecordIsTrue == Spec => []Lineage
<1>1. Init => Honest /\ Lineage
  BY DEF Init, Honest, Carries, Lineage, Seen
<1>2. TypeOK /\ Honest /\ Lineage /\ [Next]_vars => Honest' /\ Lineage'
  BY StepHonest, StepLineage
<1> QED
  BY <1>1, <1>2, TypeCorrect, PTL DEF Spec

-----------------------------------------------------------------------------
(* What a step does to the primary                                         *)

\* Content only moves on; without a restored backup no serial goes back, and with
\* the content of a section the serial of its store moves.
PrimaryMoves ==
  /\ \A sec \in Sections : mine[sec] <= mine'[sec]
  /\ ~lowered' => /\ ~lowered
                  /\ \A s \in Stores : serial[s] <= serial'[s]
                  /\ \A sec \in Sections :
                       mine'[sec] # mine[sec] => serial[SectionStore[sec]] < serial'[SectionStore[sec]]

LEMMA PrimaryStep ==
  ASSUME TypeOK, [Next]_vars
  PROVE  PrimaryMoves
<1> USE SectionAssumption DEF PrimaryMoves
<1>1. PrimaryTyped
  BY TypeParts
<1>2. CASE UNCHANGED <<mine, serial, lowered>>
  BY <1>1, <1>2 DEF PrimaryTyped, Serials
<1>3. ASSUME NEW secs \in Edits, Edit(secs) PROVE PrimaryMoves
  <2>1. \A sec \in Sections : mine'[sec] = IF sec \in secs THEN mine[sec] + 1 ELSE mine[sec]
    BY <1>3 DEF Edit
  <2>2. \A s \in Stores : serial'[s] = IF s \in Bumped(secs) THEN serial[s] + 1 ELSE serial[s]
    BY <1>3 DEF Edit
  <2>3. \A sec \in secs : SectionStore[sec] \in Bumped(secs)
    BY DEF Bumped
  <2>4. UNCHANGED lowered
    BY <1>3 DEF Edit
  <2> QED
    BY <1>1, <2>1, <2>2, <2>3, <2>4 DEF PrimaryTyped, Serials
<1>4. ASSUME NEW s \in Stores, Toggle(s) PROVE PrimaryMoves
  BY <1>1, <1>4 DEF Toggle, PrimaryTyped, Serials
<1>5. ASSUME NEW old \in [Stores -> 0..MaxSerial], RestoreBackup(old) PROVE PrimaryMoves
  <2>1. \A sec \in Sections : mine'[sec] = mine[sec] + 1
    BY <1>5 DEF RestoreBackup
  <2>2. \A s \in Stores : serial'[s] \in Int
    <3>1. \A s \in Stores : serial'[s] = IF s \in Bumped(Sections) THEN old[s] + 1 ELSE old[s]
      BY <1>5 DEF RestoreBackup
    <3> QED
      BY <3>1
  <2>3. ~lowered' => ~lowered /\ \A s \in Stores : ~(serial'[s] <= serial[s])
    BY <1>5 DEF RestoreBackup
  <2> QED
    BY <1>1, <2>1, <2>2, <2>3 DEF PrimaryTyped, Serials
<1>6. ASSUME NEW p \in Pushes, \/ PushAll(p) \/ SyncNow(p) \/ Answer(p) \/ Timeout(p)
                               \/ Receive(p) \/ ApplyPush(p) \/ DropPush(p)
      PROVE  UNCHANGED <<mine, serial, lowered>>
  BY <1>6 DEF PushAll, SyncNow, Answer, Timeout, Receive, ApplyPush, DropPush, primary
<1>7. CASE PrimaryDies \/ FinishWrite \/ Detach \/ SetAccept \/ UNCHANGED vars
           \/ \E secs \in LocalWrites : StartWrite(secs)
  BY <1>2, <1>7 DEF PrimaryDies, FinishWrite, Detach, SetAccept, StartWrite, vars, primary
<1> QED
  BY <1>2, <1>3, <1>4, <1>5, <1>6, <1>7 DEF Next

-----------------------------------------------------------------------------
(* Serials order the content                                               *)

\* What was sent is no newer than what the primary holds.
Past == \A a \in sent : a[3] <= mine[a[1]]

\* A section in one store: nothing was sent under a serial to come, and what was
\* sent under the present one is the present content.
Labelled ==
  ~lowered =>
    \A a \in sent : CarriedBy[a[1]] = {SectionStore[a[1]]} =>
      /\ a[2] <= serial[SectionStore[a[1]]]
      /\ a[2] = serial[SectionStore[a[1]]] => a[3] = mine[a[1]]

OrderInv == Past /\ Labelled /\ SerialOrdersContent

LEMMA SentTriple ==
  ASSUME TypeOK, NEW a \in sent
  PROVE  a[1] \in Sections /\ a[2] \in 0..MaxSerial /\ a[3] \in 0..MaxEdits
BY DEF TypeOK

LEMMA OwnLabel ==
  ASSUME TypeOK, NEW sec \in Sections, CarriedBy[sec] = {SectionStore[sec]}
  PROVE  SectionSerial(sec) = serial[SectionStore[sec]]
<1>1. SectionStore[sec] \in Stores
  BY SectionAssumption
<1>2. {serial[s] : s \in CarriedBy[sec]} = {serial[SectionStore[sec]]}
  OBVIOUS
<1>3. serial[SectionStore[sec]] \in Nat
  BY <1>1 DEF TypeOK
<1> QED
  BY <1>2, <1>3, MaxOfOne DEF SectionSerial

LEMMA StepPast ==
  ASSUME TypeOK, TypeOK', Past, [Next]_vars
  PROVE  Past'
<1> SUFFICES ASSUME NEW a \in sent' PROVE a[3] <= mine'[a[1]]
  BY DEF Past
<1>1. CASE a \in sent
  <2>1. a[1] \in Sections /\ a[3] \in Int
    BY <1>1, SentTriple
  <2>2. mine[a[1]] \in Int /\ mine'[a[1]] \in Int
    BY <2>1 DEF TypeOK
  <2> QED
    BY <1>1, <2>1, <2>2, PrimaryStep DEF Past, PrimaryMoves
<1>2. CASE a \notin sent
  BY <1>2, RequestsStep DEF SentGrows, TypeOK
<1> QED
  BY <1>1, <1>2

LEMMA StepLabelled ==
  ASSUME TypeOK, TypeOK', Past, Labelled, [Next]_vars
  PROVE  Labelled'
<1> SUFFICES ASSUME ~lowered', NEW a \in sent', CarriedBy[a[1]] = {SectionStore[a[1]]}
             PROVE  /\ a[2] <= serial'[SectionStore[a[1]]]
                    /\ a[2] = serial'[SectionStore[a[1]]] => a[3] = mine'[a[1]]
  BY DEF Labelled
<1>1. ~lowered /\ \A s \in Stores : serial[s] <= serial'[s]
  BY PrimaryStep DEF PrimaryMoves
<1>2. CASE a \in sent
  <2>1. a[1] \in Sections /\ a[2] \in Nat /\ SectionStore[a[1]] \in Stores
    BY <1>2, SentTriple, SectionAssumption
  <2>2. serial[SectionStore[a[1]]] \in Int /\ serial'[SectionStore[a[1]]] \in Int
    BY <2>1 DEF TypeOK
  <2>3. /\ a[2] <= serial[SectionStore[a[1]]]
        /\ a[2] = serial[SectionStore[a[1]]] => a[3] = mine[a[1]]
    BY <1>1, <1>2 DEF Labelled
  <2>4. mine'[a[1]] # mine[a[1]] => serial[SectionStore[a[1]]] < serial'[SectionStore[a[1]]]
    BY <2>1, PrimaryStep DEF PrimaryMoves
  <2> QED
    BY <1>1, <2>1, <2>2, <2>3, <2>4
<1>3. CASE a \notin sent
  <2>1. PICK sec \in Sections : a = <<sec, SectionSerial(sec), mine[sec]>>
    BY <1>3, RequestsStep DEF SentGrows
  <2>2. UNCHANGED <<mine, serial>>
    BY <1>3, RequestsStep DEF SentGrows
  <2>3. SectionSerial(sec) = serial[SectionStore[sec]]
    BY <2>1, OwnLabel
  <2>4. serial[SectionStore[sec]] \in Int
    BY SectionAssumption DEF TypeOK
  <2> QED
    BY <2>1, <2>2, <2>3, <2>4
<1> QED
  BY <1>2, <1>3

LEMMA LabelledOrdered ==
  ASSUME TypeOK, Past, Labelled, NEW sec \in Sections, SerialOrdersContent, [Next]_vars,
         CarriedBy[sec] = {SectionStore[sec]}, ~lowered'
  PROVE  Ordered(sec)'
<1> SUFFICES ASSUME NEW a \in sent', NEW b \in sent', a[1] = sec, b[1] = sec, a[2] <= b[2]
             PROVE  a[3] <= b[3]
  BY DEF Ordered
<1>1. ~lowered
  BY PrimaryStep DEF PrimaryMoves
<1>2. SectionSerial(sec) = serial[SectionStore[sec]] /\ serial[SectionStore[sec]] \in Int
  BY OwnLabel, SectionAssumption DEF TypeOK
<1>3. \A c \in sent' \ sent : c[1] = sec => c[2] = serial[SectionStore[sec]] /\ c[3] = mine[sec]
  BY <1>2, RequestsStep DEF SentGrows
<1>4. \A c \in sent : c[1] = sec => /\ c[2] <= serial[SectionStore[sec]] /\ c[3] <= mine[sec]
                                    /\ c[2] = serial[SectionStore[sec]] => c[3] = mine[sec]
  BY <1>1 DEF Labelled, Past
<1>5. mine[sec] \in Int /\ \A c \in sent : c[2] \in Int /\ c[3] \in Int
  BY SentTriple DEF TypeOK
<1>6. CASE a \in sent /\ b \in sent
  BY <1>1, <1>6 DEF SerialOrdersContent, Ordered
<1>7. CASE b \notin sent
  BY <1>3, <1>4, <1>5, <1>7
<1>8. CASE a \notin sent /\ b \in sent
  <2>1. b[2] = serial[SectionStore[sec]]
    BY <1>2, <1>3, <1>4, <1>5, <1>8
  <2> QED
    BY <1>3, <1>4, <1>5, <1>8, <2>1
<1> QED
  BY <1>6, <1>7, <1>8

LEMMA InitOrder == Init => OrderInv
BY DEF Init, OrderInv, Past, Labelled, SerialOrdersContent, Ordered

LEMMA StepOrder ==
  ASSUME TypeOK, TypeOK', OrderInv, [Next]_vars
  PROVE  OrderInv'
<1>1. SerialOrdersContent'
  BY LabelledOrdered DEF OrderInv, SerialOrdersContent
<1> QED
  BY <1>1, StepPast, StepLabelled DEF OrderInv

\* Of a section that lives in one store, what build_payload labels with a higher
\* serial is never older and with the same serial is the same, as long as no backup
\* is restored.
THEOREM SerialsOrder == Spec => []SerialOrdersContent
<1>1. TypeOK /\ TypeOK' /\ OrderInv /\ [Next]_vars => OrderInv'
  BY StepOrder
<1>2. OrderInv => SerialOrdersContent
  BY DEF OrderInv
<1> QED
  BY <1>1, <1>2, InitOrder, TypeCorrect, PTL DEF Spec

-----------------------------------------------------------------------------
(* What is up to date is not refused                                       *)

\* Without a restored backup neither the record nor a request is ahead of the primary.
NotAhead ==
  ~lowered => \A sec \in Sections :
    /\ Seen(sec) <= SectionSerial(sec)
    /\ \A p \in Pushes : Carries(p, sec) => message[p].serials[sec] <= SectionSerial(sec)

LEMMA InitNotAhead == Init => NotAhead
<1> SUFFICES ASSUME Init PROVE NotAhead
  OBVIOUS
<1>1. \A sec \in Sections : SectionSerial(sec) \in 0..MaxSerial
  BY InitTyped, TypeParts, LabelIs, SectionSerialIsLabel DEF PrimaryTyped
<1> QED
  BY <1>1 DEF Init, NotAhead, Seen, Unseen, Carries

LEMMA SectionSerialMoves ==
  ASSUME TypeOK, TypeOK', [Next]_vars, ~lowered', NEW sec \in Sections
  PROVE  /\ SectionSerial(sec) <= SectionSerial(sec)'
         /\ SectionSerial(sec) \in Nat /\ SectionSerial(sec)' \in Nat
<1>1. serial \in Serials /\ serial' \in Serials
  BY DEF TypeOK, Serials
<1>2. \A s \in Stores : serial[s] <= serial'[s]
  BY PrimaryStep DEF PrimaryMoves
<1>3. Label(serial, sec) <= Label(serial', sec)
  BY <1>1, <1>2, LabelGrows
<1>4. Label(serial, sec) \in Nat /\ Label(serial', sec) \in Nat
  BY <1>1, LabelIs
<1>5. SectionSerial(sec) = Label(serial, sec) /\ SectionSerial(sec)' = Label(serial', sec)
  BY DEF SectionSerial, Label
<1> QED
  BY <1>3, <1>4, <1>5

LEMMA StepNotAhead ==
  ASSUME TypeOK, TypeOK', NotAhead, [Next]_vars
  PROVE  NotAhead'
<1> SUFFICES ASSUME ~lowered', NEW sec \in Sections
             PROVE  /\ Seen(sec)' <= SectionSerial(sec)'
                    /\ \A p \in Pushes : Carries(p, sec)' =>
                         message'[p].serials[sec] <= SectionSerial(sec)'
  BY DEF NotAhead
<1> DEFINE now == SectionSerial(sec)
<1> DEFINE then == SectionSerial(sec)'
<1>1. ~lowered
  BY PrimaryStep DEF PrimaryMoves
<1>2. now <= then /\ now \in Nat /\ then \in Nat
  BY SectionSerialMoves
<1>3. \A p \in Pushes : Carries(p, sec) =>
        message[p].serials[sec] <= now /\ message[p].serials[sec] \in Nat
  BY <1>1, TypeParts, MessageHas DEF NotAhead, Carries
<1>4. Seen(sec) <= now /\ Seen(sec) \in Int
  BY <1>1, TypeParts, SourceHas DEF NotAhead, Unseen
<1> HIDE DEF now, then
<1>5. ASSUME NEW p \in Pushes, Carries(p, sec)' PROVE message'[p].serials[sec] <= then
  <2>1. CASE Kept(p)
    <3>1. Carries(p, sec)
      BY <1>5, <2>1 DEF Kept, Carries, Pushed
    <3>2. message'[p] = message[p]
      BY <2>1 DEF Kept
    <3> QED
      BY <1>2, <1>3, <3>1, <3>2
  <2>2. CASE SentNow(p)
    <3>1. message'[p].serials[sec] = now
      BY <1>5, <2>2 DEF SentNow, now
    <3> QED
      BY <1>2, <3>1
  <2> QED
    BY <1>5, <2>1, <2>2, RequestsStep DEF Carries
<1>6. Seen(sec)' <= then
  <2>1. CASE Seen(sec)' = Seen(sec)
    BY <1>2, <1>4, <2>1
  <2>2. CASE Seen(sec)' = Unseen
    BY <1>2, <2>2 DEF Unseen
  <2>3. ASSUME NEW p \in Pushes, ApplyPush(p), sec \in Pushed(p) PROVE Seen(sec)' <= then
    <3>1. Carries(p, sec) /\ Seen(sec)' = message[p].serials[sec]
      BY <2>3, ApplyPushIs DEF Carries
    <3> QED
      BY <1>2, <1>3, <3>1
  <2>4. ASSUME NEW p \in Pushes, ApplyPush(p), sec \notin Pushed(p) PROVE Seen(sec)' = Seen(sec)
    BY <2>4, ApplyPushIs
  <2>5. CASE UNCHANGED source
    BY <2>1, <2>5 DEF Seen
  <2>6. CASE Detach
    BY <2>2, <2>6 DEF Detach, Seen
  <2> QED
    BY <2>1, <2>3, <2>4, <2>5, <2>6, StandbyStep DEF FinishWrite
<1> QED
  BY <1>5, <1>6 DEF then

LEMMA FreshAccepted ==
  ASSUME TypeOK, NotAhead, NEW p \in Pushes, Receive(p), accept, handler'[p] # "checked", ~lowered
  PROVE  \E sec \in Pushed(p) : message[p].serials[sec] < SectionSerial(sec)
<1>1. handler[p] # "none"
  BY DEF Receive
<1>2. Refused(p)
  BY DEF Receive, TypeOK
<1>3. PICK sec \in Pushed(p) : message[p].serials[sec] < Seen(sec)
  BY <1>2 DEF Refused, Stale
<1>4. sec \in Sections /\ message[p].serials[sec] \in Int
  BY <1>1, <1>3, TypeParts, MessageHas
<1>5. Seen(sec) <= SectionSerial(sec) /\ Seen(sec) \in Int
  BY <1>4, TypeParts, SourceHas DEF NotAhead, Unseen
<1>6. SectionSerial(sec) \in Int
  BY <1>4, TypeParts, LabelIs, SectionSerialIsLabel DEF PrimaryTyped
<1> QED
  BY <1>3, <1>4, <1>5, <1>6

\* mirror_receive compares serials section by section: a push with what the primary
\* holds now is never refused as stale, unless a restored backup set serials back.
THEOREM FreshIsAccepted == Spec => FreshNeverStale
<1>1. TypeOK /\ TypeOK' /\ NotAhead /\ [Next]_vars => NotAhead'
  BY StepNotAhead
<1>2. TypeOK /\ NotAhead /\ [Next]_vars =>
        [\A p \in Pushes :
           Receive(p) /\ accept /\ handler'[p] # "checked" /\ ~lowered =>
             \E sec \in Pushed(p) : message[p].serials[sec] < SectionSerial(sec)]_vars
  BY FreshAccepted
<1> QED
  BY <1>1, <1>2, InitNotAhead, TypeCorrect, PTL DEF Spec, FreshNeverStale

-----------------------------------------------------------------------------
(* What was answered ok stays mirrored                                     *)

\* A thread that waits for an answer waits for a request of what it wants.
Waits == \A p \in Pushes : pc[p] = "sent" => handler[p] # "none" /\ Pushed(p) = wanted[p]

\* Pushes that do not cross are past the stale check one at a time.
OneChecked ==
  ~crossed => \A p, q \in Pushes : handler[p] = "checked" /\ handler[q] = "checked" => p = q

\* Versions of a section the standby has had: the one it holds, those of requests
\* just applied, and the primary's if a push of it was answered ok.
Delivered(sec, c) ==
  \/ sec \notin owed /\ c = mine[sec]
  \/ have[sec] # Local /\ c = have[sec]
  \/ \E p \in Pushes : handler[p] = "ok" /\ sec \in Pushed(p) /\ c = message[p].data[sec]

\* A request that may still be applied.
Comes(p, sec) ==
  /\ sec \in Pushed(p)
  /\ \/ handler[p] = "checked"
     \/ handler[p] = "sent" /\ message[p].serials[sec] >= Seen(sec)

\* No version delivered is newer than what the standby has or may still apply.
Above(sec, c) ==
  /\ have[sec] # Local => c <= have[sec]
  /\ \A q \in Pushes : Comes(q, sec) => c <= message[q].data[sec]

NothingUndone ==
  ~crossed => \A sec \in Sections : Ordered(sec) =>
    \A c \in 0..MaxEdits : Delivered(sec, c) => Above(sec, c)

\* The standby holds nothing newer than the primary.
HavePast == \A sec \in Sections : have[sec] <= mine[sec]

MirrorInv == Honest /\ Past /\ HavePast /\ Waits /\ OneChecked /\ NothingUndone

\* How the standby gets on with a request that was there before.
LEMMA PhaseStep ==
  ASSUME TypeOK, [Next]_vars, NEW p \in Pushes, handler'[p] # "none", ~SentNow(p)
  PROVE  /\ message'[p] = message[p] /\ handler[p] # "none"
         /\ \/ handler'[p] = handler[p]
            \/ handler'[p] = "error"
            \/ Receive(p) /\ handler'[p] = "checked" /\ handler[p] = "sent"
            \/ ApplyPush(p) /\ handler'[p] = "ok" /\ handler[p] = "checked"
<1> DEFINE Phase == \/ handler'[p] = handler[p]
                    \/ handler'[p] = "error"
                    \/ Receive(p) /\ handler'[p] = "checked" /\ handler[p] = "sent"
                    \/ ApplyPush(p) /\ handler'[p] = "ok" /\ handler[p] = "checked"
<1> USE DEF Phase
<1>1. message'[p] = message[p] /\ handler[p] # "none"
  BY RequestsStep DEF Kept
<1>2. handler \in [Pushes -> Phases]
  BY TypeParts DEF RequestsTyped
<1>3. ASSUME NEW q \in Pushes, PushAll(q) \/ SyncNow(q) PROVE Phase
  <2>1. UNCHANGED <<mine, serial, lowered, standby>>
    BY <1>3 DEF PushAll, SyncNow, primary
  <2>2. PICK secs \in SUBSET Sections : Send(q, secs)
    BY <1>3 DEF PushAll, SyncNow, TypeOK
  <2> QED
    BY <2>1, <2>2, SendIs
<1>4. ASSUME NEW q \in Pushes, Answer(q) \/ Timeout(q) PROVE Phase
  BY <1>2, <1>4 DEF Answer, Timeout, Forget
<1>5. CASE PrimaryDies
  BY <1>5 DEF PrimaryDies
<1>6. ASSUME NEW q \in Pushes, Receive(q) PROVE Phase
  BY <1>2, <1>6 DEF Receive, Reply, Forget
<1>7. ASSUME NEW q \in Pushes, ApplyPush(q) PROVE Phase
  BY <1>2, <1>7 DEF ApplyPush, Reply, Forget
<1>8. ASSUME NEW q \in Pushes, DropPush(q) PROVE Phase
  BY <1>2, <1>8 DEF DropPush, Reply, Forget
<1>9. CASE UNCHANGED requests
  BY <1>9 DEF requests
<1>10. ASSUME Next, ~UNCHANGED requests,
              ~\E q \in Pushes : PushAll(q) \/ SyncNow(q) \/ Answer(q) \/ Timeout(q)
                                   \/ Receive(q) \/ ApplyPush(q) \/ DropPush(q)
       PROVE  PrimaryDies
  BY <1>10 DEF Next, Edit, Toggle, RestoreBackup, StartWrite, FinishWrite, Detach, SetAccept
<1> QED
  BY <1>1, <1>3, <1>4, <1>5, <1>6, <1>7, <1>8, <1>9, <1>10 DEF vars, requests

LEMMA StepHavePast ==
  ASSUME TypeOK, TypeOK', Honest, Past, HavePast, [Next]_vars
  PROVE  HavePast'
<1> SUFFICES ASSUME NEW sec \in Sections PROVE have'[sec] <= mine'[sec]
  BY DEF HavePast
<1>1. have[sec] <= mine[sec] /\ mine[sec] <= mine'[sec]
  BY PrimaryStep DEF HavePast, PrimaryMoves
<1>2. have[sec] \in Int /\ mine[sec] \in Nat /\ mine'[sec] \in Nat
  BY DEF TypeOK, Local
<1>3. CASE have'[sec] = have[sec]
  BY <1>1, <1>2, <1>3
<1>4. CASE have'[sec] = Local
  BY <1>2, <1>4 DEF Local
<1>5. ASSUME NEW p \in Pushes, ApplyPush(p), sec \in Pushed(p) PROVE have'[sec] <= mine'[sec]
  <2>1. have'[sec] = message[p].data[sec] /\ handler[p] # "none"
    BY <1>5, ApplyPushIs
  <2>2. <<sec, message[p].serials[sec], message[p].data[sec]>> \in sent
    BY <1>5, <2>1 DEF Honest, Carries
  <2>3. message[p].data[sec] <= mine[sec]
    BY <2>2 DEF Past
  <2>4. message[p].data[sec] \in Nat
    BY <1>5, <2>1, TypeParts, MessageHas
  <2> QED
    BY <1>1, <1>2, <2>1, <2>3, <2>4
<1>6. ASSUME NEW p \in Pushes, ApplyPush(p), sec \notin Pushed(p) PROVE have'[sec] = have[sec]
  BY <1>6, ApplyPushIs
<1>7. CASE FinishWrite
  BY <1>3, <1>4, <1>7 DEF FinishWrite
<1>8. CASE Detach
  BY <1>3, <1>8 DEF Detach
<1> QED
  BY <1>3, <1>5, <1>6, <1>7, <1>8, StandbyStep

LEMMA StepWaits ==
  ASSUME TypeOK, Waits, [Next]_vars
  PROVE  Waits'
<1> SUFFICES ASSUME NEW p \in Pushes, pc'[p] = "sent"
             PROVE  handler'[p] # "none" /\ Pushed(p)' = wanted'[p]
  BY DEF Waits
<1> DEFINE Same == /\ pc[p] = "sent" /\ wanted'[p] = wanted[p]
                   /\ handler'[p] # "none" /\ message'[p] = message[p]
<1> DEFINE Goal == handler'[p] # "none" /\ Pushed(p)' = wanted'[p]
<1>1. Same => Goal
  BY DEF Waits, Pushed
<1>2. pc[p] = "sent" => handler[p] # "none"
  BY DEF Waits
<1>3. ThreadsTyped /\ RequestsTyped
  BY TypeParts
<1>4. ASSUME NEW q \in Pushes, NEW secs \in SUBSET Sections, StartPush(q, secs), UNCHANGED requests
      PROVE  Same
  BY <1>2, <1>3, <1>4 DEF StartPush, ThreadsTyped, requests
<1>5. ASSUME NEW q \in Pushes, PushAll(q) \/ SyncNow(q) PROVE Goal
  <2>1. PICK secs \in SUBSET Sections : Send(q, secs) /\ secs = wanted'[q]
                                        /\ (q # p => wanted'[p] = wanted[p])
    <3>1. CASE PushAll(q)
      BY <1>3, <3>1 DEF PushAll, ThreadsTyped
    <3>2. CASE SyncNow(q)
      BY <1>3, <3>2 DEF SyncNow, ThreadsTyped
    <3> QED
      BY <1>5, <3>1, <3>2
  <2>2. UNCHANGED <<mine, serial, lowered, standby>>
    BY <1>5 DEF PushAll, SyncNow, primary
  <2>3. CASE q = p
    <3>1. /\ message'[p] = [data |-> [sec \in secs |-> mine[sec]],
                            serials |-> [sec \in secs |-> SectionSerial(sec)]]
          /\ handler'[p] = "sent"
      BY <1>3, <2>1, <2>3 DEF Send, RequestsTyped
    <3> QED
      BY <2>1, <2>3, <3>1 DEF Pushed
  <2>4. CASE q # p
    <3>1. handler'[p] = handler[p] /\ message'[p] = message[p]
      BY <2>1, <2>2, <2>4, SendIs
    <3>2. pc[p] = "sent"
      BY <1>3, <2>1, <2>4 DEF Send, ThreadsTyped
    <3> QED
      BY <1>1, <1>2, <2>1, <2>4, <3>1, <3>2
  <2> QED
    BY <2>3, <2>4
<1>6. ASSUME NEW q \in Pushes, Leave(q), Forget(q) \/ UNCHANGED <<message, handler>> PROVE Same
  BY <1>2, <1>3, <1>6 DEF Leave, Forget, ThreadsTyped, RequestsTyped
<1>7. CASE PrimaryDies
  BY <1>7 DEF PrimaryDies
<1>8. ASSUME NEW q \in Pushes, UNCHANGED threads,
             \/ \E answer \in {"ok", "error"} : Reply(q, answer)
             \/ handler' = [handler EXCEPT ![q] = "checked"] /\ UNCHANGED message
      PROVE  Same
  BY <1>2, <1>3, <1>8 DEF Reply, Forget, threads, RequestsTyped
<1>9. CASE UNCHANGED <<threads, requests>>
  BY <1>1, <1>2, <1>9 DEF threads, requests
<1>10. ASSUME NEW q \in Pushes, Receive(q) \/ ApplyPush(q) \/ DropPush(q) PROVE Same
  BY <1>8, <1>10 DEF Receive, ApplyPush, DropPush
<1>11. ASSUME NEW q \in Pushes, Answer(q) \/ Timeout(q) PROVE Same
  BY <1>6, <1>11 DEF Answer, Timeout
<1>12. CASE \/ \E secs \in Edits : Edit(secs)
            \/ \E old \in [Stores -> 0..MaxSerial] : RestoreBackup(old)
  BY <1>1, <1>4, <1>12, SectionAssumption DEF Edit, RestoreBackup
<1>13. CASE \/ \E s \in Stores : Toggle(s)
            \/ \E secs \in LocalWrites : StartWrite(secs)
            \/ FinishWrite \/ Detach \/ SetAccept \/ UNCHANGED vars
  BY <1>9, <1>13 DEF Toggle, StartWrite, FinishWrite, Detach, SetAccept, vars
<1> QED
  BY <1>1, <1>5, <1>7, <1>10, <1>11, <1>12, <1>13 DEF Next

LEMMA CrossedStays == [Next]_vars /\ crossed \in BOOLEAN /\ ~crossed' => ~crossed
<1> SUFFICES ASSUME [Next]_vars, crossed \in BOOLEAN, ~crossed' PROVE ~crossed
  OBVIOUS
<1>1. CASE crossed' = crossed
  BY <1>1
<1>2. ASSUME NEW p \in Pushes, \/ PushAll(p) \/ SyncNow(p) \/ Answer(p) \/ Timeout(p)
                               \/ ApplyPush(p) \/ DropPush(p)
      PROVE  crossed' = crossed
  BY <1>2 DEF PushAll, SyncNow, Answer, Timeout, ApplyPush, DropPush, standby
<1>3. ASSUME NEW p \in Pushes, Receive(p) PROVE ~crossed
  BY <1>3 DEF Receive
<1>4. CASE (\E secs \in Edits : Edit(secs)) \/ (\E s \in Stores : Toggle(s))
           \/ (\E old \in [Stores -> 0..MaxSerial] : RestoreBackup(old)) \/ PrimaryDies
  BY <1>1, <1>4 DEF Edit, Toggle, RestoreBackup, PrimaryDies, standby
<1>5. CASE (\E secs \in LocalWrites : StartWrite(secs)) \/ FinishWrite \/ SetAccept
           \/ UNCHANGED vars
  BY <1>1, <1>5 DEF StartWrite, FinishWrite, SetAccept, vars, standby
<1>6. CASE Detach
  BY <1>6 DEF Detach
<1> QED
  BY <1>1, <1>2, <1>3, <1>4, <1>5, <1>6 DEF Next

LEMMA StepOneChecked ==
  ASSUME TypeOK, OneChecked, [Next]_vars
  PROVE  OneChecked'
<1> SUFFICES ASSUME ~crossed', NEW p \in Pushes, NEW q \in Pushes, p # q,
                    handler'[p] = "checked", handler'[q] = "checked"
             PROVE  FALSE
  BY DEF OneChecked
<1>1. ~crossed
  BY CrossedStays DEF TypeOK
<1>2. \A r \in {p, q} : handler[r] = "checked" \/ (Receive(r) /\ handler[r] = "sent")
  <2> SUFFICES ASSUME NEW r \in {p, q} PROVE handler[r] = "checked" \/ (Receive(r) /\ handler[r] = "sent")
    OBVIOUS
  <2>1. r \in Pushes /\ handler'[r] = "checked" /\ ~SentNow(r)
    BY DEF SentNow
  <2>2. handler'[r] # "none" /\ handler'[r] # "error" /\ handler'[r] # "ok"
    BY <2>1
  <2>3. \/ handler'[r] = handler[r]
        \/ Receive(r) /\ handler'[r] = "checked" /\ handler[r] = "sent"
    BY <2>1, <2>2, PhaseStep, Zenon
  <2> QED
    BY <2>1, <2>3
<1>3. ASSUME NEW r \in {p, q}, Receive(r) PROVE FALSE
  <2>1. \A s \in Pushes \ {r} : handler'[s] = handler[s]
    BY <1>3 DEF Receive, Reply, Forget, TypeOK
  <2>2. \E s \in Pushes : handler[s] = "checked"
    BY <1>3, <2>1
  <2>3. handler'[r] = "checked"
    BY <1>3
  <2>4. crossed' = (crossed \/ \E s \in Pushes : handler[s] = "checked")
    BY <1>3, <2>3 DEF Receive, Reply, Forget, TypeOK
  <2> QED
    BY <2>2, <2>4
<1> QED
  BY <1>1, <1>2, <1>3 DEF OneChecked

\* A section is no longer owed by the answer to a request that carried its content.
LEMMA OwedStep ==
  ASSUME TypeOK, Waits, [Next]_vars, NEW sec \in Sections, sec \notin owed'
  PROVE  /\ mine'[sec] = mine[sec]
         /\ \/ sec \notin owed
            \/ \E p \in Pushes : handler[p] = "ok" /\ sec \in Pushed(p)
                                 /\ message[p].data[sec] = mine[sec]
<1> DEFINE Goal == /\ mine'[sec] = mine[sec]
                   /\ \/ sec \notin owed
                      \/ \E p \in Pushes : handler[p] = "ok" /\ sec \in Pushed(p)
                                           /\ message[p].data[sec] = mine[sec]
<1>1. CASE UNCHANGED <<mine, owed>>
  BY <1>1
<1>2. ASSUME NEW secs \in Edits, Edit(secs) PROVE Goal
  BY <1>2 DEF Edit
<1>3. ASSUME NEW old \in [Stores -> 0..MaxSerial], RestoreBackup(old) PROVE Goal
  BY <1>3 DEF RestoreBackup
<1>4. ASSUME NEW p \in Pushes, Answer(p) PROVE Goal
  <2>1. CASE handler[p] = "ok"
    <3>1. UNCHANGED mine
      BY <1>4 DEF Answer
    <3>2. owed' = owed \ {s \in wanted[p] : message[p].data[s] = mine[s]}
      BY <1>4, <2>1 DEF Answer
    <3>3. Pushed(p) = wanted[p]
      BY <1>4 DEF Answer, Waits
    <3> QED
      BY <2>1, <3>1, <3>2, <3>3
  <2>2. CASE handler[p] # "ok"
    BY <1>1, <1>4, <2>2 DEF Answer
  <2> QED
    BY <2>1, <2>2
<1>5. ASSUME NEW p \in Pushes, \/ PushAll(p) \/ SyncNow(p) \/ Timeout(p)
                               \/ Receive(p) \/ ApplyPush(p) \/ DropPush(p)
      PROVE  UNCHANGED <<mine, owed>>
  BY <1>5 DEF PushAll, SyncNow, Timeout, Receive, ApplyPush, DropPush, primary
<1>6. CASE PrimaryDies \/ FinishWrite \/ Detach \/ SetAccept \/ UNCHANGED vars
           \/ (\E secs \in LocalWrites : StartWrite(secs)) \/ (\E s \in Stores : Toggle(s))
  BY <1>1, <1>6 DEF PrimaryDies, FinishWrite, Detach, SetAccept, StartWrite, Toggle, vars, primary
<1> QED
  BY <1>1, <1>2, <1>3, <1>4, <1>5, <1>6 DEF Next

\* A version is delivered by the apply of a push, and in no other way.
LEMMA DeliveredStep ==
  ASSUME TypeOK, Waits, [Next]_vars, NEW sec \in Sections, NEW c, Delivered(sec, c)'
  PROVE  \/ Delivered(sec, c)
         \/ \E p \in Pushes : ApplyPush(p) /\ sec \in Pushed(p) /\ c = message[p].data[sec]
<1> DEFINE Goal == \/ Delivered(sec, c)
                   \/ \E p \in Pushes : ApplyPush(p) /\ sec \in Pushed(p)
                                        /\ c = message[p].data[sec]
<1>1. CASE sec \notin owed' /\ c = mine'[sec]
  BY <1>1, OwedStep DEF Delivered
<1>2. CASE have'[sec] # Local /\ c = have'[sec]
  <2>1. CASE have'[sec] = have[sec]
    BY <1>2, <2>1 DEF Delivered
  <2>2. ASSUME NEW p \in Pushes, ApplyPush(p) PROVE Goal
    BY <1>2, <2>1, <2>2, ApplyPushIs
  <2>3. CASE FinishWrite \/ Detach
    BY <1>2, <2>1, <2>3 DEF FinishWrite, Detach
  <2> QED
    BY <2>1, <2>2, <2>3, StandbyStep
<1>3. ASSUME NEW p \in Pushes, handler'[p] = "ok", sec \in Pushed(p)', c = message'[p].data[sec]
      PROVE  Goal
  <2>1. handler'[p] # "none" /\ handler'[p] # "error" /\ handler'[p] # "checked" /\ ~SentNow(p)
    BY <1>3 DEF SentNow
  <2>2. message'[p] = message[p] /\ (handler'[p] = handler[p] \/ ApplyPush(p))
    BY <2>1, PhaseStep, Zenon
  <2>3. sec \in Pushed(p) /\ c = message[p].data[sec]
    BY <1>3, <2>2 DEF Pushed
  <2> QED
    BY <1>3, <2>2, <2>3 DEF Delivered
<1> QED
  BY <1>1, <1>2, <1>3 DEF Delivered

\* After a push has been applied, what may follow it is no older.
LEMMA ComesAfterApply ==
  ASSUME TypeOK, OneChecked, ~crossed, NEW p \in Pushes, NEW q \in Pushes,
         NEW sec \in Sections, ApplyPush(p), sec \in Pushed(p), Comes(q, sec)'
  PROVE  /\ message'[q] = message[q] /\ Carries(q, sec)
         /\ message[p].serials[sec] <= message[q].serials[sec]
<1>1. handler[p] = "checked" /\ Reply(p, "ok") /\ Seen(sec)' = message[p].serials[sec]
  BY ApplyPushIs DEF ApplyPush
<1>2. handler'[q] \in {"sent", "checked"}
  BY DEF Comes
<1>3. handler'[p] = "ok" \/ handler'[p] = "none"
  BY <1>1, ReplyIs
<1>4. UNCHANGED <<handler[q], message[q]>>
  BY <1>1, <1>2, <1>3, ReplyIs
<1>5. q # p /\ handler[q] = "sent"
  BY <1>1, <1>2, <1>3, <1>4 DEF OneChecked
<1>6. message[q].serials[sec] >= Seen(sec)' /\ Carries(q, sec)
  BY <1>4, <1>5 DEF Comes, Carries, Pushed
<1>7. message[p].serials[sec] \in Int /\ message[q].serials[sec] \in Int
  BY <1>1, <1>6, TypeParts, MessageHas DEF Carries
<1> QED
  BY <1>1, <1>4, <1>6, <1>7

\* Otherwise what may be applied is new, or might have been applied before.
LEMMA ComesStep ==
  ASSUME TypeOK, [Next]_vars, ~crossed', NEW q \in Pushes, NEW sec \in Sections, Comes(q, sec)',
         ~\E p \in Pushes : ApplyPush(p) /\ sec \in Pushed(p)
  PROVE  \/ SentNow(q) /\ Carries(q, sec)'
         \/ message'[q] = message[q] /\ Comes(q, sec)
<1>1. CASE SentNow(q)
  BY <1>1 DEF Comes, Carries, SentNow
<1>2. CASE ~SentNow(q)
  <2>1. handler'[q] \in {"sent", "checked"} /\ sec \in Pushed(q)'
    BY DEF Comes
  <2>2. handler'[q] # "none" /\ handler'[q] # "error" /\ handler'[q] # "ok"
    BY <2>1
  <2>3. /\ message'[q] = message[q] /\ handler[q] # "none"
        /\ \/ handler'[q] = handler[q]
           \/ Receive(q) /\ handler'[q] = "checked" /\ handler[q] = "sent"
    BY <1>2, <2>2, PhaseStep, Zenon
  <2>4. sec \in Pushed(q) /\ Carries(q, sec)
    BY <2>1, <2>3 DEF Pushed, Carries
  <2>5. message[q].serials[sec] \in Int /\ Seen(sec) \in Int
    BY <2>3, <2>4, TypeParts, MessageHas, SourceHas DEF Unseen
  <2>6. CASE Receive(q) /\ handler'[q] = "checked" /\ handler[q] = "sent"
    <3>1. ~Refused(q)
      BY <2>6 DEF Receive, Reply, Forget, TypeOK
    <3>2. message[q].serials[sec] >= Seen(sec)
      BY <2>4, <2>5, <3>1 DEF Refused, Stale
    <3> QED
      BY <2>3, <2>4, <2>6, <3>2 DEF Comes
  <2>7. CASE handler'[q] = handler[q]
    <3>1. CASE handler[q] = "checked"
      BY <2>3, <2>4, <3>1 DEF Comes
    <3>2. CASE handler[q] = "sent"
      <4>1. message[q].serials[sec] >= Seen(sec)'
        BY <2>3, <2>7, <3>2 DEF Comes
      <4>2. CASE Seen(sec)' = Seen(sec)
        BY <2>3, <2>4, <3>2, <4>1, <4>2 DEF Comes
      <4>3. ASSUME NEW p \in Pushes, ApplyPush(p) PROVE Seen(sec)' = Seen(sec)
        BY <4>3, ApplyPushIs
      <4>4. CASE FinishWrite \/ UNCHANGED <<have, source>>
        BY <4>2, <4>4 DEF FinishWrite, Seen
      <4>5. CASE Detach
        BY <3>2, <4>5 DEF Detach
      <4> QED
        BY <4>2, <4>3, <4>4, <4>5, StandbyStep
    <3> QED
      BY <2>1, <2>7, <3>1, <3>2
  <2> QED
    BY <2>3, <2>6, <2>7
<1> QED
  BY <1>1, <1>2

\* No version delivered is ahead of the primary.
LEMMA DeliveredPast ==
  ASSUME TypeOK, Honest, Past, HavePast, NEW sec \in Sections, NEW c, Delivered(sec, c)
  PROVE  c <= mine[sec]
<1>1. CASE sec \notin owed /\ c = mine[sec]
  BY <1>1 DEF TypeOK
<1>2. CASE have[sec] # Local /\ c = have[sec]
  BY <1>2 DEF HavePast
<1>3. ASSUME NEW p \in Pushes, handler[p] = "ok", sec \in Pushed(p), c = message[p].data[sec]
      PROVE  c <= mine[sec]
  BY <1>3 DEF Honest, Carries, Past
<1> QED
  BY <1>1, <1>2, <1>3 DEF Delivered

\* The heart of it: a push that is applied was at least as recent as all that had
\* been delivered, and so is every push that may still be applied after it.
LEMMA StepNothingUndone ==
  ASSUME TypeOK, TypeOK', MirrorInv, [Next]_vars
  PROVE  NothingUndone'
<1> SUFFICES ASSUME ~crossed', NEW sec \in Sections, Ordered(sec)', NEW c \in 0..MaxEdits,
                    Delivered(sec, c)'
             PROVE  Above(sec, c)'
  BY DEF NothingUndone
<1>1. ~crossed
  BY CrossedStays DEF TypeOK
<1>2. Ordered(sec)
  BY RequestsStep DEF Ordered, SentGrows
<1>3. \A d \in 0..MaxEdits : Delivered(sec, d) => Above(sec, d)
  BY <1>1, <1>2 DEF MirrorInv, NothingUndone
<1>4. \A p \in Pushes : Carries(p, sec) =>
        /\ <<sec, message[p].serials[sec], message[p].data[sec]>> \in sent
        /\ message[p].serials[sec] \in 0..MaxSerial /\ message[p].data[sec] \in 0..MaxEdits
  BY TypeParts, MessageHas DEF MirrorInv, Honest, Carries
<1>5. \A p, q \in Pushes :
        /\ Carries(p, sec) /\ Carries(q, sec)
        /\ message[p].serials[sec] <= message[q].serials[sec]
        => message[p].data[sec] <= message[q].data[sec]
  BY <1>2, <1>4 DEF Ordered
\* What is delivered now is no newer than a push just applied.
<1>6. ASSUME NEW p \in Pushes, ApplyPush(p), sec \in Pushed(p)
      PROVE  c <= message[p].data[sec] /\ Carries(p, sec)
  <2>1. handler[p] = "checked" /\ Carries(p, sec) /\ Comes(p, sec)
    BY <1>6 DEF ApplyPush, Carries, Comes
  <2>2. CASE Delivered(sec, c)
    BY <1>3, <2>1, <2>2 DEF Above
  <2>3. ASSUME NEW r \in Pushes, ApplyPush(r), sec \in Pushed(r), c = message[r].data[sec]
        PROVE  c <= message[p].data[sec]
    <3>1. handler[r] = "checked"
      BY <2>3 DEF ApplyPush
    <3>2. r = p
      BY <1>1, <2>1, <3>1 DEF MirrorInv, OneChecked
    <3> QED
      BY <2>3, <3>2
  <2>4. Waits
    BY DEF MirrorInv
  <2> QED
    BY <2>1, <2>2, <2>3, <2>4, DeliveredStep
<1>7. CASE \E p \in Pushes : ApplyPush(p) /\ sec \in Pushed(p)
  <2>1. PICK p \in Pushes : ApplyPush(p) /\ sec \in Pushed(p)
    BY <1>7
  <2>2. c <= message[p].data[sec] /\ Carries(p, sec) /\ have'[sec] = message[p].data[sec]
    BY <1>6, <2>1, ApplyPushIs
  <2>3. ASSUME NEW q \in Pushes, Comes(q, sec)' PROVE c <= message'[q].data[sec]
    <3>1. /\ message'[q] = message[q] /\ Carries(q, sec)
          /\ message[p].serials[sec] <= message[q].serials[sec]
      BY <1>1, <2>1, <2>3, ComesAfterApply DEF MirrorInv
    <3>2. message[p].data[sec] <= message[q].data[sec]
      BY <1>5, <2>2, <3>1
    <3>3. message[p].data[sec] \in 0..MaxEdits /\ message[q].data[sec] \in 0..MaxEdits
      BY <1>4, <2>2, <3>1, Zenon
    <3> QED
      BY <2>2, <3>1, <3>2, <3>3
  <2> QED
    BY <2>2, <2>3 DEF Above
<1>8. CASE ~\E p \in Pushes : ApplyPush(p) /\ sec \in Pushed(p)
  <2>1. Delivered(sec, c)
    BY <1>8, DeliveredStep DEF MirrorInv
  <2>2. Above(sec, c) /\ c <= mine[sec]
    BY <1>3, <2>1, DeliveredPast DEF MirrorInv
  <2>3. have'[sec] = have[sec] \/ have'[sec] = Local
    BY <1>8, StandbyStep, ApplyPushIs DEF FinishWrite, Detach
  <2>4. ASSUME NEW q \in Pushes, Comes(q, sec)' PROVE c <= message'[q].data[sec]
    <3>1. CASE SentNow(q) /\ Carries(q, sec)'
      BY <2>2, <3>1 DEF SentNow
    <3>2. CASE message'[q] = message[q] /\ Comes(q, sec)
      BY <2>2, <3>2 DEF Above
    <3> QED
      BY <1>8, <2>4, <3>1, <3>2, ComesStep
  <2> QED
    BY <2>2, <2>3, <2>4 DEF Above
<1> QED
  BY <1>7, <1>8

LEMMA InitMirror == Init => MirrorInv
BY DEF Init, MirrorInv, Honest, Carries, Past, HavePast, Local, Waits, OneChecked,
   NothingUndone, Delivered

LEMMA StepMirror ==
  ASSUME TypeOK, TypeOK', MirrorInv, [Next]_vars
  PROVE  MirrorInv'
BY StepHonest, StepPast, StepHavePast, StepWaits, StepOneChecked, StepNothingUndone DEF MirrorInv

LEMMA MirrorEnough ==
  ASSUME TypeOK, MirrorInv
  PROVE  AnsweredMeansMirrored
<1> SUFFICES ASSUME ~crossed, NEW sec \in Sections, Ordered(sec), sec \notin owed,
                    have[sec] # Local
             PROVE  have[sec] = mine[sec]
  BY DEF AnsweredMeansMirrored
<1>1. mine[sec] \in 0..MaxEdits /\ have[sec] \in 0..MaxEdits
  BY DEF TypeOK
<1>2. Delivered(sec, mine[sec])
  BY DEF Delivered
<1>3. mine[sec] <= have[sec]
  BY <1>1, <1>2 DEF MirrorInv, NothingUndone, Above
<1>4. have[sec] <= mine[sec]
  BY DEF MirrorInv, HavePast
<1> QED
  BY <1>1, <1>3, <1>4

\* A section whose last edit was answered ok is on the standby as it is on the
\* primary, for any number of pushes that are late, lost, repeated or out of order, as
\* long as they do not cross the stale check and its serials order its content.
THEOREM StaysMirrored == Spec => []AnsweredMeansMirrored
<1>1. TypeOK /\ TypeOK' /\ MirrorInv /\ [Next]_vars => MirrorInv'
  BY StepMirror
<1>2. TypeOK /\ MirrorInv => AnsweredMeansMirrored
  BY MirrorEnough
<1> QED
  BY <1>1, <1>2, InitMirror, TypeCorrect, PTL DEF Spec
=============================================================================
