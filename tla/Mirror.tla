------------------------------- MODULE Mirror -------------------------------
(***************************************************************************)
(* Config mirroring between two nodes: the primary's pushes                *)
(* (dnsmaqmgr/peers.py) and the standby's receive endpoint                 *)
(* (dnsmaqmgr/mirror.py).  Every apply on the primary starts a thread that *)
(* pushes the sections that changed; those threads take turns (_push_lock) *)
(* but "Sync now" does not wait for them, and a push that times out on the *)
(* primary may still be at work on the standby.  The standby checks a push *)
(* against the serials it last saw outside its store lock and applies it   *)
(* inside, so two pushes may cross between the check and the apply.        *)
(*                                                                         *)
(* One apply_change is one step here: ApplyChange.tla shows that it is     *)
(* atomic.  The content of a section is the number of edits it has had on  *)
(* the primary, so that "older" has a meaning.                             *)
(***************************************************************************)
EXTENDS Integers, FiniteSets, FiniteSetsExt

CONSTANTS
  Sections, Stores,
  SectionStore,     \* the store whose serial an edit of a section moves
  CarriedBy,        \* the stores whose highest serial labels a section
  Edits,            \* the sets of sections one edit on the primary touches
  LocalWrites,      \* the sets of sections one write on the standby touches
  Pushes, NoPush,   \* the push threads of the primary and their requests
  NoMessage, NoSource,
  MaxEdits,         \* bound: edits of one section
  MaxSerial,        \* bound: the serial of a store
  MaxUpsets         \* bound: restores, timeouts, losses, deaths, detaches,
                    \* switches and local writes in a behaviour

ASSUME SectionAssumption ==
  /\ SectionStore \in [Sections -> Stores]
  /\ CarriedBy \in [Sections -> SUBSET Stores]
  /\ \A sec \in Sections : SectionStore[sec] \in CarriedBy[sec]
  /\ IsFiniteSet(Stores)
  /\ Edits \subseteq SUBSET Sections /\ LocalWrites \subseteq SUBSET Sections
ASSUME PushAssumption == NoPush \notin Pushes
ASSUME BoundAssumption == MaxEdits \in Nat /\ MaxSerial \in Nat /\ MaxUpsets \in Nat

Local == -1     \* content the standby wrote itself
Unseen == -1    \* prev_serials.get(sec, -1)

Payload == UNION {[data : [S -> 0..MaxEdits], serials : [S -> 0..MaxSerial]] :
                    S \in SUBSET Sections}
\* What mirror_sources holds: the serials seen, and the sections of the last push.
Source == [serials : [Sections -> (0..MaxSerial) \cup {Unseen}], sections : SUBSET Sections]

ASSUME MessageAssumption == NoMessage \notin Payload /\ NoSource \notin Source

VARIABLES
  \* the primary
  mine, serial,   \* content of each section, serial of each store
  pc, wanted,     \* per push thread: where it is, the sections it is to push
  pushing,        \* the thread that holds _push_lock, or NoPush
  owed,           \* history: sections edited since a push of them was answered ok
  lowered,        \* history: a restored backup has set a serial back
  \* the requests
  message, handler,   \* per push: its payload, and where the standby is with it
  sent,               \* history: every <<section, serial, content>> ever sent
  \* the standby
  have, accept,   \* content of each section; the primary's token is accepted
  source,         \* mirror_sources[primary], or NoSource
  writing,        \* the sections a local write has been allowed to change
  upsets,         \* how many of the things MaxUpsets bounds have happened
  crossed         \* history: two pushes have been past the stale check at once,
                  \* or a detach forgot the serials with pushes in flight

primary  == <<mine, serial, owed, lowered>>
threads  == <<pc, wanted, pushing>>
requests == <<message, handler, sent>>
standby  == <<have, accept, source, writing, crossed>>
vars     == <<primary, threads, requests, standby, upsets>>

Init ==
  /\ mine = [sec \in Sections |-> 0] /\ serial = [s \in Stores |-> 0]
  /\ owed = Sections /\ lowered = FALSE
  /\ pc = [p \in Pushes |-> "idle"] /\ wanted = [p \in Pushes |-> {}]
  /\ pushing = NoPush
  /\ message = [p \in Pushes |-> NoMessage]
  /\ handler = [p \in Pushes |-> "none"] /\ sent = {}
  /\ have = [sec \in Sections |-> Local] /\ accept = TRUE
  /\ source = NoSource /\ writing = {} /\ crossed = FALSE /\ upsets = 0

-----------------------------------------------------------------------------
(* The primary                                                             *)

Upset == upsets < MaxUpsets /\ upsets' = upsets + 1

Free(p) == pc[p] = "idle" /\ handler[p] = "none"

\* The thread apply_change starts; a section no peer knows makes it do nothing.
StartPush(p, secs) ==
  /\ Free(p)
  /\ pc' = [pc EXCEPT ![p] = "waiting"] /\ wanted' = [wanted EXCEPT ![p] = secs]
  /\ UNCHANGED pushing

\* A mutant: the serial of the store named like the section, if there is one.
BumpedByName(secs) == secs \cap Stores

\* The stores whose serial an apply of these sections moves.
Bumped(secs) == {SectionStore[sec] : sec \in secs}

\* An edit of some sections, through apply_change.
Edit(secs) ==
  /\ \A sec \in secs : mine[sec] < MaxEdits
  /\ \A s \in Bumped(secs) : serial[s] < MaxSerial
  /\ mine' = [sec \in Sections |-> IF sec \in secs THEN mine[sec] + 1 ELSE mine[sec]]
  /\ serial' = [s \in Stores |-> IF s \in Bumped(secs) THEN serial[s] + 1 ELSE serial[s]]
  /\ owed' = owed \cup secs
  /\ \E p \in Pushes : StartPush(p, secs)
  /\ UNCHANGED <<lowered, requests, standby, upsets>>

\* The DNS and DHCP switches: a store moves, no section changes, no push.
Toggle(s) ==
  /\ s \notin Bumped(Sections) /\ serial[s] < MaxSerial
  /\ serial' = [serial EXCEPT ![s] = @ + 1]
  /\ UNCHANGED <<mine, owed, lowered, threads, requests, standby, upsets>>

\* A backup is restored: every store takes the serial it was saved with.
RestoreBackup(old) ==
  /\ Upset
  /\ \A sec \in Sections : mine[sec] < MaxEdits
  /\ \A s \in Stores : old[s] <= serial[s] /\ old[s] < MaxSerial
  /\ mine' = [sec \in Sections |-> mine[sec] + 1]
  /\ serial' = [s \in Stores |-> IF s \in Bumped(Sections) THEN old[s] + 1 ELSE old[s]]
  /\ lowered' = (lowered \/ \E s \in Stores : serial'[s] <= serial[s])
  /\ owed' = Sections
  /\ \E p \in Pushes : StartPush(p, Sections)
  /\ UNCHANGED <<requests, standby>>

SectionSerial(sec) == Max({serial[s] : s \in CarriedBy[sec]})

\* build_payload, from the stores as they are now, and the request goes out.
Send(p, secs) ==
  /\ message' = [message EXCEPT ![p] =
       [data |-> [sec \in secs |-> mine[sec]],
        serials |-> [sec \in secs |-> SectionSerial(sec)]]]
  /\ handler' = [handler EXCEPT ![p] = "sent"]
  /\ sent' = sent \cup {<<sec, SectionSerial(sec), mine[sec]>> : sec \in secs}
  /\ pc' = [pc EXCEPT ![p] = "sent"]

\* push_all: one push thread at a time.
PushAll(p) ==
  /\ pc[p] = "waiting" /\ pushing = NoPush
  /\ pushing' = p
  /\ Send(p, wanted[p])
  /\ UNCHANGED <<wanted, primary, standby, upsets>>

\* The Sync now button: every section, and no turn to wait for.
SyncNow(p) ==
  /\ Free(p)
  /\ wanted' = [wanted EXCEPT ![p] = Sections]
  /\ Send(p, Sections)
  /\ UNCHANGED <<pushing, primary, standby, upsets>>

Leave(p) ==
  /\ pc' = [pc EXCEPT ![p] = "idle"] /\ wanted' = [wanted EXCEPT ![p] = {}]
  /\ pushing' = IF pushing = p THEN NoPush ELSE pushing

Forget(p) ==
  /\ handler' = [handler EXCEPT ![p] = "none"]
  /\ message' = [message EXCEPT ![p] = NoMessage]

\* The answer arrives: ok, or an error that is shown and not retried.
Answer(p) ==
  /\ pc[p] = "sent" /\ handler[p] \in {"ok", "error"}
  /\ owed' = IF handler[p] = "ok"
             THEN owed \ {sec \in wanted[p] : message[p].data[sec] = mine[sec]}
             ELSE owed
  /\ Leave(p) /\ Forget(p)
  /\ UNCHANGED <<mine, serial, lowered, sent, standby, upsets>>

\* PUSH_TIMEOUT: the primary gives up; the request may still be on its way.
Timeout(p) ==
  /\ Upset
  /\ pc[p] = "sent"
  /\ Leave(p)
  /\ IF handler[p] \in {"ok", "error"} THEN Forget(p) ELSE UNCHANGED <<message, handler>>
  /\ UNCHANGED <<primary, sent, standby>>

\* The primary is killed: its push threads are gone, its requests are not.
PrimaryDies ==
  /\ Upset
  /\ \E p \in Pushes : pc[p] # "idle"
  /\ pc' = [p \in Pushes |-> "idle"] /\ wanted' = [p \in Pushes |-> {}]
  /\ pushing' = NoPush
  /\ message' = [p \in Pushes |-> IF handler[p] \in {"ok", "error"} THEN NoMessage
                                                                    ELSE message[p]]
  /\ handler' = [p \in Pushes |-> IF handler[p] \in {"ok", "error"} THEN "none"
                                                                    ELSE handler[p]]
  /\ UNCHANGED <<primary, sent, standby>>

-----------------------------------------------------------------------------
(* The standby                                                             *)

Pushed(p) == DOMAIN message[p].data

\* The handler is done with a request; nobody reads the answer after a timeout.
Reply(p, answer) ==
  IF pc[p] = "sent"
  THEN handler' = [handler EXCEPT ![p] = answer] /\ UNCHANGED message
  ELSE Forget(p)

Seen(sec) == IF source = NoSource THEN Unseen ELSE source.serials[sec]

\* A mutant: nothing is ever stale.
StaleNever(p) == {}
\* A mutant: one number for the whole push against the highest one seen.
StaleScalar(p) ==
  {sec \in Pushed(p) : Max({message[p].serials[s] : s \in Pushed(p)})
                         < Max({Seen(s) : s \in Sections})}

\* The sections of a push whose serial is behind the one last seen.
Stale(p) == {sec \in Pushed(p) : message[p].serials[sec] < Seen(sec)}

Refused(p) == ~accept \/ Stale(p) # {}

\* mirror_receive up to apply_change: settings are read once, without the lock.
Receive(p) ==
  /\ handler[p] = "sent"
  /\ IF Refused(p)
     THEN Reply(p, "error") /\ UNCHANGED crossed
     ELSE /\ handler' = [handler EXCEPT ![p] = "checked"] /\ UNCHANGED message
          /\ crossed' = (crossed \/ \E q \in Pushes : handler[q] = "checked")
  /\ UNCHANGED <<primary, threads, sent, have, accept, source, writing, upsets>>

\* The records of the source before this push: none after a detach.
Recorded == IF source = NoSource THEN [sec \in Sections |-> Unseen] ELSE source.serials

\* A mutant: the serial on record only moves forward, the content does as told.
MergedForward(p) ==
  [sec \in Sections |-> IF sec \in Pushed(p)
                        THEN Max({message[p].serials[sec], Recorded[sec]})
                        ELSE Recorded[sec]]

Merged(p) ==
  [sec \in Sections |-> IF sec \in Pushed(p) THEN message[p].serials[sec]
                                             ELSE Recorded[sec]]

\* mutate(), applied: content, serials and lock in one apply_change.
ApplyPush(p) ==
  /\ handler[p] = "checked"
  /\ have' = [sec \in Sections |-> IF sec \in Pushed(p) THEN message[p].data[sec]
                                                        ELSE have[sec]]
  /\ source' = [serials |-> Merged(p), sections |-> Pushed(p)]
  /\ Reply(p, "ok")
  /\ UNCHANGED <<primary, threads, sent, accept, writing, crossed, upsets>>

\* The request is lost, invalid here, or dnsmasq rejects what it leads to.
DropPush(p) ==
  /\ Upset
  /\ handler[p] \in {"sent", "checked"}
  /\ Reply(p, "error")
  /\ UNCHANGED <<primary, threads, sent, standby>>

Locked == IF source = NoSource THEN {} ELSE source.sections

\* A local edit, rollback or restore: refused, or on its way to apply_change.
StartWrite(secs) ==
  /\ Upset
  /\ writing = {} /\ secs \cap Locked = {}
  /\ writing' = secs
  /\ UNCHANGED <<primary, threads, requests, have, accept, source, crossed>>

FinishWrite ==
  /\ writing # {}
  /\ have' = [sec \in Sections |-> IF sec \in writing THEN Local ELSE have[sec]]
  /\ writing' = {}
  /\ UNCHANGED <<primary, threads, requests, accept, source, crossed, upsets>>

Detach ==
  /\ Upset
  /\ source # NoSource /\ source' = NoSource
  /\ crossed' = (crossed \/ \E p \in Pushes : handler[p] \in {"sent", "checked"})
  /\ UNCHANGED <<primary, threads, requests, have, accept, writing>>

\* mirror_accept switched, or mirror_token rotated and handed over again.
SetAccept ==
  /\ Upset
  /\ accept' = ~accept
  /\ UNCHANGED <<primary, threads, requests, have, source, writing, crossed>>

-----------------------------------------------------------------------------

Next ==
  \/ \E secs \in Edits : Edit(secs)
  \/ \E s \in Stores : Toggle(s)
  \/ \E old \in [Stores -> 0..MaxSerial] : RestoreBackup(old)
  \/ \E p \in Pushes : \/ PushAll(p) \/ SyncNow(p) \/ Answer(p) \/ Timeout(p)
                       \/ Receive(p) \/ ApplyPush(p) \/ DropPush(p)
  \/ \E secs \in LocalWrites : StartWrite(secs)
  \/ PrimaryDies \/ FinishWrite \/ Detach \/ SetAccept

Spec == Init /\ [][Next]_vars

-----------------------------------------------------------------------------
(* Properties                                                              *)

TypeOK ==
  /\ mine \in [Sections -> 0..MaxEdits] /\ serial \in [Stores -> 0..MaxSerial]
  /\ owed \subseteq Sections /\ lowered \in BOOLEAN
  /\ pc \in [Pushes -> {"idle", "waiting", "sent"}]
  /\ wanted \in [Pushes -> SUBSET Sections] /\ pushing \in Pushes \cup {NoPush}
  /\ handler \in [Pushes -> {"none", "sent", "checked", "ok", "error"}]
  /\ message \in [Pushes -> Payload \cup {NoMessage}]
  /\ \A p \in Pushes : handler[p] = "none" <=> message[p] = NoMessage
  /\ sent \subseteq Sections \X (0..MaxSerial) \X (0..MaxEdits)
  /\ have \in [Sections -> (0..MaxEdits) \cup {Local}]
  /\ accept \in BOOLEAN /\ crossed \in BOOLEAN /\ upsets \in 0..MaxUpsets
  /\ source \in Source \cup {NoSource}
  /\ writing \subseteq Sections

\* The content a standby holds from its source, and the serial it has on record
\* for it, were sent together: whatever crossed, was rejected, retried or lost,
\* the record never claims a version other than the one in the store.
Lineage ==
  \A sec \in Sections :
    Seen(sec) # Unseen /\ have[sec] # Local => <<sec, Seen(sec), have[sec]>> \in sent

\* A push that carries what the primary holds now is never refused as stale,
\* even when another section's counter leads, unless a restored backup has set
\* the primary's serials back.
FreshNeverStale ==
  [][\A p \in Pushes :
       Receive(p) /\ accept /\ handler'[p] # "checked" /\ ~lowered =>
         \E sec \in Pushed(p) : message[p].serials[sec] < SectionSerial(sec)]_vars

\* For a section that lives in one store, a higher serial never means older content
\* and the same serial means the same, unless a backup was restored.
Ordered(sec) ==
  \A a, b \in sent : a[1] = sec /\ b[1] = sec /\ a[2] <= b[2] => a[3] <= b[3]
SerialOrdersContent ==
  \A sec \in Sections : CarriedBy[sec] = {SectionStore[sec]} /\ ~lowered => Ordered(sec)

\* A section whose last edit was pushed and answered ok is on the standby as it is
\* on the primary, whatever is still in flight: late, duplicate and reordered
\* requests do not undo it.  What the stale check does not cover is excluded:
\* pushes that crossed it, and serials that do not order the content.
AnsweredMeansMirrored ==
  ~crossed =>
    \A sec \in Sections :
      Ordered(sec) /\ sec \notin owed /\ have[sec] # Local => have[sec] = mine[sec]

\* "Replay/stale-serial protection": while a source stays attached, the serial
\* on record for a section never goes back.
NeverRewinds ==
  [][source # NoSource /\ source' # NoSource =>
       \A sec \in Sections : source.serials[sec] <= source'.serials[sec]]_vars

\* "Mirrored sections become read-only on the receiver": a section that came
\* from an attached source is locked.
MirroredIsLocked ==
  \A sec \in Sections : Seen(sec) # Unseen => sec \in Locked
=============================================================================
