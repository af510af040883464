-------------------------------- MODULE UniFi --------------------------------
(***************************************************************************)
(* The host records pushed to a UniFi gateway (dnsmaqmgr/unifi.py, and     *)
(* its branch of peers.py).  A sync reads the host store, lists what the   *)
(* gateway has, plans the difference and sends it one request a record;    *)
(* at the end the peer's status says how it went.  Pushes after an apply   *)
(* take turns under a lock; an operator's Sync now does not.  The store is *)
(* read without STORE_LOCK, so a sync may read what an apply has saved and *)
(* not yet committed.  The gateway has an operator of its own.             *)
(*                                                                         *)
(* A request is answered, refused, or lost: sent once more over a new      *)
(* connection, it may have taken effect twice or, lost again, once.        *)
(* The gateway, which is not part of the code, keeps one static record to  *)
(* a name, refuses one for a name that a client's record has until that is *)
(* released, and refuses to change a record that is gone.  One record type.*)
(***************************************************************************)
EXTENDS Naturals, FiniteSets

CONSTANTS
  Names, Addresses, None,
  Peers,         \* a peer's options: to mirror (delete the rest) and to claim
  Earlier,       \* the stores that the change log and the backups hold
  MaxEdits,      \* bound: applies that write the host store
  MaxMeddling,   \* bound: edits at the gateway
  MaxSyncs       \* bound: Sync nows

Syncs == {"push", "sync now"}
Values == Addresses \cup {None}

\* Record ids the gateway gives, enough for those in use.
Ids == 1..(Cardinality(Names) * (1 + Cardinality(Syncs)) + 1)

ASSUME NameAssumption == IsFiniteSet(Names)
ASSUME PeerAssumption == Peers \subseteq [mirror : BOOLEAN, claim : BOOLEAN]
ASSUME NoneAssumption == None \notin Addresses \cup [id : Ids, value : Addresses]
ASSUME EarlierAssumption == Earlier \subseteq [hosts : [Names -> Values], serial : Nat]

VARIABLES
  peer,          \* the peer's options
  hosts, serial, \* the host store, as on disk
  kept,          \* the same, as the last finished apply left it
  applying,      \* the apply that has saved the store and not finished, or "nothing"
  pushing,       \* how many applies have left a push to be done
  static,        \* the gateway's static records, by name
  clients,       \* the gateway's client records, by name
  status, shown, \* the peer's last_status, and its last_serial
  pc,            \* per sync: where it is
  wanted, from,  \* per sync: the host store as read, and its serial
  listed,        \* per sync: the static records as listed
  todo,          \* per sync: the requests to come
  trouble,       \* per sync: a record failed, or a client has it elsewhere
  edits, meddling, nows,    \* how often
  disturbed,     \* history: per sync, another has changed the gateway meanwhile
  astray,        \* history: per sync, it read an unfinished apply, or before a restore
  blind,         \* history: per sync, the list of client records was refused
  overlooked,    \* history: blind, of the last sync that succeeded
  overwritten    \* history: since the last clean sync, an operator or two syncs wrote,
                 \* or one that was astray succeeded

store   == <<hosts, serial, kept, applying, pushing, edits>>
gateway == <<static, clients, meddling>>
peered  == <<peer, status, shown, overlooked>>
local   == <<wanted, from, listed, todo, trouble, blind>>
history == <<disturbed, astray, overwritten>>
vars    == <<store, gateway, peered, pc, local, nows, history>>

NoRecords == [n \in Names |-> None]
Holds(n, v) == static[n] # None /\ static[n].value = v

Init ==
  /\ peer \in Peers
  /\ hosts \in [Names -> Values] /\ serial = 1
  /\ kept = [hosts |-> hosts, serial |-> serial]
  /\ applying = "nothing" /\ pushing = 0
  /\ static \in [Names -> {None} \cup [id : {1}, value : Addresses]]
  /\ \A n, m \in Names : static[n] # None /\ static[m] # None => n = m
  /\ clients \in [Names -> Values]
  /\ \A n \in Names : static[n] # None => clients[n] = None
  /\ status = "never" /\ shown = 0 /\ overlooked = FALSE
  /\ pc = [s \in Syncs |-> "idle"] /\ wanted = [s \in Syncs |-> NoRecords]
  /\ from = [s \in Syncs |-> 0] /\ listed = [s \in Syncs |-> NoRecords]
  /\ todo = [s \in Syncs |-> {}] /\ trouble = [s \in Syncs |-> FALSE]
  /\ edits = 0 /\ meddling = 0 /\ nows = 0
  /\ disturbed = [s \in Syncs |-> FALSE] /\ astray = [s \in Syncs |-> FALSE]
  /\ blind = [s \in Syncs |-> FALSE] /\ overwritten = FALSE

-----------------------------------------------------------------------------
(* Applies that write the host store                                       *)

\* mutate, under the lock: the new store is on disk, still with no new serial.
Save(kind, records, number) ==
  /\ applying = "nothing" /\ applying' = kind
  /\ edits < MaxEdits /\ edits' = edits + 1
  /\ hosts' = records /\ serial' = number
  /\ UNCHANGED <<kept, pushing, gateway, peered, pc, local, nows, history>>

\* An edit, an import or a mirrored push of the hosts; of the store's other records.
ChangeHosts  == \E records \in [Names -> Values] : Save("hosts", records, serial)
ChangeOthers == Save("others", hosts, serial)

\* A rollback keeps the higher serial; a restore takes the backup's.
RollBack(old) == Save("hosts", old.hosts, IF serial > old.serial THEN serial ELSE old.serial)
Restore(old)  == Save("backup", old.hosts, old.serial)

\* The configuration is accepted and the serial bumped; a push is started of the
\* hosts section alone.
Commit ==
  /\ applying # "nothing" /\ applying' = "nothing"
  /\ serial' = serial + 1 /\ kept' = [hosts |-> hosts, serial |-> serial + 1]
  /\ pushing' = IF applying = "others" THEN pushing ELSE pushing + 1
  /\ astray' = [s \in Syncs |-> astray[s] \/ (applying = "backup" /\ pc[s] # "idle")]
  /\ UNCHANGED <<hosts, edits, gateway, peered, pc, local, nows, disturbed, overwritten>>

\* It is rejected, and the snapshot put back.
Reject ==
  /\ applying # "nothing" /\ applying' = "nothing"
  /\ hosts' = kept.hosts /\ serial' = kept.serial
  /\ UNCHANGED <<kept, pushing, edits, gateway, peered, pc, local, nows, history>>

-----------------------------------------------------------------------------
(* The gateway's operator                                                  *)

InUse == {static[n].id : n \in {m \in Names : static[m] # None}}
         \cup UNION {{r.id : r \in todo[s]} : s \in Syncs}
Fresh == CHOOSE i \in Ids : i \notin InUse

\* Somebody edits the gateway by hand.
Meddle(n) ==
  /\ meddling < MaxMeddling /\ meddling' = meddling + 1
  /\ \/ static[n] # None /\ static' = [static EXCEPT ![n] = None] /\ UNCHANGED clients
     \/ \E v \in Addresses :
          /\ static[n] = None /\ clients[n] = None
          /\ \/ static' = [static EXCEPT ![n] = [id |-> Fresh, value |-> v]]
                /\ UNCHANGED clients
             \/ clients' = [clients EXCEPT ![n] = v] /\ UNCHANGED static
  /\ disturbed' = [s \in Syncs |-> pc[s] # "idle"] /\ overwritten' = TRUE
  /\ UNCHANGED <<store, peered, pc, local, nows, astray>>

-----------------------------------------------------------------------------
(* A sync                                                                  *)

Goto(s, step) == pc' = [pc EXCEPT ![s] = step]

Fails(s) == trouble' = [trouble EXCEPT ![s] = TRUE] /\ Goto(s, "report")

\* A mutant: an empty store is pushed like any other.
RefusesNothing(s) == FALSE

\* sync_hosts does not wipe a gateway for want of host records.
Refuses(s) == peer.mirror /\ hosts = NoRecords

\* push_all's turn, or peers_sync at once: the store is read, without its lock, and
\* the login may fail.
Begin(s) ==
  /\ pc[s] = "idle"
  /\ \/ s = "push" /\ pushing > 0 /\ pushing' = pushing - 1 /\ UNCHANGED nows
     \/ s = "sync now" /\ nows < MaxSyncs /\ nows' = nows + 1 /\ UNCHANGED pushing
  /\ wanted' = [wanted EXCEPT ![s] = hosts] /\ from' = [from EXCEPT ![s] = serial]
  /\ astray' = [astray EXCEPT ![s] = applying # "nothing"]
  /\ \/ Fails(s)
     \/ ~Refuses(s) /\ Goto(s, "list") /\ trouble' = [trouble EXCEPT ![s] = FALSE]
  /\ UNCHANGED <<hosts, serial, kept, applying, edits, gateway, peered, listed, todo, blind,
                 disturbed, overwritten>>

\* list_static
List(s) ==
  /\ pc[s] = "list"
  /\ \/ Fails(s) /\ UNCHANGED listed
     \/ listed' = [listed EXCEPT ![s] = static] /\ Goto(s, "plan") /\ UNCHANGED trouble
  /\ UNCHANGED <<store, gateway, peered, wanted, from, todo, blind, nows, history>>

Request(op, n, i, v) == [op |-> op, name |-> n, id |-> i, value |-> v]

\* plan, of what is wanted, the static records as listed and the clients' as seen.
Claims(s, owners) ==
  {n \in Names : wanted[s][n] # None /\ listed[s][n] = None /\ owners[n] # None}

\* A mutant: a record with another value is left.
PlanNoUpdate(s, owners) ==
  {Request("create", n, 0, wanted[s][n]) :
     n \in {m \in Names \ Claims(s, owners) : wanted[s][m] # None /\ listed[s][m] = None}}
  \cup (IF ~peer.claim THEN {}
        ELSE {Request("release", n, 0, wanted[s][n]) : n \in Claims(s, owners)})
  \cup (IF ~peer.mirror THEN {}
        ELSE {Request("delete", n, listed[s][n].id, None) :
                n \in {m \in Names : wanted[s][m] = None /\ listed[s][m] # None}})

Plan(s, owners) ==
  {Request("create", n, 0, wanted[s][n]) :
     n \in {m \in Names \ Claims(s, owners) : wanted[s][m] # None /\ listed[s][m] = None}}
  \cup {Request("update", n, listed[s][n].id, wanted[s][n]) :
          n \in {m \in Names : /\ wanted[s][m] # None /\ listed[s][m] # None
                               /\ listed[s][m].value # wanted[s][m]}}
  \cup (IF ~peer.claim THEN {}
        ELSE {Request("release", n, 0, wanted[s][n]) : n \in Claims(s, owners)})
  \cup (IF ~peer.mirror THEN {}
        ELSE {Request("delete", n, listed[s][n].id, None) :
                n \in {m \in Names : wanted[s][m] = None /\ listed[s][m] # None}})

Conflicts(s, owners) ==
  ~peer.claim /\ \E n \in Claims(s, owners) : owners[n] # wanted[s][n]

\* list_client_dns, where a refusal counts as no clients; and plan, which is the last to
\* look at the static records listed.
ListAndPlan(s) ==
  /\ pc[s] = "plan"
  /\ \/ Fails(s) /\ UNCHANGED <<todo, blind>>
     \/ \E refused \in BOOLEAN :
          LET owners == IF refused THEN NoRecords ELSE clients IN
          /\ blind' = [blind EXCEPT ![s] = refused]
          /\ todo' = [todo EXCEPT ![s] = Plan(s, owners)]
          /\ trouble' = [trouble EXCEPT ![s] = Conflicts(s, owners)]
          /\ Goto(s, IF todo'[s] = {} THEN "report" ELSE "write")
  /\ listed' = [listed EXCEPT ![s] = NoRecords]
  /\ UNCHANGED <<store, gateway, peered, wanted, from, nows, history>>

\* A creation is asked for by itself, or of a name that has just been released.
Creates(r) == r.op \in {"create", "take"}

\* The gateway's answer to a request, of the records it has by then.
Accepted(r, has, owner) ==
  CASE Creates(r)       -> has = None /\ owner = None
    [] r.op = "release" -> TRUE
    [] OTHER            -> has # None /\ has.id = r.id

\* Overlap: a client has the name, and the record counts as covered, not as failed.
Covered(r) == Creates(r) /\ clients[r.name] # None

\* What it then has under that name.
Record(r) ==
  CASE Creates(r)      -> [id |-> Fresh, value |-> r.value]
    [] r.op = "update" -> [id |-> r.id, value |-> r.value]
    [] r.op = "delete" -> None
    [] OTHER           -> static[r.name]

TakesEffect(s, r) ==
  /\ static' = [static EXCEPT ![r.name] = Record(r)]
  /\ clients' = IF r.op = "release" THEN [clients EXCEPT ![r.name] = None] ELSE clients
  /\ disturbed' = [t \in Syncs |-> disturbed[t] \/ (t # s /\ pc[t] # "idle")]
  /\ overwritten' = (overwritten \/ \E t \in Syncs \ {s} : pc[t] # "idle")

NoEffect == UNCHANGED <<static, clients, disturbed, overwritten>>

\* The order of plan's lists: claims one after another, creations, updates, deletions.
First(s, r) ==
  LET rank == [take |-> 0, release |-> 1, create |-> 2, update |-> 3, delete |-> 4]
  IN  \A q \in todo[s] : rank[r.op] <= rank[q.op]

\* A request has succeeded or failed: a release is followed by its creation.
Proceed(s, r, ok) ==
  LET rest == (todo[s] \ {r}) \cup
              (IF ok /\ r.op = "release" THEN {Request("take", r.name, 0, r.value)} ELSE {})
  IN  todo' = [todo EXCEPT ![s] = rest] /\ Goto(s, IF rest = {} THEN "report" ELSE "write")

\* A mutant: a record that failed is forgotten.
CountNothing(s) == UNCHANGED trouble

CountFailure(s) == trouble' = [trouble EXCEPT ![s] = TRUE]

\* One request of the plan.
Write(s, r) ==
  LET ok == Accepted(r, static[r.name], clients[r.name]) IN
  /\ pc[s] = "write" /\ r \in todo[s] /\ First(s, r)
  /\ \/ \* It is answered.
        /\ IF ok THEN TakesEffect(s, r) /\ UNCHANGED trouble
           ELSE NoEffect /\ IF Covered(r) THEN UNCHANGED trouble ELSE CountFailure(s)
        /\ Proceed(s, r, ok)
     \/ \* The answer is lost, and to the same request again the answer is no
        \* if the first has taken effect.
        /\ ok /\ TakesEffect(s, r)
        /\ LET again == Accepted(r, static'[r.name], clients'[r.name]) IN
             /\ IF again THEN UNCHANGED trouble ELSE CountFailure(s)
             /\ Proceed(s, r, again)
     \/ \* It fails without an effect.
        /\ NoEffect /\ CountFailure(s) /\ Proceed(s, r, FALSE)
     \/ \* It is lost twice, and the sync given up.
        /\ (ok /\ TakesEffect(s, r)) \/ NoEffect
        /\ todo' = [todo EXCEPT ![s] = {}] /\ Fails(s)
  /\ UNCHANGED <<store, meddling, peered, wanted, from, listed, blind, nows, astray>>

\* status_line, and push_to_peer's last step, under the lock.
Report(s) ==
  /\ pc[s] = "report" /\ applying = "nothing" /\ Goto(s, "idle")
  /\ status' = IF trouble[s] THEN "error" ELSE "ok"
  /\ shown' = IF trouble[s] THEN shown ELSE from[s]
  /\ overlooked' = IF trouble[s] THEN overlooked ELSE blind[s]
  /\ wanted' = [wanted EXCEPT ![s] = NoRecords] /\ from' = [from EXCEPT ![s] = 0]
  /\ listed' = [listed EXCEPT ![s] = NoRecords] /\ trouble' = [trouble EXCEPT ![s] = FALSE]
  /\ blind' = [blind EXCEPT ![s] = FALSE]
  /\ overwritten' = IF trouble[s] THEN overwritten
                    ELSE \/ astray[s]
                         \/ overwritten /\ (disturbed[s] \/ \E t \in Syncs \ {s} : pc[t] # "idle")
  /\ disturbed' = [disturbed EXCEPT ![s] = FALSE] /\ astray' = [astray EXCEPT ![s] = FALSE]
  /\ UNCHANGED <<store, gateway, peer, todo, nows>>

-----------------------------------------------------------------------------

Next ==
  \/ ChangeHosts \/ ChangeOthers \/ Commit \/ Reject
  \/ \E old \in Earlier : RollBack(old) \/ Restore(old)
  \/ \E n \in Names : Meddle(n)
  \/ \E s \in Syncs : \/ Begin(s) \/ List(s) \/ ListAndPlan(s) \/ Report(s)
                      \/ \E r \in todo[s] : Write(s, r)

Spec == Init /\ [][Next]_vars

-----------------------------------------------------------------------------
(* Properties                                                              *)

\* The gateway answers for a name as these records say: by its static record or by
\* a client's.
Answers(n, records) ==
  IF records[n] = None THEN peer.mirror => static[n] = None
  ELSE Holds(n, records[n]) \/ (static[n] = None /\ clients[n] = records[n])

\* It does for all of them, but for the names that clients have where a sync could
\* not list those: creating the record is refused as an overlap, which is no failure.
Matches(records, unseen) ==
  \A n \in Names : Answers(n, records) \/ (unseen /\ static[n] = None /\ clients[n] # None)

\* A sync about to report success has made the gateway answer for what it was
\* given: over refused, repeated and lost requests, if nobody else has written.
OkMeansMatching ==
  \A s \in Syncs :
    pc[s] = "report" /\ ~trouble[s] /\ ~disturbed[s] => Matches(wanted[s], blind[s])

\* What the peer's status shows when no sync is under way or owed: success on the
\* store's serial means that the gateway answers for the store as the last finished
\* apply left it, unless since the last sync that succeeded by itself somebody has
\* edited the gateway, one of two syncs that overlap has written, or a sync has
\* succeeded on a store it read in the middle of an apply or before a restore.
StatusIsTrue ==
  /\ status = "ok" /\ shown = kept.serial /\ ~overwritten
  /\ pushing = 0 /\ \A s \in Syncs : pc[s] = "idle"
  => Matches(kept.hosts, overlooked)

\* The module's own account of a client's record: its name is either reported or
\* claimed, so that a sync about to report success leaves no wanted name to a client
\* with another address.
ClientNamesReported ==
  \A s \in Syncs : pc[s] = "report" /\ ~trouble[s] /\ ~disturbed[s] =>
    \A n \in Names :
      wanted[s][n] # None /\ static[n] = None => clients[n] \in {None, wanted[s][n]}

\* A store that has lost its hosts does not take the gateway's records with it: a
\* sync of an empty store deletes nothing, however late it gets to.
EmptyDeletesNothing ==
  \A s \in Syncs : wanted[s] = NoRecords => \A r \in todo[s] : r.op # "delete"
=============================================================================
