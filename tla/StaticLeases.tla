---------------------------- MODULE StaticLeases ----------------------------
(***************************************************************************)
(* The static DHCP reservations, and all the ways a node comes by them     *)
(* (dnsmaqmgr/dhcp.py, the dhcp sections of mirror.py, importer.py and     *)
(* backup.py, and changelog.py's rollback).  dnsmasq does not start on two *)
(* reservations of one MAC or one IP address, and its --test does not see  *)
(* them, so each way in has a check of its own, and not the same one.      *)
(*                                                                         *)
(* An edit is checked against the store as read, before it waits for the   *)
(* store lock, and applied to the store as it then is.  The other ways in  *)
(* are one step each: what they read before the lock is not the store, but *)
(* for the mirror lock, whose race the module Mirror has.  An apply can    *)
(* be rejected; then the store is put back (module ApplyChange).           *)
(*                                                                         *)
(* An import file holds one reservation here.  Of the copies a node keeps  *)
(* of the section, changelog entries and snapshot files, there is one, of  *)
(* any moment there has been.                                              *)
(***************************************************************************)
EXTENDS Naturals, FiniteSets

CONSTANTS
  Macs, Ips, Names, None,   \* None: no name, no record, nothing held
  Ids,           \* record ids, enough for those in use
  Requests,      \* requests handled at once
  AtStart,       \* bound: reservations at the start
  MaxChanges     \* bound: applied changes

Records == [mac : Macs, ip : Ips, name : Names \cup {None}]
Lists == [Ids -> Records \cup {None}]

ASSUME NoneAssumption == None \notin Records

VARIABLES
  leases,        \* the reservations, by id
  unchecked,     \* history: those written without a check against all the others
  mirrored,      \* history: those a mirror source sent, their names not checked
  locked,        \* a mirror source owns the section
  held,          \* per request: the edit, checked, that waits for the lock
  past,          \* the copy: a changelog entry, a snapshot
  made, gone,    \* history: the ids whose add, whose delete was answered with success
  changes        \* how many

book  == <<leases, unchecked, mirrored>>
said  == <<made, gone>>
vars  == <<book, locked, held, past, said, changes>>

Book == [leases |-> leases, unchecked |-> unchecked, mirrored |-> mirrored]

Present(l) == {i \in Ids : l[i] # None}

\* A record's id is random: not one of a record anywhere.
Fresh(i) ==
  /\ \A l \in {leases, past.leases} : l[i] = None
  /\ \A r \in Requests : held[r] # None => held[r].id # i
  /\ i \notin gone

-----------------------------------------------------------------------------
(* The checks                                                              *)

SameHost(x, y) == x.mac = y.mac \/ x.ip = y.ip
SameName(x, y) == x.name # None /\ x.name = y.name

\* A mutant: the check leaves out the address.
ClashesByMac(x, y) == x.mac = y.mac \/ SameName(x, y)

\* _dup_check, for one record it is run over.
Clashes(x, y) == SameHost(x, y) \/ SameName(x, y)

\* A mutant: an edit may repeat a name.
FreeOfHost(l, i, rec) == \A j \in Present(l) \ {i} : ~SameHost(l[j], rec)

\* _dup_check of a record for the id i.
Free(l, i, rec) == \A j \in Present(l) \ {i} : ~Clashes(l[j], rec)

\* A mutant: the receiver takes what the source sends.
AcceptsAll(l) == TRUE

\* What the mirror receiver insists on: no host twice.
Accepts(l) == \A i, j \in Present(l) : i # j => ~SameHost(l[i], l[j])

\* What _staged_dhcp insists on, record by record.
Restorable(l) == \A i, j \in Present(l) : i # j => ~Clashes(l[i], l[j])

\* A node as it starts: the reservations its disk has, each of them checked.
Init ==
  /\ leases \in {l \in Lists : Restorable(l)}
  /\ Cardinality(Present(leases)) <= AtStart
  /\ unchecked = {} /\ mirrored = {}
  /\ locked = FALSE /\ held = [r \in Requests |-> None]
  /\ past = Book /\ made = {} /\ gone = {} /\ changes = 0

-----------------------------------------------------------------------------
(* What a change leaves behind                                             *)

Count == changes < MaxChanges /\ changes' = changes + 1

Becomes(b) ==
  leases' = b.leases /\ unchecked' = b.unchecked /\ mirrored' = b.mirrored

\* The section is replaced whole: nothing said of a record binds any more.
Replaced(b) ==
  /\ Count /\ Becomes(b)
  /\ made' = {} /\ gone' = {}
  /\ UNCHANGED <<held, past>>

-----------------------------------------------------------------------------
(* Edits                                                                   *)

Hold(r, edit) ==
  /\ changes < MaxChanges
  /\ held[r] = None /\ ~locked /\ held' = [held EXCEPT ![r] = edit]
  /\ UNCHANGED <<book, locked, past, said, changes>>

\* dhcp_add and dhcp_reserve.
Add(r) == \E i \in Ids, rec \in Records :
  /\ Fresh(i) /\ Free(leases, i, rec)
  /\ Hold(r, [op |-> "add", id |-> i, rec |-> rec, seen |-> leases])

\* dhcp_update: what the request does not say is as in the record read.
Update(r) == \E i \in Present(leases), rec \in Records :
  /\ rec # leases[i] /\ Free(leases, i, rec)
  /\ Hold(r, [op |-> "update", id |-> i, rec |-> rec, seen |-> leases])

Delete(r) == \E i \in Present(leases) :
  Hold(r, [op |-> "delete", id |-> i, rec |-> None, seen |-> leases])

\* A mutant: the edit is made to the store as it was read.
EditedAsSeen(h) == [h.seen EXCEPT ![h.id] = h.rec]

\* The edit, made to the store as it is: what is gone is not updated.
Edited(h) ==
  IF h.op = "update" /\ leases[h.id] = None THEN leases ELSE [leases EXCEPT ![h.id] = h.rec]

\* The edit under the lock.
Apply(r) == LET h == held[r] IN
  /\ h # None /\ held' = [held EXCEPT ![r] = None]
  /\ Count
  /\ leases' = Edited(h)
  /\ unchecked' = (unchecked \ {h.id})
                  \cup {i \in {h.id} \cap Present(leases') : h.seen # leases}
  /\ mirrored' = mirrored \ {h.id}
  /\ made' = IF h.op = "add" THEN made \cup {h.id} ELSE made \ {j \in {h.id} : h.op = "delete"}
  /\ gone' = IF h.op = "delete" THEN gone \cup {h.id} ELSE gone
  /\ UNCHANGED <<locked, past>>

Reject(r) ==
  /\ held[r] # None /\ held' = [held EXCEPT ![r] = None]
  /\ UNCHANGED <<book, locked, past, said, changes>>

-----------------------------------------------------------------------------
(* The other ways in                                                       *)

\* A push of the section from a source, ids and all.
Receive == \E l \in Lists :
  /\ Accepts(l)
  /\ \A r \in Requests : held[r] # None /\ held[r].op = "add" => l[held[r].id] = None
  /\ Replaced([leases |-> l, unchecked |-> {}, mirrored |-> Present(l)])
  /\ locked' = TRUE

\* The operator releases the section.
Unlock ==
  /\ locked /\ locked' = FALSE
  /\ UNCHANGED <<book, held, past, said, changes>>

\* import_apply: a reservation of the MAC address is changed, else one is added.
Import == \E rec \in Records, i \in Ids :
  /\ ~locked /\ Count
  /\ \/ leases[i] # None /\ leases[i].mac = rec.mac /\ leases[i] # rec
     \/ Fresh(i) /\ \A j \in Present(leases) : leases[j].mac # rec.mac
  /\ leases' = [leases EXCEPT ![i] = rec]
  /\ unchecked' = unchecked \cup {i} /\ UNCHANGED mirrored
  /\ UNCHANGED <<locked, held, past, said>>

\* import_apply told to replace.
ImportAnew == \E rec \in Records, i \in Ids :
  /\ ~locked /\ Fresh(i)
  /\ Replaced([leases |-> [j \in Ids |-> IF j = i THEN rec ELSE None],
               unchecked |-> {i}, mirrored |-> {}])
  /\ UNCHANGED locked

-----------------------------------------------------------------------------
(* Copies                                                                  *)

\* apply_change records the stores it leaves, run_snapshot those there are.
Copy ==
  /\ past' = Book
  /\ UNCHANGED <<book, locked, held, said, changes>>

\* changelog_rollback: the entry goes back as it is.
Rollback == ~locked /\ past # Book /\ Replaced(past) /\ UNCHANGED locked

\* backups_restore: all of it, or it is refused.
Restore ==
  /\ ~locked /\ Restorable(past.leases)
  /\ Replaced([leases |-> past.leases, unchecked |-> {}, mirrored |-> {}])
  /\ UNCHANGED locked

Next ==
  \/ \E r \in Requests : Add(r) \/ Update(r) \/ Delete(r) \/ Apply(r) \/ Reject(r)
  \/ Receive \/ Unlock \/ Import \/ ImportAnew
  \/ Copy \/ Rollback \/ Restore

Spec == Init /\ [][Next]_vars

-----------------------------------------------------------------------------
(* Properties                                                              *)

Edits == [op : {"add", "update", "delete"}, id : Ids, rec : Records \cup {None}, seen : Lists]

TypeOK ==
  /\ leases \in Lists /\ unchecked \subseteq Ids /\ mirrored \subseteq Ids
  /\ locked \in BOOLEAN /\ held \in [Requests -> Edits \cup {None}]
  /\ past \in [leases : Lists, unchecked : SUBSET Ids, mirrored : SUBSET Ids]
  /\ made \subseteq Ids /\ gone \subseteq Ids

\* dnsmasq would start on what the store holds: no MAC and no IP address is
\* reserved twice, in no order of edits, pushes, imports, rollbacks and
\* restores, except with a record an import wrote or an edit that was
\* overtaken between its check and the lock (dhcp.py, _dup_check).
HostsOnce ==
  \A i, j \in Present(leases) :
    i # j /\ SameHost(leases[i], leases[j]) => i \in unchecked \/ j \in unchecked

\* A snapshot restores the node it was taken of: what the routes here have
\* checked and no source has sent passes the check of the restore, names
\* included (backup.py, "a snapshot restores a node completely").
OwnSnapshotsRestore ==
  past.unchecked = {} /\ past.mirrored = {} => Restorable(past.leases)

\* An edit answered with success holds until the section is replaced: an
\* added reservation is there until it is deleted, a deleted one does not
\* come back, with any other edits in flight (dhcp.py, the mutate functions).
AnswersHold ==
  /\ made \subseteq Present(leases)
  /\ gone \cap Present(leases) = {}

\* Not so: two adds checked before either is applied, or an import, reserve
\* an address twice (dhcp.py:80-82: "so reject here").
NeverTwice == \A i, j \in Present(leases) : i # j => ~SameHost(leases[i], leases[j])

\* Not so: a repeated name a source was let send makes the node's own
\* snapshots fail their restore (backup.py:325-326).
SnapshotsRestore == past.unchecked = {} => Restorable(past.leases)
=============================================================================
