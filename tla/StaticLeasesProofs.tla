-------------------------- MODULE StaticLeasesProofs --------------------------
(***************************************************************************)
(* The three invariants of StaticLeases, for any MAC and IP addresses,     *)
(* names, records, requests and bounds.                                    *)
(*                                                                         *)
(* A list is clean when every two of its records that clash have an excuse *)
(* among them.  The list and the copy are clean, and an edit that waits    *)
(* was free in the list it was checked in: if that is still the list, the  *)
(* edit adds no clash, and if it is not, its record is its own excuse.     *)
(* For what was answered: nothing but its own apply can touch the id of an *)
(* add that waits, in the list or in the copy.                             *)
(***************************************************************************)
EXTENDS StaticLeases, TLAPS

Clean(l, u, m) ==
  \A i, j \in Present(l) : i # j =>
    /\ SameHost(l[i], l[j]) => i \in u \/ j \in u
    /\ SameName(l[i], l[j]) => i \in u \cup m \/ j \in u \cup m

\* An edit in hand passed its check.
Checked(h) ==
  /\ h.op = "delete" => h.rec = None
  /\ h.op # "delete" => h.rec \in Records /\ Free(h.seen, h.id, h.rec)

CleanInv ==
  /\ TypeOK
  /\ Clean(leases, unchecked, mirrored)
  /\ Clean(past.leases, past.unchecked, past.mirrored)
  /\ \A r \in Requests : held[r] # None => Checked(held[r])

\* The id of an add that waits is nobody else's.
Reserved(r) ==
  /\ leases[held[r].id] = None /\ past.leases[held[r].id] = None
  /\ held[r].id \notin gone
  /\ \A q \in Requests : held[q] # None /\ q # r => held[q].id # held[r].id

ToldInv ==
  /\ AnswersHold
  /\ \A r \in Requests : held[r] # None /\ held[r].op = "add" => Reserved(r)

-----------------------------------------------------------------------------
(* Lists                                                                   *)

\* A list with one record changed is clean if the record is none, is free in
\* the list or is excused.
LEMMA EditedClean ==
  ASSUME NEW l \in Lists, NEW u \in SUBSET Ids, NEW v \in SUBSET Ids, NEW m \in SUBSET Ids,
         NEW i \in Ids, NEW rec \in Records \cup {None},
         Clean(l, u, m), u \ {i} \subseteq v,
         rec = None \/ Free(l, i, rec) \/ i \in v
  PROVE  Clean([l EXCEPT ![i] = rec], v, m \ {i})
<1> DEFINE e == [l EXCEPT ![i] = rec]
<1>1. /\ e[i] = rec
      /\ \A j \in Ids \ {i} : e[j] = l[j]
  BY DEF Lists
<1>2. \A j \in Present(e) : j # i => j \in Present(l)
  BY <1>1 DEF Present
<1> HIDE DEF e
<1> SUFFICES ASSUME NEW j \in Present(e), NEW k \in Present(e), j # k
             PROVE  /\ SameHost(e[j], e[k]) => j \in v \/ k \in v
                    /\ SameName(e[j], e[k]) => \/ j \in v \cup (m \ {i})
                                               \/ k \in v \cup (m \ {i})
  BY DEF Clean, e
<1>3. CASE j # i /\ k # i
  <2>1. /\ j \in Present(l) /\ k \in Present(l)
        /\ e[j] = l[j] /\ e[k] = l[k]
    BY <1>1, <1>2, <1>3 DEF Present
  <2>2. /\ SameHost(l[j], l[k]) => j \in u \/ k \in u
        /\ SameName(l[j], l[k]) => j \in u \cup m \/ k \in u \cup m
    BY <2>1 DEF Clean
  <2> QED  BY <1>3, <2>1, <2>2
<1>4. CASE i \in v /\ (j = i \/ k = i)
  BY <1>4
<1>5. CASE Free(l, i, rec) /\ (j = i \/ k = i)
  <2>1. CASE j = i
    <3>1. k \in Present(l) \ {i} /\ e[k] = l[k] /\ e[j] = rec
      BY <2>1, <1>1, <1>2 DEF Present
    <3>2. ~Clashes(l[k], rec)
      BY <1>5, <3>1 DEF Free
    <3> QED  BY <3>1, <3>2 DEF Clashes, SameHost, SameName
  <2>2. CASE k = i
    <3>1. j \in Present(l) \ {i} /\ e[j] = l[j] /\ e[k] = rec
      BY <2>2, <1>1, <1>2 DEF Present
    <3>2. ~Clashes(l[j], rec)
      BY <1>5, <3>1 DEF Free
    <3> QED  BY <3>1, <3>2 DEF Clashes, SameHost, SameName
  <2> QED  BY <1>5, <2>1, <2>2
<1>6. CASE rec = None /\ (j = i \/ k = i)
  BY <1>1, <1>6 DEF Present
<1> QED  BY <1>3, <1>4, <1>5, <1>6

\* What an edit makes of a list is the list with one record changed.
LEMMA EditedIsExcept ==
  ASSUME TypeOK, NEW h \in Edits, h.op = "delete" => h.rec = None
  PROVE  /\ Edited(h) \in Lists
         /\ \E rec \in {h.rec, None} :
              /\ Edited(h) = [leases EXCEPT ![h.id] = rec]
              /\ rec = h.rec \/ (h.op = "update" /\ leases[h.id] = None)
<1>1. h.id \in Ids /\ h.rec \in Records \cup {None} /\ leases \in Lists
  BY DEF TypeOK, Edits
<1>2. CASE h.op = "update" /\ leases[h.id] = None
  <2>1. Edited(h) = leases
    BY <1>2 DEF Edited
  <2>2. leases = [leases EXCEPT ![h.id] = None]
    BY <1>1, <1>2 DEF Lists
  <2> QED  BY <1>1, <1>2, <2>1, <2>2
<1>3. CASE ~(h.op = "update" /\ leases[h.id] = None)
  <2>1. Edited(h) = [leases EXCEPT ![h.id] = h.rec]
    BY <1>3 DEF Edited
  <2>2. [leases EXCEPT ![h.id] = h.rec] \in Lists
    BY <1>1 DEF Lists
  <2> QED  BY <2>1, <2>2
<1> QED  BY <1>2, <1>3

-----------------------------------------------------------------------------
(* Clean lists                                                             *)

LEMMA CleanInit == Init => CleanInv
<1> SUFFICES ASSUME Init PROVE CleanInv
  OBVIOUS
<1>1. TypeOK
  BY DEF Init, TypeOK, Book, Lists
<1>2. Clean(leases, {}, {})
  BY DEF Init, Clean, Restorable, Clashes
<1> QED  BY <1>1, <1>2 DEF Init, CleanInv, Book

LEMMA CleanHold ==
  ASSUME CleanInv, NEW r \in Requests, NEW edit \in Edits, Hold(r, edit), Checked(edit)
  PROVE  CleanInv'
<1>1. TypeOK'
  BY DEF CleanInv, TypeOK, Hold, book, said
<1>2. \A q \in Requests : held'[q] # None => Checked(held'[q])
  BY DEF CleanInv, TypeOK, Hold
<1>3. UNCHANGED <<leases, unchecked, mirrored, past>>
  BY DEF Hold, book
<1> QED  BY <1>1, <1>2, <1>3 DEF CleanInv

LEMMA CleanAdd == ASSUME CleanInv, NEW r \in Requests, Add(r) PROVE CleanInv'
<1>1. PICK i \in Ids, rec \in Records :
        /\ Free(leases, i, rec)
        /\ Hold(r, [op |-> "add", id |-> i, rec |-> rec, seen |-> leases])
  BY DEF Add
<1> DEFINE edit == [op |-> "add", id |-> i, rec |-> rec, seen |-> leases]
<1>2. edit \in Edits
  BY DEF CleanInv, TypeOK, Edits
<1>3. Checked(edit)
  BY <1>1 DEF Checked
<1> QED  BY <1>1, <1>2, <1>3, CleanHold

LEMMA CleanUpdate == ASSUME CleanInv, NEW r \in Requests, Update(r) PROVE CleanInv'
<1>1. PICK i \in Present(leases), rec \in Records :
        /\ Free(leases, i, rec)
        /\ Hold(r, [op |-> "update", id |-> i, rec |-> rec, seen |-> leases])
  BY DEF Update
<1> DEFINE edit == [op |-> "update", id |-> i, rec |-> rec, seen |-> leases]
<1>2. edit \in Edits
  BY DEF CleanInv, TypeOK, Edits, Present
<1>3. Checked(edit)
  BY <1>1 DEF Checked
<1> QED  BY <1>1, <1>2, <1>3, CleanHold

LEMMA CleanDelete == ASSUME CleanInv, NEW r \in Requests, Delete(r) PROVE CleanInv'
<1>1. PICK i \in Present(leases) :
        Hold(r, [op |-> "delete", id |-> i, rec |-> None, seen |-> leases])
  BY DEF Delete
<1> DEFINE edit == [op |-> "delete", id |-> i, rec |-> None, seen |-> leases]
<1>2. edit \in Edits
  BY DEF CleanInv, TypeOK, Edits, Present
<1>3. Checked(edit)
  BY DEF Checked
<1> QED  BY <1>1, <1>2, <1>3, CleanHold

LEMMA CleanApply == ASSUME CleanInv, NEW r \in Requests, Apply(r) PROVE CleanInv'
<1> DEFINE h == held[r]
<1>1. /\ h \in Edits /\ Checked(h)
      /\ h.id \in Ids /\ h.rec \in Records \cup {None}
  BY DEF Apply, CleanInv, TypeOK, Edits
<1>2. PICK rec \in {h.rec, None} :
        /\ leases' = [leases EXCEPT ![h.id] = rec]
        /\ rec = h.rec \/ (h.op = "update" /\ leases[h.id] = None)
  BY <1>1, EditedIsExcept DEF Apply, Checked, CleanInv
<1>3. leases' \in Lists
  BY <1>1, EditedIsExcept DEF Apply, Checked, CleanInv
<1>4. /\ unchecked' = (unchecked \ {h.id})
                       \cup {i \in {h.id} \cap Present(leases') : h.seen # leases}
      /\ mirrored' = mirrored \ {h.id} /\ past' = past /\ locked' = locked
      /\ held' = [held EXCEPT ![r] = None]
  BY DEF Apply
<1>5. TypeOK'
  <2>1. made' \subseteq Ids /\ gone' \subseteq Ids
    BY <1>1 DEF Apply, CleanInv, TypeOK
  <2> QED  BY <1>1, <1>3, <1>4, <2>1 DEF CleanInv, TypeOK
<1>6. rec = None \/ Free(leases, h.id, rec) \/ h.id \in unchecked'
  <2>1. CASE rec = None
    BY <2>1
  <2>2. CASE rec # None /\ h.seen = leases
    BY <1>1, <1>2, <2>2 DEF Checked
  <2>3. CASE rec # None /\ h.seen # leases
    <3>1. leases'[h.id] = rec
      BY <1>1, <1>2 DEF CleanInv, TypeOK, Lists
    <3> QED  BY <1>1, <1>4, <2>3, <3>1 DEF Present
  <2> QED  BY <2>1, <2>2, <2>3
<1>7. Clean(leases', unchecked', mirrored')
  <2>1. unchecked \ {h.id} \subseteq unchecked'
    BY <1>4
  <2>2. /\ leases \in Lists /\ unchecked \in SUBSET Ids /\ mirrored \in SUBSET Ids
        /\ Clean(leases, unchecked, mirrored) /\ unchecked' \in SUBSET Ids
        /\ rec \in Records \cup {None}
    BY <1>1, <1>5 DEF CleanInv, TypeOK
  <2>3. Clean([leases EXCEPT ![h.id] = rec], unchecked', mirrored \ {h.id})
    BY <1>1, <1>6, <2>1, <2>2, EditedClean
  <2> QED  BY <1>2, <1>4, <2>3
<1>8. \A q \in Requests : held'[q] # None => Checked(held'[q])
  BY <1>4 DEF CleanInv, TypeOK
<1> QED  BY <1>4, <1>5, <1>7, <1>8 DEF CleanInv

LEMMA CleanReject == ASSUME CleanInv, NEW r \in Requests, Reject(r) PROVE CleanInv'
<1>1. TypeOK'
  BY DEF CleanInv, TypeOK, Reject, book, said
<1>2. \A q \in Requests : held'[q] # None => Checked(held'[q])
  BY DEF CleanInv, TypeOK, Reject
<1>3. UNCHANGED <<leases, unchecked, mirrored, past>>
  BY DEF Reject, book
<1> QED  BY <1>1, <1>2, <1>3 DEF CleanInv

\* A section replaced by a clean list.
LEMMA CleanReplaced ==
  ASSUME CleanInv, NEW l \in Lists, NEW u \in SUBSET Ids, NEW m \in SUBSET Ids,
         Replaced([leases |-> l, unchecked |-> u, mirrored |-> m]),
         locked' \in BOOLEAN, Clean(l, u, m)
  PROVE  CleanInv'
<1>1. /\ leases' = l /\ unchecked' = u /\ mirrored' = m
      /\ held' = held /\ past' = past /\ made' = {} /\ gone' = {}
  BY DEF Replaced, Becomes
<1>2. TypeOK'
  BY <1>1 DEF CleanInv, TypeOK
<1> QED  BY <1>1, <1>2 DEF CleanInv

LEMMA CleanReceive == ASSUME CleanInv, Receive PROVE CleanInv'
<1>1. PICK l \in Lists :
        /\ Accepts(l) /\ locked' = TRUE
        /\ Replaced([leases |-> l, unchecked |-> {}, mirrored |-> Present(l)])
  BY DEF Receive, Lists
<1>2. Clean(l, {}, Present(l))
  BY <1>1 DEF Clean, Accepts
<1>3. Present(l) \in SUBSET Ids
  BY DEF Present
<1> QED  BY <1>1, <1>2, <1>3, CleanReplaced

LEMMA CleanImport == ASSUME CleanInv, Import PROVE CleanInv'
<1>1. PICK rec \in Records, i \in Ids :
        /\ leases' = [leases EXCEPT ![i] = rec] /\ unchecked' = unchecked \cup {i}
        /\ UNCHANGED <<mirrored, locked, held, past, made, gone>>
  BY DEF Import, said
<1>2. TypeOK'
  BY <1>1 DEF CleanInv, TypeOK, Lists
<1>3. Clean(leases', unchecked', mirrored')
  <2>1. /\ leases \in Lists /\ unchecked \in SUBSET Ids /\ mirrored \in SUBSET Ids
        /\ Clean(leases, unchecked, mirrored) /\ unchecked' \in SUBSET Ids
        /\ unchecked \ {i} \subseteq unchecked' /\ i \in unchecked'
    BY <1>1, <1>2 DEF CleanInv, TypeOK
  <2>2. Clean([leases EXCEPT ![i] = rec], unchecked', mirrored \ {i})
    BY <2>1, EditedClean
  <2> QED  BY <1>1, <2>2 DEF Clean
<1> QED  BY <1>1, <1>2, <1>3 DEF CleanInv

LEMMA CleanImportAnew == ASSUME CleanInv, ImportAnew PROVE CleanInv'
<1>1. PICK rec \in Records, i \in Ids :
        /\ Replaced([leases |-> [j \in Ids |-> IF j = i THEN rec ELSE None],
                     unchecked |-> {i}, mirrored |-> {}])
        /\ locked' = locked
  BY DEF ImportAnew
<1> DEFINE l == [j \in Ids |-> IF j = i THEN rec ELSE None]
<1>2. l \in Lists /\ {i} \in SUBSET Ids
  BY DEF Lists
<1>3. Clean(l, {i}, {})
  BY DEF Clean, Present
<1>4. locked' \in BOOLEAN
  BY <1>1 DEF CleanInv, TypeOK
<1> HIDE DEF l
<1> QED  BY <1>1, <1>2, <1>3, <1>4, CleanReplaced DEF l

LEMMA CleanRollback == ASSUME CleanInv, Rollback PROVE CleanInv'
<1>1. /\ past.leases \in Lists /\ past.unchecked \in SUBSET Ids
      /\ past.mirrored \in SUBSET Ids /\ locked' \in BOOLEAN
      /\ past = [leases |-> past.leases, unchecked |-> past.unchecked,
                 mirrored |-> past.mirrored]
  BY DEF CleanInv, TypeOK, Rollback
<1>2. Clean(past.leases, past.unchecked, past.mirrored) /\ Replaced(past)
  BY DEF CleanInv, Rollback
<1> QED  BY <1>1, <1>2, CleanReplaced

LEMMA CleanRestore == ASSUME CleanInv, Restore PROVE CleanInv'
<1>1. past.leases \in Lists /\ locked' \in BOOLEAN
  BY DEF CleanInv, TypeOK, Restore
<1>2. Clean(past.leases, {}, {})
  BY DEF Restore, Restorable, Clean, Clashes
<1>3. Replaced([leases |-> past.leases, unchecked |-> {}, mirrored |-> {}])
  BY DEF Restore
<1> QED  BY <1>1, <1>2, <1>3, CleanReplaced

LEMMA CleanStep == CleanInv /\ [Next]_vars => CleanInv'
<1> SUFFICES ASSUME CleanInv, [Next]_vars PROVE CleanInv'
  OBVIOUS
<1>1. ASSUME NEW r \in Requests, Add(r) \/ Update(r) \/ Delete(r) \/ Apply(r) \/ Reject(r)
      PROVE  CleanInv'
  BY <1>1, CleanAdd, CleanUpdate, CleanDelete, CleanApply, CleanReject
<1>2. CASE Unlock
  BY <1>2 DEF Unlock, CleanInv, TypeOK, book, said
<1>3. CASE Copy
  BY <1>3 DEF Copy, Book, CleanInv, TypeOK, book, said
<1>4. CASE UNCHANGED vars
  BY <1>4 DEF vars, CleanInv, TypeOK, book, said
<1> QED  BY <1>1, <1>2, <1>3, <1>4, CleanReceive, CleanImport, CleanImportAnew,
            CleanRollback, CleanRestore DEF Next

LEMMA AlwaysClean == Spec => []CleanInv
BY CleanInit, CleanStep, PTL DEF Spec

\* Type correctness.
THEOREM TypeCorrect == Spec => []TypeOK
<1>1. CleanInv => TypeOK
  BY DEF CleanInv
<1> QED  BY <1>1, AlwaysClean, PTL

\* No MAC and no IP address is reserved twice but with a record that came in
\* unchecked (dhcp.py, _dup_check; mirror.py, mirror_receive).
THEOREM NoHostTwice == Spec => []HostsOnce
<1>1. CleanInv => HostsOnce
  BY DEF CleanInv, Clean, HostsOnce
<1> QED  BY <1>1, AlwaysClean, PTL

\* A copy of a node whose reservations were all checked there passes the check
\* of its restore (backup.py, _staged_dhcp).
THEOREM OwnCopiesRestore == Spec => []OwnSnapshotsRestore
<1>1. CleanInv => OwnSnapshotsRestore
  BY DEF CleanInv, Clean, OwnSnapshotsRestore, Restorable, Clashes
<1> QED  BY <1>1, AlwaysClean, PTL

-----------------------------------------------------------------------------
(* What was answered                                                       *)

LEMMA ToldInit == Init => ToldInv
BY DEF Init, ToldInv, AnswersHold

LEMMA ToldHold ==
  ASSUME CleanInv, ToldInv, NEW r \in Requests, NEW edit \in Edits, Hold(r, edit),
         edit.op = "add" => Fresh(edit.id), edit.op # "add" => edit.id \in Present(leases)
  PROVE  ToldInv'
<1>1. /\ UNCHANGED <<leases, past, made, gone>>
      /\ held[r] = None /\ held' = [held EXCEPT ![r] = edit]
  BY DEF Hold, book, said
<1>2. AnswersHold'
  BY <1>1 DEF ToldInv, AnswersHold, Present
<1>3. /\ held'[r] = edit
      /\ \A q \in Requests : q # r => held'[q] = held[q]
  BY <1>1 DEF CleanInv, TypeOK
<1>4. ASSUME NEW p \in Requests, held'[p] # None, held'[p].op = "add"
      PROVE  Reserved(p)'
  <2>1. CASE p = r
    <3>1. /\ leases[edit.id] = None /\ past.leases[edit.id] = None /\ edit.id \notin gone
          /\ \A q \in Requests : held[q] # None => held[q].id # edit.id
      BY <1>3, <1>4, <2>1 DEF Fresh
    <3> QED  BY <1>1, <1>3, <2>1, <3>1 DEF Reserved
  <2>2. CASE p # r
    <3>1. /\ held'[p] = held[p] /\ Reserved(p)
      BY <1>3, <1>4, <2>2 DEF ToldInv
    <3>2. edit.id # held[p].id
      <4>1. CASE edit.op = "add"
        BY <1>3, <1>4, <2>2, <3>1, <4>1 DEF Fresh
      <4>2. CASE edit.op # "add"
        BY <3>1, <4>2 DEF Reserved, Present
      <4> QED  BY <4>1, <4>2
    <3> QED  BY <1>1, <1>3, <3>1, <3>2 DEF Reserved
  <2> QED  BY <2>1, <2>2
<1> QED  BY <1>2, <1>4 DEF ToldInv

LEMMA ToldCheck ==
  ASSUME CleanInv, ToldInv, NEW r \in Requests, Add(r) \/ Update(r) \/ Delete(r)
  PROVE  ToldInv'
<1>1. leases \in Lists
  BY DEF CleanInv, TypeOK
<1>2. CASE Add(r)
  <2>1. PICK i \in Ids, rec \in Records :
          /\ Fresh(i)
          /\ Hold(r, [op |-> "add", id |-> i, rec |-> rec, seen |-> leases])
    BY <1>2 DEF Add
  <2>2. [op |-> "add", id |-> i, rec |-> rec, seen |-> leases] \in Edits
    BY <1>1 DEF Edits
  <2> QED  BY <2>1, <2>2, ToldHold
<1>3. CASE Update(r)
  <2>1. PICK i \in Present(leases), rec \in Records :
          Hold(r, [op |-> "update", id |-> i, rec |-> rec, seen |-> leases])
    BY <1>3 DEF Update
  <2>2. [op |-> "update", id |-> i, rec |-> rec, seen |-> leases] \in Edits
    BY <1>1 DEF Edits, Present
  <2> QED  BY <2>1, <2>2, ToldHold
<1>4. CASE Delete(r)
  <2>1. PICK i \in Present(leases) :
          Hold(r, [op |-> "delete", id |-> i, rec |-> None, seen |-> leases])
    BY <1>4 DEF Delete
  <2>2. [op |-> "delete", id |-> i, rec |-> None, seen |-> leases] \in Edits
    BY <1>1 DEF Edits, Present
  <2> QED  BY <2>1, <2>2, ToldHold
<1> QED  BY <1>2, <1>3, <1>4

LEMMA ToldApply ==
  ASSUME CleanInv, ToldInv, NEW r \in Requests, Apply(r)
  PROVE  ToldInv'
<1> DEFINE h == held[r]
<1>1. /\ h \in Edits /\ h # None /\ Checked(h)
      /\ h.id \in Ids /\ h.rec \in Records \cup {None}
      /\ h.op \in {"add", "update", "delete"}
  BY DEF Apply, CleanInv, TypeOK, Edits
<1>2. PICK rec \in {h.rec, None} :
        /\ leases' = [leases EXCEPT ![h.id] = rec]
        /\ rec = h.rec \/ (h.op = "update" /\ leases[h.id] = None)
  BY <1>1, EditedIsExcept DEF Apply, Checked, CleanInv
<1>3. /\ leases'[h.id] = rec
      /\ \A i \in Ids : i # h.id => leases'[i] = leases[i]
  BY <1>1, <1>2 DEF CleanInv, TypeOK, Lists
<1>4. /\ past' = past
      /\ held'[r] = None
      /\ \A q \in Requests : q # r => held'[q] = held[q]
      /\ made' = IF h.op = "add" THEN made \cup {h.id} ELSE made \ {j \in {h.id} : h.op = "delete"}
      /\ gone' = IF h.op = "delete" THEN gone \cup {h.id} ELSE gone
  BY DEF Apply, CleanInv, TypeOK
<1>5. AnswersHold'
  <2>0. made \subseteq Present(leases) /\ gone \cap Present(leases) = {}
    BY DEF ToldInv, AnswersHold
  <2>1. CASE h.op = "add"
    <3>1. rec # None
      BY <1>1, <1>2, <2>1, NoneAssumption DEF Checked
    <3>2. h.id \notin gone
      BY <1>1, <2>1 DEF ToldInv, Reserved
    <3>3. Present(leases') = Present(leases) \cup {h.id}
      BY <1>1, <1>3, <3>1 DEF Present
    <3>4. made' = made \cup {h.id} /\ gone' = gone
      BY <1>4, <2>1
    <3> QED  BY <2>0, <3>2, <3>3, <3>4 DEF AnswersHold
  <2>2. CASE h.op = "update"
    <3>1. Present(leases') = Present(leases)
      <4>1. CASE leases[h.id] = None
        <5>1. CASE rec = None
          BY <1>1, <1>3, <4>1, <5>1 DEF Present
        <5>2. CASE rec # None
          <6>1. leases' = leases
            BY <1>1, <2>2, <4>1 DEF Apply, Edited
          <6> QED  BY <6>1
        <5> QED  BY <5>1, <5>2
      <4>2. CASE leases[h.id] # None
        <5>1. rec # None
          BY <1>1, <1>2, <2>2, <4>2, NoneAssumption DEF Checked
        <5> QED  BY <1>1, <1>3, <4>2, <5>1 DEF Present
      <4> QED  BY <4>1, <4>2
    <3>2. made' = made /\ gone' = gone
      BY <1>4, <2>2
    <3> QED  BY <2>0, <3>1, <3>2 DEF AnswersHold
  <2>3. CASE h.op = "delete"
    <3>1. Present(leases') = Present(leases) \ {h.id}
      BY <1>1, <1>2, <1>3, <2>3 DEF Present, Checked
    <3>2. made' = made \ {h.id} /\ gone' = gone \cup {h.id}
      BY <1>4, <2>3
    <3> QED  BY <2>0, <3>1, <3>2 DEF AnswersHold
  <2> QED  BY <1>1, <2>1, <2>2, <2>3
<1>6. ASSUME NEW p \in Requests, held'[p] # None, held'[p].op = "add"
      PROVE  Reserved(p)'
  <2>1. /\ p # r /\ held'[p] = held[p] /\ Reserved(p)
    BY <1>4, <1>6 DEF ToldInv
  <2>2. held[p].id # h.id
    BY <1>1, <2>1 DEF Reserved
  <2>3. held[p] \in Edits /\ held[p].id \in Ids
    BY <1>6, <2>1 DEF CleanInv, TypeOK, Edits
  <2>4. leases'[held[p].id] = None /\ past'.leases[held[p].id] = None
    BY <1>3, <1>4, <2>1, <2>2, <2>3 DEF Reserved
  <2>5. held[p].id \notin gone'
    BY <1>4, <2>1, <2>2 DEF Reserved
  <2>6. ASSUME NEW q \in Requests, held'[q] # None, q # p
        PROVE  held'[q].id # held'[p].id
    BY <1>4, <2>1, <2>6 DEF Reserved
  <2> QED  BY <2>1, <2>4, <2>5, <2>6 DEF Reserved
<1> QED  BY <1>5, <1>6 DEF ToldInv

LEMMA ToldReject ==
  ASSUME CleanInv, ToldInv, NEW r \in Requests, Reject(r)
  PROVE  ToldInv'
<1>1. /\ UNCHANGED <<leases, past, made, gone>>
      /\ held'[r] = None
      /\ \A q \in Requests : q # r => held'[q] = held[q]
  BY DEF Reject, book, said, CleanInv, TypeOK
<1>2. AnswersHold'
  BY <1>1 DEF ToldInv, AnswersHold, Present
<1>3. ASSUME NEW p \in Requests, held'[p] # None, held'[p].op = "add"
      PROVE  Reserved(p)'
  <2>1. held'[p] = held[p] /\ Reserved(p)
    BY <1>1, <1>3 DEF ToldInv
  <2>2. ASSUME NEW q \in Requests, held'[q] # None, q # p
        PROVE  held'[q].id # held'[p].id
    BY <1>1, <2>1, <2>2 DEF Reserved
  <2> QED  BY <1>1, <2>1, <2>2 DEF Reserved
<1> QED  BY <1>2, <1>3 DEF ToldInv

\* A section replaced by a list that has no record of an add that waits.
LEMMA ToldReplaced ==
  ASSUME ToldInv, NEW b, Replaced(b),
         \A r \in Requests : held[r] # None /\ held[r].op = "add" => b.leases[held[r].id] = None
  PROVE  ToldInv'
<1>1. leases' = b.leases /\ UNCHANGED <<held, past>> /\ made' = {} /\ gone' = {}
  BY DEF Replaced, Becomes
<1>2. AnswersHold'
  BY <1>1 DEF AnswersHold
<1>3. ASSUME NEW p \in Requests, held'[p] # None, held'[p].op = "add"
      PROVE  Reserved(p)'
  BY <1>1, <1>3 DEF ToldInv, Reserved
<1> QED  BY <1>2, <1>3 DEF ToldInv

LEMMA ToldReceive == ASSUME ToldInv, Receive PROVE ToldInv'
<1>1. PICK l \in Lists :
        /\ \A r \in Requests : held[r] # None /\ held[r].op = "add" => l[held[r].id] = None
        /\ Replaced([leases |-> l, unchecked |-> {}, mirrored |-> Present(l)])
  BY DEF Receive, Lists
<1> QED  BY <1>1, ToldReplaced

LEMMA ToldImport == ASSUME CleanInv, ToldInv, Import PROVE ToldInv'
<1>1. PICK rec \in Records, i \in Ids :
        /\ i \in Present(leases) \/ Fresh(i)
        /\ leases' = [leases EXCEPT ![i] = rec]
        /\ UNCHANGED <<held, past, made, gone>>
  BY DEF Import, said, Present
<1>2. leases'[i] = rec /\ rec # None /\ \A j \in Ids : j # i => leases'[j] = leases[j]
  BY <1>1, NoneAssumption DEF CleanInv, TypeOK, Lists
<1>3. Present(leases') = Present(leases) \cup {i} /\ i \notin gone
  BY <1>1, <1>2 DEF Present, ToldInv, AnswersHold, Fresh
<1>4. AnswersHold'
  BY <1>1, <1>3 DEF ToldInv, AnswersHold
<1>5. ASSUME NEW p \in Requests, held'[p] # None, held'[p].op = "add"
      PROVE  Reserved(p)'
  <2>1. held[p] # None /\ held[p].op = "add" /\ Reserved(p)
    BY <1>1, <1>5 DEF ToldInv
  <2>2. held[p].id # i
    BY <1>1, <2>1 DEF Reserved, Present, Fresh
  <2>3. held[p].id \in Ids
    BY <2>1 DEF CleanInv, TypeOK, Edits
  <2> QED  BY <1>1, <1>2, <2>1, <2>2, <2>3 DEF Reserved
<1> QED  BY <1>4, <1>5 DEF ToldInv

LEMMA ToldImportAnew == ASSUME CleanInv, ToldInv, ImportAnew PROVE ToldInv'
<1>1. PICK rec \in Records, i \in Ids :
        /\ Fresh(i)
        /\ Replaced([leases |-> [j \in Ids |-> IF j = i THEN rec ELSE None],
                     unchecked |-> {i}, mirrored |-> {}])
  BY DEF ImportAnew
<1> DEFINE l == [j \in Ids |-> IF j = i THEN rec ELSE None]
<1>2. \A r \in Requests : held[r] # None /\ held[r].op = "add" => l[held[r].id] = None
  BY <1>1 DEF Fresh, CleanInv, TypeOK, Edits
<1> HIDE DEF l
<1> QED  BY <1>1, <1>2, ToldReplaced DEF l

LEMMA ToldBack == ASSUME ToldInv, Rollback \/ Restore PROVE ToldInv'
<1>1. \A r \in Requests : held[r] # None /\ held[r].op = "add" => past.leases[held[r].id] = None
  BY DEF ToldInv, Reserved
<1>2. CASE Rollback
  BY <1>1, <1>2, ToldReplaced DEF Rollback
<1>3. CASE Restore
  BY <1>1, <1>3, ToldReplaced DEF Restore
<1> QED  BY <1>2, <1>3

LEMMA ToldStep == CleanInv /\ ToldInv /\ [Next]_vars => ToldInv'
<1> SUFFICES ASSUME CleanInv, ToldInv, [Next]_vars PROVE ToldInv'
  OBVIOUS
<1>1. ASSUME NEW r \in Requests, Add(r) \/ Update(r) \/ Delete(r) \/ Apply(r) \/ Reject(r)
      PROVE  ToldInv'
  BY <1>1, ToldCheck, ToldApply, ToldReject
<1>2. CASE Unlock
  BY <1>2 DEF Unlock, ToldInv, AnswersHold, Present, Reserved, book, said
<1>3. CASE Copy
  BY <1>3 DEF Copy, Book, ToldInv, AnswersHold, Present, Reserved, book, said
<1>4. CASE UNCHANGED vars
  BY <1>4 DEF vars, ToldInv, AnswersHold, Present, Reserved, book, said
<1> QED  BY <1>1, <1>2, <1>3, <1>4, ToldReceive, ToldImport, ToldImportAnew, ToldBack DEF Next

\* What an edit was answered holds until the section is replaced: no other
\* request loses an added reservation or brings a deleted one back (dhcp.py,
\* the mutate functions).
THEOREM AnsweredEditsHold == Spec => []AnswersHold
<1>1. CleanInv /\ ToldInv /\ [Next]_vars => (CleanInv /\ ToldInv)'
  BY CleanStep, ToldStep
<1>2. Init => CleanInv /\ ToldInv
  BY CleanInit, ToldInit
<1>3. ToldInv => AnswersHold
  BY DEF ToldInv
<1> QED  BY <1>1, <1>2, <1>3, PTL DEF Spec
=============================================================================
