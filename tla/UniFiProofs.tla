----------------------------- MODULE UniFiProofs -----------------------------
(***************************************************************************)
(* Proofs about UniFi, for any finite set of names, any addresses, any     *)
(* options of the peer, any backups and any number of applies, syncs and   *)
(* edits at the gateway: an empty store deletes nothing, a sync about to   *)
(* report success has made the gateway answer for what it was given, but   *)
(* for clients' names it could not list, and so a status that shows        *)
(* success on the store's serial is as true of the gateway.                *)
(***************************************************************************)
EXTENDS UniFi, TLAPS, FiniteSetTheorems

-----------------------------------------------------------------------------
(* The invariants                                                          *)

StaticRecords == [id : Ids, value : Addresses]
Statics == [Names -> StaticRecords \cup {None}]
Ops == {"create", "take", "update", "release", "delete"}
Requests == [op : Ops, name : Names, id : Ids \cup {0}, value : Values]

\* Types, in parts: the store and the peer, the gateway, the syncs.
StoreTyped ==
  /\ peer \in Peers /\ hosts \in [Names -> Values] /\ serial \in Nat
  /\ kept \in [hosts : [Names -> Values], serial : Nat]
  /\ applying \in {"nothing", "hosts", "others", "backup"} /\ pushing \in Nat
  /\ shown \in Nat /\ overlooked \in BOOLEAN /\ overwritten \in BOOLEAN

GatewayTyped == static \in Statics /\ clients \in [Names -> Values]

SyncsTyped ==
  /\ pc \in [Syncs -> {"idle", "list", "plan", "write", "report"}]
  /\ wanted \in [Syncs -> [Names -> Values]] /\ from \in [Syncs -> Nat]
  /\ listed \in [Syncs -> Statics]
  /\ trouble \in [Syncs -> BOOLEAN] /\ disturbed \in [Syncs -> BOOLEAN]
  /\ astray \in [Syncs -> BOOLEAN] /\ blind \in [Syncs -> BOOLEAN]

\* The requests to come: one to a name at most, only while a sync writes, and each
\* for what the sync wants; an update names a record that was listed.
TodoTyped ==
  /\ todo \in [Syncs -> SUBSET Requests]
  /\ \A s \in Syncs :
       /\ pc[s] # "write" => todo[s] = {}
       /\ \A q, r \in todo[s] : q.name = r.name => q = r
       /\ \A r \in todo[s] :
            /\ r.value = wanted[s][r.name]
            /\ r.op = "delete" <=> r.value = None
            /\ r.op = "delete" => peer.mirror
            /\ r.op = "update" => r.id \in Ids

Typed == StoreTyped /\ GatewayTyped /\ SyncsTyped /\ TodoTyped

-----------------------------------------------------------------------------
(* Record ids                                                              *)

LEMMA CardinalityAdds ==
  ASSUME NEW S, NEW x, IsFiniteSet(S), x \notin S
  PROVE  IsFiniteSet(S \cup {x}) /\ Cardinality(S \cup {x}) = Cardinality(S) + 1
BY FS_AddElement

LEMMA CardinalityOfTwo ==
  ASSUME NEW x, NEW y, x # y
  PROVE  IsFiniteSet({x} \cup {y}) /\ Cardinality({x} \cup {y}) = 2
<1>1. IsFiniteSet({x}) /\ Cardinality({x}) = 1
  BY FS_Singleton
<1>2. IsFiniteSet({x} \cup {y}) /\ Cardinality({x} \cup {y}) = Cardinality({x}) + 1
  BY <1>1, CardinalityAdds, Zenon
<1> QED
  BY <1>1, <1>2

LEMMA IdsFinite ==
  /\ Cardinality(Names) \in Nat /\ Ids = 1..(3 * Cardinality(Names) + 1)
  /\ IsFiniteSet(Ids) /\ Cardinality(Ids) = 3 * Cardinality(Names) + 1
<1>1. Cardinality(Names) \in Nat
  BY NameAssumption, FS_CardinalityType
<1>2. Cardinality(Syncs) = 2
  <2>1. Syncs = {"push"} \cup {"sync now"}
    BY DEF Syncs
  <2>2. "push" # "sync now"
    OBVIOUS
  <2> QED
    BY <2>1, <2>2, CardinalityOfTwo, Zenon
<1>3. Ids = 1..(3 * Cardinality(Names) + 1)
  BY <1>1, <1>2 DEF Ids
<1>4. 3 * Cardinality(Names) + 1 \in Int
  BY <1>1
<1>5. /\ IsFiniteSet(1..(3 * Cardinality(Names) + 1))
      /\ Cardinality(1..(3 * Cardinality(Names) + 1)) =
           IF 1 > 3 * Cardinality(Names) + 1 THEN 0 ELSE (3 * Cardinality(Names) + 1) - 1 + 1
  BY <1>4, FS_Interval
<1> QED
  BY <1>1, <1>3, <1>5

\* There are more ids than records and requests: a new record gets one of its own.
LEMMA FreshIsId == ASSUME GatewayTyped, TodoTyped PROVE Fresh \in Ids
<1> DEFINE Places == Syncs \cup {"static"}
<1> DEFINE Slots == Names \X Places
<1> DEFINE In(n, place, i) == IF place = "static" THEN static[n] # None /\ static[n].id = i
                              ELSE \E r \in todo[place] : r.name = n /\ r.id = i
<1>1. SUFFICES ASSUME \A i \in Ids : i \in InUse PROVE FALSE
  BY DEF Fresh
<1>2. "static" \notin Syncs
  BY DEF Syncs
<1>3. \A i \in Ids : \E n \in Names, place \in Places : In(n, place, i)
  <2> TAKE i \in Ids
  <2>1. CASE i \in {static[n].id : n \in {m \in Names : static[m] # None}}
    <3>1. PICK n \in Names : static[n] # None /\ static[n].id = i
      BY <2>1
    <3>2. In(n, "static", i)
      BY <3>1
    <3> QED
      BY <3>2
  <2>2. CASE i \in UNION {{r.id : r \in todo[s]} : s \in Syncs}
    <3>1. PICK s \in Syncs : \E r \in todo[s] : r.id = i
      BY <2>2
    <3>2. PICK r \in todo[s] : r.id = i
      BY <3>1
    <3>3. r.name \in Names /\ s # "static"
      BY <1>2 DEF TodoTyped, Requests
    <3>4. In(r.name, s, i)
      BY <3>2, <3>3
    <3> QED
      BY <3>3, <3>4
  <2> QED
    BY <1>1, <2>1, <2>2 DEF InUse
<1>4. \A n \in Names, place \in Places, i \in Ids, j \in Ids :
        In(n, place, i) /\ In(n, place, j) => i = j
  BY DEF TodoTyped
<1>5. IsFiniteSet(Slots) /\ Cardinality(Slots) = Cardinality(Names) * 3
  <2>1. IsFiniteSet(Syncs) /\ Cardinality(Syncs) = 2
    <3>1. Syncs = {"push"} \cup {"sync now"} /\ "push" # "sync now"
      BY DEF Syncs
    <3> QED
      BY <3>1, CardinalityOfTwo, Zenon
  <2>2. IsFiniteSet(Places) /\ Cardinality(Places) = Cardinality(Syncs) + 1
    BY <1>2, <2>1, CardinalityAdds, Zenon
  <2>3. IsFiniteSet(Slots) /\ Cardinality(Slots) = Cardinality(Names) * Cardinality(Places)
    BY <2>2, NameAssumption, FS_Product, Zenon
  <2>4. Cardinality(Places) = 3
    BY <2>1, <2>2
  <2> QED
    BY <2>3, <2>4
<1>6. Cardinality(Slots) < Cardinality(Ids)
  <2> HIDE DEF Slots
  <2> QED
    BY <1>5, IdsFinite
<1> DEFINE f == [i \in Ids |-> CHOOSE t \in Slots : In(t[1], t[2], i)]
<1>7. f \in [Ids -> Slots] /\ \A i \in Ids : In(f[i][1], f[i][2], i)
  <2>1. \A i \in Ids : \E t \in Slots : In(t[1], t[2], i)
    <3> HIDE DEF In
    <3>1. ASSUME NEW i \in Ids, NEW n \in Names, NEW place \in Places, In(n, place, i)
          PROVE  \E t \in Slots : In(t[1], t[2], i)
      <4>1. <<n, place>> \in Slots /\ <<n, place>>[1] = n /\ <<n, place>>[2] = place
        OBVIOUS
      <4> QED
        BY <3>1, <4>1, Zenon
    <3> QED
      BY <1>3, <3>1
  <2> HIDE DEF In, Slots
  <2> QED
    BY <2>1
<1>8. PICK i, j \in Ids : i # j /\ f[i] = f[j]
  <2>1. f \in [Ids -> Slots]
    BY <1>7
  <2>2. IsFiniteSet(Ids) /\ IsFiniteSet(Slots)
    BY <1>5, IdsFinite
  <2> HIDE DEF f, Slots
  <2>3. \E x, y \in Ids : x # y /\ f[x] = f[y]
    BY <1>6, <2>1, <2>2, FS_PigeonHole
  <2> QED
    BY <2>3
<1>9. f[i][1] \in Names /\ f[i][2] \in Places
  <2> HIDE DEF f
  <2> QED
    BY <1>7
<1> QED
  <2> HIDE DEF In, Places, f
  <2> QED
    BY <1>4, <1>7, <1>8, <1>9

-----------------------------------------------------------------------------
(* What a plan holds and what a request does                               *)

\* A name of the gateway is as a sync wants it, or a client has it that the sync has
\* not seen.
Right(n, records, unseen) ==
  Answers(n, records) \/ (unseen /\ static[n] = None /\ clients[n] # None)

\* Every request of a plan is for what the sync wants, and one to a name.
LEMMA PlanAsks ==
  ASSUME SyncsTyped, NEW s \in Syncs, NEW owners, NEW r \in Plan(s, owners)
  PROVE  /\ r \in Requests
         /\ r.value = wanted[s][r.name]
         /\ r.op = "delete" <=> r.value = None
         /\ r.op = "delete" => peer.mirror
         /\ r.op = "update" => r.id \in Ids
         /\ r = Request(r.op, r.name, IF r.op \in {"update", "delete"}
                                      THEN listed[s][r.name].id ELSE 0, r.value)
         /\ r.op = CASE r.value = None -> "delete"
                     [] r.value # None /\ listed[s][r.name] # None -> "update"
                     [] OTHER -> IF r.name \in Claims(s, owners) THEN "release" ELSE "create"
<1>1. /\ wanted[s] \in [Names -> Values] /\ listed[s] \in Statics
      /\ None \notin Addresses /\ None \notin StaticRecords
  BY NoneAssumption DEF SyncsTyped, StaticRecords
<1>2. CASE \E n \in Names \ Claims(s, owners) :
             wanted[s][n] # None /\ listed[s][n] = None /\ r = Request("create", n, 0, wanted[s][n])
  BY <1>1, <1>2 DEF Requests, Request, Ops, Statics
<1>3. CASE \E n \in Names : /\ wanted[s][n] # None /\ listed[s][n] # None
                            /\ r = Request("update", n, listed[s][n].id, wanted[s][n])
  BY <1>1, <1>3 DEF Requests, Request, Ops, Statics, StaticRecords
<1>4. CASE \E n \in Claims(s, owners) : r = Request("release", n, 0, wanted[s][n])
  BY <1>1, <1>4 DEF Requests, Request, Ops, Statics, Claims
<1>5. CASE \E n \in Names : /\ wanted[s][n] = None /\ listed[s][n] # None /\ peer.mirror
                            /\ r = Request("delete", n, listed[s][n].id, None)
  BY <1>1, <1>5 DEF Requests, Request, Ops, Statics, StaticRecords, Values
<1> QED
  <2>1. \/ r \in {Request("create", n, 0, wanted[s][n]) :
                    n \in {m \in Names \ Claims(s, owners) : wanted[s][m] # None /\ listed[s][m] = None}}
        \/ r \in {Request("update", n, listed[s][n].id, wanted[s][n]) :
                    n \in {m \in Names : /\ wanted[s][m] # None /\ listed[s][m] # None
                                         /\ listed[s][m].value # wanted[s][m]}}
        \/ r \in {Request("release", n, 0, wanted[s][n]) : n \in Claims(s, owners)}
        \/ /\ peer.mirror
           /\ r \in {Request("delete", n, listed[s][n].id, None) :
                       n \in {m \in Names : wanted[s][m] = None /\ listed[s][m] # None}}
    BY DEF Plan
  <2> QED
    BY <1>2, <1>3, <1>4, <1>5, <2>1

LEMMA PlanAsksOnce ==
  ASSUME SyncsTyped, NEW s \in Syncs, NEW owners,
         NEW q \in Plan(s, owners), NEW r \in Plan(s, owners), q.name = r.name
  PROVE  q = r
<1>1. q.value = r.value /\ q.op = r.op
  BY PlanAsks
<1>2. /\ q = Request(q.op, q.name, IF q.op \in {"update", "delete"}
                                   THEN listed[s][q.name].id ELSE 0, q.value)
      /\ r = Request(r.op, r.name, IF r.op \in {"update", "delete"}
                                   THEN listed[s][r.name].id ELSE 0, r.value)
  BY PlanAsks
<1> QED
  BY <1>1, <1>2

\* What a request of the plan does: it is done and gone from what is to come (a
\* release leaves its creation), or a client has the name, or there is trouble.
Rest(s, r) ==
  (todo[s] \ {r}) \cup
  (IF r.op = "release" THEN {Request("take", r.name, 0, r.value)} ELSE {})

WriteDoes(s, r) ==
  /\ pc[s] = "write"
  /\ \E rest \in SUBSET Rest(s, r) :
       /\ todo' = [todo EXCEPT ![s] = rest]
       /\ pc' = [pc EXCEPT ![s] = IF rest = {} THEN "report" ELSE "write"]
  /\ trouble' = trouble \/ trouble' = [trouble EXCEPT ![s] = TRUE]
  /\ \/ TakesEffect(s, r)
     \/ NoEffect /\ \E rest \in SUBSET (todo[s] \ {r}) : todo' = [todo EXCEPT ![s] = rest]
  /\ \/ trouble' = [trouble EXCEPT ![s] = TRUE]
     \/ TakesEffect(s, r) /\ todo' = [todo EXCEPT ![s] = Rest(s, r)]
     \/ Covered(r) /\ NoEffect /\ todo' = [todo EXCEPT ![s] = todo[s] \ {r}]
  /\ UNCHANGED <<store, meddling, peered, wanted, from, listed, blind, nows, astray>>

LEMMA ProceedDoes ==
  ASSUME NEW s \in Syncs, NEW r \in todo[s], NEW ok \in BOOLEAN, Proceed(s, r, ok)
  PROVE  /\ \E rest \in SUBSET Rest(s, r) :
              /\ todo' = [todo EXCEPT ![s] = rest]
              /\ pc' = [pc EXCEPT ![s] = IF rest = {} THEN "report" ELSE "write"]
         /\ ok => todo' = [todo EXCEPT ![s] = Rest(s, r)]
         /\ ~ok => todo' = [todo EXCEPT ![s] = todo[s] \ {r}]
<1> DEFINE rest == (todo[s] \ {r}) \cup
              (IF ok /\ r.op = "release" THEN {Request("take", r.name, 0, r.value)} ELSE {})
<1>1. /\ todo' = [todo EXCEPT ![s] = rest]
      /\ pc' = [pc EXCEPT ![s] = IF rest = {} THEN "report" ELSE "write"]
  BY DEF Proceed, Goto
<1>2. rest \in SUBSET Rest(s, r) /\ (ok => rest = Rest(s, r)) /\ (~ok => rest = todo[s] \ {r})
  BY DEF Rest
<1> HIDE DEF rest
<1>3. \E x \in SUBSET Rest(s, r) :
        /\ todo' = [todo EXCEPT ![s] = x]
        /\ pc' = [pc EXCEPT ![s] = IF x = {} THEN "report" ELSE "write"]
  BY <1>1, <1>2, Zenon
<1> QED
  BY <1>1, <1>2, <1>3

LEMMA WriteMeans ==
  ASSUME NEW s \in Syncs, NEW r \in todo[s], Write(s, r)
  PROVE  WriteDoes(s, r)
<1> DEFINE ok == Accepted(r, static[r.name], clients[r.name])
           again == Accepted(r, static'[r.name], clients'[r.name])
<1>1. ok \in BOOLEAN /\ again \in BOOLEAN
  BY DEF Accepted
<1>2. /\ pc[s] = "write"
      /\ UNCHANGED <<store, meddling, peered, wanted, from, listed, blind, nows, astray>>
  BY DEF Write
<1> HIDE DEF ok, again
<1>3. \/ /\ IF ok THEN TakesEffect(s, r) /\ UNCHANGED trouble
            ELSE NoEffect /\ IF Covered(r) THEN UNCHANGED trouble ELSE CountFailure(s)
         /\ Proceed(s, r, ok)
      \/ /\ ok /\ TakesEffect(s, r)
         /\ IF again THEN UNCHANGED trouble ELSE CountFailure(s)
         /\ Proceed(s, r, again)
      \/ NoEffect /\ CountFailure(s) /\ Proceed(s, r, FALSE)
      \/ /\ TakesEffect(s, r) \/ NoEffect
         /\ todo' = [todo EXCEPT ![s] = {}] /\ Fails(s)
  BY DEF Write, ok, again
<1>4. CASE /\ IF ok THEN TakesEffect(s, r) /\ UNCHANGED trouble
              ELSE NoEffect /\ IF Covered(r) THEN UNCHANGED trouble ELSE CountFailure(s)
           /\ Proceed(s, r, ok)
  <2> HIDE DEF NoEffect
  <2>1. CASE ok
    BY <1>2, <1>4, <2>1, ProceedDoes DEF WriteDoes
  <2>2. CASE ~ok
    <3>1. Proceed(s, r, FALSE) /\ NoEffect /\ IF Covered(r) THEN UNCHANGED trouble ELSE CountFailure(s)
      BY <1>1, <1>4, <2>2
    <3>2. /\ todo' = [todo EXCEPT ![s] = todo[s] \ {r}]
          /\ \E rest \in SUBSET Rest(s, r) :
               /\ todo' = [todo EXCEPT ![s] = rest]
               /\ pc' = [pc EXCEPT ![s] = IF rest = {} THEN "report" ELSE "write"]
      BY <3>1, ProceedDoes
    <3>3. \E rest \in SUBSET (todo[s] \ {r}) : todo' = [todo EXCEPT ![s] = rest]
      BY <3>2
    <3> QED
      BY <1>2, <3>1, <3>2, <3>3 DEF WriteDoes, CountFailure
  <2> QED
    BY <1>1, <2>1, <2>2
<1>5. CASE /\ ok /\ TakesEffect(s, r)
           /\ IF again THEN UNCHANGED trouble ELSE CountFailure(s)
           /\ Proceed(s, r, again)
  BY <1>1, <1>2, <1>5, ProceedDoes DEF WriteDoes, CountFailure
<1>6. CASE NoEffect /\ CountFailure(s) /\ Proceed(s, r, FALSE)
  BY <1>2, <1>6, ProceedDoes DEF WriteDoes, CountFailure
<1>7. CASE /\ TakesEffect(s, r) \/ NoEffect
           /\ todo' = [todo EXCEPT ![s] = {}] /\ Fails(s)
  <2>1. /\ todo' = [todo EXCEPT ![s] = {}] /\ trouble' = [trouble EXCEPT ![s] = TRUE]
        /\ pc' = [pc EXCEPT ![s] = "report"]
    BY <1>7 DEF Fails, Goto
  <2>2. \E rest \in SUBSET Rest(s, r) :
          /\ todo' = [todo EXCEPT ![s] = rest]
          /\ pc' = [pc EXCEPT ![s] = IF rest = {} THEN "report" ELSE "write"]
    <3>1. {} \in SUBSET Rest(s, r)
      OBVIOUS
    <3> QED
      BY <2>1, <3>1
  <2>3. \E rest \in SUBSET (todo[s] \ {r}) : todo' = [todo EXCEPT ![s] = rest]
    <3>1. {} \in SUBSET (todo[s] \ {r})
      OBVIOUS
    <3> QED
      BY <2>1, <3>1
  <2> QED
    BY <1>2, <1>7, <2>1, <2>2, <2>3 DEF WriteDoes
<1> QED
  BY <1>3, <1>4, <1>5, <1>6, <1>7

-----------------------------------------------------------------------------
(* The applies, and types                                                  *)

Applies ==
  \/ ChangeHosts \/ ChangeOthers \/ Commit \/ Reject
  \/ \E old \in Earlier : RollBack(old) \/ Restore(old)

\* What each way of writing the store has in common.
Saves ==
  \E kind \in {"hosts", "others", "backup"}, records \in [Names -> Values], number \in Nat :
    /\ Save(kind, records, number)
    /\ kind = "others" => records = hosts
    /\ kind # "backup" => number >= serial

LEMMA ApplyIs ==
  ASSUME StoreTyped, Applies
  PROVE  Saves \/ Commit \/ Reject
<1> USE DEF StoreTyped
<1>1. ASSUME ChangeHosts
      PROVE  Saves
  <2>1. PICK records \in [Names -> Values] : Save("hosts", records, serial)
    BY <1>1 DEF ChangeHosts
  <2>2. serial >= serial /\ serial \in Nat
    OBVIOUS
  <2> HIDE DEF StoreTyped
  <2> QED
    BY <2>1, <2>2 DEF Saves
<1>2. ASSUME ChangeOthers
      PROVE  Saves
  <2>1. Save("others", hosts, serial) /\ serial >= serial
    BY <1>2 DEF ChangeOthers
  <2> QED
    BY <2>1 DEF Saves
<1>3. ASSUME NEW old \in Earlier, RollBack(old)
      PROVE  Saves
  <2> DEFINE number == IF serial > old.serial THEN serial ELSE old.serial
  <2>1. old.hosts \in [Names -> Values] /\ old.serial \in Nat
    BY EarlierAssumption
  <2>2. number \in Nat /\ number >= serial
    BY <2>1
  <2>3. Save("hosts", old.hosts, number)
    BY <1>3 DEF RollBack
  <2> HIDE DEF number
  <2> QED
    BY <2>1, <2>2, <2>3 DEF Saves
<1>4. ASSUME NEW old \in Earlier, Restore(old)
      PROVE  Saves
  <2>1. old.hosts \in [Names -> Values] /\ old.serial \in Nat
    BY EarlierAssumption
  <2>2. Save("backup", old.hosts, old.serial)
    BY <1>4 DEF Restore
  <2> QED
    BY <2>1, <2>2 DEF Saves
<1> QED
  BY <1>1, <1>2, <1>3, <1>4 DEF Applies

\* An apply touches neither the gateway nor a sync.
LEMMA ApplyApart ==
  ASSUME StoreTyped, Applies
  PROVE  UNCHANGED <<gateway, peered, pc, local, nows, disturbed, overwritten>>
BY ApplyIs DEF Saves, Save, Commit, Reject, history

LEMMA TypedAtFirst == Init => Typed
<1> SUFFICES ASSUME Init PROVE Typed
  OBVIOUS
<1>1. NoRecords \in [Names -> Values] /\ NoRecords \in Statics
  BY DEF NoRecords, Values, Statics
<1>2. static \in Statics
  <2>1. 1 \in Ids
    BY IdsFinite
  <2>2. [id : {1}, value : Addresses] \subseteq StaticRecords
    BY <2>1 DEF StaticRecords
  <2> QED
    BY <2>2 DEF Init, Statics
<1>3. StoreTyped /\ GatewayTyped
  BY <1>2 DEF Init, StoreTyped, GatewayTyped
<1>4. SyncsTyped
  BY <1>1 DEF Init, SyncsTyped
<1>5. TodoTyped
  BY DEF Init, TodoTyped
<1> QED
  BY <1>3, <1>4, <1>5 DEF Typed

LEMMA TypedKept == Typed /\ [Next]_vars => Typed'
<1> SUFFICES ASSUME Typed, [Next]_vars PROVE Typed'
  OBVIOUS
<1> USE DEF Typed
<1>1. CASE UNCHANGED vars
  BY <1>1 DEF vars, store, gateway, peered, local, history,
              StoreTyped, GatewayTyped, SyncsTyped, TodoTyped
<1>2. ASSUME NEW n \in Names, Meddle(n)
      PROVE  Typed'
  <2>1. Fresh \in Ids
    BY FreshIsId
  <2>2. GatewayTyped'
    BY <1>2, <2>1 DEF Meddle, GatewayTyped, Statics, StaticRecords, Values
  <2>3. StoreTyped' /\ SyncsTyped'
    BY <1>2 DEF Meddle, StoreTyped, SyncsTyped, store, peered, local
  <2>4. TodoTyped'
    BY <1>2 DEF Meddle, TodoTyped, peered, local
  <2> QED
    BY <2>2, <2>3, <2>4
<1>3. CASE Applies
  <2>1. UNCHANGED <<gateway, peered, pc, local, nows, disturbed, overwritten>>
    BY <1>3, ApplyApart
  <2>2. \/ \E kind \in {"hosts", "others", "backup"}, records \in [Names -> Values], number \in Nat :
              Save(kind, records, number)
        \/ Commit \/ Reject
    BY <1>3, ApplyIs DEF Saves
  <2>3. StoreTyped'
    BY <2>1, <2>2 DEF Save, Commit, Reject, StoreTyped, peered
  <2>4. astray' \in [Syncs -> BOOLEAN]
    BY <2>2 DEF Save, Commit, Reject, SyncsTyped, history
  <2>5. GatewayTyped' /\ SyncsTyped' /\ TodoTyped'
    BY <2>1, <2>4 DEF GatewayTyped, SyncsTyped, TodoTyped, gateway, peered, local
  <2> QED
    BY <2>3, <2>5
<1>4. ASSUME NEW s \in Syncs, Begin(s)
      PROVE  Typed'
  <2>0. pushing' \in Nat
    <3>1. pushing' = pushing \/ (pushing > 0 /\ pushing' = pushing - 1)
      BY <1>4, Zenon DEF Begin
    <3> QED
      BY <3>1 DEF StoreTyped
  <2>1. StoreTyped' /\ GatewayTyped'
    <3>1. UNCHANGED <<hosts, serial, kept, applying, peered, static, clients, overwritten>>
      BY <1>4 DEF Begin, gateway
    <3> QED
      BY <2>0, <3>1 DEF StoreTyped, GatewayTyped, peered
  <2>2. /\ pc[s] = "idle" /\ wanted' = [wanted EXCEPT ![s] = hosts]
        /\ from' = [from EXCEPT ![s] = serial]
        /\ astray' = [astray EXCEPT ![s] = applying # "nothing"]
        /\ \E step \in {"report", "list"}, b \in BOOLEAN :
             pc' = [pc EXCEPT ![s] = step] /\ trouble' = [trouble EXCEPT ![s] = b]
        /\ UNCHANGED <<listed, todo, peer, disturbed, blind>>
    BY <1>4 DEF Begin, Fails, Goto, peered
  <2>3. SyncsTyped'
    BY <2>2 DEF StoreTyped, SyncsTyped
  <2>4. TodoTyped'
    <3>1. todo[s] = {}
      BY <2>2 DEF TodoTyped
    <3>2. \A t \in Syncs : t # s => pc'[t] = pc[t] /\ wanted'[t] = wanted[t]
      BY <2>2 DEF SyncsTyped
    <3> QED
      BY <2>2, <3>1, <3>2 DEF TodoTyped
  <2> QED
    BY <2>1, <2>3, <2>4
<1>5. ASSUME NEW s \in Syncs, List(s)
      PROVE  Typed'
  <2>1. StoreTyped' /\ GatewayTyped'
    BY <1>5 DEF List, StoreTyped, GatewayTyped, store, gateway, peered, history
  <2>2. /\ pc[s] = "list" /\ UNCHANGED <<wanted, from, disturbed, astray, blind, todo, peer>>
        /\ \E step \in {"report", "plan"} : pc' = [pc EXCEPT ![s] = step]
        /\ trouble' = [trouble EXCEPT ![s] = TRUE] \/ UNCHANGED trouble
        /\ listed' = [listed EXCEPT ![s] = static] \/ UNCHANGED listed
    BY <1>5 DEF List, Fails, Goto, peered, history
  <2>3. SyncsTyped'
    BY <2>2 DEF GatewayTyped, SyncsTyped
  <2>4. TodoTyped'
    <3>1. todo[s] = {} /\ \A t \in Syncs : t # s => pc'[t] = pc[t]
      BY <2>2 DEF TodoTyped, SyncsTyped
    <3> QED
      BY <2>2, <3>1 DEF TodoTyped
  <2> QED
    BY <2>1, <2>3, <2>4
<1>6. ASSUME NEW s \in Syncs, ListAndPlan(s)
      PROVE  Typed'
  <2>1. StoreTyped' /\ GatewayTyped'
    BY <1>6 DEF ListAndPlan, StoreTyped, GatewayTyped, store, gateway, peered, history
  <2>2. /\ pc[s] = "plan" /\ UNCHANGED <<wanted, from, disturbed, astray, peer>>
        /\ listed' = [listed EXCEPT ![s] = NoRecords] /\ NoRecords \in Statics
        /\ \/ Fails(s) /\ UNCHANGED <<todo, blind>>
           \/ \E owners \in {clients, NoRecords}, refused \in BOOLEAN :
                /\ blind' = [blind EXCEPT ![s] = refused]
                /\ todo' = [todo EXCEPT ![s] = Plan(s, owners)]
                /\ trouble' = [trouble EXCEPT ![s] = Conflicts(s, owners)]
                /\ Goto(s, IF todo'[s] = {} THEN "report" ELSE "write")
    BY <1>6 DEF ListAndPlan, peered, history, NoRecords, Statics
  <2>3. CASE Fails(s) /\ UNCHANGED <<todo, blind>>
    <3>1. SyncsTyped'
      BY <2>2, <2>3 DEF SyncsTyped, Fails, Goto
    <3>2. todo[s] = {} /\ \A t \in Syncs : t # s => pc'[t] = pc[t]
      BY <2>2, <2>3 DEF TodoTyped, SyncsTyped, Fails, Goto
    <3>3. TodoTyped'
      BY <2>2, <2>3, <3>2 DEF TodoTyped
    <3> QED
      BY <2>1, <3>1, <3>3
  <2>4. ASSUME NEW owners \in {clients, NoRecords}, NEW refused \in BOOLEAN,
               blind' = [blind EXCEPT ![s] = refused],
               todo' = [todo EXCEPT ![s] = Plan(s, owners)],
               trouble' = [trouble EXCEPT ![s] = Conflicts(s, owners)],
               Goto(s, IF todo'[s] = {} THEN "report" ELSE "write")
        PROVE  Typed'
    <3>1. SyncsTyped'
      BY <2>2, <2>4 DEF SyncsTyped, Goto, Conflicts
    <3>2. \A t \in Syncs : t # s => pc'[t] = pc[t] /\ todo'[t] = todo[t]
      BY <2>4 DEF Goto, SyncsTyped, TodoTyped
    <3>3. todo'[s] = Plan(s, owners) /\ (pc'[s] # "write" => todo'[s] = {})
      BY <2>4 DEF Goto, SyncsTyped, TodoTyped
    <3>4. \A r \in Plan(s, owners) :
            /\ r \in Requests /\ r.value = wanted[s][r.name]
            /\ r.op = "delete" <=> r.value = None
            /\ r.op = "delete" => peer.mirror
            /\ r.op = "update" => r.id \in Ids
      BY PlanAsks
    <3>5. \A q, r \in Plan(s, owners) : q.name = r.name => q = r
      BY PlanAsksOnce
    <3>6. todo' \in [Syncs -> SUBSET Requests]
      BY <2>4, <3>4 DEF TodoTyped
    <3>7. \A t \in Syncs :
            /\ pc'[t] # "write" => todo'[t] = {}
            /\ \A q, r \in todo'[t] : q.name = r.name => q = r
      BY <3>2, <3>3, <3>5 DEF TodoTyped
    <3>8. \A t \in Syncs : \A r \in todo'[t] :
            /\ r.value = wanted[t][r.name]
            /\ r.op = "delete" <=> r.value = None
            /\ r.op = "delete" => peer.mirror
            /\ r.op = "update" => r.id \in Ids
      BY <3>2, <3>3, <3>4 DEF TodoTyped
    <3>9. TodoTyped'
      BY <2>2, <3>6, <3>7, <3>8 DEF TodoTyped
    <3> QED
      BY <2>1, <3>1, <3>9
  <2> QED
    BY <2>2, <2>3, <2>4
<1>7. ASSUME NEW s \in Syncs, NEW r \in todo[s], Write(s, r)
      PROVE  Typed'
  <2>1. WriteDoes(s, r)
    BY <1>7, WriteMeans
  <2>2. /\ r \in Requests /\ r.value = wanted[s][r.name]
        /\ r.op = "delete" <=> r.value = None
        /\ r.op = "delete" => peer.mirror
        /\ r.op = "update" => r.id \in Ids
    BY DEF TodoTyped
  <2>3. StoreTyped'
    BY <2>1 DEF WriteDoes, StoreTyped, store, peered, NoEffect, TakesEffect
  <2>4. GatewayTyped'
    <3>1. Fresh \in Ids
      BY FreshIsId
    <3>2. r.op # "delete" => r.value \in Addresses
      BY <2>2 DEF Requests, Values
    <3>3. Record(r) \in StaticRecords \cup {None}
      BY <2>2, <3>1, <3>2 DEF Record, GatewayTyped, Statics, StaticRecords, Requests, Ops
    <3>4. CASE NoEffect
      BY <3>4 DEF NoEffect, GatewayTyped
    <3>5. CASE TakesEffect(s, r)
      BY <3>3, <3>5 DEF TakesEffect, GatewayTyped, Statics, Values
    <3> QED
      BY <2>1, <3>4, <3>5 DEF WriteDoes
  <2>5. SyncsTyped'
    <3>1. UNCHANGED <<wanted, from, listed, blind, astray>>
      BY <2>1 DEF WriteDoes
    <3>2. \E step \in {"write", "report"} : pc' = [pc EXCEPT ![s] = step]
      BY <2>1 DEF WriteDoes
    <3>3. trouble' \in [Syncs -> BOOLEAN]
      BY <2>1 DEF WriteDoes, SyncsTyped
    <3>4. disturbed' \in [Syncs -> BOOLEAN]
      <4>1. CASE NoEffect
        BY <4>1 DEF NoEffect, SyncsTyped
      <4>2. CASE TakesEffect(s, r)
        <5>1. disturbed' = [t \in Syncs |-> disturbed[t] \/ (t # s /\ pc[t] # "idle")]
          BY <4>2 DEF TakesEffect
        <5> QED
          BY <5>1, Zenon
      <4> QED
        BY <2>1, <4>1, <4>2 DEF WriteDoes
    <3> QED
      BY <3>1, <3>2, <3>3, <3>4 DEF SyncsTyped
  <2>6. TodoTyped'
    <3>1. PICK rest \in SUBSET Rest(s, r) :
            /\ todo' = [todo EXCEPT ![s] = rest]
            /\ pc' = [pc EXCEPT ![s] = IF rest = {} THEN "report" ELSE "write"]
      BY <2>1 DEF WriteDoes
    <3>2. UNCHANGED <<wanted, peer>>
      BY <2>1 DEF WriteDoes, peered
    <3>3. \A q \in Rest(s, r) : q \in todo[s] \/ (r.op = "release" /\ q = Request("take", r.name, 0, r.value))
      BY DEF Rest
    <3>4. \A q \in Rest(s, r) :
            /\ q \in Requests /\ q.value = wanted[s][q.name]
            /\ q.op = "delete" <=> q.value = None
            /\ q.op = "delete" => peer.mirror
            /\ q.op = "update" => q.id \in Ids
      <4> TAKE q \in Rest(s, r)
      <4>1. CASE q \in todo[s]
        <5>1. q \in Requests
          BY <4>1 DEF TodoTyped
        <5> QED
          BY <4>1, <5>1 DEF TodoTyped
      <4>2. CASE r.op = "release" /\ q = Request("take", r.name, 0, r.value)
        BY <2>2, <4>2 DEF Request, Requests, Ops
      <4> QED
        BY <3>3, <4>1, <4>2
    <3>5. \A q, p \in Rest(s, r) : q.name = p.name => q = p
      BY DEF Rest, TodoTyped, Request
    <3>6. \A t \in Syncs : t # s => pc'[t] = pc[t] /\ todo'[t] = todo[t]
      BY <3>1 DEF SyncsTyped, TodoTyped
    <3>7. todo'[s] = rest /\ (pc'[s] # "write" => rest = {})
      BY <3>1 DEF SyncsTyped, TodoTyped
    <3>8. todo' \in [Syncs -> SUBSET Requests]
      BY <3>1, <3>4 DEF TodoTyped
    <3>9. \A t \in Syncs :
            /\ pc'[t] # "write" => todo'[t] = {}
            /\ \A q, p \in todo'[t] : q.name = p.name => q = p
      BY <3>5, <3>6, <3>7 DEF TodoTyped
    <3>10. \A t \in Syncs : \A q \in todo'[t] :
            /\ q.value = wanted[t][q.name]
            /\ q.op = "delete" <=> q.value = None
            /\ q.op = "delete" => peer.mirror
            /\ q.op = "update" => q.id \in Ids
      BY <3>4, <3>6, <3>7 DEF TodoTyped
    <3> QED
      BY <3>2, <3>8, <3>9, <3>10 DEF TodoTyped
  <2> QED
    BY <2>3, <2>4, <2>5, <2>6
<1>8. ASSUME NEW s \in Syncs, Report(s)
      PROVE  Typed'
  <2>1. StoreTyped' /\ GatewayTyped'
    BY <1>8 DEF Report, StoreTyped, GatewayTyped, SyncsTyped, store, gateway
  <2>2. SyncsTyped'
    BY <1>8 DEF Report, Goto, SyncsTyped, NoRecords, Values, Statics
  <2>3. TodoTyped'
    <3>1. todo[s] = {} /\ UNCHANGED <<todo, peer>>
      BY <1>8 DEF Report, TodoTyped
    <3>2. \A t \in Syncs : t # s => pc'[t] = pc[t] /\ wanted'[t] = wanted[t]
      BY <1>8 DEF Report, Goto, SyncsTyped
    <3> QED
      BY <3>1, <3>2 DEF TodoTyped
  <2> QED
    BY <2>1, <2>2, <2>3
<1> QED
  BY <1>1, <1>2, <1>3, <1>4, <1>5, <1>6, <1>7, <1>8 DEF Next, Applies

LEMMA TypeCorrect == Spec => []Typed
BY TypedAtFirst, TypedKept, PTL DEF Spec

-----------------------------------------------------------------------------
(* An empty store deletes nothing                                          *)

\* A sync that would delete everything does not get past its beginning.
NotEmptied ==
  \A s \in Syncs :
    pc[s] \in {"list", "plan", "write"} => ~(peer.mirror /\ wanted[s] = NoRecords)

LEMMA NotEmptiedKept == Typed /\ NotEmptied /\ [Next]_vars => NotEmptied'
<1> SUFFICES ASSUME Typed, NotEmptied, [Next]_vars PROVE NotEmptied'
  OBVIOUS
<1> USE DEF Typed, SyncsTyped, Goto, Fails
<1>1. CASE UNCHANGED vars
  BY <1>1 DEF vars, peered, local, NotEmptied
<1>2. CASE Applies \/ \E n \in Names : Meddle(n)
  <2>1. UNCHANGED <<peer, pc, wanted>>
    BY <1>2, ApplyApart DEF Meddle, peered, local
  <2> QED
    BY <2>1 DEF NotEmptied
<1>3. ASSUME NEW s \in Syncs, Begin(s)
      PROVE  NotEmptied'
  <2>1. UNCHANGED peer /\ wanted' = [wanted EXCEPT ![s] = hosts]
    BY <1>3 DEF Begin, peered
  <2>2. \/ pc' = [pc EXCEPT ![s] = "report"]
        \/ pc' = [pc EXCEPT ![s] = "list"] /\ ~(peer.mirror /\ hosts = NoRecords)
    BY <1>3 DEF Begin, Refuses
  <2> QED
    BY <2>1, <2>2 DEF NotEmptied
<1>4. ASSUME NEW s \in Syncs, List(s) \/ ListAndPlan(s)
      PROVE  NotEmptied'
  <2>1. UNCHANGED <<peer, wanted>> /\ pc[s] \in {"list", "plan"}
    BY <1>4 DEF List, ListAndPlan, peered
  <2>2. \A t \in Syncs : t # s => pc'[t] = pc[t]
    BY <1>4 DEF List, ListAndPlan
  <2> QED
    BY <2>1, <2>2 DEF NotEmptied
<1>5. ASSUME NEW s \in Syncs, NEW r \in todo[s], Write(s, r)
      PROVE  NotEmptied'
  <2>1. WriteDoes(s, r)
    BY <1>5, WriteMeans
  <2>2. UNCHANGED <<peer, wanted>> /\ pc[s] = "write" /\ \A t \in Syncs : t # s => pc'[t] = pc[t]
    BY <2>1 DEF WriteDoes, peered
  <2> QED
    BY <2>2 DEF NotEmptied
<1>6. ASSUME NEW s \in Syncs, Report(s)
      PROVE  NotEmptied'
  BY <1>6 DEF Report, NotEmptied
<1> QED
  BY <1>1, <1>2, <1>3, <1>4, <1>5, <1>6 DEF Next, Applies

\* sync_hosts refuses to start from a store with no hosts when it mirrors, and only
\* a sync that mirrors plans deletions: whatever the store has become in between, a
\* sync that read an empty one has no deletion to send.
THEOREM EmptyStoreIsSafe == Spec => []EmptyDeletesNothing
<1>1. Init => NotEmptied
  BY DEF Init, NotEmptied
<1>2. Typed /\ NotEmptied => EmptyDeletesNothing
  BY DEF Typed, TodoTyped, NotEmptied, EmptyDeletesNothing
<1> QED
  BY <1>1, <1>2, NotEmptiedKept, TypeCorrect, PTL DEF Spec

-----------------------------------------------------------------------------
(* Success means that the gateway answers as it was asked to               *)

\* What a sync has before it, at a gateway nobody else has changed meanwhile: names
\* to release or to create have no static record, and no client's either unless the
\* list of those was refused.
Creating(s) ==
  pc[s] = "write" /\ ~disturbed[s] => \A r \in todo[s] :
    /\ r.op = "release" \/ Creates(r) => static[r.name] = None
    /\ Creates(r) /\ ~blind[s] => clients[r.name] = None

\* There is no trouble before the plan is made; and for a sync without, at a gateway
\* nobody else has changed meanwhile, what it listed is what is there, and then every
\* name is right or has a request coming.
LeftOf(s) ==
  /\ pc[s] \in {"list", "plan"} => ~trouble[s]
  /\ pc[s] = "plan" /\ ~disturbed[s] => listed[s] = static
  /\ pc[s] \in {"write", "report"} /\ ~trouble[s] /\ ~disturbed[s] =>
       \A n \in Names : Right(n, wanted[s], blind[s]) \/ \E r \in todo[s] : r.name = n
  /\ Creating(s)

Left == \A s \in Syncs : LeftOf(s)

\* A plan without conflicts leaves no name out.
LEMMA PlanCovers ==
  ASSUME Typed, NEW s \in Syncs, listed[s] = static, NEW refused \in BOOLEAN,
         NEW owners, owners = (IF refused THEN NoRecords ELSE clients),
         ~Conflicts(s, owners), NEW n \in Names
  PROVE  Right(n, wanted[s], refused) \/ \E r \in Plan(s, owners) : r.name = n
<1>1. CASE wanted[s][n] = None /\ peer.mirror /\ static[n] # None
  <2>1. Request("delete", n, listed[s][n].id, None) \in Plan(s, owners)
    BY <1>1 DEF Plan
  <2> QED
    BY <2>1 DEF Request
<1>2. CASE wanted[s][n] # None /\ static[n] # None /\ static[n].value # wanted[s][n]
  <2>1. Request("update", n, listed[s][n].id, wanted[s][n]) \in Plan(s, owners)
    BY <1>2 DEF Plan
  <2> QED
    BY <2>1 DEF Request
<1>3. CASE wanted[s][n] # None /\ static[n] = None /\ n \notin Claims(s, owners)
  <2>1. Request("create", n, 0, wanted[s][n]) \in Plan(s, owners)
    BY <1>3 DEF Plan
  <2> QED
    BY <2>1 DEF Request
<1>4. CASE n \in Claims(s, owners) /\ peer.claim
  <2>1. Request("release", n, 0, wanted[s][n]) \in Plan(s, owners)
    BY <1>4 DEF Plan
  <2> QED
    BY <2>1 DEF Request
<1>5. CASE n \in Claims(s, owners) /\ ~peer.claim
  <2>1. owners[n] # None /\ owners[n] = wanted[s][n] /\ wanted[s][n] # None /\ static[n] = None
    BY <1>5 DEF Conflicts, Claims
  <2>2. owners = clients
    BY <2>1 DEF NoRecords
  <2> QED
    BY <2>1, <2>2 DEF Right, Answers
<1> QED
  BY <1>1, <1>2, <1>3, <1>4, <1>5 DEF Right, Answers, Holds

\* What it creates has no record, and no client's that was listed.
LEMMA PlanCreates ==
  ASSUME Typed, NEW s \in Syncs, listed[s] = static, NEW refused \in BOOLEAN,
         NEW owners, owners = (IF refused THEN NoRecords ELSE clients),
         NEW r \in Plan(s, owners)
  PROVE  /\ r.op = "release" \/ Creates(r) => static[r.name] = None
         /\ Creates(r) /\ ~refused => clients[r.name] = None
<1>1. /\ r.op = CASE r.value = None -> "delete"
                  [] r.value # None /\ listed[s][r.name] # None -> "update"
                  [] OTHER -> IF r.name \in Claims(s, owners) THEN "release" ELSE "create"
      /\ r \in Requests /\ r.value = wanted[s][r.name]
  BY PlanAsks DEF Typed
<1>2. ASSUME r.op = "release" \/ Creates(r)
      PROVE  r.value # None /\ listed[s][r.name] = None
  BY <1>1, <1>2, Zenon DEF Creates
<1>3. ASSUME Creates(r)
      PROVE  r.name \notin Claims(s, owners)
  <2>1. r.value # None /\ listed[s][r.name] = None /\ r.op # "release"
    BY <1>2, <1>3 DEF Creates
  <2> QED
    BY <1>1, <2>1, Zenon
<1>4. ASSUME Creates(r), ~refused
      PROVE  clients[r.name] = None
  BY <1>1, <1>2, <1>3, <1>4 DEF Claims, Requests
<1> QED
  BY <1>2, <1>4

\* A request that takes effect, or is for a name that a client has, leaves its name
\* right or, released, to be created.
LEMMA WriteRights ==
  ASSUME Typed, NEW s \in Syncs, NEW r \in todo[s], WriteDoes(s, r), Creating(s),
         \A n \in Names : Right(n, wanted[s], blind[s]) \/ \E q \in todo[s] : q.name = n,
         ~trouble'[s], ~disturbed[s]
  PROVE  \A n \in Names : Right(n, wanted[s], blind[s])' \/ \E q \in todo'[s] : q.name = n
<1> USE DEF Typed
<1>1. /\ r \in Requests /\ r.value = wanted[s][r.name] /\ UNCHANGED <<wanted, peer, blind>>
      /\ r.op = "delete" <=> r.value = None
  BY DEF TodoTyped, WriteDoes, peered
<1>2. /\ static \in Statics /\ clients \in [Names -> Values] /\ r.name \in Names
      /\ todo \in [Syncs -> SUBSET Requests]
  BY <1>1 DEF GatewayTyped, Requests, TodoTyped
<1>3. \/ TakesEffect(s, r) /\ todo' = [todo EXCEPT ![s] = Rest(s, r)]
      \/ Covered(r) /\ NoEffect /\ todo' = [todo EXCEPT ![s] = todo[s] \ {r}]
  <2>1. ~(trouble' = [trouble EXCEPT ![s] = TRUE])
    BY DEF SyncsTyped
  <2> QED
    BY <2>1 DEF WriteDoes
<1>4. CASE Covered(r) /\ NoEffect /\ todo' = [todo EXCEPT ![s] = todo[s] \ {r}]
  <2>1. todo'[s] = todo[s] \ {r} /\ UNCHANGED <<static, clients>>
    BY <1>2, <1>4 DEF NoEffect
  <2>2. \A n \in Names : Right(n, wanted[s], blind[s])' <=> Right(n, wanted[s], blind[s])
    BY <1>1, <2>1 DEF Right, Answers, Holds
  <2>3. Right(r.name, wanted[s], blind[s])
    <3>1. static[r.name] = None /\ clients[r.name] # None /\ (~blind[s] => clients[r.name] = None)
      BY <1>4 DEF Covered, Creating, WriteDoes
    <3> QED
      BY <3>1 DEF Right, SyncsTyped
  <2> QED
    BY <2>1, <2>2, <2>3
<1>5. CASE TakesEffect(s, r) /\ todo' = [todo EXCEPT ![s] = Rest(s, r)]
  <2>1. /\ todo'[s] = Rest(s, r) /\ static'[r.name] = Record(r)
        /\ \A n \in Names : n # r.name => static'[n] = static[n] /\ clients'[n] = clients[n]
    BY <1>2, <1>5 DEF TakesEffect, GatewayTyped, Statics
  <2>2. ASSUME NEW n \in Names, n # r.name
        PROVE  Right(n, wanted[s], blind[s])' \/ \E q \in todo'[s] : q.name = n
    <3>1. Right(n, wanted[s], blind[s])' <=> Right(n, wanted[s], blind[s])
      BY <1>1, <2>1, <2>2 DEF Right, Answers, Holds
    <3>2. \A q \in todo[s] : q.name = n => q \in todo'[s]
      BY <2>1, <2>2 DEF Rest
    <3> QED
      BY <3>1, <3>2
  <2>3. CASE r.op = "release"
    <3>1. Request("take", r.name, 0, r.value) \in todo'[s]
      BY <2>1, <2>3 DEF Rest
    <3>2. \E q \in todo'[s] : q.name = r.name
      BY <3>1 DEF Request
    <3> QED
      BY <2>2, <3>2
  <2>4. CASE r.op = "delete"
    <3>1. static'[r.name] = None /\ wanted'[s][r.name] = None
      BY <1>1, <2>1, <2>4 DEF Record, Creates
    <3>2. Right(r.name, wanted[s], blind[s])'
      BY <3>1 DEF Right, Answers
    <3> QED
      BY <2>2, <3>2
  <2>5. CASE r.op \in {"create", "take", "update"}
    <3>1. /\ wanted'[s][r.name] # None /\ wanted'[s][r.name] = r.value
          /\ \E i : static'[r.name] = [id |-> i, value |-> r.value]
      BY <1>1, <2>1, <2>5 DEF Record, Creates
    <3>2. r.value \in Addresses /\ Fresh \in Ids /\ (r.op = "update" => r.id \in Ids)
      BY <1>1, <3>1, FreshIsId DEF Requests, Values, TodoTyped
    <3>3. static'[r.name] # None /\ static'[r.name].value = r.value
      BY <2>1, <2>5, <3>2, NoneAssumption DEF Record, Creates
    <3>4. Right(r.name, wanted[s], blind[s])'
      BY <3>1, <3>3 DEF Right, Answers, Holds
    <3> QED
      BY <2>2, <3>4
  <2> QED
    BY <1>1, <2>3, <2>4, <2>5 DEF Requests, Ops
<1> QED
  BY <1>3, <1>4, <1>5

\* A request changes what is asked of its own name alone.
LEMMA WriteCreates ==
  ASSUME Typed, NEW s \in Syncs, NEW r \in todo[s], WriteDoes(s, r), Creating(s), ~disturbed[s]
  PROVE  Creating(s)'
<1> USE DEF Typed
<1>1. /\ static \in Statics /\ clients \in [Names -> Values] /\ r.name \in Names
      /\ todo \in [Syncs -> SUBSET Requests] /\ UNCHANGED blind
  BY DEF GatewayTyped, Requests, TodoTyped, WriteDoes
<1>2. \A q \in todo[s] : /\ q.op = "release" \/ Creates(q) => static[q.name] = None
                         /\ Creates(q) /\ ~blind[s] => clients[q.name] = None
  BY DEF Creating, WriteDoes
<1>s. SUFFICES ASSUME NEW q \in todo'[s]
               PROVE  /\ q.op = "release" \/ Creates(q) => static'[q.name] = None
                      /\ Creates(q) /\ ~blind[s] => clients'[q.name] = None
  BY <1>1 DEF Creating, Creates
<1>3. CASE \E rest \in SUBSET (todo[s] \ {r}) : NoEffect /\ todo' = [todo EXCEPT ![s] = rest]
  BY <1>1, <1>2, <1>3 DEF NoEffect
<1>4. CASE TakesEffect(s, r)
  <2>1. /\ static'[r.name] = Record(r) /\ (r.op = "release" => clients'[r.name] = None)
        /\ \A n \in Names : n # r.name => static'[n] = static[n] /\ clients'[n] = clients[n]
    BY <1>1, <1>4 DEF TakesEffect, GatewayTyped, Statics
  <2>2. todo'[s] \subseteq Rest(s, r)
    BY <1>1 DEF WriteDoes
  <2>3. CASE q \in todo[s] /\ q # r
    <3>1. q.name # r.name /\ q.name \in Names
      BY <2>3 DEF TodoTyped, Requests
    <3> QED
      BY <1>2, <2>1, <2>3, <3>1
  <2>4. CASE r.op = "release" /\ q = Request("take", r.name, 0, r.value)
    <3>1. q.name = r.name /\ static'[r.name] = static[r.name]
      BY <2>1, <2>4 DEF Request, Record, Creates
    <3> QED
      BY <1>2, <2>1, <2>4, <3>1
  <2> QED
    BY <2>2, <2>3, <2>4 DEF Rest
<1> QED
  BY <1>3, <1>4 DEF WriteDoes

LEMMA LeftKept == Typed /\ Left /\ [Next]_vars => Left'
<1> SUFFICES ASSUME Typed, Left, [Next]_vars PROVE Left'
  OBVIOUS
<1>0. \A t \in Syncs : LeftOf(t)
  BY DEF Left
<1>s. SUFFICES \A t \in Syncs : LeftOf(t)'
  BY DEF Left
<1>t. /\ pc \in [Syncs -> {"idle", "list", "plan", "write", "report"}]
      /\ wanted \in [Syncs -> [Names -> Values]] /\ listed \in [Syncs -> Statics]
      /\ trouble \in [Syncs -> BOOLEAN] /\ disturbed \in [Syncs -> BOOLEAN]
      /\ blind \in [Syncs -> BOOLEAN]
      /\ todo \in [Syncs -> SUBSET Requests] /\ from \in [Syncs -> Nat]
  BY DEF Typed, SyncsTyped, TodoTyped
<1>a. \* What nothing touches stays.
      ASSUME NEW t \in Syncs, UNCHANGED <<static, clients, peer>>,
             /\ pc'[t] = pc[t] /\ wanted'[t] = wanted[t] /\ listed'[t] = listed[t]
             /\ todo'[t] = todo[t] /\ trouble'[t] = trouble[t] /\ disturbed'[t] = disturbed[t]
             /\ blind'[t] = blind[t]
      PROVE  LeftOf(t)'
  <2>1. \A n \in Names : Right(n, wanted[t], blind[t])' <=> Right(n, wanted[t], blind[t])
    BY <1>a DEF Right, Answers, Holds
  <2>2. Creating(t)' <=> Creating(t)
    BY <1>a DEF Creating, Creates
  <2> QED
    BY <1>0, <1>a, <2>1, <2>2 DEF LeftOf
<1>b. \* Nothing is promised to the disturbed.
      ASSUME NEW t \in Syncs, disturbed'[t] \/ pc[t] = "idle", pc'[t] = pc[t],
             trouble'[t] = trouble[t]
      PROVE  LeftOf(t)'
  BY <1>0, <1>b DEF LeftOf, Creating
<1>c. \* Nor to a sync in trouble, before it writes.
      ASSUME NEW t \in Syncs, trouble'[t], pc'[t] \notin {"list", "plan", "write"}
      PROVE  LeftOf(t)'
  BY <1>c DEF LeftOf, Creating
<1>1. CASE UNCHANGED vars
  BY <1>1, <1>a DEF vars, gateway, peered, local, history
<1>2. ASSUME NEW n \in Names, Meddle(n)
      PROVE  \A t \in Syncs : LeftOf(t)'
  BY <1>2, <1>b DEF Meddle, local
<1>3. CASE Applies
  <2>1. UNCHANGED <<gateway, peered, pc, local, disturbed>>
    BY <1>3, ApplyApart DEF Typed
  <2> QED
    BY <1>a, <2>1 DEF gateway, peered, local
<1>4. ASSUME NEW s \in Syncs, Begin(s)
      PROVE  \A t \in Syncs : LeftOf(t)'
  <2>1. /\ UNCHANGED <<static, clients, peer, listed, todo, disturbed, blind>>
        /\ wanted' = [wanted EXCEPT ![s] = hosts]
        /\ Fails(s) \/ (Goto(s, "list") /\ trouble' = [trouble EXCEPT ![s] = FALSE])
    BY <1>4 DEF Begin, gateway, peered
  <2>2. LeftOf(s)'
    BY <1>t, <2>1 DEF Fails, Goto, LeftOf, Creating
  <2>3. ASSUME NEW t \in Syncs, t # s
        PROVE  LeftOf(t)'
    BY <1>t, <1>a, <2>1, <2>3 DEF Fails, Goto
  <2> QED
    BY <2>2, <2>3
<1>5. ASSUME NEW s \in Syncs, List(s)
      PROVE  \A t \in Syncs : LeftOf(t)'
  <2>1. /\ pc[s] = "list" /\ UNCHANGED <<static, clients, peer, wanted, todo, disturbed, blind>>
        /\ \/ Fails(s) /\ UNCHANGED listed
           \/ listed' = [listed EXCEPT ![s] = static] /\ Goto(s, "plan") /\ UNCHANGED trouble
    BY <1>5 DEF List, gateway, peered, history
  <2>2. LeftOf(s)'
    <3>1. CASE Fails(s)
      BY <1>t, <1>c, <3>1 DEF Fails, Goto
    <3>2. CASE listed' = [listed EXCEPT ![s] = static] /\ Goto(s, "plan") /\ UNCHANGED trouble
      BY <1>0, <1>t, <2>1, <3>2 DEF Goto, LeftOf, Creating
    <3> QED
      BY <2>1, <3>1, <3>2
  <2>3. ASSUME NEW t \in Syncs, t # s
        PROVE  LeftOf(t)'
    BY <1>t, <1>a, <2>1, <2>3 DEF Fails, Goto
  <2> QED
    BY <2>2, <2>3
<1>6. ASSUME NEW s \in Syncs, ListAndPlan(s)
      PROVE  \A t \in Syncs : LeftOf(t)'
  <2>1. /\ pc[s] = "plan" /\ UNCHANGED <<static, clients, peer, wanted, disturbed>>
        /\ listed' = [listed EXCEPT ![s] = NoRecords]
        /\ \/ Fails(s) /\ UNCHANGED <<todo, blind>>
           \/ \E refused \in BOOLEAN, owners \in {clients, NoRecords} :
                /\ owners = (IF refused THEN NoRecords ELSE clients)
                /\ blind' = [blind EXCEPT ![s] = refused]
                /\ todo' = [todo EXCEPT ![s] = Plan(s, owners)]
                /\ trouble' = [trouble EXCEPT ![s] = Conflicts(s, owners)]
                /\ Goto(s, IF todo'[s] = {} THEN "report" ELSE "write")
    BY <1>6 DEF ListAndPlan, gateway, peered, history
  <2>2. LeftOf(s)'
    <3>1. CASE Fails(s)
      BY <1>t, <1>c, <3>1 DEF Fails, Goto
    <3>2. ASSUME NEW refused \in BOOLEAN, NEW owners \in {clients, NoRecords},
                 owners = (IF refused THEN NoRecords ELSE clients),
                 blind' = [blind EXCEPT ![s] = refused],
                 todo' = [todo EXCEPT ![s] = Plan(s, owners)],
                 trouble' = [trouble EXCEPT ![s] = Conflicts(s, owners)],
                 Goto(s, IF todo'[s] = {} THEN "report" ELSE "write")
          PROVE  LeftOf(s)'
      <4>1. /\ pc'[s] \notin {"list", "plan"} /\ todo'[s] = Plan(s, owners)
            /\ blind'[s] = refused /\ disturbed'[s] = disturbed[s]
        BY <1>t, <2>1, <3>2 DEF Goto
      <4>2. ~disturbed[s] => listed[s] = static
        BY <1>0, <2>1 DEF LeftOf
      <4>3. Creating(s)'
        <5>1. SUFFICES ASSUME ~disturbed[s], NEW r \in Plan(s, owners)
                       PROVE  /\ r.op = "release" \/ Creates(r) => static[r.name] = None
                              /\ Creates(r) /\ ~refused => clients[r.name] = None
          BY <2>1, <4>1 DEF Creating, Creates
        <5> QED
          BY <3>2, <4>2, <5>1, PlanCreates
      <4>4. ASSUME ~trouble'[s], ~disturbed[s]
            PROVE  \A n \in Names : Right(n, wanted[s], blind[s])' \/ \E r \in todo'[s] : r.name = n
        <5>1. ~Conflicts(s, owners)
          BY <1>t, <3>2, <4>4
        <5>2. \A n \in Names : Right(n, wanted[s], blind[s])' <=> Right(n, wanted[s], refused)
          BY <2>1, <4>1 DEF Right, Answers, Holds
        <5> QED
          BY <3>2, <4>1, <4>2, <4>4, <5>1, <5>2, PlanCovers
      <4> QED
        BY <4>1, <4>3, <4>4 DEF LeftOf
    <3> QED
      BY <2>1, <3>1, <3>2
  <2>3. ASSUME NEW t \in Syncs, t # s
        PROVE  LeftOf(t)'
    BY <1>t, <1>a, <2>1, <2>3 DEF Fails, Goto
  <2> QED
    BY <2>2, <2>3
<1>7. ASSUME NEW s \in Syncs, NEW r \in todo[s], Write(s, r)
      PROVE  \A t \in Syncs : LeftOf(t)'
  <2>1. WriteDoes(s, r)
    BY <1>7, WriteMeans
  <2>2. /\ pc[s] = "write" /\ UNCHANGED <<peer, wanted, from, listed, blind>>
        /\ NoEffect \/ TakesEffect(s, r)
        /\ trouble' = trouble \/ trouble' = [trouble EXCEPT ![s] = TRUE]
        /\ pc'[s] \in {"write", "report"}
        /\ \A t \in Syncs : t # s => pc'[t] = pc[t] /\ todo'[t] = todo[t]
    BY <1>t, <2>1 DEF WriteDoes, peered
  <2>3. LeftOf(s)'
    <3>1. disturbed'[s] = disturbed[s] /\ (trouble[s] => trouble'[s])
      BY <1>t, <2>2 DEF NoEffect, TakesEffect
    <3>2. CASE disturbed[s]
      BY <2>2, <3>1, <3>2 DEF LeftOf, Creating
    <3>3. CASE ~disturbed[s]
      <4>1. Creating(s)'
        BY <1>0, <2>1, <3>3, WriteCreates DEF LeftOf
      <4>2. ASSUME ~trouble'[s]
            PROVE  \A n \in Names : Right(n, wanted[s], blind[s])' \/ \E q \in todo'[s] : q.name = n
        <5>1. /\ Creating(s)
              /\ \A n \in Names : Right(n, wanted[s], blind[s]) \/ \E q \in todo[s] : q.name = n
          BY <1>0, <2>2, <3>1, <3>3, <4>2 DEF LeftOf
        <5> QED
          BY <2>1, <3>3, <4>2, <5>1, WriteRights
      <4> QED
        BY <2>2, <3>1, <4>1, <4>2 DEF LeftOf
    <3> QED
      BY <3>2, <3>3
  <2>4. ASSUME NEW t \in Syncs, t # s
        PROVE  LeftOf(t)'
    <3>1. CASE TakesEffect(s, r)
      <4>1. (disturbed'[t] \/ pc[t] = "idle") /\ trouble'[t] = trouble[t]
        BY <1>t, <2>2, <2>4, <3>1 DEF TakesEffect
      <4> QED
        BY <1>b, <2>2, <2>4, <4>1
    <3>2. CASE NoEffect
      <4>1. UNCHANGED <<static, clients, disturbed>> /\ trouble'[t] = trouble[t]
        BY <1>t, <2>2, <2>4, <3>2 DEF NoEffect
      <4> QED
        BY <1>a, <2>2, <2>4, <4>1
    <3> QED
      BY <2>2, <3>1, <3>2
  <2> QED
    BY <2>3, <2>4
<1>8. ASSUME NEW s \in Syncs, Report(s)
      PROVE  \A t \in Syncs : LeftOf(t)'
  <2>1. /\ UNCHANGED <<static, clients, peer, todo>> /\ pc'[s] = "idle"
        /\ \A t \in Syncs : t # s => /\ pc'[t] = pc[t] /\ wanted'[t] = wanted[t]
                                     /\ listed'[t] = listed[t] /\ trouble'[t] = trouble[t]
                                     /\ blind'[t] = blind[t] /\ disturbed'[t] = disturbed[t]
    BY <1>t, <1>8 DEF Report, Goto, gateway
  <2>2. LeftOf(s)'
    BY <2>1 DEF LeftOf, Creating
  <2> QED
    BY <1>a, <2>1, <2>2
<1> QED
  BY <1>1, <1>2, <1>3, <1>4, <1>5, <1>6, <1>7, <1>8 DEF Next, Applies

\* Once its requests are done, everything is as the sync wants it.
LEMMA DoneIsRight ==
  ASSUME Typed, Left, NEW s \in Syncs, pc[s] = "report", ~trouble[s], ~disturbed[s]
  PROVE  Matches(wanted[s], blind[s])
<1>1. todo[s] = {}
  BY DEF Typed, TodoTyped
<1>2. \A n \in Names : Right(n, wanted[s], blind[s])
  BY <1>1 DEF Left, LeftOf
<1> QED
  BY <1>2 DEF Right, Matches

LEMMA LeftCorrect == Spec => []Left
<1>1. Init => Left
  BY DEF Init, Left, LeftOf, Creating
<1> QED
  BY <1>1, LeftKept, TypeCorrect, PTL DEF Spec

\* A sync counts every record it could not write, but for an overlap, plans nothing
\* away that it should have asked for and leaves no request undone: when its status
\* line is about to say ok, and nobody else has written to the gateway since it began,
\* the gateway answers for each name as the store that was read says, or, if the list
\* of clients was refused, a client has the name.
THEOREM OkIsMatching == Spec => []OkMeansMatching
<1>1. Typed /\ Left => OkMeansMatching
  BY DoneIsRight DEF OkMeansMatching
<1> QED
  BY <1>1, TypeCorrect, LeftCorrect, PTL

-----------------------------------------------------------------------------
(* The status the page shows is true                                       *)

\* The store on disk is the one last accepted but for what an apply is about.
Saved ==
  /\ applying = "nothing" => hosts = kept.hosts /\ serial = kept.serial
  /\ applying = "others" => hosts = kept.hosts
  /\ applying \in {"hosts", "others"} => serial >= kept.serial

AtWork == \E s \in Syncs : pc[s] # "idle"

\* Success of which nothing is written down against it, with no push to come.
Shows == status = "ok" /\ ~overwritten /\ pushing = 0

\* But for a sync that is astray, serials run ahead of what was read, and the last
\* one is for the hosts of now; the one shown runs ahead only while a sync is at work.
Current ==
  /\ \A s \in Syncs : pc[s] # "idle" /\ ~astray[s] =>
       from[s] <= kept.serial /\ (from[s] = kept.serial => wanted[s] = kept.hosts)
  /\ Shows /\ ~AtWork => shown <= kept.serial

\* Who has been disturbed leaves it written down.
Noted == \A s \in Syncs : disturbed[s] => pc[s] # "idle" /\ overwritten

\* Success on the serial of now is true, or a sync is at work.
Told == Shows /\ shown = kept.serial => Matches(kept.hosts, overlooked) \/ AtWork

LEMMA SavedKept == Typed /\ Saved /\ [Next]_vars => Saved'
<1> SUFFICES ASSUME Typed, Saved, [Next]_vars PROVE Saved'
  OBVIOUS
<1> USE DEF Saved
<1>1. CASE UNCHANGED <<hosts, serial, kept, applying>>
  BY <1>1
<1>2. CASE Saves
  BY <1>2 DEF Saves, Save, Typed, StoreTyped
<1>3. CASE Commit
  BY <1>3 DEF Commit
<1>4. CASE Reject
  BY <1>4 DEF Reject
<1>5. CASE Applies
  BY <1>2, <1>3, <1>4, <1>5, ApplyIs DEF Typed
<1>6. ASSUME NEW n \in Names, Meddle(n)
      PROVE  Saved'
  BY <1>1, <1>6 DEF Meddle, store
<1>7. ASSUME NEW s \in Syncs, Begin(s) \/ List(s) \/ ListAndPlan(s) \/ Report(s)
      PROVE  Saved'
  BY <1>1, <1>7 DEF Begin, List, ListAndPlan, Report, store
<1>8. ASSUME NEW s \in Syncs, NEW r \in todo[s], Write(s, r)
      PROVE  Saved'
  BY <1>1, <1>8, WriteMeans DEF WriteDoes, store
<1> QED
  BY <1>1, <1>5, <1>6, <1>7, <1>8 DEF Next, Applies, vars, store

\* What the applies do to the store as accepted.
LEMMA CommitMoves ==
  ASSUME Typed, Saved, Commit
  PROVE  /\ kept'.hosts = hosts /\ kept'.serial = serial + 1
         /\ applying # "backup" => kept'.serial > kept.serial
         /\ applying = "others" => kept'.hosts = kept.hosts /\ pushing' = pushing
         /\ applying # "others" => pushing' # 0
<1>1. /\ kept' = [hosts |-> hosts, serial |-> serial + 1] /\ applying # "nothing"
      /\ pushing' = IF applying = "others" THEN pushing ELSE pushing + 1
  BY DEF Commit
<1> QED
  BY <1>1 DEF Typed, StoreTyped, Saved

LEMMA CurrentKept == Typed /\ Saved /\ Current /\ [Next]_vars => Current'
<1> SUFFICES ASSUME Typed, Saved, Current, [Next]_vars PROVE Current'
  OBVIOUS
<1>t. /\ pc \in [Syncs -> {"idle", "list", "plan", "write", "report"}]
      /\ kept.serial \in Nat /\ kept'.serial \in Nat /\ shown \in Nat /\ pushing \in Nat
      /\ from \in [Syncs -> Nat] /\ wanted \in [Syncs -> [Names -> Values]]
      /\ astray \in [Syncs -> BOOLEAN]
  <2>1. Typed'
    BY TypedKept
  <2> QED
    BY <2>1 DEF Typed, StoreTyped, SyncsTyped
<1>a. \* The store as accepted stays, and who was at work is, on what it has read.
      ASSUME UNCHANGED <<kept, wanted, from, astray, shown>>,
             \A t \in Syncs : pc'[t] # "idle" <=> pc[t] # "idle",
             Shows' /\ ~AtWork' => Shows
      PROVE  Current'
  BY <1>a DEF Current, AtWork
<1>1. CASE UNCHANGED vars
  BY <1>1, <1>a DEF vars, store, peered, local, history, Shows, AtWork
<1>2. ASSUME NEW n \in Names, Meddle(n)
      PROVE  Current'
  BY <1>2, <1>a DEF Meddle, store, peered, local, Shows
<1>3. CASE Saves \/ Reject
  BY <1>3, <1>a DEF Saves, Save, Reject, peered, local, history, Shows
<1>4. CASE Commit
  <2>1. /\ UNCHANGED <<status, shown, overwritten, pc, wanted, from>>
        /\ astray' = [s \in Syncs |-> astray[s] \/ (applying = "backup" /\ pc[s] # "idle")]
    BY <1>4 DEF Commit, peered, local
  <2>2. ASSUME NEW s \in Syncs, pc'[s] # "idle", ~astray'[s]
        PROVE  from'[s] <= kept'.serial /\ (from'[s] = kept'.serial => wanted'[s] = kept'.hosts)
    <3>1. ~astray[s] /\ applying # "backup" /\ pc[s] # "idle"
      BY <2>1, <2>2
    <3>2. from[s] <= kept.serial /\ kept.serial < kept'.serial /\ from[s] \in Nat
      BY <1>t, <1>4, <3>1, CommitMoves DEF Current
    <3> QED
      BY <1>t, <2>1, <3>2
  <2>3. ASSUME Shows', ~AtWork'
        PROVE  shown' <= kept'.serial
    <3>1. applying = "others" /\ pushing' = pushing
      BY <1>4, <2>3, CommitMoves DEF Shows
    <3>2. Shows /\ ~AtWork
      BY <2>1, <2>3, <3>1 DEF Shows, AtWork
    <3>3. kept.serial < kept'.serial
      BY <1>4, <1>t, <3>1, CommitMoves
    <3> QED
      BY <1>t, <2>1, <3>2, <3>3 DEF Current
  <2> QED
    BY <2>2, <2>3 DEF Current
<1>5. CASE Applies
  BY <1>3, <1>4, <1>5, ApplyIs DEF Typed
<1>6. ASSUME NEW s \in Syncs, Begin(s)
      PROVE  Current'
  <2>1. /\ UNCHANGED kept /\ pc'[s] # "idle"
        /\ wanted' = [wanted EXCEPT ![s] = hosts] /\ from' = [from EXCEPT ![s] = serial]
        /\ astray' = [astray EXCEPT ![s] = applying # "nothing"]
        /\ \A t \in Syncs : t # s => pc'[t] = pc[t]
    BY <1>t, <1>6 DEF Begin, Fails, Goto
  <2>2. AtWork'
    BY <2>1 DEF AtWork
  <2>3. ~astray'[s] => from'[s] = kept'.serial /\ wanted'[s] = kept'.hosts
    BY <1>t, <2>1 DEF Saved
  <2>4. from'[s] = kept'.serial => from'[s] <= kept'.serial
    BY <1>t
  <2>5. ASSUME NEW t \in Syncs, t # s
        PROVE  from'[t] = from[t] /\ wanted'[t] = wanted[t] /\ astray'[t] = astray[t] /\ pc'[t] = pc[t]
    BY <1>t, <2>1, <2>5
  <2> QED
    BY <2>1, <2>2, <2>3, <2>4, <2>5 DEF Current
<1>7. ASSUME NEW s \in Syncs, List(s) \/ ListAndPlan(s)
      PROVE  Current'
  <2>1. /\ UNCHANGED <<kept, wanted, from, astray, shown, status, overwritten, pushing>>
        /\ pc[s] # "idle" /\ pc'[s] # "idle" /\ \A t \in Syncs : t # s => pc'[t] = pc[t]
    BY <1>t, <1>7 DEF List, ListAndPlan, Fails, Goto, store, peered, history
  <2> QED
    BY <1>a, <2>1 DEF Shows
<1>8. ASSUME NEW s \in Syncs, NEW r \in todo[s], Write(s, r)
      PROVE  Current'
  <2>1. WriteDoes(s, r)
    BY <1>8, WriteMeans
  <2>2. /\ UNCHANGED <<kept, wanted, from, astray, shown>>
        /\ pc[s] # "idle" /\ pc'[s] # "idle" /\ \A t \in Syncs : t # s => pc'[t] = pc[t]
    BY <1>t, <2>1 DEF WriteDoes, store, peered
  <2>3. AtWork'
    BY <2>2 DEF AtWork
  <2> QED
    BY <1>a, <2>2, <2>3
<1>9. ASSUME NEW s \in Syncs, Report(s)
      PROVE  Current'
  <2>1. /\ UNCHANGED <<kept, pushing>> /\ pc[s] = "report" /\ pc'[s] = "idle"
        /\ \A t \in Syncs : t # s => /\ pc'[t] = pc[t] /\ from'[t] = from[t]
                                     /\ wanted'[t] = wanted[t] /\ astray'[t] = astray[t]
        /\ trouble[s] => status' = "error"
        /\ ~trouble[s] => shown' = from[s] /\ (astray[s] => overwritten')
    BY <1>t, <1>9 DEF Report, Goto, store
  <2>2. Shows' => shown' <= kept'.serial
    BY <2>1 DEF Shows, Current
  <2> QED
    BY <2>1, <2>2 DEF Current
<1> QED
  BY <1>1, <1>2, <1>5, <1>6, <1>7, <1>8, <1>9 DEF Next, Applies

LEMMA NotedKept == Typed /\ Noted /\ [Next]_vars => Noted'
<1> SUFFICES ASSUME Typed, Noted, [Next]_vars PROVE Noted'
  OBVIOUS
<1> USE DEF Noted
<1>t. pc \in [Syncs -> {"idle", "list", "plan", "write", "report"}]
      /\ disturbed \in [Syncs -> BOOLEAN]
  BY DEF Typed, SyncsTyped
<1>1. CASE UNCHANGED vars
  BY <1>1 DEF vars, history
<1>2. ASSUME NEW n \in Names, Meddle(n)
      PROVE  Noted'
  BY <1>2 DEF Meddle
<1>3. CASE Applies
  <2>1. UNCHANGED <<pc, disturbed, overwritten>>
    BY <1>3, ApplyApart DEF Typed
  <2> QED
    BY <2>1
<1>4. ASSUME NEW s \in Syncs, Begin(s) \/ List(s) \/ ListAndPlan(s)
      PROVE  Noted'
  <2>1. UNCHANGED <<disturbed, overwritten>> /\ pc'[s] # "idle"
        /\ \A t \in Syncs : t # s => pc'[t] = pc[t]
    BY <1>t, <1>4 DEF Begin, List, ListAndPlan, Fails, Goto, history
  <2> QED
    BY <2>1
<1>5. ASSUME NEW s \in Syncs, NEW r \in todo[s], Write(s, r)
      PROVE  Noted'
  <2>1. WriteDoes(s, r)
    BY <1>5, WriteMeans
  <2>2. /\ NoEffect \/ TakesEffect(s, r)
        /\ pc'[s] # "idle" /\ \A t \in Syncs : t # s => pc'[t] = pc[t]
    BY <1>t, <2>1 DEF WriteDoes
  <2>3. CASE NoEffect
    BY <2>2, <2>3 DEF NoEffect
  <2>4. CASE TakesEffect(s, r)
    <3>1. /\ \A t \in Syncs : disturbed'[t] => disturbed[t] \/ (t # s /\ pc[t] # "idle")
          /\ overwritten \/ (\E t \in Syncs \ {s} : pc[t] # "idle") => overwritten'
      BY <2>4 DEF TakesEffect
    <3> QED
      BY <2>2, <3>1
  <2> QED
    BY <2>2, <2>3, <2>4
<1>6. ASSUME NEW s \in Syncs, Report(s)
      PROVE  Noted'
  <2>1. /\ ~disturbed'[s]
        /\ \A t \in Syncs : t # s => pc'[t] = pc[t] /\ disturbed'[t] = disturbed[t]
        /\ ~overwritten' => ~overwritten \/ \A t \in Syncs \ {s} : pc[t] = "idle"
    BY <1>t, <1>6 DEF Report, Goto
  <2> QED
    BY <2>1
<1> QED
  BY <1>1, <1>2, <1>3, <1>4, <1>5, <1>6 DEF Next, Applies

LEMMA ToldKept ==
  Typed /\ Left /\ Saved /\ Current /\ Noted /\ Told /\ [Next]_vars => Told'
<1> SUFFICES ASSUME Typed, Left, Saved, Current, Noted, Told, [Next]_vars PROVE Told'
  OBVIOUS
<1>t. /\ pc \in [Syncs -> {"idle", "list", "plan", "write", "report"}]
      /\ trouble \in [Syncs -> BOOLEAN] /\ kept.serial \in Nat /\ shown \in Nat
      /\ overwritten \in BOOLEAN
  BY DEF Typed, StoreTyped, SyncsTyped
<1>a. \* The gateway, the status and the store as accepted stay.
      ASSUME UNCHANGED <<static, clients, peer, kept, pushing, status, shown, overlooked,
                         overwritten, pc>>
      PROVE  Told'
  <2>1. Matches(kept.hosts, overlooked)' <=> Matches(kept.hosts, overlooked)
    BY <1>a DEF Matches, Answers, Holds
  <2>2. (Shows' <=> Shows) /\ (AtWork' <=> AtWork)
    BY <1>a DEF Shows, AtWork
  <2> QED
    BY <1>a, <2>1, <2>2 DEF Told
<1>1. CASE UNCHANGED vars
  BY <1>1, <1>a DEF vars, store, gateway, peered, history
<1>2. ASSUME NEW n \in Names, Meddle(n)
      PROVE  Told'
  BY <1>2 DEF Meddle, Told, Shows
<1>3. CASE Saves \/ Reject
  BY <1>3, <1>a DEF Saves, Save, Reject, gateway, peered, history
<1>4. CASE Commit
  <2>1. UNCHANGED <<status, shown, overwritten, pc>>
    BY <1>4 DEF Commit, peered
  <2>s. SUFFICES ASSUME Shows', ~AtWork' PROVE shown' # kept'.serial
    BY DEF Told
  <2>2. applying = "others" /\ pushing' = pushing /\ kept'.serial > kept.serial
    BY <1>4, <2>s, CommitMoves DEF Shows
  <2>3. Shows /\ ~AtWork
    BY <2>1, <2>2, <2>s DEF Shows, AtWork
  <2>4. kept'.serial \in Nat
    BY TypedKept DEF Typed, StoreTyped
  <2> QED
    BY <1>t, <2>1, <2>2, <2>3, <2>4 DEF Current
<1>5. CASE Applies
  BY <1>3, <1>4, <1>5, ApplyIs DEF Typed
<1>6. ASSUME NEW s \in Syncs, Begin(s) \/ List(s) \/ ListAndPlan(s)
      PROVE  Told'
  <2>1. pc'[s] # "idle"
    BY <1>t, <1>6 DEF Begin, List, ListAndPlan, Goto, Fails
  <2> QED
    BY <2>1 DEF Told, AtWork
<1>7. ASSUME NEW s \in Syncs, NEW r \in todo[s], Write(s, r)
      PROVE  Told'
  <2>1. WriteDoes(s, r)
    BY <1>7, WriteMeans
  <2>2. pc'[s] # "idle"
    BY <1>t, <2>1 DEF WriteDoes
  <2> QED
    BY <2>2 DEF Told, AtWork
<1>8. ASSUME NEW s \in Syncs, Report(s)
      PROVE  Told'
  <2>1. /\ pc[s] = "report" /\ UNCHANGED <<static, clients, peer, kept>>
        /\ status' = (IF trouble[s] THEN "error" ELSE "ok")
        /\ ~trouble[s] => shown' = from[s] /\ overlooked' = blind[s]
        /\ ~trouble[s] /\ (astray[s] \/ (overwritten /\ disturbed[s])) => overwritten'
    <3> DEFINE others == \E t \in Syncs \ {s} : pc[t] # "idle"
    <3>1. overwritten' = IF trouble[s] THEN overwritten
                         ELSE \/ astray[s]
                              \/ overwritten /\ (disturbed[s] \/ others)
      BY <1>8 DEF Report
    <3> HIDE DEF others
    <3>2. ~trouble[s] /\ (astray[s] \/ (overwritten /\ disturbed[s])) => overwritten'
      <4>1. ASSUME ~trouble[s], astray[s]
            PROVE  overwritten'
        BY <3>1, <4>1, Zenon
      <4>2. ASSUME ~trouble[s], overwritten, disturbed[s]
            PROVE  overwritten'
        BY <3>1, <4>2, Zenon
      <4> QED
        BY <4>1, <4>2
    <3> QED
      BY <1>8, <3>2 DEF Report, store, gateway
  <2>2. SUFFICES ASSUME ~trouble[s], from[s] = kept.serial, ~overwritten'
                 PROVE  Matches(kept.hosts, overlooked)'
    BY <2>1 DEF Told, Shows
  <2>3. ~disturbed[s] /\ ~astray[s]
    BY <2>1, <2>2 DEF Noted
  <2>4. Matches(wanted[s], blind[s]) /\ wanted[s] = kept.hosts
    BY <2>1, <2>2, <2>3, DoneIsRight DEF Current
  <2> QED
    BY <2>1, <2>2, <2>4 DEF Matches, Answers, Holds
<1> QED
  BY <1>1, <1>2, <1>5, <1>6, <1>7, <1>8 DEF Next, Applies

\* push_to_peer records the serial it read with the status: a page that shows
\* success on the store's serial, with no sync under way or owed, tells the truth
\* about the gateway for the store as accepted, unless since the last sync that
\* succeeded by itself an operator or an overlapping sync has written there, or a sync
\* has succeeded that read an apply not yet accepted or a store that was restored over.
THEOREM StatusTellsTruth == Spec => []StatusIsTrue
<1>1. Init => Saved /\ Current /\ Noted /\ Told
  BY DEF Init, Saved, Current, Noted, Told, Shows
<1>2. Told => StatusIsTrue
  BY DEF Told, StatusIsTrue, Shows, AtWork
<1> QED
  BY <1>1, <1>2, SavedKept, CurrentKept, NotedKept, ToldKept, TypeCorrect, LeftCorrect, PTL DEF Spec
=============================================================================
