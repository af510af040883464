------------------------- MODULE ApplyChangeProofs --------------------------
(***************************************************************************)
(* Proofs about ApplyChange, for any threads, stores, files and requests:  *)
(*  1. with any number of faults, the transaction (TypeOK, NoHalfApply,    *)
(*     what is read with no apply under way, the undo of a rejected one);  *)
(*  2. without faults, that it implements ConfigRegister, and what peers   *)
(*     are sent under one serial is one content;                           *)
(*  3. with a dnsmasq that dies with the app, that the running daemon      *)
(*     catches up with the files.                                          *)
(***************************************************************************)
EXTENDS ApplyChange, TLAPS

-----------------------------------------------------------------------------
(* The inductive invariant                                                 *)

\* What holds of a thread that is inside the lock, by where it is.
Txn(t) ==
  /\ pc[t] \in InLock <=> lock = t
  /\ ~alive => pc[t] = "idle"
  /\ pc[t] \in InLock =>
       /\ snap[t] \in Snapshot
       /\ \A s \in Stores \ DOMAIN req[t].set : content[s] = snap[t].content[s]
  /\ pc[t] = "mutate" => saves[t] \subseteq DOMAIN req[t].set
  /\ pc[t] \in {"mutate", "restore", "write"} => serial = snap[t].serial
  /\ pc[t] \in {"mutate", "restore"} /\ ~torn =>
       conf = Render(snap[t].content) /\ Accepts(conf)
  /\ pc[t] = "restore" =>
       \A s \in Stores \ saves[t] : content[s] = snap[t].content[s]
  /\ pc[t] = "write" =>
       /\ Accepts(Render(content))
       /\ \A f \in writes[t] : Render(content)[f] # Absent
       /\ \A f \in Files \ writes[t] :
            Render(content)[f] # Absent => conf[f] = Render(content)[f]
  /\ pc[t] = "bump" =>
       /\ ~torn /\ conf = Render(content) /\ Accepts(conf)
       /\ saves[t] \subseteq req[t].bumps
       /\ \A s \in Stores :
            serial[s] = IF s \in req[t].bumps \ saves[t]
                        THEN snap[t].serial[s] + 1 ELSE snap[t].serial[s]

TxnInv == \A t \in Threads : Txn(t)

\* The whole invariant: types, the transaction, and what a new one finds.
IInv == TypeOK /\ TxnInv /\ LockFreeConsistent

-----------------------------------------------------------------------------
(* What a request may be                                                   *)

\* A request saves stores with legal content and bumps stores.
LEMMA RequestFacts ==
  ASSUME NEW r \in Requests \cup {NoRequest, ForceApply}
  PROVE  /\ DOMAIN r.set \subseteq Stores
         /\ \A s \in DOMAIN r.set : r.set[s] \in Content
         /\ r.bumps \subseteq Stores
         /\ r.force \in BOOLEAN
         /\ DOMAIN r.set \cap Mirrored \subseteq r.bumps
<1>1. CASE r \in Requests
  <2>1. r \in Request
    BY <1>1, RequestAssumption
  <2>2. PICK S \in SUBSET Stores : r.set \in [S -> Content]
    BY <2>1 DEF Request
  <2>3. r.bumps \in SUBSET Stores /\ r.force \in {FALSE}
    BY <2>1 DEF Request
  <2> QED
    BY <1>1, <2>2, <2>3, RequestAssumption
<1>2. CASE r \in {NoRequest, ForceApply}
  <2>1. DOMAIN NoWrites = {}
    BY DEF NoWrites
  <2>2. CASE r = NoRequest
    BY <2>1, <2>2 DEF NoRequest
  <2>3. CASE r = ForceApply
    BY <2>1, <2>3 DEF ForceApply
  <2> QED
    BY <1>2, <2>2, <2>3
<1> QED
  BY <1>1, <1>2

\* Rendering a configuration gives every file a text or its absence.
LEMMA RenderFacts ==
  ASSUME NEW c \in Contents
  PROVE  Render(c) \in Rendering
BY RenderAssumption

\* The first boot: an accepted configuration, and nobody in the lock.
LEMMA InitIInv == Init => IInv
<1> SUFFICES ASSUME Init PROVE IInv
  OBVIOUS
<1>1. Defaults \in Contents /\ Render(Defaults) \in Rendering
  BY DefaultsAssumption, RenderFacts
<1>2. TypeOK
  <2>1. content \in Contents /\ conf \in Rendering /\ running \in Rendering
    BY <1>1 DEF Init
  <2>2. serial \in Serials
    BY DEF Init, Serials
  <2>3. pc \in [Threads -> Steps] /\ act \in [Threads -> {"none", "reload", "restart"}]
    BY DEF Init, Steps
  <2>4. req \in [Threads -> Requests \cup {NoRequest, ForceApply}]
    BY DEF Init
  <2>5. snap \in [Threads -> Snapshot \cup {NoSnap}]
    BY DEF Init
  <2>6. saves \in [Threads -> SUBSET Stores] /\ writes \in [Threads -> SUBSET Files]
    BY DEF Init
  <2>7. /\ lock \in Threads \cup {NoThread} /\ logged \in Contents \cup {Absent}
        /\ up \in BOOLEAN /\ alive \in BOOLEAN /\ torn \in BOOLEAN /\ missed \in BOOLEAN
    BY DEF Init
  <2>8. faults \in 0..MaxFaults
    BY BoundAssumption DEF Init
  <2>9. seen \subseteq Stores \X Nat \X Content
    BY DEF Init
  <2> QED
    BY <2>1, <2>2, <2>3, <2>4, <2>5, <2>6, <2>7, <2>8, <2>9 DEF TypeOK
<1>3. TxnInv
  BY ThreadAssumption DEF Init, TxnInv, Txn, InLock
<1>4. LockFreeConsistent
  BY DefaultsAssumption DEF Init, LockFreeConsistent
<1> QED
  BY <1>2, <1>3, <1>4 DEF IInv

-----------------------------------------------------------------------------
(* Threads a step leaves alone                                             *)

\* Only the holder of the lock is in the middle of a transaction.
LEMMA Holder ==
  ASSUME TxnInv, NEW t \in Threads, pc[t] \in InLock
  PROVE  lock = t /\ alive
BY DEF TxnInv, Txn, InLock

\* The holder moves or leaves: for everybody else nothing changes.
LEMMA Bystander ==
  ASSUME NEW t \in Threads, NEW u \in Threads, u # t, Txn(u),
         lock = t, lock' \in {t, NoThread},
         pc'[u] = pc[u], alive' = alive
  PROVE  Txn(u)'
<1>1. pc'[u] \notin InLock /\ lock' # u
  BY ThreadAssumption DEF Txn
<1> QED
  BY <1>1 DEF Txn, InLock

\* A thread that stays where it is while the disk and the lock do.
LEMMA Unmoved ==
  ASSUME NEW u \in Threads, Txn(u), pc'[u] = pc[u],
         UNCHANGED <<disk, lock, req, snap, saves, writes, alive, torn>>
  PROVE  Txn(u)'
BY DEF Txn, disk

\* A step that touches neither the disk, the lock nor a transaction.
LEMMA Aside ==
  ASSUME IInv, TypeOK',
         UNCHANGED <<disk, lock, req, snap, saves, writes, alive, torn>>,
         \A t \in Threads : \/ pc'[t] = pc[t]
                            \/ pc[t] \notin InLock /\ pc'[t] \notin InLock /\ alive
  PROVE  IInv'
<1>1. ASSUME NEW t \in Threads PROVE Txn(t)'
  <2>1. CASE pc'[t] = pc[t]
    BY <2>1, Unmoved DEF IInv, TxnInv
  <2>2. CASE pc[t] \notin InLock /\ pc'[t] \notin InLock /\ alive
    BY <2>2 DEF IInv, TxnInv, Txn, InLock
  <2> QED
    BY <2>1, <2>2
<1>2. LockFreeConsistent'
  BY DEF IInv, LockFreeConsistent, disk
<1> QED
  BY <1>1, <1>2 DEF IInv, TxnInv

-----------------------------------------------------------------------------
(* The steps of a thread inside the lock                                   *)

LEMMA AcquireStep ==
  ASSUME IInv, NEW t \in Threads, NEW r \in Requests \cup {ForceApply}, Acquire(t, r)
  PROVE  IInv'
<1> USE DEF Acquire, disk, daemon, hist
<1>1. DOMAIN r.set \subseteq Stores
  BY RequestFacts
<1>2. [content |-> content, serial |-> serial] \in Snapshot
  BY DEF IInv, TypeOK, Snapshot
<1>3. TypeOK'
  BY <1>1, <1>2 DEF IInv, TypeOK, Goto, Steps
<1>4. ASSUME NEW u \in Threads PROVE Txn(u)'
  <2>1. CASE u = t
    <3>1. pc'[t] = "mutate" /\ req'[t] = r /\ saves'[t] = DOMAIN r.set
          /\ snap'[t] = [content |-> content, serial |-> serial]
      BY DEF IInv, TypeOK, Goto
    <3>2. ~torn => conf = Render(content) /\ Accepts(conf)
      BY DEF IInv, LockFreeConsistent
    <3> QED
      BY <1>2, <2>1, <3>1, <3>2 DEF Txn, InLock
  <2>2. CASE u # t
    <3>1. pc'[u] = pc[u] /\ pc[u] \notin InLock /\ lock' # u
      BY <2>2, ThreadAssumption DEF IInv, TypeOK, TxnInv, Txn, Goto
    <3> QED
      BY <3>1 DEF IInv, TxnInv, Txn, InLock
  <2> QED
    BY <2>1, <2>2
<1>5. LockFreeConsistent'
  BY ThreadAssumption DEF LockFreeConsistent
<1> QED
  BY <1>3, <1>4, <1>5 DEF IInv, TxnInv

LEMMA SaveStoreStep ==
  ASSUME IInv, NEW t \in Threads, NEW s \in Stores, SaveStore(t, s)
  PROVE  IInv'
<1> USE DEF SaveStore, disk, daemon, hist
<1>1. lock = t /\ Txn(t)
  BY Holder DEF IInv, TxnInv, InLock
<1>2. s \in DOMAIN req[t].set /\ req[t].set[s] \in Content
  BY <1>1, RequestFacts DEF IInv, TypeOK, Txn
<1>3. TypeOK'
  BY <1>2 DEF IInv, TypeOK, Contents
<1>4. ASSUME NEW u \in Threads PROVE Txn(u)'
  <2>1. CASE u = t
    <3>1. \A x \in Stores \ {s} : content'[x] = content[x]
      BY DEF IInv, TypeOK, Contents
    <3>2. saves'[t] = saves[t] \ {s}
      BY DEF IInv, TypeOK
    <3> QED
      BY <1>1, <1>2, <2>1, <3>1, <3>2 DEF Txn, InLock
  <2>2. CASE u # t
    BY <1>1, <2>2, Bystander DEF IInv, TxnInv
  <2> QED
    BY <2>1, <2>2
<1>5. LockFreeConsistent'
  BY <1>1, ThreadAssumption DEF LockFreeConsistent
<1> QED
  BY <1>3, <1>4, <1>5 DEF IInv, TxnInv

LEMMA ValidateOkStep ==
  ASSUME IInv, NEW t \in Threads, ValidateOk(t)
  PROVE  IInv'
<1> USE DEF ValidateOk, disk, daemon, hist
<1>1. lock = t /\ Txn(t)
  BY Holder DEF IInv, TxnInv, InLock
<1>2. TypeOK'
  BY DEF IInv, TypeOK, Goto, Steps, DiffRender
<1>3. ASSUME NEW u \in Threads PROVE Txn(u)'
  <2>1. CASE u = t
    <3>1. pc'[t] = "write" /\ writes'[t] = {f \in Files : Render(content)[f] # Absent}
      BY DEF IInv, TypeOK, Goto, Rendered
    <3> QED
      BY <1>1, <2>1, <3>1 DEF Txn, InLock, Rendered
  <2>2. CASE u # t
    BY <1>1, <2>2, Bystander DEF IInv, TxnInv, TypeOK, Goto
  <2> QED
    BY <2>1, <2>2
<1>4. LockFreeConsistent'
  BY <1>1, ThreadAssumption DEF LockFreeConsistent
<1> QED
  BY <1>2, <1>3, <1>4 DEF IInv, TxnInv

LEMMA ValidateRejectedStep ==
  ASSUME IInv, NEW t \in Threads, ValidateRejected(t)
  PROVE  IInv'
<1> USE DEF ValidateRejected, RestoredStores, disk, daemon, hist
<1>1. lock = t /\ Txn(t)
  BY Holder DEF IInv, TxnInv, InLock
<1>2. TypeOK'
  BY DEF IInv, TypeOK, Goto, Steps
<1>3. ASSUME NEW u \in Threads PROVE Txn(u)'
  <2>1. CASE u = t
    <3>1. pc'[t] = "restore" /\ saves'[t] = Stores
      BY DEF IInv, TypeOK, Goto
    <3> QED
      BY <1>1, <2>1, <3>1 DEF Txn, InLock
  <2>2. CASE u # t
    BY <1>1, <2>2, Bystander DEF IInv, TxnInv, TypeOK, Goto
  <2> QED
    BY <2>1, <2>2
<1>4. LockFreeConsistent'
  BY <1>1, ThreadAssumption DEF LockFreeConsistent
<1> QED
  BY <1>2, <1>3, <1>4 DEF IInv, TxnInv

LEMMA RestoreStoreStep ==
  ASSUME IInv, NEW t \in Threads, NEW s \in Stores, RestoreStore(t, s)
  PROVE  IInv'
<1> USE DEF RestoreStore, disk, daemon, hist
<1>1. lock = t /\ Txn(t)
  BY Holder DEF IInv, TxnInv, InLock
<1>2. snap[t].content \in Contents /\ snap[t].serial \in Serials
  BY <1>1 DEF Txn, InLock, Snapshot
<1>3. serial' = serial
  BY <1>1, <1>2 DEF Txn, IInv, TypeOK, Serials
<1>4. TypeOK'
  BY <1>2, <1>3 DEF IInv, TypeOK, Contents
<1>5. ASSUME NEW u \in Threads PROVE Txn(u)'
  <2>1. CASE u = t
    <3>1. /\ content'[s] = snap[t].content[s]
          /\ \A x \in Stores \ {s} : content'[x] = content[x]
      BY DEF IInv, TypeOK, Contents
    <3>2. saves'[t] = saves[t] \ {s}
      BY DEF IInv, TypeOK
    <3> QED
      BY <1>1, <1>3, <2>1, <3>1, <3>2 DEF Txn, InLock
  <2>2. CASE u # t
    BY <1>1, <2>2, Bystander DEF IInv, TxnInv
  <2> QED
    BY <2>1, <2>2
<1>6. LockFreeConsistent'
  BY <1>1, ThreadAssumption DEF LockFreeConsistent
<1> QED
  BY <1>4, <1>5, <1>6 DEF IInv, TxnInv

LEMMA ReturnRejectedStep ==
  ASSUME IInv, NEW t \in Threads, ReturnRejected(t)
  PROVE  IInv'
<1> USE DEF ReturnRejected, Forget, disk, daemon, hist
<1>1. lock = t /\ Txn(t) /\ alive
  BY Holder DEF IInv, TxnInv, InLock
<1>2. TypeOK'
  BY DEF IInv, TypeOK, Goto, Steps
<1>3. ASSUME NEW u \in Threads PROVE Txn(u)'
  <2>1. CASE u = t
    <3>1. pc'[t] = "idle"
      BY DEF IInv, TypeOK, Goto
    <3> QED
      BY <2>1, <3>1, ThreadAssumption DEF Txn, InLock
  <2>2. CASE u # t
    BY <1>1, <2>2, Bystander DEF IInv, TxnInv, TypeOK, Goto
  <2> QED
    BY <2>1, <2>2
\* What is on disk is the snapshot again, or was never touched.
<1>4. content = snap[t].content
  <2>1. content \in Contents /\ snap[t].content \in Contents
    BY <1>1 DEF IInv, TypeOK, Txn, InLock, Snapshot
  <2>2. ASSUME NEW s \in Stores PROVE content[s] = snap[t].content[s]
    <3>1. CASE pc[t] = "restore"
      BY <1>1, <3>1 DEF Txn
    <3>2. CASE pc[t] = "mutate" /\ req[t].force
      <4>1. req[t] \in {NoRequest, ForceApply}
        BY <3>2, RequestAssumption DEF IInv, TypeOK, Request
      <4>2. DOMAIN req[t].set = {}
        BY <4>1 DEF NoRequest, ForceApply, NoWrites
      <4> QED
        BY <1>1, <3>2, <4>2 DEF Txn, InLock
    <3> QED
      BY <3>1, <3>2
  <2> QED
    BY <2>1, <2>2 DEF Contents
<1>5. LockFreeConsistent'
  BY <1>1, <1>4 DEF Txn, LockFreeConsistent
<1> QED
  BY <1>2, <1>3, <1>5 DEF IInv, TxnInv

LEMMA WriteFileStep ==
  ASSUME IInv, NEW t \in Threads, NEW f \in Files, WriteFile(t, f)
  PROVE  IInv'
<1> USE DEF WriteFile, disk, daemon, hist
<1>1. lock = t /\ Txn(t)
  BY Holder DEF IInv, TxnInv, InLock
<1>2. Render(content) \in Rendering
  BY RenderFacts DEF IInv, TypeOK
<1>3. TypeOK'
  BY <1>2 DEF IInv, TypeOK, Rendering, Rendered
<1>4. ASSUME NEW u \in Threads PROVE Txn(u)'
  <2>1. CASE u = t
    <3>1. /\ conf'[f] = Render(content)[f]
          /\ \A x \in Files \ {f} : conf'[x] = conf[x]
      BY DEF IInv, TypeOK, Rendering, Rendered
    <3>2. writes'[t] = writes[t] \ {f}
      BY DEF IInv, TypeOK
    <3> QED
      BY <1>1, <2>1, <3>1, <3>2 DEF Txn, InLock
  <2>2. CASE u # t
    BY <1>1, <2>2, Bystander DEF IInv, TxnInv
  <2> QED
    BY <2>1, <2>2
<1>5. LockFreeConsistent'
  BY <1>1, ThreadAssumption DEF LockFreeConsistent
<1> QED
  BY <1>3, <1>4, <1>5 DEF IInv, TxnInv

LEMMA PruneStep ==
  ASSUME IInv, NEW t \in Threads, Prune(t)
  PROVE  IInv'
<1> USE DEF Prune, disk, daemon
<1>1. lock = t /\ Txn(t) /\ alive
  BY Holder DEF IInv, TxnInv, InLock
<1>2. Render(content) \in Rendering /\ Accepts(Render(content))
  BY <1>1, RenderFacts DEF IInv, TypeOK, Txn
\* Every rendered file has been written; what is not rendered goes now.
<1>3. conf' = Render(content)
  <2>1. conf' = [f \in Files |-> IF f \in Strays THEN Absent ELSE conf[f]]
    OBVIOUS
  <2>2. ASSUME NEW f \in Files PROVE conf'[f] = Render(content)[f]
    <3>1. CASE Render(content)[f] = Absent
      BY <2>1, <3>1 DEF Strays, Rendered
    <3>2. CASE Render(content)[f] # Absent
      BY <1>1, <2>1, <3>2 DEF Txn, Strays, Rendered
    <3> QED
      BY <3>1, <3>2
  <2> QED
    BY <1>2, <2>1, <2>2 DEF Rendering
<1>4. req[t].bumps \subseteq Stores
  BY RequestFacts DEF IInv, TypeOK
<1>5. act' \in [Threads -> {"none", "reload", "restart"}]
  BY DEF IInv, TypeOK, PrunedAction
<1>6. CASE req[t].force
  <2> USE DEF Forget
  <2>1. TypeOK'
    <3>1. conf' \in Rendering
      BY <1>2, <1>3
    <3>2. /\ pc' \in [Threads -> Steps] /\ lock' \in Threads \cup {NoThread}
          /\ torn' \in BOOLEAN
      BY <1>6 DEF IInv, TypeOK, Goto, Steps
    <3>3. /\ req' \in [Threads -> Requests \cup {NoRequest, ForceApply}]
          /\ snap' \in [Threads -> Snapshot \cup {NoSnap}]
          /\ saves' \in [Threads -> SUBSET Stores]
          /\ writes' \in [Threads -> SUBSET Files]
      BY <1>6 DEF IInv, TypeOK
    <3>4. UNCHANGED <<content, serial, logged, up, running, missed, alive, faults, seen>>
      OBVIOUS
    <3> QED
      BY <1>5, <3>1, <3>2, <3>3, <3>4 DEF IInv, TypeOK
  <2>2. ASSUME NEW u \in Threads PROVE Txn(u)'
    <3>1. CASE u = t
      <4>1. pc'[t] = "service"
        BY <1>6 DEF IInv, TypeOK, Goto
      <4> QED
        BY <1>1, <1>6, <3>1, <4>1, ThreadAssumption DEF Txn, InLock
    <3>2. CASE u # t
      BY <1>1, <1>6, <3>2, Bystander DEF IInv, TxnInv, TypeOK, Goto
    <3> QED
      BY <3>1, <3>2
  <2>3. LockFreeConsistent'
    BY <1>2, <1>3 DEF LockFreeConsistent
  <2> QED
    BY <2>1, <2>2, <2>3 DEF IInv, TxnInv
<1>7. CASE ~req[t].force
  <2>1. TypeOK'
    BY <1>2, <1>3, <1>4, <1>5, <1>7 DEF IInv, TypeOK, Goto, Steps
  <2>2. ASSUME NEW u \in Threads PROVE Txn(u)'
    <3>1. CASE u = t
      <4>1. pc'[t] = "bump" /\ saves'[t] = req[t].bumps
        BY <1>7 DEF IInv, TypeOK, Goto
      <4> QED
        BY <1>1, <1>2, <1>3, <1>7, <3>1, <4>1 DEF Txn, InLock
    <3>2. CASE u # t
      BY <1>1, <1>7, <3>2, Bystander DEF IInv, TxnInv, TypeOK, Goto
    <3> QED
      BY <3>1, <3>2
  <2>3. LockFreeConsistent'
    BY <1>1, <1>7, ThreadAssumption DEF LockFreeConsistent
  <2> QED
    BY <2>1, <2>2, <2>3 DEF IInv, TxnInv
<1> QED
  BY <1>6, <1>7

LEMMA BumpSerialStep ==
  ASSUME IInv, NEW t \in Threads, NEW s \in Stores, BumpSerial(t, s)
  PROVE  IInv'
<1> USE DEF BumpSerial, disk, daemon, hist
<1>1. lock = t /\ Txn(t)
  BY Holder DEF IInv, TxnInv, InLock
<1>2. TypeOK'
  BY DEF IInv, TypeOK, Serials
<1>3. ASSUME NEW u \in Threads PROVE Txn(u)'
  <2>1. CASE u = t
    <3>1. /\ serial'[s] = serial[s] + 1
          /\ \A x \in Stores \ {s} : serial'[x] = serial[x]
      BY DEF IInv, TypeOK, Serials
    <3>2. saves'[t] = saves[t] \ {s}
      BY DEF IInv, TypeOK
    <3>3. ASSUME NEW x \in Stores
          PROVE  serial'[x] = IF x \in req[t].bumps \ saves'[t]
                              THEN snap[t].serial[x] + 1 ELSE snap[t].serial[x]
      BY <1>1, <3>1, <3>2 DEF Txn
    <3>4. saves'[t] \subseteq req[t].bumps
      BY <1>1, <3>2 DEF Txn
    <3> QED
      BY <1>1, <2>1, <3>3, <3>4 DEF Txn, InLock
  <2>2. CASE u # t
    BY <1>1, <2>2, Bystander DEF IInv, TxnInv
  <2> QED
    BY <2>1, <2>2
<1>4. LockFreeConsistent'
  BY <1>1, ThreadAssumption DEF LockFreeConsistent
<1> QED
  BY <1>2, <1>3, <1>4 DEF IInv, TxnInv

LEMMA RecordStep ==
  ASSUME IInv, NEW t \in Threads, Record(t)
  PROVE  IInv'
<1> USE DEF Record, Forget, disk, daemon, hist
<1>1. lock = t /\ Txn(t) /\ alive
  BY Holder DEF IInv, TxnInv, InLock
<1>2. TypeOK'
  BY DEF IInv, TypeOK, Goto, Steps
<1>3. ASSUME NEW u \in Threads PROVE Txn(u)'
  <2>1. CASE u = t
    <3>1. pc'[t] = "service"
      BY DEF IInv, TypeOK, Goto
    <3> QED
      BY <1>1, <2>1, <3>1, ThreadAssumption DEF Txn, InLock
  <2>2. CASE u # t
    BY <1>1, <2>2, Bystander DEF IInv, TxnInv, TypeOK, Goto
  <2> QED
    BY <2>1, <2>2
<1>4. LockFreeConsistent'
  BY <1>1 DEF Txn, LockFreeConsistent
<1> QED
  BY <1>2, <1>3, <1>4 DEF IInv, TxnInv

-----------------------------------------------------------------------------
(* The steps outside the lock, and the faults                              *)

\* Starting or signalling dnsmasq loads what is on disk.
LEMMA DaemonTypes ==
  ASSUME TypeOK, StartDaemon \/ Hup \/ UNCHANGED daemon
  PROVE  up' \in BOOLEAN /\ running' \in Rendering /\ missed' \in BOOLEAN
BY DEF TypeOK, StartDaemon, Hup, Rendering, daemon

LEMMA ServiceStep ==
  ASSUME IInv, NEW t \in Threads, Service(t)
  PROVE  IInv'
<1>1. pc[t] \notin InLock /\ alive
  BY DEF IInv, TxnInv, Txn, Service, InLock
<1>2. StartDaemon \/ Hup \/ UNCHANGED daemon
  BY DEF IInv, TypeOK, Service
<1>3. up' \in BOOLEAN /\ running' \in Rendering /\ missed' \in BOOLEAN
  BY <1>2, DaemonTypes DEF IInv
<1>4. TypeOK'
  BY <1>3 DEF IInv, TypeOK, Service, Goto, Steps, disk, hist
<1>5. pc'[t] = "idle" /\ \A u \in Threads \ {t} : pc'[u] = pc[u]
  BY DEF IInv, TypeOK, Service, Goto
<1> QED
  BY <1>1, <1>4, <1>5, Aside DEF Service, InLock, disk, hist

LEMMA ServiceRouteStep ==
  ASSUME IInv, NEW t \in Threads, NEW a \in {"reload", "restart"}, ServiceRoute(t, a)
  PROVE  IInv'
<1>1. TypeOK'
  BY DEF IInv, TypeOK, ServiceRoute, Goto, Steps, disk, daemon, hist
<1>2. pc'[t] = "service" /\ \A u \in Threads \ {t} : pc'[u] = pc[u]
  BY DEF IInv, TypeOK, ServiceRoute, Goto
<1> QED
  BY <1>1, <1>2, Aside DEF ServiceRoute, InLock, disk, hist

LEMMA DaemonDiesStep ==
  ASSUME IInv, DaemonDies
  PROVE  IInv'
<1>1. TypeOK'
  BY DEF IInv, TypeOK, DaemonDies, disk, locals, hist
<1> QED
  BY <1>1, Aside DEF DaemonDies, disk, locals, hist

LEMMA RespawnStep ==
  ASSUME IInv, Respawn
  PROVE  IInv'
<1>1. up' \in BOOLEAN /\ running' \in Rendering /\ missed' \in BOOLEAN
  BY DaemonTypes DEF IInv, Respawn
<1>2. TypeOK'
  BY <1>1 DEF IInv, TypeOK, Respawn, disk, locals, hist
<1> QED
  BY <1>2, Aside DEF Respawn, disk, locals, hist

LEMMA BuildPayloadStep ==
  ASSUME IInv, BuildPayload
  PROVE  IInv'
<1>1. seen' \subseteq Stores \X Nat \X Content
  BY RequestAssumption DEF IInv, TypeOK, BuildPayload, Serials, Contents
<1>2. TypeOK'
  BY <1>1 DEF IInv, TypeOK, BuildPayload, disk, locals, daemon, hist
<1> QED
  BY <1>2, Aside DEF BuildPayload, disk, locals, hist

LEMMA AbortStep ==
  ASSUME IInv, NEW t \in Threads, Abort(t)
  PROVE  IInv'
<1> USE DEF Abort, Forget, disk, daemon
<1>1. lock = t /\ Txn(t) /\ alive
  BY Holder DEF IInv, TxnInv, InLock
<1>2. faults' \in 0..MaxFaults
  BY BoundAssumption DEF IInv, TypeOK
<1>3. TypeOK'
  BY <1>2 DEF IInv, TypeOK, Goto, Steps
<1>4. ASSUME NEW u \in Threads PROVE Txn(u)'
  <2>1. CASE u = t
    <3>1. pc'[t] = "idle"
      BY DEF IInv, TypeOK, Goto
    <3> QED
      BY <2>1, <3>1, ThreadAssumption DEF Txn, InLock
  <2>2. CASE u # t
    BY <1>1, <2>2, Bystander DEF IInv, TxnInv, TypeOK, Goto
  <2> QED
    BY <2>1, <2>2
<1>5. LockFreeConsistent'
  BY DEF LockFreeConsistent
<1> QED
  BY <1>3, <1>4, <1>5 DEF IInv, TxnInv

LEMMA CrashStep ==
  ASSUME IInv, Crash
  PROVE  IInv'
<1> USE DEF Crash, disk
<1>1. faults' \in 0..MaxFaults
  BY BoundAssumption DEF IInv, TypeOK
<1>2. TypeOK'
  BY <1>1 DEF IInv, TypeOK, Steps
<1>3. TxnInv'
  BY ThreadAssumption DEF TxnInv, Txn, InLock
<1>4. LockFreeConsistent'
  BY DEF IInv, LockFreeConsistent
<1> QED
  BY <1>2, <1>3, <1>4 DEF IInv

LEMMA BootStep ==
  ASSUME IInv, Boot
  PROVE  IInv'
<1> USE DEF Boot
<1>1. Render(content) \in Rendering
  BY RenderFacts DEF IInv, TypeOK
<1>2. BootRender \in Rendering
  BY <1>1 DEF IInv, TypeOK, BootRender, Rendering, Rendered
<1>3. up' \in BOOLEAN /\ running' \in Rendering /\ missed' \in BOOLEAN
  BY <1>2 DEF IInv, TypeOK, BootFiles, daemon
<1>4. TypeOK'
  BY <1>2, <1>3 DEF IInv, TypeOK, locals
<1>5. lock = NoThread
  BY DEF IInv, TypeOK, TxnInv, Txn, InLock
<1>6. TxnInv'
  <2> SUFFICES ASSUME NEW t \in Threads PROVE Txn(t)'
    BY DEF TxnInv
  <2>1. pc'[t] = "idle" /\ lock' = NoThread /\ alive'
    BY <1>5 DEF IInv, TxnInv, Txn, locals
  <2> QED
    BY <2>1, ThreadAssumption DEF Txn, InLock
\* Files left consistent are left alone: nothing is missing, nothing stray.
<1>7. conf = Render(content) => BootRender = conf
  BY <1>1 DEF BootRender, Rendered, Rendering
<1>8. LockFreeConsistent'
  BY <1>5, <1>7 DEF IInv, LockFreeConsistent
<1> QED
  BY <1>4, <1>6, <1>8 DEF IInv

-----------------------------------------------------------------------------
(* The theorems                                                            *)

LEMMA StepIInv ==
  ASSUME IInv, NEW t \in Threads, Step(t)
  PROVE  IInv'
BY SaveStoreStep, RestoreStoreStep, BumpSerialStep, WriteFileStep, ValidateOkStep,
   ValidateRejectedStep, ReturnRejectedStep, PruneStep, RecordStep, ServiceStep
   DEF Step

LEMMA NextIInv == IInv /\ [Next]_vars => IInv'
<1> SUFFICES ASSUME IInv, [Next]_vars PROVE IInv'
  OBVIOUS
<1>1. ASSUME NEW t \in Threads, Step(t) PROVE IInv'
  BY <1>1, StepIInv
<1>2. ASSUME NEW t \in Threads, Ask(t) PROVE IInv'
  BY <1>2, AcquireStep, ServiceRouteStep DEF Ask
<1>3. ASSUME NEW t \in Threads, Abort(t) PROVE IInv'
  BY <1>3, AbortStep
<1>4. CASE BuildPayload \/ DaemonDies \/ Respawn \/ Crash \/ Boot
  BY <1>4, BuildPayloadStep, DaemonDiesStep, RespawnStep, CrashStep, BootStep
<1>5. CASE UNCHANGED vars
  <2>1. TypeOK'
    BY <1>5 DEF IInv, TypeOK, vars, disk, locals, daemon, hist
  <2> QED
    BY <1>5, <2>1, Aside DEF vars, disk, locals, daemon, hist
<1> QED
  BY <1>1, <1>2, <1>3, <1>4, <1>5 DEF Next

\* apply_change: the invariant holds in every state, whatever the interleaving
\* and wherever a crash or a failed write strikes.
THEOREM Inductive == Spec => []IInv
<1>1. Init => IInv
  BY InitIInv
<1>2. IInv /\ [Next]_vars => IInv'
  BY NextIInv
<1> QED
  BY <1>1, <1>2, PTL DEF Spec

\* apply_change: every variable keeps its type, so no serial leaves the natural
\* numbers and no file holds anything but a rendered text.
THEOREM TypeCorrect == Spec => []TypeOK
<1>1. IInv => TypeOK
  BY DEF IInv
<1> QED
  BY <1>1, Inductive, PTL

\* apply_change: outside STORE_LOCK the files are the accepted rendering of the
\* stores, for any number of threads and requests, unless a fault has cut an
\* apply short and no later one has completed.
THEOREM Consistent == Spec => []LockFreeConsistent
<1>1. IInv => LockFreeConsistent
  BY DEF IInv
<1> QED
  BY <1>1, Inductive, PTL

-----------------------------------------------------------------------------
(***************************************************************************)
(* 2. Without crashes and failed writes, apply_change implements the       *)
(* atomic register of ConfigRegister, and so what peers are sent under one *)
(* serial is one content.                                                  *)
(***************************************************************************)

-----------------------------------------------------------------------------
(* No fault has happened                                                   *)

Whole == alive = TRUE /\ torn = FALSE

\* Without faults the app stays up and no apply is cut short.
LEMMA WholeInv ==
  ASSUME FaultKinds = {}
  PROVE  Spec => []Whole
<1>1. Init => Whole
  BY DEF Init, Whole
<1>2. Whole /\ [Next]_vars => Whole'
  <2> SUFFICES ASSUME Whole, [Next]_vars PROVE Whole'
    OBVIOUS
  <2> USE DEF Whole, disk, daemon, hist
  <2>1. ASSUME NEW t \in Threads, Step(t) PROVE Whole'
    <3>1. ASSUME NEW s \in Stores, SaveStore(t, s) \/ RestoreStore(t, s) \/ BumpSerial(t, s)
          PROVE  Whole'
      BY <3>1 DEF SaveStore, RestoreStore, BumpSerial
    <3>2. ASSUME NEW f \in Files, WriteFile(t, f) PROVE Whole'
      BY <3>2 DEF WriteFile
    <3>3. CASE ValidateOk(t) \/ ValidateRejected(t) \/ ReturnRejected(t)
      BY <3>3 DEF ValidateOk, ValidateRejected, ReturnRejected
    <3>4. CASE Prune(t)
      BY <3>4 DEF Prune
    <3>5. CASE Record(t) \/ Service(t)
      BY <3>5 DEF Record, Service
    <3> QED
      BY <2>1, <3>1, <3>2, <3>3, <3>4, <3>5 DEF Step
  <2>2. ASSUME NEW t \in Threads, Ask(t) PROVE Whole'
    BY <2>2 DEF Ask, Acquire, ServiceRoute
  <2>3. ASSUME NEW t \in Threads, Abort(t) PROVE Whole'
    BY <2>3 DEF Abort
  <2>4. CASE BuildPayload \/ DaemonDies \/ Respawn
    BY <2>4 DEF BuildPayload, DaemonDies, Respawn
  <2>5. CASE Crash \/ Boot
    BY <2>5 DEF Crash, Boot
  <2>6. CASE UNCHANGED vars
    BY <2>6 DEF vars
  <2> QED
    BY <2>1, <2>2, <2>3, <2>4, <2>5, <2>6 DEF Next
<1> QED
  BY <1>1, <1>2, PTL DEF Spec

-----------------------------------------------------------------------------
(* Where the register stands still                                         *)

Register0 == <<Committed.content, Committed.serial>>

\* Inside the lock, only the snapshot counts.
LEMMA InsideStutters ==
  ASSUME IInv, NEW t \in Threads, pc[t] \in InLock, UNCHANGED <<lock, snap>>
  PROVE  UNCHANGED Register0
BY ThreadAssumption DEF IInv, TxnInv, Txn, Committed, Register0

\* Nothing the register is read from has changed.
LEMMA OutsideStutters ==
  ASSUME UNCHANGED <<content, serial, lock, snap>>
  PROVE  UNCHANGED Register0
BY DEF Committed, Register0

\* The thread in the lock holds the register; releasing the lock publishes the
\* stores as they are.
LEMMA ReleasePublishes ==
  ASSUME IInv, NEW t \in Threads, pc[t] \in InLock, lock' = NoThread
  PROVE  /\ Committed = snap[t]
         /\ Committed' = [content |-> content', serial |-> serial']
BY ThreadAssumption DEF IInv, TxnInv, Txn, Committed

\* Taking the lock reads the register.
LEMMA AcquireStutters ==
  ASSUME IInv, NEW t \in Threads, NEW r, Acquire(t, r)
  PROVE  UNCHANGED Register0
<1>1. snap'[t] = [content |-> content, serial |-> serial]
  BY DEF Acquire, IInv, TypeOK
<1> QED
  BY <1>1, ThreadAssumption DEF Acquire, Committed, Register0

-----------------------------------------------------------------------------
(* Where it stands still or commits as the lock is released                *)

\* A rejected change publishes what was there before.
LEMMA RejectedStutters ==
  ASSUME IInv, NEW t \in Threads, ReturnRejected(t)
  PROVE  UNCHANGED Register0
<1>1. pc[t] \in InLock /\ lock = t /\ Txn(t)
  BY Holder DEF ReturnRejected, IInv, TxnInv, InLock
<1>2. content \in Contents /\ snap[t].content \in Contents /\ snap[t] \in Snapshot
  BY <1>1 DEF IInv, TypeOK, Txn, Snapshot
<1>3. \A s \in Stores : content[s] = snap[t].content[s]
  <2>1. CASE pc[t] = "restore"
    BY <1>1, <2>1 DEF ReturnRejected, Txn
  <2>2. CASE pc[t] = "mutate" /\ req[t].force
    <3>1. req[t] \in {NoRequest, ForceApply}
      BY <2>2, RequestAssumption DEF IInv, TypeOK, Request
    <3>2. DOMAIN req[t].set = {}
      BY <3>1 DEF NoRequest, ForceApply, NoWrites
    <3> QED
      BY <1>1, <3>2 DEF Txn
  <2> QED
    BY <2>1, <2>2 DEF ReturnRejected
<1>4. content = snap[t].content
  BY <1>2, <1>3 DEF Contents
<1>5. serial = snap[t].serial
  BY <1>1 DEF ReturnRejected, Txn
<1>6. Committed = snap[t] /\ Committed' = [content |-> content', serial |-> serial']
  BY <1>1, ReleasePublishes DEF ReturnRejected
<1> QED
  BY <1>4, <1>5, <1>6 DEF ReturnRejected, disk, Register0

\* A forced re-render writes files and no store.
LEMMA ForcedStutters ==
  ASSUME IInv, NEW t \in Threads, Prune(t)
  PROVE  UNCHANGED Register0
<1>1. pc[t] \in InLock /\ lock = t /\ Txn(t)
  BY Holder DEF Prune, IInv, TxnInv, InLock
<1>2. CASE ~req[t].force
  BY <1>1, <1>2, InsideStutters DEF Prune
<1>3. CASE req[t].force
  <2>1. content \in Contents /\ snap[t].content \in Contents /\ snap[t] \in Snapshot
    BY <1>1 DEF IInv, TypeOK, Txn, Snapshot
  <2>2. req[t] \in {NoRequest, ForceApply}
    BY <1>3, RequestAssumption DEF IInv, TypeOK, Request
  <2>3. DOMAIN req[t].set = {}
    BY <2>2 DEF NoRequest, ForceApply, NoWrites
  <2>4. content = snap[t].content
    BY <1>1, <2>1, <2>3 DEF Txn, Contents
  <2>5. serial = snap[t].serial
    BY <1>1 DEF Prune, Txn
  <2>6. Committed = snap[t] /\ Committed' = [content |-> content', serial |-> serial']
    BY <1>1, <1>3, ReleasePublishes DEF Prune
  <2> QED
    BY <2>4, <2>5, <2>6 DEF Prune, Register0
<1> QED
  BY <1>2, <1>3

\* What leaves the lock after the last bump is one legal change, and a mirrored
\* store that changed has a new serial.
LEMMA RecordCommits ==
  ASSUME IInv, NEW t \in Threads, Record(t)
  PROVE  Register!Commit
<1>1. pc[t] \in InLock /\ lock = t /\ Txn(t) /\ pc[t] = "bump" /\ saves[t] = {}
  BY Holder DEF Record, IInv, TxnInv, InLock
<1>2. Committed = snap[t] /\ Committed' = [content |-> content, serial |-> serial]
  BY <1>1, ReleasePublishes DEF Record, disk
<1>3. content \in Contents /\ Accepts(Render(content))
  BY <1>1 DEF IInv, TypeOK, Txn
<1>4. req[t].bumps \subseteq Stores /\ DOMAIN req[t].set \cap Mirrored \subseteq req[t].bumps
  BY RequestFacts DEF IInv, TypeOK
<1>5. \A s \in Mirrored : content[s] # snap[t].content[s] => s \in req[t].bumps
  BY <1>1, <1>4, RequestAssumption DEF Txn
<1>6. serial = [s \in Stores |-> IF s \in req[t].bumps THEN snap[t].serial[s] + 1
                                                      ELSE snap[t].serial[s]]
  BY <1>1 DEF IInv, TypeOK, Serials, Txn
<1>7. Committed.content' = content /\ Committed.serial' = serial
  BY <1>2
<1> QED
  BY <1>2, <1>3, <1>4, <1>5, <1>6, <1>7 DEF Register!Commit, LegalContent, Contents

-----------------------------------------------------------------------------
(* Every step                                                              *)

\* Everything that is not record() leaves the register alone.
LEMMA OnlyRecordCommits ==
  ASSUME FaultKinds = {}, IInv, Whole, [Next]_vars, \A t \in Threads : ~Record(t)
  PROVE  UNCHANGED Register0
<1>1. ASSUME NEW t \in Threads, Step(t) PROVE UNCHANGED Register0
  <2>1. ASSUME NEW s \in Stores, SaveStore(t, s) \/ RestoreStore(t, s) \/ BumpSerial(t, s)
        PROVE  UNCHANGED Register0
    BY <2>1, InsideStutters DEF SaveStore, RestoreStore, BumpSerial, InLock
  <2>2. ASSUME NEW f \in Files, WriteFile(t, f) PROVE UNCHANGED Register0
    BY <2>2, InsideStutters DEF WriteFile, InLock
  <2>3. CASE ValidateOk(t) \/ ValidateRejected(t)
    BY <2>3, InsideStutters DEF ValidateOk, ValidateRejected, InLock
  <2>4. CASE Service(t)
    BY <2>4, OutsideStutters DEF Service, disk
  <2> QED
    BY <1>1, <2>1, <2>2, <2>3, <2>4, RejectedStutters, ForcedStutters DEF Step
<1>2. ASSUME NEW t \in Threads, Ask(t) PROVE UNCHANGED Register0
  BY <1>2, AcquireStutters, OutsideStutters DEF Ask, ServiceRoute, disk
<1>3. ASSUME NEW t \in Threads, Abort(t) PROVE FALSE
  BY <1>3 DEF Abort
<1>4. CASE BuildPayload \/ DaemonDies \/ Respawn
  BY <1>4, OutsideStutters DEF BuildPayload, DaemonDies, Respawn, disk, locals
<1>5. ~Crash /\ ~Boot
  BY DEF Crash, Boot, Whole
<1>6. CASE UNCHANGED vars
  BY <1>6, OutsideStutters DEF vars, disk, locals
<1> QED
  BY <1>1, <1>2, <1>3, <1>4, <1>5, <1>6 DEF Next

\* Every step commits or stutters.
LEMMA RegisterStep ==
  ASSUME FaultKinds = {}, IInv, Whole, [Next]_vars
  PROVE  [Register!Commit]_Register0
BY OnlyRecordCommits, RecordCommits

\* apply_change, seen by whoever takes STORE_LOCK, is one atomic register: a
\* change appears at once and whole when the lock is released, a rejected one
\* never, whatever the threads do, as long as nothing fails half-way.
THEOREM Refinement ==
  ASSUME FaultKinds = {}
  PROVE  Spec => RefinesRegister
<1>1. Init => Register!Init
  BY DefaultsAssumption DEF Init, Register!Init, Committed, LegalContent, Contents
<1>2. IInv /\ Whole /\ [Next]_vars
        => [Register!Commit]_<<Committed.content, Committed.serial>>
  BY RegisterStep DEF Register0
<1> QED
  BY <1>1, <1>2, Inductive, WholeInv, PTL DEF Spec, RefinesRegister, Register!Spec

-----------------------------------------------------------------------------
(* What peers were sent                                                    *)

\* No payload is ahead of the register, and one that is level with it agrees.
SentInv ==
  /\ seen \subseteq Stores \X Nat \X Content
  /\ SerialIdentifiesContent
  /\ \A e \in seen : /\ e[1] \in Mirrored
                     /\ e[2] <= Committed.serial[e[1]]
                     /\ e[2] = Committed.serial[e[1]] => e[3] = Committed.content[e[1]]

\* The register holds a content and a serial for every store.
LEMMA CommittedType == IInv => Committed \in Snapshot
<1> SUFFICES ASSUME IInv PROVE Committed \in Snapshot
  OBVIOUS
<1>1. CASE lock = NoThread
  BY <1>1 DEF IInv, TypeOK, Committed, Snapshot
<1>2. CASE lock # NoThread
  <2>1. lock \in Threads
    BY <1>2 DEF IInv, TypeOK
  <2> QED
    BY <1>2, <2>1 DEF IInv, TxnInv, Txn, Committed
<1> QED
  BY <1>1, <1>2

\* Only build_payload sends.
LEMMA OnlyPayloadsSend ==
  ASSUME [Next]_vars, ~BuildPayload
  PROVE  UNCHANGED seen
<1>1. ASSUME NEW t \in Threads, Step(t) PROVE UNCHANGED seen
  BY <1>1 DEF Step, SaveStore, RestoreStore, BumpSerial, WriteFile, ValidateOk,
              ValidateRejected, ReturnRejected, Prune, Record, Service
<1>2. ASSUME NEW t \in Threads, Ask(t) \/ Abort(t) PROVE UNCHANGED seen
  BY <1>2 DEF Ask, Acquire, ServiceRoute, Abort
<1>3. CASE DaemonDies \/ Respawn \/ Crash \/ Boot
  BY <1>3 DEF DaemonDies, Respawn, Crash, Boot
<1>4. CASE UNCHANGED vars
  BY <1>4 DEF vars
<1> QED
  BY <1>1, <1>2, <1>3, <1>4 DEF Next

\* A commit leaves what was sent behind, or alone.
LEMMA CommitKeepsSent ==
  ASSUME IInv, SentInv, Register!Commit, UNCHANGED seen
  PROVE  SentInv'
<1>1. PICK new \in [Stores -> Content], bumped \in SUBSET Stores :
        /\ \A s \in Mirrored : new[s] # Committed.content[s] => s \in bumped
        /\ Committed.content' = new
        /\ Committed.serial' = [s \in Stores |->
             IF s \in bumped THEN Committed.serial[s] + 1 ELSE Committed.serial[s]]
  BY DEF Register!Commit
<1>2. Committed.serial \in [Stores -> Nat]
  BY CommittedType DEF Snapshot, Serials
<1>3. ASSUME NEW e \in seen
      PROVE  /\ e[1] \in Mirrored
             /\ e[2] <= Committed.serial'[e[1]]
             /\ e[2] = Committed.serial'[e[1]] => e[3] = Committed.content'[e[1]]
  <2>1. e[1] \in Mirrored /\ e[1] \in Stores /\ e[2] \in Nat
    BY DEF SentInv
  <2>2. Committed.serial[e[1]] \in Nat
    BY <1>2, <2>1
  <2>3. e[2] <= Committed.serial[e[1]]
    BY DEF SentInv
  <2>4. CASE e[1] \in bumped
    BY <1>1, <2>1, <2>2, <2>3, <2>4
  <2>5. CASE e[1] \notin bumped
    BY <1>1, <2>1, <2>5 DEF SentInv
  <2> QED
    BY <2>4, <2>5
<1> QED
  BY <1>3 DEF SentInv, SerialIdentifiesContent

\* A payload is built from the register while nobody is in the lock.
LEMMA PayloadKeepsSent ==
  ASSUME IInv, SentInv, BuildPayload
  PROVE  SentInv'
<1>1. /\ Committed = [content |-> content, serial |-> serial]
      /\ Committed' = Committed
  BY DEF BuildPayload, Committed, disk, locals
<1>2. content \in Contents /\ serial \in Serials /\ Mirrored \subseteq Stores
  BY RequestAssumption DEF IInv, TypeOK
<1>3. \A e \in seen' : e \in seen \/ \E s \in Mirrored : e = <<s, serial[s], content[s]>>
  BY DEF BuildPayload
<1>4. seen' \subseteq Stores \X Nat \X Content
  BY <1>2, <1>3 DEF SentInv, Contents, Serials
<1>5. ASSUME NEW e \in seen'
      PROVE  /\ e[1] \in Mirrored
             /\ e[2] <= serial[e[1]]
             /\ e[2] = serial[e[1]] => e[3] = content[e[1]]
  <2>1. CASE e \in seen
    BY <1>1, <2>1 DEF SentInv
  <2>2. ASSUME NEW s \in Mirrored, e = <<s, serial[s], content[s]>>
        PROVE  /\ e[1] \in Mirrored
               /\ e[2] <= serial[e[1]]
               /\ e[2] = serial[e[1]] => e[3] = content[e[1]]
    <3>1. serial[s] \in Nat
      BY <1>2 DEF Serials
    <3> QED
      BY <2>2, <3>1
  <2> QED
    BY <1>3, <2>1, <2>2
<1>6. SerialIdentifiesContent'
  <2> SUFFICES ASSUME NEW a \in seen', NEW b \in seen', a[1] = b[1], a[2] = b[2]
               PROVE  a[3] = b[3]
    BY DEF SerialIdentifiesContent
  <2>1. CASE a \in seen /\ b \in seen
    BY <2>1 DEF SentInv, SerialIdentifiesContent
  <2>2. CASE a \notin seen \/ b \notin seen
    <3>1. ASSUME NEW e \in seen', e \notin seen PROVE e[2] = serial[e[1]]
      <4>1. PICK s \in Mirrored : e = <<s, serial[s], content[s]>>
        BY <1>3, <3>1
      <4> QED
        BY <4>1
    <3>2. a[2] = serial[a[1]] /\ b[2] = serial[b[1]]
      BY <2>2, <3>1
    <3> QED
      BY <1>5, <3>2
  <2> QED
    BY <2>1, <2>2
<1> QED
  BY <1>1, <1>4, <1>5, <1>6 DEF SentInv

\* build_payload and apply_change: two payloads with the same serial for a store
\* have the same content for it, for any threads and requests, as long as nothing
\* fails half-way.
THEOREM Versions ==
  ASSUME FaultKinds = {}
  PROVE  Spec => []SerialIdentifiesContent
<1>1. Init => SentInv
  BY DEF Init, SentInv, SerialIdentifiesContent
<1>2. IInv /\ Whole /\ SentInv /\ [Next]_vars => SentInv'
  <2> SUFFICES ASSUME IInv, Whole, SentInv, [Next]_vars PROVE SentInv'
    OBVIOUS
  <2>1. CASE BuildPayload
    BY <2>1, PayloadKeepsSent
  <2>2. CASE ~BuildPayload
    <3>1. UNCHANGED seen
      BY <2>2, OnlyPayloadsSend
    <3>2. CASE Register!Commit
      BY <3>1, <3>2, CommitKeepsSent
    <3>3. CASE UNCHANGED Register0
      BY <3>1, <3>3 DEF SentInv, SerialIdentifiesContent, Register0
    <3> QED
      BY <3>2, <3>3, RegisterStep
  <2> QED
    BY <2>1, <2>2
<1>3. SentInv => SerialIdentifiesContent
  BY DEF SentInv
<1> QED
  BY <1>1, <1>2, <1>3, Inductive, WholeInv, PTL DEF Spec

-----------------------------------------------------------------------------
(* The change history                                                      *)

\* The newest entry holds the register, also while a thread is at work.
LoggedInv ==
  logged # Absent => \A s \in Stores \ Unlisted : logged[s] = Committed.content[s]

\* Only record() writes the history.
LEMMA OnlyRecordLogs ==
  ASSUME [Next]_vars, \A t \in Threads : ~Record(t)
  PROVE  UNCHANGED logged
<1>1. ASSUME NEW t \in Threads, Step(t) PROVE UNCHANGED logged
  BY <1>1 DEF Step, SaveStore, RestoreStore, BumpSerial, WriteFile, ValidateOk,
              ValidateRejected, ReturnRejected, Prune, Service
<1>2. ASSUME NEW t \in Threads, Ask(t) \/ Abort(t) PROVE UNCHANGED logged
  BY <1>2 DEF Ask, Acquire, ServiceRoute, Abort
<1>3. CASE BuildPayload \/ DaemonDies \/ Respawn \/ Crash \/ Boot
  BY <1>3 DEF BuildPayload, DaemonDies, Respawn, Crash, Boot
<1>4. CASE UNCHANGED vars
  BY <1>4 DEF vars
<1> QED
  BY <1>1, <1>2, <1>3, <1>4 DEF Next

\* What record() skips as noise leaves every listed store as it was.
LEMMA RecordLogs ==
  ASSUME IInv, LoggedInv, NEW t \in Threads, Record(t)
  PROVE  LoggedInv'
<1>1. pc[t] \in InLock /\ saves[t] = {}
  BY DEF Record, InLock
<1>2. /\ Committed = snap[t]
      /\ Committed' = [content |-> content, serial |-> serial]
  BY <1>1, ReleasePublishes DEF Record, disk
<1>3. CASE IsNoise(t)
  BY <1>2, <1>3 DEF Record, IsNoise, LoggedInv
<1>4. CASE ~IsNoise(t)
  BY <1>2, <1>4 DEF Record, LoggedInv
<1> QED
  BY <1>3, <1>4

\* changelog.record: once there is an entry, the newest one holds every listed
\* store as it is, however changes, rejections and re-renders follow each other.
THEOREM HistoryCurrent ==
  ASSUME FaultKinds = {}
  PROVE  Spec => []ChangelogCurrent
<1>1. Init => LoggedInv
  BY DEF Init, LoggedInv
<1>2. IInv /\ Whole /\ LoggedInv /\ [Next]_vars => LoggedInv'
  <2> SUFFICES ASSUME IInv, Whole, LoggedInv, [Next]_vars PROVE LoggedInv'
    OBVIOUS
  <2>1. CASE \E t \in Threads : Record(t)
    BY <2>1, RecordLogs
  <2>2. CASE \A t \in Threads : ~Record(t)
    BY <2>2, OnlyRecordLogs, OnlyRecordCommits DEF LoggedInv, Register0
  <2> QED
    BY <2>1, <2>2
<1>3. LoggedInv => ChangelogCurrent
  BY DEF LoggedInv, ChangelogCurrent, Committed
<1> QED
  BY <1>1, <1>2, <1>3, Inductive, WholeInv, PTL DEF Spec

-----------------------------------------------------------------------------
(***************************************************************************)
(* 3. The running dnsmasq catches up with the files on disk, although      *)
(* reloads and restarts are done outside STORE_LOCK and in any order:      *)
(* every file it has not loaded is owed to it by a thread that has yet to  *)
(* act.  This needs dnsmasq to die with the app: where it outlives a       *)
(* crash, the debt is forgotten with the thread that had it.               *)
(***************************************************************************)

-----------------------------------------------------------------------------
(* The invariant                                                           *)

\* The action a thread has settled on and not yet done.
Owes(t, a) == pc[t] \in {"write", "bump", "service"} /\ act[t] = a

\* An action that makes dnsmasq load this file.
Loads(a, f) == a = "restart" \/ (a = "reload" /\ f \in HupOnly)

Owed(f) == \E t \in Threads, a \in {"reload", "restart"} : Loads(a, f) /\ Owes(t, a)

\* A file about to be replaced by another content is in its thread's debt.
WritesOwed == \A t \in Threads : pc[t] = "write" =>
                \A f \in writes[t] : conf[f] # Rendered[f] => Loads(act[t], f)

DriftOwed == up /\ ~missed => \A f \in Files : running[f] # conf[f] => Owed(f)

DownWithApp == ~alive => ~up

DaemonInv == WritesOwed /\ DriftOwed /\ DownWithApp

\* The child of a supervisor dies with it.
DiesWithApp == Supervise \/ "crash" \notin FaultKinds

LEMMA InitDaemon == Init => DaemonInv
BY DEF Init, DaemonInv, WritesOwed, DriftOwed, DownWithApp

-----------------------------------------------------------------------------
(* Steps that leave the daemon and the files alone                         *)

\* A debt lasts as long as the thread goes on with it.
LEMMA DebtStays ==
  ASSUME NEW f,
         \A t \in Threads, a \in {"reload", "restart"} :
           Owes(t, a) => Owes(t, a)' \/ Owes(t, "restart")'
  PROVE  Owed(f) => Owed(f)'
BY DEF Owed, Loads

\* Nobody else is writing files while a thread is in the lock.
LEMMA OneWriter ==
  ASSUME IInv, NEW t \in Threads, pc[t] \in InLock, NEW u \in Threads, u # t
  PROVE  pc[u] # "write"
BY DEF IInv, TxnInv, Txn, InLock

\* Neither the files nor the daemon move, and every debt stays.
LEMMA Quiet ==
  ASSUME IInv, DaemonInv, UNCHANGED <<conf, daemon>>, alive' = alive, WritesOwed',
         \A t \in Threads, a \in {"reload", "restart"} : Owes(t, a) => Owes(t, a)'
  PROVE  DaemonInv'
BY DebtStays DEF DaemonInv, DriftOwed, DownWithApp, daemon

LEMMA AcquireDaemon ==
  ASSUME IInv, DaemonInv, NEW t \in Threads, NEW r, Acquire(t, r)
  PROVE  DaemonInv'
<1> USE DEF Acquire, disk, daemon, hist
<1>1. pc' = [pc EXCEPT ![t] = "mutate"] /\ pc[t] = "idle" /\ pc \in [Threads -> Steps]
  BY DEF IInv, TypeOK, Goto
<1>2. WritesOwed'
  BY <1>1 DEF DaemonInv, WritesOwed, Rendered
<1>3. \A u \in Threads, a \in {"reload", "restart"} : Owes(u, a) => Owes(u, a)'
  BY <1>1 DEF Owes
<1> QED
  BY <1>2, <1>3, Quiet

\* The steps before the files are written, and those that leave without.
LEMMA EarlyDaemon ==
  ASSUME IInv, DaemonInv, NEW t \in Threads, pc[t] \in {"mutate", "restore"},
         pc' \in [Threads -> Steps], pc'[t] # "write",
         \A u \in Threads \ {t} : pc'[u] = pc[u],
         UNCHANGED <<conf, act, daemon>>, alive' = alive
  PROVE  DaemonInv'
<1>1. WritesOwed'
  BY OneWriter DEF InLock, WritesOwed
<1>2. \A u \in Threads, a \in {"reload", "restart"} : Owes(u, a) => Owes(u, a)'
  BY DEF Owes
<1> QED
  BY <1>1, <1>2, Quiet

LEMMA SaveStoreDaemon ==
  ASSUME IInv, DaemonInv, NEW t \in Threads, NEW s \in Stores,
         SaveStore(t, s) \/ RestoreStore(t, s)
  PROVE  DaemonInv'
BY EarlyDaemon DEF SaveStore, RestoreStore, disk, daemon, hist, IInv, TypeOK

LEMMA RejectedDaemon ==
  ASSUME IInv, DaemonInv, NEW t \in Threads, ValidateRejected(t) \/ ReturnRejected(t)
  PROVE  DaemonInv'
<1>1. /\ pc[t] \in {"mutate", "restore"}
      /\ pc' = [pc EXCEPT ![t] = "restore"] \/ pc' = [pc EXCEPT ![t] = "idle"]
      /\ UNCHANGED <<conf, act, daemon>> /\ alive' = alive
  BY DEF ValidateRejected, ReturnRejected, Goto, disk, hist
<1>2. /\ pc' \in [Threads -> Steps] /\ pc'[t] # "write"
      /\ \A u \in Threads \ {t} : pc'[u] = pc[u]
  BY <1>1 DEF IInv, TypeOK, Steps
<1> QED
  BY <1>1, <1>2, EarlyDaemon

-----------------------------------------------------------------------------
(* The steps that write files                                              *)

\* diff_render settles on an action that loads every file it finds changed.
LEMMA ValidateOkDaemon ==
  ASSUME IInv, DaemonInv, NEW t \in Threads, ValidateOk(t)
  PROVE  DaemonInv'
<1> USE DEF ValidateOk, disk, daemon, hist
<1>1. /\ pc[t] = "mutate" /\ pc'[t] = "write" /\ \A u \in Threads \ {t} : pc'[u] = pc[u]
      /\ \A u \in Threads \ {t} : act'[u] = act[u] /\ writes'[u] = writes[u]
      /\ writes'[t] = {f \in Files : Rendered[f] # Absent}
      /\ act'[t] = IF req[t].force THEN "restart" ELSE DiffRender(Changed)
  BY DEF IInv, TypeOK, Goto
<1>2. Rendered' = Rendered
  BY DEF Rendered
<1>3. \A f \in writes'[t] : conf[f] # Rendered[f] => Loads(act'[t], f)
  BY <1>1 DEF DiffRender, Changed, Loads
<1>4. WritesOwed'
  <2> SUFFICES ASSUME NEW u \in Threads, pc'[u] = "write", NEW f \in writes'[u],
                      conf[f] # Rendered[f]
               PROVE  Loads(act'[u], f)
    BY <1>2 DEF WritesOwed, Loads
  <2>1. u = t
    BY <1>1, OneWriter DEF InLock
  <2> QED
    BY <1>3, <2>1
<1>5. \A u \in Threads, a \in {"reload", "restart"} : Owes(u, a) => Owes(u, a)'
  BY <1>1 DEF Owes
<1> QED
  BY <1>4, <1>5, Quiet

LEMMA WriteFileDaemon ==
  ASSUME IInv, DaemonInv, NEW t \in Threads, NEW f \in Files, WriteFile(t, f)
  PROVE  DaemonInv'
<1> USE DEF WriteFile, daemon, hist
<1>1. /\ conf'[f] = Rendered[f] /\ \A g \in Files \ {f} : conf'[g] = conf[g]
      /\ writes'[t] = writes[t] \ {f} /\ \A u \in Threads \ {t} : writes'[u] = writes[u]
      /\ writes[t] \subseteq Files
  BY DEF IInv, TypeOK, Rendering
<1>2. Rendered' = Rendered
  BY DEF Rendered
<1>3. WritesOwed'
  <2> SUFFICES ASSUME NEW u \in Threads, pc[u] = "write", NEW g \in writes'[u],
                      conf'[g] # Rendered[g]
               PROVE  Loads(act[u], g)
    BY <1>2 DEF WritesOwed, Loads
  <2>1. u = t
    BY OneWriter DEF InLock
  <2> QED
    BY <1>1, <2>1 DEF DaemonInv, WritesOwed
<1>4. ASSUME NEW g \in Files PROVE Owed(g) => Owed(g)'
  BY DebtStays DEF Owes
<1>5. conf[f] # Rendered[f] => Owed(f)
  BY DEF DaemonInv, WritesOwed, Owed, Owes, Loads
<1>6. DriftOwed'
  BY <1>1, <1>4, <1>5 DEF DaemonInv, DriftOwed
<1> QED
  BY <1>3, <1>6 DEF DaemonInv, DownWithApp

\* A removed file is owed a restart from then on.
LEMMA PruneDaemon ==
  ASSUME IInv, DaemonInv, NEW t \in Threads, Prune(t)
  PROVE  DaemonInv'
<1> USE DEF Prune, daemon
<1>1. /\ pc'[t] \in {"bump", "service"} /\ \A u \in Threads \ {t} : pc'[u] = pc[u]
      /\ act'[t] = PrunedAction(act[t]) /\ \A u \in Threads \ {t} : act'[u] = act[u]
  BY DEF IInv, TypeOK, Goto
<1>2. \A f \in Files : conf'[f] = conf[f] \/ f \in Strays
  OBVIOUS
<1>3. WritesOwed'
  BY <1>1, OneWriter DEF WritesOwed, InLock
<1>4. ASSUME NEW f \in Files PROVE Owed(f) => Owed(f)'
  BY <1>1, DebtStays DEF Owes, PrunedAction
<1>5. ASSUME NEW f \in Strays PROVE Owed(f)'
  BY <1>1, <1>5 DEF PrunedAction, Owed, Owes, Loads
<1>6. DriftOwed'
  BY <1>2, <1>4, <1>5 DEF DaemonInv, DriftOwed
<1> QED
  BY <1>3, <1>6 DEF DaemonInv, DownWithApp

LEMMA BumpDaemon ==
  ASSUME IInv, DaemonInv, NEW t \in Threads,
         Record(t) \/ \E s \in Stores : BumpSerial(t, s)
  PROVE  DaemonInv'
<1>1. /\ pc[t] = "bump" /\ pc'[t] \in {"bump", "service"}
      /\ \A u \in Threads \ {t} : pc'[u] = pc[u]
      /\ UNCHANGED <<conf, act, daemon>> /\ alive' = alive
  BY DEF Record, BumpSerial, Goto, disk, hist, IInv, TypeOK
<1>2. WritesOwed'
  BY <1>1, OneWriter DEF WritesOwed, InLock
<1>3. \A u \in Threads, a \in {"reload", "restart"} : Owes(u, a) => Owes(u, a)'
  BY <1>1 DEF Owes
<1> QED
  BY <1>1, <1>2, <1>3, Quiet

-----------------------------------------------------------------------------
(* The daemon's own steps                                                  *)

\* A start that works leaves nothing owed.
LEMMA StartSettles ==
  ASSUME StartDaemon, UNCHANGED conf
  PROVE  DriftOwed'
BY DEF StartDaemon, DriftOwed

\* A thread that acts loses its debt, and has loaded what it owed.
LEMMA ServiceDaemon ==
  ASSUME IInv, DaemonInv, NEW t \in Threads, Service(t)
  PROVE  DaemonInv'
<1> USE DEF Service, disk, hist
<1>1. /\ pc[t] = "service" /\ pc'[t] = "idle" /\ \A u \in Threads \ {t} : pc'[u] = pc[u]
      /\ \A u \in Threads \ {t} : act'[u] = act[u]
      /\ UNCHANGED <<conf, content, writes, alive>>
  BY DEF IInv, TypeOK, Goto
<1>2. alive
  BY <1>1 DEF IInv, TxnInv, Txn
<1>3. WritesOwed'
  BY <1>1 DEF DaemonInv, WritesOwed, Rendered
<1>4. ASSUME NEW u \in Threads \ {t}, NEW a PROVE Owes(u, a) => Owes(u, a)'
  BY <1>1 DEF Owes
<1>5. CASE act[t] = "restart"
  BY <1>1, <1>2, <1>3, <1>5, StartSettles DEF DaemonInv, DownWithApp
<1>6. CASE act[t] = "reload"
  <2>1. Hup
    BY <1>6
  <2>2. CASE up
    <3>1. /\ UNCHANGED <<up, missed>>
          /\ \A f \in HupOnly \cap Files : running'[f] = conf[f]
          /\ \A f \in Files \ HupOnly : running'[f] = running[f]
      BY <2>1, <2>2 DEF Hup
    <3>2. ASSUME NEW f \in Files, up, ~missed, running'[f] # conf[f] PROVE Owed(f)'
      <4>1. f \notin HupOnly /\ running[f] # conf[f]
        BY <3>1, <3>2
      <4>2. PICK u \in Threads : Owes(u, "restart")
        BY <3>2, <4>1 DEF DaemonInv, DriftOwed, Owed, Loads
      <4>3. u # t
        BY <1>6, <4>2 DEF Owes
      <4> QED
        BY <1>4, <4>2, <4>3 DEF Owed, Loads
    <3>3. DriftOwed'
      BY <1>1, <3>1, <3>2 DEF DriftOwed
    <3> QED
      BY <1>1, <1>2, <1>3, <3>3 DEF DaemonInv, DownWithApp
  <2>3. CASE ~up
    <3>1. StartDaemon \/ UNCHANGED daemon
      BY <2>1, <2>3 DEF Hup
    <3>2. DriftOwed'
      BY <1>1, <2>3, <3>1, StartSettles DEF DriftOwed, daemon
    <3> QED
      BY <1>1, <1>2, <1>3, <3>2 DEF DaemonInv, DownWithApp
  <2> QED
    BY <2>2, <2>3
<1>7. CASE act[t] = "none"
  <2>1. UNCHANGED daemon
    BY <1>7
  <2>2. \A u \in Threads, a \in {"reload", "restart"} : Owes(u, a) => Owes(u, a)'
    BY <1>4, <1>7 DEF Owes
  <2> QED
    BY <1>1, <1>3, <2>1, <2>2, Quiet
<1> QED
  BY <1>5, <1>6, <1>7 DEF IInv, TypeOK

\* A button is one more debt.
LEMMA ServiceRouteDaemon ==
  ASSUME IInv, DaemonInv, NEW t \in Threads, NEW a \in {"reload", "restart"},
         ServiceRoute(t, a)
  PROVE  DaemonInv'
<1> USE DEF ServiceRoute, disk, hist
<1>1. /\ pc[t] = "idle" /\ pc'[t] = "service" /\ \A u \in Threads \ {t} : pc'[u] = pc[u]
      /\ \A u \in Threads \ {t} : act'[u] = act[u]
  BY DEF IInv, TypeOK, Goto
<1>2. WritesOwed'
  BY <1>1 DEF DaemonInv, WritesOwed, Rendered
<1>3. \A u \in Threads, b \in {"reload", "restart"} : Owes(u, b) => Owes(u, b)'
  BY <1>1 DEF Owes
<1> QED
  BY <1>2, <1>3, Quiet

LEMMA DeathAndRespawn ==
  ASSUME IInv, DaemonInv, DaemonDies \/ Respawn
  PROVE  DaemonInv'
<1>1. /\ UNCHANGED <<conf, content, writes, pc, act, alive>>
      /\ WritesOwed'
  BY DEF DaemonDies, Respawn, disk, locals, hist, DaemonInv, WritesOwed, Rendered
<1>2. CASE DaemonDies
  BY <1>1, <1>2 DEF DaemonDies, DaemonInv, DriftOwed, DownWithApp
<1>3. CASE Respawn
  BY <1>1, <1>3, StartSettles DEF Respawn, DaemonInv, DownWithApp
<1> QED
  BY <1>2, <1>3

LEMMA PayloadDaemon ==
  ASSUME IInv, DaemonInv, BuildPayload
  PROVE  DaemonInv'
<1>1. UNCHANGED <<disk, locals, daemon, alive>>
  BY DEF BuildPayload, hist
<1>2. WritesOwed'
  BY <1>1 DEF DaemonInv, WritesOwed, Rendered, disk, locals
<1>3. \A u \in Threads, b \in {"reload", "restart"} : Owes(u, b) => Owes(u, b)'
  BY <1>1 DEF Owes, locals
<1> QED
  BY <1>1, <1>2, <1>3, Quiet DEF disk

-----------------------------------------------------------------------------
(* The faults                                                              *)

\* An apply that raises after it has begun to write is on record as missed.
LEMMA AbortDaemon ==
  ASSUME IInv, DaemonInv, NEW t \in Threads, Abort(t)
  PROVE  DaemonInv'
<1> USE DEF Abort, disk
<1>1. /\ pc[t] \in InLock /\ pc'[t] = "idle" /\ \A u \in Threads \ {t} : pc'[u] = pc[u]
      /\ \A u \in Threads \ {t} : act'[u] = act[u]
      /\ UNCHANGED <<conf, content, up, running, alive>>
  BY DEF IInv, TypeOK, Goto, InLock
<1>2. WritesOwed'
  BY <1>1, OneWriter DEF WritesOwed
<1>3. DriftOwed'
  <2>1. CASE pc[t] \in {"write", "bump"}
    <3>1. missed' = TRUE
      BY <2>1
    <3> QED
      BY <3>1 DEF DriftOwed
  <2>2. CASE pc[t] \notin {"write", "bump"}
    <3>1. missed' = missed
      BY <2>2 DEF IInv, TypeOK
    <3>2. \A u \in Threads, a \in {"reload", "restart"} : Owes(u, a) => Owes(u, a)'
      BY <1>1, <2>2 DEF Owes, InLock
    <3>3. ASSUME NEW f \in Files PROVE Owed(f) => Owed(f)'
      BY <3>2, DebtStays
    <3> QED
      BY <1>1, <3>1, <3>3 DEF DaemonInv, DriftOwed
  <2> QED
    BY <2>1, <2>2
<1> QED
  BY <1>1, <1>2, <1>3 DEF DaemonInv, DownWithApp

LEMMA CrashDaemon ==
  ASSUME DiesWithApp, IInv, DaemonInv, Crash
  PROVE  DaemonInv'
<1>1. up' = FALSE
  BY DEF Crash, DiesWithApp
<1>2. \A t \in Threads : pc'[t] = "idle"
  BY DEF Crash
<1> QED
  BY <1>1, <1>2 DEF DaemonInv, WritesOwed, DriftOwed, DownWithApp

LEMMA BootDaemon ==
  ASSUME IInv, DaemonInv, Boot
  PROVE  DaemonInv'
<1>1. ~alive /\ ~up /\ alive' = TRUE
  BY DEF Boot, DaemonInv, DownWithApp
<1>2. \A t \in Threads : pc'[t] = "idle"
  BY <1>1 DEF Boot, locals, IInv, TxnInv, Txn
<1>3. up' => running' = conf'
  BY <1>1 DEF Boot, BootFiles, daemon
<1> QED
  BY <1>1, <1>2, <1>3 DEF DaemonInv, WritesOwed, DriftOwed, DownWithApp

-----------------------------------------------------------------------------
(* The theorem                                                             *)

LEMMA NextDaemon == DiesWithApp /\ IInv /\ DaemonInv /\ [Next]_vars => DaemonInv'
<1> SUFFICES ASSUME DiesWithApp, IInv, DaemonInv, [Next]_vars PROVE DaemonInv'
  OBVIOUS
<1>1. ASSUME NEW t \in Threads, Step(t) PROVE DaemonInv'
  BY <1>1, SaveStoreDaemon, RejectedDaemon, ValidateOkDaemon, WriteFileDaemon, PruneDaemon,
     BumpDaemon, ServiceDaemon DEF Step
<1>2. ASSUME NEW t \in Threads, Ask(t) PROVE DaemonInv'
  BY <1>2, AcquireDaemon, ServiceRouteDaemon DEF Ask
<1>3. ASSUME NEW t \in Threads, Abort(t) PROVE DaemonInv'
  BY <1>3, AbortDaemon
<1>4. CASE BuildPayload \/ DaemonDies \/ Respawn \/ Crash \/ Boot
  BY <1>4, PayloadDaemon, DeathAndRespawn, CrashDaemon, BootDaemon
<1>5. CASE UNCHANGED vars
  <2>1. UNCHANGED <<disk, locals, daemon, hist>>
    BY <1>5 DEF vars
  <2>2. WritesOwed'
    BY <2>1 DEF DaemonInv, WritesOwed, Rendered, disk, locals
  <2>3. \A u \in Threads, b \in {"reload", "restart"} : Owes(u, b) => Owes(u, b)'
    BY <2>1 DEF Owes, locals
  <2> QED
    BY <2>1, <2>2, <2>3, Quiet DEF disk, hist
<1> QED
  BY <1>1, <1>2, <1>3, <1>4, <1>5 DEF Next

\* apply_change and the daemon: when every thread has finished, a dnsmasq that is
\* alive runs the files on disk, for any number of threads, whatever dies or
\* raises, provided dnsmasq does not outlive the app.
THEOREM DaemonCurrent ==
  ASSUME DiesWithApp
  PROVE  Spec => []IdleMeansCurrent
<1>1. Init => DaemonInv
  BY InitDaemon
<1>2. IInv /\ DaemonInv /\ [Next]_vars => DaemonInv'
  BY NextDaemon
<1>3. IInv /\ DaemonInv => IdleMeansCurrent
  <2> SUFFICES ASSUME IInv, DaemonInv, \A t \in Threads : pc[t] = "idle", up, ~missed
               PROVE  running = conf
    BY DEF IdleMeansCurrent
  <2>1. \A f \in Files : running[f] = conf[f]
    BY DEF DaemonInv, DriftOwed, Owed, Owes
  <2> QED
    BY <2>1 DEF IInv, TypeOK, Rendering
<1> QED
  BY <1>1, <1>2, <1>3, Inductive, PTL DEF Spec
=============================================================================
