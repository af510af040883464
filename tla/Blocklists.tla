----------------------------- MODULE Blocklists -----------------------------
(***************************************************************************)
(* Blocklist subscriptions (dnsmaqmgr/blocklists.py).  A list's record is  *)
(* in the blocklists store; the domains fetched for it are in a file of    *)
(* its own, which the renderer reads (render_blocklist) and neither        *)
(* STORE_LOCK nor the undo of apply_change covers.  refresh_list replaces  *)
(* that file, applies, and puts the previous file back when dnsmasq        *)
(* rejects the rendering; the ticker, the routes and a restored backup     *)
(* refresh lists from threads of their own.                                *)
(*                                                                         *)
(* One apply_change is one step: ApplyChange.tla shows that it is atomic.  *)
(***************************************************************************)
EXTENDS Naturals, FiniteSets

CONSTANTS
  Lists, Threads,
  Ticker,        \* the thread that calls refresh_due every few minutes
  Texts,         \* what a fetch may bring, parsed
  Bad,           \* the texts whose rendering dnsmasq --test rejects
  None,          \* no domains file; a fetch that fails; no rendered file
  MaxEdits       \* bound: edits of the lists and of what is published for them

ASSUME TextAssumption == None \notin Texts /\ Bad \subseteq Texts
ASSUME TickerAssumption == Ticker \in Threads
ASSUME EditsAssumption == MaxEdits \in Nat

VARIABLES
  list,     \* the record of each list: not yet made, on, off (not enabled), gone
  due,      \* its refresh interval has elapsed since its last attempt
  file,     \* its domains file
  conf,     \* its rendered file: the domains in it, "empty" before a first fetch
  source,   \* what its URL serves now, None when it cannot be fetched
  stage, at,     \* per thread: where it is, and with which list
  got, prev,     \* per thread: the domains it fetched, the file it found
  held,     \* per thread: the record an update is built from
  todo,     \* per thread: lists a pass of refresh_due has still to refresh
  disturbed,   \* history: threads whose list somebody else has rendered since they
               \* read its file, or that read one nobody had accepted yet
  spoiled,     \* history: such a thread has put its previous file back, or the
               \* file of a deleted list was removed when the list was on again
  edits        \* how many of the things MaxEdits bounds have happened

stores  == <<list, due>>
locals  == <<at, got, prev, held, todo>>
history == <<disturbed, spoiled>>
listVars    == <<stores, file, conf, source, stage, locals, history, edits>>

Present(l) == list[l] \in {"on", "off"}
Nothing == [state |-> "off", due |-> FALSE]

\* The app starts with lists that are new, or accepted some time ago.
ListsInit ==
  /\ file \in [Lists -> (Texts \ Bad) \cup {None}]
  /\ list = [l \in Lists |-> IF file[l] = None THEN "unmade" ELSE "on"]
  /\ conf = file /\ due = [l \in Lists |-> FALSE]
  /\ source \in [Lists -> Texts \ Bad]
  /\ stage = [t \in Threads |-> "idle"] /\ at = [t \in Threads |-> None]
  /\ got = [t \in Threads |-> None] /\ prev = [t \in Threads |-> None]
  /\ held = [t \in Threads |-> Nothing] /\ todo = [t \in Threads |-> {}]
  /\ disturbed = {} /\ spoiled = FALSE /\ edits = 0

-----------------------------------------------------------------------------
(* The pipeline                                                            *)

\* render_all of a choice of lists, with the domains files as they are now.
Rendered(choice) ==
  [l \in Lists |-> IF choice[l] # "on" THEN None
                   ELSE IF file[l] = None THEN "empty" ELSE file[l]]

\* Threads that have a domains file in hand: between their look at it and the end.
Pending == {u \in Threads : stage[u] \in {"write", "apply", "putback"}}

\* The domains file is one that somebody has written and nobody has accepted.
InDoubt(l) == \E u \in Threads : at[u] = l /\ stage[u] \in {"apply", "putback"}

\* apply_change: the lists and their attempts become these, and all is rendered.
Accepted(t, choice, attempts) ==
  /\ \A l \in Lists : Rendered(choice)[l] \notin Bad
  /\ list' = choice /\ due' = attempts /\ conf' = Rendered(choice)
  /\ disturbed' = disturbed \cup (Pending \ {t})
  /\ UNCHANGED <<file, spoiled>>

\* dnsmasq --test says no: the stores are put back, the rendered files not touched.
Rejected(choice) ==
  /\ \E l \in Lists : Rendered(choice)[l] \in Bad
  /\ UNCHANGED <<stores, file, conf, history>>

GoOn(t, step) == stage' = [stage EXCEPT ![t] = step]
Edited == edits < MaxEdits /\ edits' = edits + 1

\* The end of a request, or of one list in a pass of refresh_due.
Done(t) ==
  /\ GoOn(t, IF todo[t] = {} THEN "idle" ELSE "next")
  /\ at' = [at EXCEPT ![t] = None] /\ got' = [got EXCEPT ![t] = None]
  /\ prev' = [prev EXCEPT ![t] = None]

-----------------------------------------------------------------------------
(* refresh_list                                                            *)

\* The record is read and its URL fetched.  No domains is a failure as well.
Fetch(t, l) ==
  /\ at' = [at EXCEPT ![t] = l] /\ got' = [got EXCEPT ![t] = source[l]]
  /\ GoOn(t, IF source[l] = None THEN "note" ELSE "read")

ReadPrevious(t) ==
  /\ stage[t] = "read"
  /\ prev' = [prev EXCEPT ![t] = file[at[t]]]
  /\ GoOn(t, "write")
  /\ disturbed' = IF InDoubt(at[t]) THEN disturbed \cup {t} ELSE disturbed \ {t}
  /\ UNCHANGED <<stores, file, conf, source, at, got, held, todo, spoiled, edits>>

\* The domains file of a list is replaced or removed.
SetFile(t, text) == file' = [file EXCEPT ![at[t]] = text]

WriteFile(t) ==
  /\ stage[t] = "write" /\ SetFile(t, got[t]) /\ GoOn(t, "apply")
  /\ UNCHANGED <<stores, conf, source, locals, history, edits>>

\* The record says when a refresh was last tried, if there still is a record.
Attempted(l) == IF Present(l) THEN [due EXCEPT ![l] = FALSE] ELSE due

ApplyRefresh(t) ==
  /\ stage[t] = "apply"
  /\ \/ Accepted(t, list, Attempted(at[t])) /\ Done(t) /\ UNCHANGED <<held, todo>>
     \/ Rejected(list) /\ GoOn(t, "putback") /\ UNCHANGED locals
  /\ UNCHANGED <<source, edits>>

\* A mutant: the domains file is left as it is when dnsmasq rejects the list.
PutBackForgotten(t) ==
  /\ stage[t] = "putback" /\ GoOn(t, "note")
  /\ UNCHANGED <<stores, file, conf, source, locals, history, edits>>

PutBack(t) ==
  /\ stage[t] = "putback" /\ SetFile(t, prev[t]) /\ GoOn(t, "note")
  /\ spoiled' = (spoiled \/ t \in disturbed)
  /\ UNCHANGED <<stores, conf, source, locals, disturbed, edits>>

\* _note: the record says that the refresh failed, and when.
Note(t) ==
  /\ stage[t] = "note"
  /\ due' = Attempted(at[t]) /\ Done(t)
  /\ UNCHANGED <<list, file, conf, source, held, todo, history, edits>>

-----------------------------------------------------------------------------
(* What refreshes a list                                                   *)

Refresh(t, l) ==
  /\ t # Ticker /\ stage[t] = "idle" /\ Present(l) /\ Fetch(t, l)
  /\ UNCHANGED <<stores, file, conf, source, prev, held, todo, history, edits>>

\* A mutant: a list that has never been fetched is not due.
DueListsFetched == {l \in Lists : list[l] = "on" /\ due[l] /\ file[l] # None}

DueLists == {l \in Lists : list[l] = "on" /\ due[l]}

\* refresh_due: the lists that are on and due as the pass begins.
Pass(t) ==
  /\ t = Ticker /\ stage[t] = "idle" /\ DueLists # {}
  /\ todo' = [todo EXCEPT ![t] = DueLists] /\ GoOn(t, "next")
  /\ UNCHANGED <<stores, file, conf, source, at, got, prev, held, history, edits>>

\* The next list of the pass; one that is gone by now is passed over.
NextDue(t) ==
  /\ stage[t] = "next"
  /\ \E l \in todo[t] :
       /\ todo' = [todo EXCEPT ![t] = @ \ {l}]
       /\ \/ Present(l) /\ Fetch(t, l)
          \/ /\ ~Present(l) /\ UNCHANGED <<at, got>>
             /\ GoOn(t, IF todo[t] = {l} THEN "idle" ELSE "next")
  /\ UNCHANGED <<stores, file, conf, source, prev, held, history, edits>>

-----------------------------------------------------------------------------
(* The other routes                                                        *)

\* Subscribe: the record is applied and then refreshed by the same request.
Add(t, l) ==
  /\ t # Ticker /\ stage[t] = "idle" /\ list[l] = "unmade" /\ Edited
  /\ \E state \in {"on", "off"} :
       LET choice == [list EXCEPT ![l] = state] IN
       \/ /\ Accepted(t, choice, [due EXCEPT ![l] = TRUE]) /\ Fetch(t, l)
          /\ UNCHANGED <<prev, held, todo>>
       \/ Rejected(choice) /\ UNCHANGED <<stage, locals>>
  /\ UNCHANGED source

\* An update starts from the record as it is now ...
StartUpdate(t, l) ==
  /\ t # Ticker /\ stage[t] = "idle" /\ Present(l) /\ Edited
  /\ \E state \in {"on", "off"} :
       held' = [held EXCEPT ![t] = [state |-> state, due |-> due[l]]]
  /\ at' = [at EXCEPT ![t] = l] /\ GoOn(t, "update")
  /\ UNCHANGED <<stores, file, conf, source, got, prev, todo, history>>

\* ... and replaces whatever record there is when it has the lock.  A new URL is
\* fetched at once.
Update(t) ==
  /\ stage[t] = "update"
  /\ held' = [held EXCEPT ![t] = Nothing]
  /\ LET l == at[t]
         choice == IF Present(l) THEN [list EXCEPT ![l] = held[t].state] ELSE list
         attempts == IF Present(l) THEN [due EXCEPT ![l] = held[t].due] ELSE due
     IN \/ /\ Accepted(t, choice, attempts)
           /\ \/ Done(t)
              \/ Present(l) /\ Fetch(t, l) /\ UNCHANGED prev
        \/ Rejected(choice) /\ Done(t)
  /\ UNCHANGED <<source, todo, edits>>

\* Unsubscribe: the record goes, then the domains file.
Delete(t, l) ==
  /\ t # Ticker /\ stage[t] = "idle" /\ Present(l) /\ Edited
  /\ LET choice == [list EXCEPT ![l] = "gone"] IN
     \/ /\ Accepted(t, choice, [due EXCEPT ![l] = FALSE])
        /\ at' = [at EXCEPT ![t] = l] /\ GoOn(t, "remove")
        /\ UNCHANGED <<got, prev, held, todo>>
     \/ Rejected(choice) /\ UNCHANGED <<stage, locals>>
  /\ UNCHANGED source

RemoveFile(t) ==
  /\ stage[t] = "remove" /\ SetFile(t, None) /\ Done(t)
  /\ spoiled' = (spoiled \/ list[at[t]] = "on")
  /\ UNCHANGED <<stores, conf, source, held, todo, disturbed, edits>>

\* An edit of any other section renders the lists too, or is rejected with them.
OtherEdit(t) ==
  /\ t # Ticker /\ stage[t] = "idle"
  /\ Accepted(t, list, due) \/ Rejected(list)
  /\ UNCHANGED <<source, stage, locals, edits>>

\* A change is rolled back to a time when there were these lists.
Rollback(t) ==
  /\ t # Ticker /\ stage[t] = "idle" /\ Edited
  /\ \E choice \in [Lists -> {"unmade", "on", "off", "gone"}], attempts \in [Lists -> BOOLEAN] :
       /\ \A l \in Lists : (choice[l] = "unmade") <=> (list[l] = "unmade")
       /\ \A l \in Lists : attempts[l] => choice[l] \in {"on", "off"}
       /\ Accepted(t, choice, attempts) \/ Rejected(choice)
  /\ UNCHANGED <<source, stage, locals>>

\* A backup with these lists is restored: what a record says of its fetches is
\* reset, and a thread of its own runs refresh_due.
Restore(t) ==
  /\ t # Ticker /\ stage[t] = "idle" /\ Edited
  /\ \E saved \in SUBSET {l \in Lists : list[l] # "unmade"} :
       LET choice == [l \in Lists |-> IF l \in saved THEN "on"
                                      ELSE IF list[l] = "unmade" THEN "unmade" ELSE "gone"]
       IN \/ /\ Accepted(t, choice, [l \in Lists |-> l \in saved]) /\ saved # {}
             /\ todo' = [todo EXCEPT ![t] = saved] /\ GoOn(t, "next")
             /\ UNCHANGED <<at, got, prev, held>>
          \/ Rejected(choice) /\ UNCHANGED <<stage, locals>>
  /\ UNCHANGED source

\* Time passes until the list is due again.
Elapse(l) ==
  /\ Present(l) /\ ~due[l]
  /\ due' = [due EXCEPT ![l] = TRUE]
  /\ held' = [t \in Threads |-> IF at[t] = l /\ stage[t] = "update"
                                THEN [held[t] EXCEPT !.due = TRUE] ELSE held[t]]
  /\ UNCHANGED <<list, file, conf, source, stage, at, got, prev, todo, history, edits>>

\* The publisher changes the list, or its server stops answering.
Publish(l) ==
  /\ Edited
  /\ \E text \in Texts \cup {None} : source' = [source EXCEPT ![l] = text]
  /\ UNCHANGED <<stores, file, conf, stage, locals, history>>

-----------------------------------------------------------------------------

Proceed(t) ==
  \/ ReadPrevious(t) \/ WriteFile(t) \/ ApplyRefresh(t) \/ PutBack(t) \/ Note(t)
  \/ NextDue(t) \/ Update(t) \/ RemoveFile(t)

ListsNext ==
  \/ \E t \in Threads :
       \/ Proceed(t) \/ Pass(t) \/ OtherEdit(t) \/ Rollback(t) \/ Restore(t)
       \/ \E l \in Lists : Refresh(t, l) \/ Add(t, l) \/ StartUpdate(t, l) \/ Delete(t, l)
  \/ \E l \in Lists : Elapse(l) \/ Publish(l)

ListsSpec == ListsInit /\ [][ListsNext]_listVars

\* A request goes on, the ticker ticks and time passes; nobody makes a user act.
FairListsSpec ==
  /\ ListsSpec
  /\ \A t \in Threads : WF_listVars(Proceed(t))
  /\ WF_listVars(Pass(Ticker))
  /\ \A l \in Lists : WF_listVars(Elapse(l))

-----------------------------------------------------------------------------
(* Properties                                                              *)

ListsTypeOK ==
  /\ list \in [Lists -> {"unmade", "on", "off", "gone"}] /\ due \in [Lists -> BOOLEAN]
  /\ file \in [Lists -> Texts \cup {None}]
  /\ conf \in [Lists -> (Texts \ Bad) \cup {None, "empty"}]
  /\ source \in [Lists -> Texts \cup {None}]
  /\ stage \in [Threads -> {"idle", "read", "write", "apply", "putback", "note",
                         "next", "update", "remove"}]
  /\ at \in [Threads -> Lists \cup {None}]
  /\ got \in [Threads -> Texts \cup {None}] /\ prev \in [Threads -> Texts \cup {None}]
  /\ held \in [Threads -> [state : {"on", "off"}, due : BOOLEAN]]
  /\ todo \in [Threads -> SUBSET Lists]
  /\ disturbed \in SUBSET Threads /\ spoiled \in BOOLEAN /\ edits \in 0..MaxEdits

Quiet == \A t \in Threads : stage[t] \in {"idle", "next"}

\* Whenever no request is at work on a list, dnsmasq's files are the rendering of
\* the lists that are on and of their domains files, so every domains file in use
\* has been accepted and no edit of another section can be rejected on a list's
\* account.  The exceptions are a rejected refresh that puts its previous file back
\* after others have rendered its list, and a delete that removes the file of a list
\* which a rollback or a restore has meanwhile brought back.
QuietMeansRendered == Quiet /\ ~spoiled => conf = Rendered(list)

\* A list that is on and whose URL keeps serving an acceptable text comes to block
\* that text, whatever failed before: failed attempts are made again.
CatchesUp ==
  <>[](~spoiled /\ \A l \in Lists : list[l] = "on" => source[l] \in Texts \ Bad)
    => <>[](\A l \in Lists : list[l] = "on" => conf[l] = source[l])
=============================================================================
