------------------------------ MODULE History ------------------------------
(***************************************************************************)
(* Statistics kept over time (dnsmaqmgr/stats.py, core/history.py).  A     *)
(* tick turns dnsmasq's counters, which only grow until it restarts, into  *)
(* differences, stores a sample, and once a day folds the samples of past  *)
(* days into one row each before they are too old to keep.  It is a        *)
(* sequence of statements each committed by itself; the app, or the        *)
(* command line's history-tick, may die between any two of them, and the   *)
(* app may be off for days.                                                *)
(*                                                                         *)
(* Time is counted in slots, a few to the day.  A sample is the slot it    *)
(* was taken in, and a daily row is the set of samples it was folded from. *)
(***************************************************************************)
EXTENDS Integers, FiniteSets

CONSTANTS
  Tickers,       \* the app's thread, and the command line's history-tick
  Slots,         \* slots in a day
  RawDays,       \* HISTORY_RAW_DAYS
  DailyDays,     \* HISTORY_DAILY_DAYS
  LastSlot,      \* bound: time
  MaxAnswers,    \* bound: queries dnsmasq answers
  Scopes         \* the bounds of a behaviour, each its last slot, answers and tickers

ASSUME DaysAssumption == Slots \in Nat \ {0} /\ RawDays \in Nat \ {0, 1} /\ DailyDays \in Nat
ASSUME ScopesAssumption ==
  /\ LastSlot \in Nat /\ MaxAnswers \in Nat
  /\ \A s \in Scopes : /\ s.last \in 0..LastSlot /\ s.answers \in 0..MaxAnswers
                       /\ s.tickers \subseteq Tickers

Times == 0..LastSlot
Day(t) == t \div Slots
Days == 0..Day(LastSlot)
Never == -1

VARIABLES
  scope,         \* the bounds of this behaviour
  now,
  count,         \* dnsmasq's counter since it was started
  cursor,        \* stats_cursor: the counter as last seen, Never before the first
  raw,           \* the samples table
  daily,         \* the daily table: per day the samples in its row, none without
  marker,        \* meta last_rollup
  pc,            \* per ticker: the statement to come, idle when there is none
  begun,         \* per ticker: the slot its tick began in
  today,         \* per ticker: the day its fold is of, Never when it does not fold
  delta,         \* per ticker: what it has counted and not yet stored
  answered,      \* history: queries answered since the first look
  counted,       \* history: the sum of the differences stored
  taken,         \* history: the samples ever stored
  overlapped,    \* history: two ticks were under way at once
  lapsed,        \* history: RawDays began in a row without a fold in between
  squeezed       \* history: the size cap was hit

clock    == <<now, lapsed>>
counters == <<count, cursor, delta, answered, counted>>
tables   == <<raw, daily, marker, taken>>
vars     == <<scope, clock, counters, tables, pc, begun, today, overlapped, squeezed>>

Today == Day(now)

Init ==
  /\ scope \in Scopes
  /\ now = 0 /\ count = 0 /\ cursor = Never
  /\ raw = {} /\ daily = [d \in Days |-> {}] /\ marker = Never
  /\ pc = [p \in Tickers |-> "idle"] /\ delta = [p \in Tickers |-> 0]
  /\ today = [p \in Tickers |-> Never] /\ begun = [p \in Tickers |-> 0]
  /\ answered = 0 /\ counted = 0 /\ taken = {}
  /\ overlapped = FALSE /\ lapsed = FALSE /\ squeezed = FALSE

-----------------------------------------------------------------------------
(* The world                                                               *)

\* Time goes on, whether or not the app runs.  A tick lasts less than a slot, but
\* may run over midnight.
Wait ==
  /\ now < scope.last /\ now' = now + 1
  /\ \A p \in Tickers : pc[p] # "idle" => begun[p] = now
  /\ lapsed' = (lapsed \/ (Today' >= RawDays /\ Today' - marker >= RawDays))
  /\ UNCHANGED <<scope, counters, tables, pc, begun, today, overlapped, squeezed>>

Answer ==
  /\ answered < scope.answers /\ answered' = answered + 1
  /\ count' = count + 1
  /\ UNCHANGED <<scope, clock, cursor, delta, counted, tables, pc, begun, today, overlapped, squeezed>>

Restart ==
  /\ count > 0 /\ count' = 0
  /\ UNCHANGED <<scope, clock, cursor, delta, answered, counted, tables, pc, begun, today, overlapped, squeezed>>

\* The process dies, wherever it is.
Dies(p) ==
  /\ pc[p] # "idle" /\ pc' = [pc EXCEPT ![p] = "idle"]
  /\ delta' = [delta EXCEPT ![p] = 0] /\ today' = [today EXCEPT ![p] = Never]
  /\ UNCHANGED <<scope, clock, count, cursor, answered, counted, tables, begun, overlapped, squeezed>>

Goto(p, step) == pc' = [pc EXCEPT ![p] = step]

-----------------------------------------------------------------------------
(* collect_samples and _history_record                                     *)

Begin(p) ==
  /\ p \in scope.tickers /\ pc[p] = "idle" /\ Goto(p, "collect")
  /\ begun' = [begun EXCEPT ![p] = now]
  /\ overlapped' = (overlapped \/ \E q \in Tickers \ {p} : pc[q] # "idle")
  /\ UNCHANGED <<scope, clock, counters, tables, today, squeezed>>

\* What was counted since the cursor: all there is, after a restart.
Grown == IF cursor = Never THEN 0 ELSE IF count < cursor THEN count ELSE count - cursor

\* A mutant: the cursor follows when the sample is stored.
CollectOnly(p) ==
  /\ pc[p] = "collect" /\ Goto(p, "record")
  /\ \/ delta' = [delta EXCEPT ![p] = Grown]
        /\ cursor' = IF cursor = Never THEN count ELSE cursor
     \/ UNCHANGED <<delta, cursor>>
  /\ UNCHANGED <<scope, clock, count, answered, counted, tables, today, begun, overlapped, squeezed>>

\* The counters are read and the cursor moved; dnsmasq may not answer.
Collect(p) ==
  /\ pc[p] = "collect" /\ Goto(p, "record")
  /\ \/ delta' = [delta EXCEPT ![p] = Grown] /\ cursor' = count
     \/ UNCHANGED <<delta, cursor>>
  /\ UNCHANGED <<scope, clock, count, answered, counted, tables, today, begun, overlapped, squeezed>>

\* The sample is stored; an error is swallowed.
Record(p) ==
  /\ pc[p] = "record" /\ Goto(p, "prune")
  /\ \/ raw' = raw \cup {now} /\ taken' = taken \cup {now}
        /\ counted' = counted + delta[p]
     \/ UNCHANGED <<raw, taken, counted>>
  /\ delta' = [delta EXCEPT ![p] = 0]
  /\ UNCHANGED <<scope, clock, count, cursor, answered, daily, marker, today, begun, overlapped, squeezed>>

-----------------------------------------------------------------------------
(* _history_prune_raw, _history_maybe_rollup, _history_size_backstop       *)

\* A mutant: the cut is a day late.
KeptForLess(slots) == {t \in raw : t >= now - slots + Slots}

KeptFor(slots) == {t \in raw : t >= now - slots}

\* _history_prune_raw
Prune(p) ==
  /\ pc[p] = "prune" /\ Goto(p, "fold")
  /\ raw' = KeptFor(RawDays * Slots)
  /\ UNCHANGED <<scope, clock, counters, daily, marker, taken, today, begun, overlapped, squeezed>>

SamplesOf(d) == {t \in raw : Day(t) = d}

\* The upsert: every past day there are samples of.
Folded ==
  [d \in Days |-> IF d < Today /\ SamplesOf(d) # {} THEN SamplesOf(d) ELSE daily[d]]

\* A mutant: the day is marked first, and the process may die before it is folded.
FoldMarked(p) ==
  /\ pc[p] = "fold"
  /\ IF marker = Today THEN Goto(p, "backstop") /\ UNCHANGED <<daily, marker>>
     ELSE /\ marker' = Today
          /\ \/ Goto(p, "trim") /\ daily' = Folded
             \/ Goto(p, "idle") /\ UNCHANGED daily
  /\ today' = [today EXCEPT ![p] = Today]
  /\ UNCHANGED <<scope, clock, counters, raw, taken, begun, overlapped, squeezed>>

\* Nothing to do if today's fold is done, else the upsert.
Fold(p) ==
  /\ pc[p] = "fold"
  /\ IF marker = Today THEN Goto(p, "backstop") /\ UNCHANGED daily
     ELSE Goto(p, "trim") /\ daily' = Folded
  /\ today' = [today EXCEPT ![p] = Today]
  /\ UNCHANGED <<scope, clock, counters, raw, marker, taken, begun, overlapped, squeezed>>

\* The rows that are too old, and the samples.
Trim(p) ==
  /\ pc[p] = "trim" /\ Goto(p, "trim raw")
  /\ daily' = [d \in Days |-> IF d < Today - DailyDays THEN {} ELSE daily[d]]
  /\ UNCHANGED <<scope, clock, counters, raw, marker, taken, today, begun, overlapped, squeezed>>

TrimRaw(p) ==
  /\ pc[p] = "trim raw" /\ Goto(p, "mark")
  /\ raw' = KeptFor(RawDays * Slots)
  /\ UNCHANGED <<scope, clock, counters, daily, marker, taken, today, begun, overlapped, squeezed>>

Mark(p) ==
  /\ pc[p] = "mark" /\ Goto(p, "backstop") /\ marker' = today[p]
  /\ UNCHANGED <<scope, clock, counters, raw, daily, taken, today, begun, overlapped, squeezed>>

\* The file is below its cap, or the samples older than a day go.
Backstop(p) ==
  /\ pc[p] = "backstop" /\ Goto(p, "idle")
  /\ \/ UNCHANGED <<raw, squeezed>>
     \/ raw' = KeptFor(Slots) /\ squeezed' = TRUE
  /\ today' = [today EXCEPT ![p] = Never]
  /\ UNCHANGED <<scope, clock, counters, daily, marker, taken, begun, overlapped>>

-----------------------------------------------------------------------------

Next ==
  \/ Wait \/ Answer \/ Restart
  \/ \E p \in Tickers :
       \/ Begin(p) \/ Collect(p) \/ Record(p) \/ Prune(p) \/ Fold(p)
       \/ Trim(p) \/ TrimRaw(p) \/ Mark(p) \/ Backstop(p)
       \/ Dies(p)

Spec == Init /\ [][Next]_vars

-----------------------------------------------------------------------------
(* Properties                                                              *)

TypeOK ==
  /\ now \in Times /\ count \in 0..MaxAnswers /\ cursor \in Never..MaxAnswers
  /\ raw \subseteq taken /\ taken \subseteq Times /\ marker \in Never..Today
  /\ \A d \in Days : daily[d] \subseteq {t \in taken : Day(t) = d}
  /\ \A p \in Tickers : delta[p] \in 0..MaxAnswers /\ today[p] \in Never..Today

\* No query is counted twice, over restarts of dnsmasq and deaths of the app, as
\* long as no two ticks are under way at once.
NeverOvercounted == overlapped \/ counted <= answered

\* A sample is never dropped before its day has a row, wherever the ticks died,
\* unless the last completed fold is RawDays old.
FoldedBeforeGone ==
  \A t \in taken \ raw :
    lapsed \/ Day(t) < Today - DailyDays \/ daily[Day(t)] # {}

\* Once today's fold is done, the row of a day whose samples are all kept is made
\* of all of them.
WholeWhileKept ==
  marker = Today /\ ~squeezed =>
    \A d \in Days : Today - RawDays < d /\ d < Today =>
      daily[d] = {t \in taken : Day(t) = d}

\* _history_maybe_rollup "fold[s] whole prior days of raw into `daily`", and is
\* "idempotent (upsert)": a row does not lose what it was made of while it lasts.
RowsStayWhole ==
  [][\A d \in Days : daily'[d] # {} => daily[d] \subseteq daily'[d]]_vars
=============================================================================
