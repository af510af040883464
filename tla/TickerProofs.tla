---------------------------- MODULE TickerProofs -----------------------------
(***************************************************************************)
(* The invariants of what the statistics ticker drives: History, for any   *)
(* tickers, slots to a day, retention and bounds, and Blocklists, for any  *)
(* lists, threads and texts.                                               *)
(*                                                                         *)
(* Counting: while ticks take turns, what is stored, what one tick has in  *)
(* hand and what has grown since the cursor are together no more than what *)
(* was answered.                                                           *)
(*                                                                         *)
(* Folding: every sample of a day before the marker has its row, and after *)
(* its fold a tick knows as much of its own day.  A cut takes the samples  *)
(* of RawDays ago and before, all of them before the marker if a fold has  *)
(* been completed in that time; the backstop's cut, of a slot that may be  *)
(* the next day's, takes none of the day before the fold or later.         *)
(*                                                                         *)
(* Lists: a list whose file nobody has in doubt is rendered from it, and a *)
(* refresh that is not disturbed holds the file its list is rendered from. *)
(***************************************************************************)
EXTENDS History, Blocklists, TLAPS

Steps == {"idle", "collect", "record", "prune", "fold", "trim", "trim raw", "mark", "backstop"}

TableType ==
  /\ taken \subseteq 0..now /\ raw \subseteq taken
  /\ daily \in [Days -> SUBSET taken]
  /\ \A d \in Days : \A t \in daily[d] : Day(t) = d

CountType ==
  /\ count \in Nat /\ count <= answered
  /\ cursor \in Int /\ Never <= cursor /\ cursor <= answered
  /\ answered \in Nat /\ answered <= scope.answers /\ counted \in Nat
  /\ delta \in [Tickers -> Nat] /\ \A p \in Tickers : delta[p] <= answered

TickType ==
  /\ pc \in [Tickers -> Steps] /\ begun \in [Tickers -> Nat]
  /\ today \in [Tickers -> Int] /\ \A p \in Tickers : Never <= today[p] /\ today[p] <= Today
  /\ marker \in Int /\ Never <= marker /\ marker <= Today

TypeInv ==
  /\ scope \in Scopes /\ now \in Nat /\ now <= scope.last
  /\ overlapped \in BOOLEAN /\ lapsed \in BOOLEAN /\ squeezed \in BOOLEAN
  /\ TableType /\ CountType /\ TickType

CountInv ==
  /\ \A p \in Tickers : delta[p] # 0 => pc[p] = "record"
  /\ ~overlapped =>
       /\ \A p, q \in Tickers : pc[p] # "idle" /\ pc[q] # "idle" => p = q
       /\ counted + Grown <= answered
       /\ \A p \in Tickers : counted + delta[p] + Grown <= answered

-----------------------------------------------------------------------------
(* Days                                                                    *)

LEMMA DayBounds ==
  ASSUME NEW t \in Nat
  PROVE  Day(t) \in Nat /\ Day(t) * Slots <= t /\ t < (Day(t) + 1) * Slots
BY DaysAssumption DEF Day

LEMMA Below ==
  ASSUME NEW a \in Int, NEW b \in Int, a * Slots < b * Slots
  PROVE  a < b
<1> SUFFICES ASSUME b <= a PROVE FALSE
  OBVIOUS
<1>1. PICK k \in Nat : a = b + k
  OBVIOUS
<1>2. k * Slots >= 0
  BY DaysAssumption
<1>3. a * Slots = b * Slots + k * Slots
  BY <1>1, DaysAssumption
<1> QED  BY <1>2, <1>3, DaysAssumption

\* Some days of slots later it is as many days later.
LEMMA Later ==
  ASSUME NEW s \in Nat, NEW t \in Nat, NEW k \in Nat, s + k * Slots <= t
  PROVE  Day(s) + k <= Day(t)
<1>1. Day(s) \in Nat /\ Day(t) \in Nat /\ Day(s) * Slots <= s /\ t < (Day(t) + 1) * Slots
  BY DayBounds
<1>2. (Day(s) + k) * Slots = Day(s) * Slots + k * Slots
  BY <1>1, DaysAssumption
<1>3. (Day(s) + k) * Slots < (Day(t) + 1) * Slots
  BY <1>1, <1>2, DaysAssumption
<1>4. Day(s) + k < Day(t) + 1
  BY <1>1, <1>3, Below
<1> QED  BY <1>1, <1>4

LEMMA NotBefore ==
  ASSUME NEW s \in Nat, NEW t \in Nat, s <= t
  PROVE  Day(s) <= Day(t)
<1>1. s + 0 * Slots <= t
  BY DaysAssumption
<1>2. Day(s) + 0 <= Day(t)
  BY <1>1, Later
<1> QED  BY <1>2, DayBounds

LEMMA NextSlot ==
  ASSUME NEW t \in Nat
  PROVE  Day(t + 1) <= Day(t) + 1
<1>1. /\ Day(t) \in Nat /\ Day(t + 1) \in Nat
      /\ t < (Day(t) + 1) * Slots /\ Day(t + 1) * Slots <= t + 1
  BY DayBounds
<1>2. (Day(t) + 2) * Slots = (Day(t) + 1) * Slots + Slots
  BY <1>1, DaysAssumption
<1>3. (Day(t) + 1) * Slots \in Int /\ Day(t + 1) * Slots \in Int
  BY <1>1, DaysAssumption
<1>4. Day(t + 1) * Slots < (Day(t) + 2) * Slots
  BY <1>1, <1>2, <1>3, DaysAssumption
<1>5. Day(t + 1) < Day(t) + 2
  BY <1>1, <1>4, Below
<1> QED  BY <1>1, <1>5

LEMMA InDays ==
  ASSUME TypeInv, NEW t \in Nat, t <= now
  PROVE  Day(t) \in Days /\ Day(t) <= Today /\ Today \in Nat
<1>1. t <= LastSlot /\ LastSlot \in Nat /\ now \in Nat
  BY ScopesAssumption DEF TypeInv
<1>2. Day(t) <= Day(LastSlot) /\ Day(t) <= Day(now)
  BY <1>1, NotBefore
<1> QED  BY <1>1, <1>2, DayBounds DEF Days, Today

-----------------------------------------------------------------------------
(* Types                                                                   *)

LEMMA TypeInit == Init => TypeInv
<1> SUFFICES ASSUME Init PROVE TypeInv
  OBVIOUS
<1>1. Today \in Nat
  BY DayBounds DEF Init, Today
<1>2. 0 <= scope.last /\ 0 <= scope.answers
  BY ScopesAssumption DEF Init
<1>3. TableType
  BY DEF Init, TableType
<1>4. CountType
  BY <1>2 DEF Init, CountType, Never
<1>5. TickType
  BY <1>1 DEF Init, TickType, Steps, Never
<1> QED  BY <1>2, <1>3, <1>4, <1>5 DEF Init, TypeInv

LEMMA TodayType == TypeInv => Today \in Nat
BY DayBounds DEF TypeInv, Today

LEMMA GrownType == TypeInv => Grown \in Nat /\ Grown <= answered
BY DEF TypeInv, CountType, Grown, Never

LEMMA TablesKept ==
  ASSUME TableType, UNCHANGED <<now, raw, daily, taken>>
  PROVE  TableType'
BY DEF TableType

LEMMA CountsKept ==
  ASSUME CountType, UNCHANGED <<scope, counters>>
  PROVE  CountType'
BY DEF CountType, counters

LEMMA TicksMove ==
  ASSUME TickType, UNCHANGED <<now, begun, today, marker>>,
         NEW p \in Tickers, NEW step \in Steps, Goto(p, step)
  PROVE  TickType'
BY DEF TickType, Goto, Today

LEMMA TicksEnd ==
  ASSUME TickType, Today \in Nat, UNCHANGED <<now, begun, marker>>, NEW p \in Tickers,
         today' = [today EXCEPT ![p] = Never], pc' = [pc EXCEPT ![p] = "idle"]
  PROVE  TickType'
<1>1. Today' = Today
  BY DEF Today
<1>2. pc' \in [Tickers -> Steps] /\ today' \in [Tickers -> Int]
  <2>1. "idle" \in Steps /\ Never \in Int
    BY DEF Steps, Never
  <2> QED  BY <2>1 DEF TickType
<1>3. \A q \in Tickers : Never <= today'[q] /\ today'[q] <= Today
  BY DEF TickType, Never
<1> QED  BY <1>1, <1>2, <1>3 DEF TickType

LEMMA TypeWorld == ASSUME TypeInv, Wait \/ Answer \/ Restart PROVE TypeInv'
<1>1. CASE Wait
  <2>1. /\ now' = now + 1 /\ now' \in Nat /\ now' <= scope.last
        /\ UNCHANGED <<scope, counters, tables, pc, begun, today, overlapped, squeezed>>
        /\ lapsed' \in BOOLEAN
    <3>1. scope.last \in Int
      BY ScopesAssumption DEF TypeInv
    <3> QED  BY <1>1, <3>1 DEF Wait, TypeInv
  <2>2. Today \in Nat /\ Today' \in Nat /\ Today <= Today'
    BY <2>1, DayBounds, NotBefore DEF Today, TypeInv
  <2>3. TableType'
    BY <2>1 DEF TypeInv, TableType, tables
  <2>4. CountType'
    BY <2>1, CountsKept DEF TypeInv
  <2>5. TickType'
    BY <2>1, <2>2 DEF TypeInv, TickType, tables
  <2> QED  BY <2>1, <2>3, <2>4, <2>5 DEF TypeInv
<1>2. CASE Answer
  <2>1. scope.answers \in Int
    BY ScopesAssumption DEF TypeInv
  <2>2. CountType'
    BY <1>2, <2>1 DEF Answer, TypeInv, CountType
  <2>3. TableType' /\ TickType'
    BY <1>2 DEF Answer, TypeInv, TableType, TickType, clock, tables, Today
  <2> QED  BY <1>2, <2>2, <2>3 DEF Answer, TypeInv, clock
<1>3. CASE Restart
  <2>1. CountType'
    BY <1>3 DEF Restart, TypeInv, CountType
  <2>2. TableType' /\ TickType'
    BY <1>3 DEF Restart, TypeInv, TableType, TickType, clock, tables, Today
  <2> QED  BY <1>3, <2>1, <2>2 DEF Restart, TypeInv, clock
<1> QED  BY <1>1, <1>2, <1>3

LEMMA TypeTick ==
  ASSUME TypeInv, NEW p \in Tickers,
         Dies(p) \/ Begin(p) \/ Collect(p) \/ Record(p)
  PROVE  TypeInv'
<1>0. /\ Today \in Nat /\ Grown \in Nat /\ Grown <= answered
      /\ TableType /\ CountType /\ TickType
  BY TodayType, GrownType DEF TypeInv
<1>1. CASE Dies(p)
  <2>1. TableType'
    BY <1>0, <1>1, TablesKept DEF Dies, clock, tables
  <2>2. CountType'
    BY <1>0, <1>1 DEF Dies, CountType
  <2>3. TickType'
    BY <1>0, <1>1, TicksEnd DEF Dies, clock, tables
  <2> QED  BY <1>1, <2>1, <2>2, <2>3 DEF Dies, TypeInv, clock
<1>2. CASE Begin(p)
  <2>1. TableType' /\ CountType'
    BY <1>0, <1>2, TablesKept, CountsKept DEF Begin, clock, tables
  <2>2. TickType'
    BY <1>0, <1>2 DEF Begin, Goto, TickType, TypeInv, clock, tables, Today, Steps
  <2>3. overlapped' \in BOOLEAN
    BY <1>2 DEF Begin
  <2> QED  BY <1>2, <2>1, <2>2, <2>3 DEF Begin, TypeInv, clock
<1>3. CASE Collect(p)
  <2>1. TableType'
    BY <1>0, <1>3, TablesKept DEF Collect, clock, tables
  <2>2. CountType'
    BY <1>0, <1>3 DEF Collect, CountType, Never
  <2>3. TickType'
    BY <1>0, <1>3, TicksMove DEF Collect, clock, tables, Steps
  <2> QED  BY <1>3, <2>1, <2>2, <2>3 DEF Collect, TypeInv, clock
<1>4. CASE Record(p)
  <2>1. TableType'
    <3>1. /\ raw' \subseteq raw \cup {now} /\ taken \subseteq taken'
          /\ taken' \subseteq taken \cup {now} /\ raw' \subseteq taken'
          /\ now' = now /\ daily' = daily /\ now \in Nat
      BY <1>0, <1>4 DEF Record, TableType, TypeInv, clock
    <3>2. taken' \subseteq 0..now
      BY <1>0, <3>1 DEF TableType
    <3>3. daily \in [Days -> SUBSET taken']
      BY <1>0, <3>1 DEF TableType
    <3> QED  BY <1>0, <3>1, <3>2, <3>3 DEF TableType
  <2>2. CountType'
    BY <1>0, <1>4 DEF Record, CountType
  <2>3. TickType'
    BY <1>0, <1>4, TicksMove DEF Record, clock, Steps
  <2> QED  BY <1>4, <2>1, <2>2, <2>3 DEF Record, TypeInv, clock
<1> QED  BY <1>1, <1>2, <1>3, <1>4

LEMMA TypeFold ==
  ASSUME TypeInv, NEW p \in Tickers,
         Prune(p) \/ Fold(p) \/ Trim(p) \/ TrimRaw(p) \/ Mark(p) \/ Backstop(p)
  PROVE  TypeInv'
<1>0. Today \in Nat /\ TableType /\ CountType /\ TickType
  BY TodayType DEF TypeInv
<1>1. /\ UNCHANGED <<scope, clock, counters, overlapped, begun, taken>>
      /\ squeezed' \in BOOLEAN /\ raw' \subseteq raw
  BY DEF Prune, Fold, Trim, TrimRaw, Mark, Backstop, TypeInv, KeptFor
<1>2. CountType'
  BY <1>0, <1>1, CountsKept
<1>3. /\ daily' \in [Days -> SUBSET taken]
      /\ \A d \in Days : \A t \in daily'[d] : Day(t) = d
  <2>1. CASE daily' = daily
    BY <1>0, <2>1 DEF TableType
  <2>2. CASE daily' = Folded
    BY <1>0, <2>2 DEF Folded, SamplesOf, TableType
  <2>3. CASE Trim(p)
    BY <1>0, <2>3 DEF Trim, TableType
  <2> QED  BY <2>1, <2>2, <2>3 DEF Prune, Fold, TrimRaw, Mark, Backstop
<1>4. TableType'
  BY <1>0, <1>1, <1>3 DEF TableType, clock
<1>5. TickType'
  <2>1. CASE Prune(p) \/ Trim(p) \/ TrimRaw(p)
    BY <1>0, <2>1, TicksMove DEF Prune, Trim, TrimRaw, clock, Steps
  <2>2. CASE Fold(p)
    <3>1. PICK step \in Steps : pc' = [pc EXCEPT ![p] = step]
      BY <2>2 DEF Fold, Goto, Steps
    <3> QED  BY <1>0, <2>2, <3>1 DEF Fold, TickType, clock, Today, Never
  <2>3. CASE Mark(p)
    BY <1>0, <2>3 DEF Mark, Goto, TickType, clock, Today, Steps
  <2>4. CASE Backstop(p)
    BY <1>0, <2>4, TicksEnd DEF Backstop, Goto, clock
  <2> QED  BY <2>1, <2>2, <2>3, <2>4
<1> QED  BY <1>1, <1>2, <1>4, <1>5 DEF TypeInv, clock

LEMMA TypeStep == TypeInv /\ [Next]_vars => TypeInv'
<1> SUFFICES ASSUME TypeInv, [Next]_vars PROVE TypeInv'
  OBVIOUS
<1>1. CASE UNCHANGED vars
  BY <1>1 DEF vars, TypeInv, TableType, CountType, TickType, clock, counters, tables, Today
<1> QED  BY <1>1, TypeWorld, TypeTick, TypeFold DEF Next

\* Type correctness.
THEOREM TypeCorrect == Spec => []TypeOK
<1>1. TypeInv => TypeOK
  <2> SUFFICES ASSUME TypeInv PROVE TypeOK
    OBVIOUS
  <2>1. now \in Times /\ taken \subseteq Times
    BY ScopesAssumption DEF TypeInv, TableType, Times
  <2>2. answered <= MaxAnswers /\ MaxAnswers \in Nat
    BY ScopesAssumption DEF TypeInv, CountType, TickType
  <2>3. Today \in Nat
    BY DayBounds DEF TypeInv, CountType, TickType, Today
  <2>4. \A d \in Days : daily[d] \subseteq {t \in taken : Day(t) = d}
    BY DEF TypeInv, TableType
  <2>5. /\ count \in 0..MaxAnswers /\ cursor \in Never..MaxAnswers
        /\ raw \subseteq taken /\ marker \in Never..Today
    BY <2>2, <2>3 DEF TypeInv, TableType, CountType, TickType, Never
  <2>6. \A p \in Tickers : delta[p] \in 0..MaxAnswers /\ today[p] \in Never..Today
    BY <2>2, <2>3 DEF TypeInv, TableType, CountType, TickType, Never
  <2> QED  BY <2>1, <2>4, <2>5, <2>6 DEF TypeOK
<1> QED  BY <1>1, TypeInit, TypeStep, PTL DEF Spec

-----------------------------------------------------------------------------
(* Counting                                                                *)

LEMMA CountInit == Init => CountInv
BY DEF Init, CountInv, Grown, Never

LEMMA CountWorld == ASSUME TypeInv, CountInv, Wait \/ Answer \/ Restart PROVE CountInv'
<1>1. CASE Wait
  BY <1>1 DEF Wait, CountInv, Grown, counters
<1>2. CASE Answer
  <2>1. /\ Grown' <= Grown + 1 /\ Grown \in Nat /\ Grown' \in Nat /\ answered' = answered + 1
    BY <1>2 DEF Answer, Grown, TypeInv, CountType, TickType, Never
  <2>2. UNCHANGED <<counted, delta, pc, overlapped>>
    BY <1>2 DEF Answer
  <2>3. counted \in Nat /\ answered \in Nat /\ \A q \in Tickers : delta[q] \in Nat
    BY DEF TypeInv, CountType, TickType
  <2> HIDE DEF Grown
  <2> QED  BY <2>1, <2>2, <2>3 DEF CountInv
<1>3. CASE Restart
  <2>1. Grown' = 0 /\ Grown \in Nat
    BY <1>3 DEF Restart, Grown, TypeInv, CountType, TickType, Never
  <2>2. UNCHANGED <<counted, delta, pc, overlapped, answered>>
    BY <1>3 DEF Restart
  <2>3. counted \in Nat /\ answered \in Nat /\ \A q \in Tickers : delta[q] \in Nat
    BY DEF TypeInv, CountType, TickType
  <2> HIDE DEF Grown
  <2> QED  BY <2>1, <2>2, <2>3 DEF CountInv
<1> QED  BY <1>1, <1>2, <1>3

LEMMA CountTick ==
  ASSUME TypeInv, CountInv, NEW p \in Tickers,
         Dies(p) \/ Begin(p) \/ Collect(p) \/ Record(p)
  PROVE  CountInv'
<1>0. /\ counted \in Nat /\ answered \in Nat /\ \A q \in Tickers : delta[q] \in Nat
      /\ Grown \in Nat
  BY GrownType DEF TypeInv, CountType, TickType
<1>1. CASE Dies(p)
  <2>1. /\ Grown' = Grown /\ counted' = counted /\ answered' = answered
        /\ overlapped' = overlapped /\ delta' = [delta EXCEPT ![p] = 0]
        /\ pc' = [pc EXCEPT ![p] = "idle"]
    BY <1>1 DEF Dies, Grown
  <2> QED  BY <1>0, <2>1 DEF CountInv, TypeInv, CountType, TickType
<1>2. CASE Begin(p)
  <2>1. /\ Grown' = Grown /\ counted' = counted /\ answered' = answered /\ delta' = delta
        /\ pc' = [pc EXCEPT ![p] = "collect"] /\ pc[p] = "idle"
        /\ ~overlapped' => ~overlapped /\ \A q \in Tickers \ {p} : pc[q] = "idle"
    BY <1>2 DEF Begin, Goto, Grown, counters, TypeInv, CountType, TickType
  <2> QED  BY <1>0, <2>1 DEF CountInv, TypeInv, CountType, TickType
<1>3. CASE Collect(p)
  <2>1. /\ counted' = counted /\ answered' = answered /\ overlapped' = overlapped
        /\ pc' = [pc EXCEPT ![p] = "record"] /\ pc[p] = "collect"
    BY <1>3 DEF Collect, Goto
  <2>2. CASE UNCHANGED <<delta, cursor>>
    <3>1. Grown' = Grown
      BY <1>3, <2>2 DEF Collect, Grown
    <3> QED  BY <1>0, <2>1, <2>2, <3>1 DEF CountInv, TypeInv, CountType, TickType
  <2>3. CASE delta' = [delta EXCEPT ![p] = Grown] /\ cursor' = count
    <3>1. Grown' = 0
      BY <1>3, <2>3 DEF Collect, Grown, TypeInv, CountType, TickType, Never
    <3>2. ~overlapped => \A q \in Tickers : q # p => delta[q] = 0
      BY <2>1 DEF CountInv
    <3>3. \A q \in Tickers : delta'[q] = IF q = p THEN Grown ELSE delta[q]
      BY <2>3 DEF TypeInv, CountType, TickType
    <3> QED  BY <1>0, <2>1, <3>1, <3>2, <3>3 DEF CountInv, TypeInv, CountType, TickType
  <2> QED  BY <1>3, <2>2, <2>3 DEF Collect
<1>4. CASE Record(p)
  <2>1. /\ Grown' = Grown /\ answered' = answered /\ overlapped' = overlapped
        /\ pc' = [pc EXCEPT ![p] = "prune"] /\ pc[p] = "record"
        /\ counted' = counted \/ counted' = counted + delta[p]
        /\ delta' = [delta EXCEPT ![p] = 0]
    BY <1>4 DEF Record, Goto, Grown
  <2>2. ~overlapped => \A q \in Tickers : q # p => delta[q] = 0
    BY <2>1 DEF CountInv
  <2>3. \A q \in Tickers : delta'[q] = IF q = p THEN 0 ELSE delta[q]
    BY <2>1 DEF TypeInv, CountType, TickType
  <2> QED  BY <1>0, <2>1, <2>2, <2>3 DEF CountInv, TypeInv, CountType, TickType
<1> QED  BY <1>1, <1>2, <1>3, <1>4

LEMMA CountFold ==
  ASSUME TypeInv, CountInv, NEW p \in Tickers,
         Prune(p) \/ Fold(p) \/ Trim(p) \/ TrimRaw(p) \/ Mark(p) \/ Backstop(p)
  PROVE  CountInv'
<1>1. /\ UNCHANGED <<counters, overlapped>> /\ pc[p] \notin {"idle", "record"}
      /\ \E step \in Steps : pc' = [pc EXCEPT ![p] = step]
  BY DEF Prune, Fold, Trim, TrimRaw, Mark, Backstop, Goto, Steps
<1>2. Grown' = Grown
  BY <1>1 DEF Grown, counters
<1> QED  BY <1>1, <1>2 DEF CountInv, TypeInv, CountType, TickType, counters

LEMMA CountStep == TypeInv /\ CountInv /\ [Next]_vars => CountInv'
<1> SUFFICES ASSUME TypeInv, CountInv, [Next]_vars PROVE CountInv'
  OBVIOUS
<1>1. CASE UNCHANGED vars
  BY <1>1 DEF vars, CountInv, Grown, counters
<1> QED  BY <1>1, CountWorld, CountTick, CountFold DEF Next

\* No query is counted twice while ticks take turns (stats.py, _counter_delta).
THEOREM CountedOnce == Spec => []NeverOvercounted
<1>1. TypeInv /\ CountInv => NeverOvercounted
  BY GrownType DEF TypeInv, CountType, TickType, CountInv, NeverOvercounted
<1>2. TypeInv /\ CountInv /\ [Next]_vars => (TypeInv /\ CountInv)'
  BY TypeStep, CountStep
<1> QED  BY <1>1, <1>2, TypeInit, CountInit, PTL DEF Spec
-----------------------------------------------------------------------------
(* Folding                                                                 *)

FoldedSince == {"trim", "trim raw", "mark", "backstop"}

\* A tick lasts less than a slot, and folds for the day it began in or the next.
TurnInv ==
  \A p \in Tickers :
    /\ pc[p] # "idle" => begun[p] <= now /\ now <= begun[p] + 1
    /\ pc[p] \in FoldedSince => Day(begun[p]) <= today[p]

\* The day of a sample has its row, or is so long ago that it has it no more.
Row(t) == Day(t) < Today - DailyDays \/ daily[Day(t)] # {}

Covered(m) == \A t \in taken : Day(t) < m => Row(t)

FoldInv ==
  ~lapsed =>
    /\ Today < RawDays \/ Today - marker < RawDays
    /\ \A t \in taken \ raw : Row(t)
    /\ Covered(marker)
    /\ \A p \in Tickers : pc[p] \in FoldedSince => Covered(today[p])

LEMMA DayZero == Day(0) = 0
<1>1. Day(0) \in Nat /\ Day(0) * Slots <= 0
  BY DayBounds
<1>2. Day(0) * Slots < 1 * Slots
  BY <1>1, DaysAssumption
<1>3. Day(0) < 1
  BY <1>1, <1>2, Below
<1> QED  BY <1>1, <1>3

LEMMA TurnInit == Init => TurnInv
BY DEF Init, TurnInv, FoldedSince

LEMMA FoldInit == Init => FoldInv
BY DayZero, DaysAssumption DEF Init, FoldInv, Covered, FoldedSince, Today

LEMMA TurnStep == TypeInv /\ TurnInv /\ [Next]_vars => TurnInv'
<1> SUFFICES ASSUME TypeInv, TurnInv, [Next]_vars PROVE TurnInv'
  OBVIOUS
<1>0. now \in Nat /\ begun \in [Tickers -> Nat] /\ pc \in [Tickers -> Steps]
      /\ today \in [Tickers -> Int]
  BY DEF TypeInv, TickType
<1>1. CASE UNCHANGED vars
  BY <1>1 DEF vars, TurnInv, clock
<1>2. CASE Wait
  BY <1>0, <1>2 DEF Wait, TurnInv
<1>3. CASE Answer \/ Restart
  BY <1>3 DEF Answer, Restart, TurnInv, clock
<1>4. ASSUME NEW p \in Tickers, Begin(p) \/ Dies(p) \/ Backstop(p)
      PROVE  TurnInv'
  <2>1. now' = now /\ (pc'[p] = "idle" \/ (pc'[p] = "collect" /\ begun'[p] = now))
    BY <1>0, <1>4 DEF Begin, Dies, Backstop, Goto, clock
  <2>2. \A q \in Tickers \ {p} :
          pc'[q] = pc[q] /\ begun'[q] = begun[q] /\ today'[q] = today[q]
    BY <1>0, <1>4 DEF Begin, Dies, Backstop, Goto
  <2>3. pc'[p] \notin FoldedSince
    BY <2>1 DEF FoldedSince
  <2> SUFFICES ASSUME NEW q \in Tickers
               PROVE  /\ pc'[q] # "idle" => begun'[q] <= now /\ now <= begun'[q] + 1
                      /\ pc'[q] \in FoldedSince => Day(begun'[q]) <= today'[q]
    BY <2>1 DEF TurnInv
  <2>4. CASE q = p
    BY <1>0, <2>1, <2>3, <2>4
  <2>5. CASE q # p
    BY <2>2, <2>5 DEF TurnInv
  <2> QED  BY <2>4, <2>5
<1>5. ASSUME NEW p \in Tickers,
             Collect(p) \/ Record(p) \/ Prune(p) \/ Trim(p) \/ TrimRaw(p) \/ Mark(p)
      PROVE  TurnInv'
  <2>1. /\ UNCHANGED <<now, begun, today>> /\ pc[p] # "idle"
        /\ \E step \in Steps :
             /\ pc' = [pc EXCEPT ![p] = step]
             /\ step \in FoldedSince => pc[p] \in FoldedSince
    BY <1>5 DEF Collect, Record, Prune, Trim, TrimRaw, Mark, Goto, clock, Steps, FoldedSince
  <2> QED  BY <1>0, <2>1 DEF TurnInv
<1>6. ASSUME NEW p \in Tickers, Fold(p) PROVE TurnInv'
  <2>1. /\ UNCHANGED <<now, begun>> /\ today' = [today EXCEPT ![p] = Today] /\ pc[p] = "fold"
        /\ \E step \in Steps : pc' = [pc EXCEPT ![p] = step]
    BY <1>6 DEF Fold, Goto, clock, Steps
  <2>2. Day(begun[p]) <= Today
    BY <1>0, <2>1, NotBefore DEF TurnInv, Today
  <2> QED  BY <1>0, <2>1, <2>2 DEF TurnInv, FoldedSince
<1> QED  BY <1>1, <1>2, <1>3, <1>4, <1>5, <1>6 DEF Next

\* What a step does to the tables, whichever it is.
LEMMA StepOfTables ==
  ASSUME TypeInv, [Next]_vars
  PROVE  /\ Today' \in Nat /\ Today <= Today'
         /\ taken \subseteq taken' /\ \A t \in taken' \ taken : t = now /\ now' = now /\ t \in raw'
         /\ daily' = daily \/ (Today' = Today /\ \E p \in Tickers : Fold(p) \/ Trim(p))
         /\ ~lapsed' => ~lapsed
<1>1. CASE Wait
  <2>1. now \in Nat /\ now' \in Nat /\ now <= now'
    BY <1>1 DEF Wait, TypeInv
  <2>2. Today' \in Nat /\ Today <= Today'
    BY <2>1, DayBounds, NotBefore DEF Today
  <2> QED  BY <1>1, <2>2 DEF Wait, tables
<1>2. CASE ~Wait
  <2>1. UNCHANGED clock
    BY <1>2 DEF Next, vars, Answer, Restart, Begin, Collect, Record, Prune, Fold, Trim,
                TrimRaw, Mark, Backstop, Dies
  <2>2. Today' = Today /\ Today \in Nat /\ lapsed' = lapsed
    BY <2>1, TodayType DEF clock, Today
  <2>3. taken' = taken \/ \E p \in Tickers : Record(p)
    BY <1>2 DEF Next, vars, tables, Answer, Restart, Begin, Collect, Prune, Fold, Trim,
                TrimRaw, Mark, Backstop, Dies
  <2>4. taken \subseteq taken' /\ \A t \in taken' \ taken : t = now /\ now' = now /\ t \in raw'
    BY <2>1, <2>3 DEF Record, clock
  <2>5. daily' = daily \/ \E p \in Tickers : Fold(p) \/ Trim(p)
    BY <1>2 DEF Next, vars, tables, Answer, Restart, Begin, Collect, Record, Prune,
                TrimRaw, Mark, Backstop, Dies
  <2> QED  BY <2>2, <2>4, <2>5
<1> QED  BY <1>1, <1>2

LEMMA DaysOfTaken == ASSUME TypeInv, NEW t \in taken
  PROVE t \in Nat /\ Day(t) \in Days /\ Day(t) \in Nat /\ Day(t) <= Today
<1>1. t \in Nat /\ t <= now
  BY DEF TypeInv, TableType
<1> QED  BY <1>1, InDays, DayBounds

\* A row, once there, is there for as long as rows are kept.
LEMMA RowStays ==
  ASSUME TypeInv, [Next]_vars, NEW t \in taken, Row(t)
  PROVE  Row(t)'
<1>1. /\ Day(t) \in Days /\ Day(t) \in Nat /\ Today \in Nat /\ Today' \in Nat
      /\ Today <= Today' /\ DailyDays \in Nat
  BY DaysOfTaken, TodayType, StepOfTables, DaysAssumption
<1>2. CASE Day(t) < Today - DailyDays
  BY <1>1, <1>2 DEF Row
<1>3. CASE daily' = daily
  BY <1>1, <1>3 DEF Row
<1>4. CASE daily[Day(t)] # {} /\ \E p \in Tickers : Fold(p)
  <2>1. daily' = Folded \/ daily' = daily
    BY <1>4 DEF Fold
  <2>2. daily'[Day(t)] # {}
    BY <1>1, <1>4, <2>1 DEF Folded
  <2> QED  BY <2>2 DEF Row
<1>5. CASE Today' = Today /\ daily[Day(t)] # {} /\ \E p \in Tickers : Trim(p)
  <2>1. daily'[Day(t)] = IF Day(t) < Today - DailyDays THEN {} ELSE daily[Day(t)]
    BY <1>1, <1>5 DEF Trim
  <2> QED  BY <1>5, <2>1 DEF Row
<1> QED  BY <1>2, <1>3, <1>4, <1>5, StepOfTables DEF Row

LEMMA CoverStays ==
  ASSUME TypeInv, [Next]_vars, NEW m \in Int, m <= Today, Covered(m)
  PROVE  Covered(m)'
<1> SUFFICES ASSUME NEW t \in taken', Day(t) < m PROVE Row(t)'
  BY DEF Covered
<1>1. CASE t \in taken
  BY <1>1, RowStays DEF Covered
<1>2. CASE t \notin taken
  <2>1. Day(t) = Today
    BY <1>2, StepOfTables DEF Today
  <2> QED  BY <2>1, TodayType
<1> QED  BY <1>1, <1>2

\* What the usual cut takes is RawDays old.
LEMMA CutIsOld ==
  ASSUME TypeInv, NEW t \in raw, t \notin KeptFor(RawDays * Slots)
  PROVE  Day(t) + RawDays <= Today
<1>1. t \in Nat /\ now \in Nat /\ RawDays \in Nat /\ RawDays * Slots \in Int
  BY DaysOfTaken, DaysAssumption DEF TypeInv, TableType
<1>2. t + RawDays * Slots <= now
  BY <1>1 DEF KeptFor
<1> QED  BY <1>1, <1>2, Later DEF Today

\* What the backstop's cut takes is of a day before the tick's fold.
LEMMA CutIsFolded ==
  ASSUME TypeInv, TurnInv, NEW p \in Tickers, pc[p] = "backstop",
         NEW t \in raw, t \notin KeptFor(Slots)
  PROVE  Day(t) < today[p]
<1>1. t \in Nat /\ now \in Nat /\ Slots \in Nat /\ begun[p] \in Nat /\ today[p] \in Int
  BY DaysOfTaken, DaysAssumption DEF TypeInv, TableType, TickType
<1>2. now <= begun[p] + 1 /\ Day(begun[p]) <= today[p]
  BY DEF TurnInv, FoldedSince
<1>3. t + 1 * Slots <= begun[p]
  BY <1>1, <1>2 DEF KeptFor
<1>4. Day(t) + 1 <= Day(begun[p])
  BY <1>1, <1>3, Later
<1> QED  BY <1>1, <1>2, <1>4, DayBounds

LEMMA MarkerMoves ==
  ASSUME [Next]_vars
  PROVE  marker' = marker \/ \E p \in Tickers : Mark(p)
BY DEF Next, vars, tables, Wait, Answer, Restart, Begin, Collect, Record, Prune, Fold, Trim,
       TrimRaw, Backstop, Dies

LEMMA SamplesGo ==
  ASSUME [Next]_vars, NEW t \in raw, t \notin raw'
  PROVE  \/ t \notin KeptFor(RawDays * Slots)
         \/ \E p \in Tickers : Backstop(p) /\ t \notin KeptFor(Slots)
<1>1. CASE UNCHANGED vars
  BY <1>1 DEF vars, tables
<1>2. CASE Wait \/ Answer \/ Restart
  BY <1>2 DEF Wait, Answer, Restart, tables
<1>3. ASSUME NEW p \in Tickers, Begin(p) \/ Collect(p) \/ Record(p) \/ Fold(p) \/ Trim(p)
                                \/ Mark(p) \/ Dies(p)
      PROVE  FALSE
  BY <1>3 DEF Begin, Collect, Record, Fold, Trim, Mark, Dies, tables
<1>4. ASSUME NEW p \in Tickers, Prune(p) \/ TrimRaw(p)
      PROVE  t \notin KeptFor(RawDays * Slots)
  BY <1>4 DEF Prune, TrimRaw
<1>5. ASSUME NEW p \in Tickers, Backstop(p)
      PROVE  t \notin KeptFor(Slots)
  BY <1>5 DEF Backstop
<1> QED  BY <1>1, <1>2, <1>3, <1>4, <1>5 DEF Next

LEMMA FoldsMove ==
  ASSUME TypeInv, [Next]_vars, NEW p \in Tickers, pc'[p] \in FoldedSince
  PROVE  Fold(p) \/ (pc[p] \in FoldedSince /\ today'[p] = today[p])
<1>0. pc \in [Tickers -> Steps] /\ today \in [Tickers -> Int]
  BY DEF TypeInv, TickType
<1>1. CASE UNCHANGED vars \/ Wait \/ Answer \/ Restart
  BY <1>1 DEF vars, Wait, Answer, Restart
<1>2. ASSUME NEW q \in Tickers, Begin(q) \/ Collect(q) \/ Record(q) \/ Prune(q)
      PROVE  pc[p] \in FoldedSince /\ today'[p] = today[p]
  BY <1>0, <1>2 DEF Begin, Collect, Record, Prune, Goto, FoldedSince
<1>3. ASSUME NEW q \in Tickers, Trim(q) \/ TrimRaw(q) \/ Mark(q)
      PROVE  pc[p] \in FoldedSince /\ today'[p] = today[p]
  BY <1>0, <1>3 DEF Trim, TrimRaw, Mark, Goto, FoldedSince
<1>4. ASSUME NEW q \in Tickers, Backstop(q) \/ Dies(q)
      PROVE  pc[p] \in FoldedSince /\ today'[p] = today[p]
  BY <1>0, <1>4 DEF Backstop, Dies, Goto, FoldedSince
<1>5. ASSUME NEW q \in Tickers, Fold(q), q # p
      PROVE  pc[p] \in FoldedSince /\ today'[p] = today[p]
  BY <1>0, <1>5 DEF Fold, Goto
<1> QED  BY <1>1, <1>2, <1>3, <1>4, <1>5 DEF Next

LEMMA FoldStep == TypeInv /\ TurnInv /\ FoldInv /\ [Next]_vars => FoldInv'
<1> SUFFICES ASSUME TypeInv, TurnInv, FoldInv, [Next]_vars, ~lapsed' PROVE
      /\ Today' < RawDays \/ Today' - marker' < RawDays
      /\ \A t \in taken' \ raw' : Row(t)'
      /\ Covered(marker)'
      /\ \A p \in Tickers : pc'[p] \in FoldedSince => Covered(today[p])'
  BY DEF FoldInv
<1>1. /\ ~lapsed /\ Today \in Nat /\ Today' \in Nat /\ RawDays \in Nat /\ RawDays > 1
      /\ marker \in Int /\ marker <= Today
      /\ \A p \in Tickers : today[p] \in Int /\ today[p] <= Today
  BY StepOfTables, TodayType, DaysAssumption DEF TypeInv, TickType
<1>2. /\ Today < RawDays \/ Today - marker < RawDays
      /\ \A t \in taken \ raw : Row(t)
      /\ Covered(marker)
      /\ \A p \in Tickers : pc[p] \in FoldedSince => Covered(today[p])
  BY <1>1 DEF FoldInv
<1>3. ASSUME NEW p \in Tickers, Mark(p)
      PROVE  Today' = Today /\ marker' = today[p] /\ Today - today[p] <= 1 /\ Covered(today[p])
  <2>1. Today' = Today /\ marker' = today[p] /\ pc[p] = "mark" /\ Covered(today[p])
    BY <1>2, <1>3 DEF Mark, clock, Today, FoldedSince
  <2>2. now \in Nat /\ begun[p] \in Nat /\ now <= begun[p] + 1 /\ Day(begun[p]) <= today[p]
    BY <2>1 DEF TypeInv, TickType, TurnInv, FoldedSince
  <2>3. Day(now) <= Day(begun[p] + 1) /\ Day(begun[p] + 1) <= Day(begun[p]) + 1
    BY <2>2, NotBefore, NextSlot
  <2>4. Day(begun[p]) \in Nat /\ Day(begun[p] + 1) \in Nat
    BY <2>2, DayBounds
  <2> QED  BY <1>1, <2>1, <2>2, <2>3, <2>4 DEF Today
<1>4. Today' < RawDays \/ Today' - marker' < RawDays
  <2>1. CASE Wait
    <3>1. marker' = marker /\ ~(Today' >= RawDays /\ Today' - marker >= RawDays)
      BY <2>1, Zenon DEF Wait, tables
    <3>2. \A d, r \in Nat : \A m \in Int : ~(d >= r /\ d - m >= r) => d < r \/ d - m < r
      OBVIOUS
    <3>3. Today' < RawDays \/ Today' - marker < RawDays
      BY <1>1, <3>1, <3>2, Zenon
    <3> QED  BY <3>1, <3>3
  <2>2. CASE \E p \in Tickers : Mark(p)
    BY <1>1, <1>3, <2>2
  <2>3. CASE ~Wait /\ marker' = marker
    <3>1. UNCHANGED clock
      BY <2>3 DEF Next, vars, Answer, Restart, Begin, Collect, Record, Prune, Fold, Trim,
                  TrimRaw, Mark, Backstop, Dies
    <3> QED  BY <1>2, <2>3, <3>1 DEF clock, Today
  <2> QED  BY <2>1, <2>2, <2>3, MarkerMoves
<1>5. ASSUME NEW t \in taken' \ raw' PROVE Row(t)'
  <2>1. t \in taken
    BY StepOfTables
  <2>2. CASE t \notin raw
    BY <1>2, <2>1, <2>2, RowStays
  <2>3. CASE t \in raw
    <3>1. CASE t \notin KeptFor(RawDays * Slots)
      <4>1. Day(t) + RawDays <= Today /\ Day(t) \in Nat
        BY <2>1, <2>3, <3>1, CutIsOld, DaysOfTaken
      <4>2. Day(t) < marker
        BY <1>1, <1>2, <4>1
      <4> QED  BY <1>2, <2>1, <4>2, RowStays DEF Covered
    <3>2. ASSUME NEW p \in Tickers, Backstop(p), t \notin KeptFor(Slots) PROVE Row(t)
      <4>1. pc[p] = "backstop" /\ pc[p] \in FoldedSince
        BY <3>2 DEF Backstop, FoldedSince
      <4>2. Day(t) < today[p]
        BY <2>3, <3>2, <4>1, CutIsFolded
      <4> QED  BY <1>2, <2>1, <4>1, <4>2 DEF Covered
    <3> QED  BY <2>1, <2>3, <3>1, <3>2, SamplesGo, RowStays
  <2> QED  BY <2>2, <2>3
<1>6. Covered(marker)'
  <2>1. CASE marker' = marker
    <3>1. \A m \in Int : m = marker => Covered(m)'
      BY <1>1, <1>2, CoverStays
    <3> QED  BY <1>1, <2>1, <3>1 DEF Covered
  <2>2. ASSUME NEW p \in Tickers, Mark(p) PROVE Covered(marker)'
    <3>1. \A m \in Int : m = today[p] => Covered(m)'
      BY <1>1, <1>3, <2>2, CoverStays
    <3> QED  BY <1>1, <1>3, <2>2, <3>1 DEF Covered
  <2> QED  BY <2>1, <2>2, MarkerMoves
<1>7. ASSUME NEW p \in Tickers, pc'[p] \in FoldedSince PROVE Covered(today[p])'
  <2>1. CASE pc[p] \in FoldedSince /\ today'[p] = today[p]
    <3>1. \A m \in Int : m = today[p] => Covered(m)'
      BY <1>1, <1>2, <2>1, CoverStays
    <3> QED  BY <1>1, <2>1, <3>1 DEF Covered
  <2>2. CASE Fold(p)
    <3>1. today'[p] = Today /\ taken' = taken
      BY <2>2 DEF Fold, TypeInv, TickType
    <3> SUFFICES ASSUME NEW t \in taken, Day(t) < Today PROVE Row(t)'
      BY <3>1 DEF Covered
    <3>2. CASE marker = Today \/ t \notin raw
      BY <1>2, <3>2, RowStays DEF Covered
    <3>3. CASE marker # Today /\ t \in raw
      <4>1. Day(t) \in Days /\ t \in SamplesOf(Day(t)) /\ daily' = Folded
        BY <2>2, <3>3, DaysOfTaken DEF SamplesOf, Fold
      <4>2. daily'[Day(t)] # {}
        BY <4>1 DEF Folded
      <4> QED  BY <4>2 DEF Row
    <3> QED  BY <3>2, <3>3
  <2> QED  BY <1>7, <2>1, <2>2, FoldsMove
<1> QED  BY <1>4, <1>5, <1>6, <1>7

\* No sample goes before its day has a row, unless no fold was completed for
\* RawDays (history.py, _history_maybe_rollup).
THEOREM FoldedFirst == Spec => []FoldedBeforeGone
<1>1. TypeInv /\ FoldInv => FoldedBeforeGone
  BY DEF FoldInv, FoldedBeforeGone, Row
<1>2. TypeInv /\ TurnInv /\ FoldInv /\ [Next]_vars => (TypeInv /\ TurnInv /\ FoldInv)'
  BY TypeStep, TurnStep, FoldStep
<1> QED  BY <1>1, <1>2, TypeInit, TurnInit, FoldInit, PTL DEF Spec

-----------------------------------------------------------------------------
(* Whole rows                                                              *)

Whole(m) ==
  \A d \in Days : Today - RawDays < d /\ d < m => daily[d] = {t \in taken : Day(t) = d}

WholeInv ==
  ~squeezed =>
    /\ \A t \in taken : Today - RawDays < Day(t) => t \in raw
    /\ Whole(marker)
    /\ \A p \in Tickers : pc[p] \in FoldedSince \ {"backstop"} => Whole(today[p])

LEMMA WholeInit == Init => WholeInv
BY DEF Init, WholeInv, Whole, FoldedSince, Days, Never

LEMMA SqueezeStays == ASSUME [Next]_vars, ~squeezed' PROVE ~squeezed
<1>1. CASE UNCHANGED vars \/ Wait \/ Answer \/ Restart
  BY <1>1 DEF vars, Wait, Answer, Restart
<1>2. ASSUME NEW p \in Tickers, Begin(p) \/ Collect(p) \/ Record(p) \/ Prune(p) \/ Fold(p)
                                \/ Trim(p) \/ TrimRaw(p) \/ Mark(p) \/ Dies(p)
      PROVE  squeezed' = squeezed
  BY <1>2 DEF Begin, Collect, Record, Prune, Fold, Trim, TrimRaw, Mark, Dies
<1>3. ASSUME NEW p \in Tickers, Backstop(p)
      PROVE  squeezed' = squeezed
  BY <1>3 DEF Backstop
<1> QED  BY <1>1, <1>2, <1>3 DEF Next

\* The samples of the days that are kept are all kept.
LEMMA KeptStep ==
  ASSUME TypeInv, [Next]_vars, ~squeezed',
         \A t \in taken : Today - RawDays < Day(t) => t \in raw
  PROVE  \A t \in taken' : Today' - RawDays < Day(t) => t \in raw'
<1> SUFFICES ASSUME NEW t \in taken', Today' - RawDays < Day(t), t \notin raw' PROVE FALSE
  OBVIOUS
<1>1. /\ t \in taken /\ Today \in Nat /\ Today' \in Nat /\ Today <= Today' /\ RawDays \in Nat
  BY StepOfTables, TodayType, DaysAssumption
<1>2. Day(t) \in Nat
  BY <1>1, DaysOfTaken
<1>3. t \in raw
  BY <1>1, <1>2
<1>4. CASE t \notin KeptFor(RawDays * Slots)
  BY <1>1, <1>2, <1>3, <1>4, CutIsOld
<1>5. CASE \E p \in Tickers : Backstop(p)
  BY <1>3, <1>5 DEF Backstop
<1> QED  BY <1>3, <1>4, <1>5, SamplesGo

\* A whole row stays whole, if rows are kept no shorter than samples.
LEMMA WholeStays ==
  ASSUME RawDays <= DailyDays + 1, TypeInv, [Next]_vars, ~squeezed,
         \A t \in taken : Today - RawDays < Day(t) => t \in raw,
         NEW m \in Int, m <= Today, Whole(m)
  PROVE  Whole(m)'
<1> SUFFICES ASSUME NEW d \in Days, Today' - RawDays < d, d < m
             PROVE  daily'[d] = {t \in taken' : Day(t) = d}
  BY DEF Whole
<1>1. /\ Today \in Nat /\ Today' \in Nat /\ Today <= Today' /\ RawDays \in Nat
      /\ DailyDays \in Nat /\ d \in Int
  BY StepOfTables, TodayType, DaysAssumption DEF Days
<1>2. Today - RawDays < d /\ daily[d] = {t \in taken : Day(t) = d}
  BY <1>1 DEF Whole
<1>3. {t \in taken' : Day(t) = d} = {t \in taken : Day(t) = d}
  <2>1. \A t \in taken' \ taken : Day(t) = Today
    BY StepOfTables DEF Today
  <2> QED  BY <1>1, <2>1, StepOfTables
<1>4. daily'[d] = daily[d]
  <2>1. CASE daily' = daily
    BY <2>1
  <2>2. CASE \E p \in Tickers : Trim(p)
    <3>1. daily'[d] = IF d < Today - DailyDays THEN {} ELSE daily[d]
      BY <2>2 DEF Trim
    <3> QED  BY <1>1, <1>2, <3>1
  <2>3. CASE daily' = Folded
    <3>1. SamplesOf(d) = {t \in taken : Day(t) = d}
      BY <1>2 DEF SamplesOf, TypeInv, TableType
    <3> QED  BY <1>2, <2>3, <3>1 DEF Folded
  <2> QED  BY <2>1, <2>2, <2>3, StepOfTables DEF Fold
<1> QED  BY <1>2, <1>3, <1>4

LEMMA WholeStep ==
  ASSUME RawDays <= DailyDays + 1
  PROVE  TypeInv /\ WholeInv /\ [Next]_vars => WholeInv'
<1> SUFFICES ASSUME TypeInv, WholeInv, [Next]_vars, ~squeezed' PROVE
      /\ \A t \in taken' : Today' - RawDays < Day(t) => t \in raw'
      /\ Whole(marker)'
      /\ \A p \in Tickers : pc'[p] \in FoldedSince \ {"backstop"} => Whole(today[p])'
  BY DEF WholeInv
<1>1. /\ ~squeezed
      /\ \A t \in taken : Today - RawDays < Day(t) => t \in raw
      /\ Whole(marker)
      /\ \A p \in Tickers : pc[p] \in FoldedSince \ {"backstop"} => Whole(today[p])
  BY SqueezeStays DEF WholeInv, TypeInv
<1>2. /\ marker \in Int /\ marker <= Today /\ Today \in Nat
      /\ \A p \in Tickers : today[p] \in Int /\ today[p] <= Today
  BY TodayType DEF TypeInv, TickType
<1>3. \A t \in taken' : Today' - RawDays < Day(t) => t \in raw'
  BY <1>1, KeptStep
<1>4. \A m \in Int : m <= Today /\ Whole(m) => Whole(m)'
  BY <1>1, WholeStays
<1>5. Whole(marker)'
  <2>1. CASE marker' = marker
    BY <1>1, <1>2, <1>4, <2>1 DEF Whole
  <2>2. ASSUME NEW p \in Tickers, Mark(p) PROVE Whole(marker)'
    <3>1. marker' = today[p] /\ pc[p] \in FoldedSince \ {"backstop"}
      BY <2>2 DEF Mark, FoldedSince
    <3> QED  BY <1>1, <1>2, <1>4, <3>1 DEF Whole
  <2> QED  BY <2>1, <2>2, MarkerMoves
<1>6. ASSUME NEW p \in Tickers, pc'[p] \in FoldedSince \ {"backstop"} PROVE Whole(today[p])'
  <2>1. CASE pc[p] \in FoldedSince \ {"backstop"} /\ today'[p] = today[p]
    BY <1>1, <1>2, <1>4, <2>1 DEF Whole
  <2>2. CASE Fold(p)
    <3>1. /\ today'[p] = Today /\ taken' = taken /\ Today' = Today /\ daily' = Folded
      BY <1>6, <2>2 DEF Fold, Goto, TypeInv, TickType, clock, Today
    <3> SUFFICES ASSUME NEW d \in Days, Today - RawDays < d, d < Today
                 PROVE  daily'[d] = {t \in taken : Day(t) = d}
      BY <3>1 DEF Whole
    <3>2. SamplesOf(d) = {t \in taken : Day(t) = d}
      BY <1>1 DEF SamplesOf, TypeInv, TableType
    <3>3. daily[d] \subseteq {t \in taken : Day(t) = d}
      BY DEF TypeInv, TableType
    <3> QED  BY <3>1, <3>2, <3>3 DEF Folded
  <2>3. pc[p] = "backstop" => pc'[p] \in {"backstop", "idle"}
    BY DEF Next, vars, Wait, Answer, Restart, Begin, Collect, Record, Prune, Fold, Trim,
           TrimRaw, Mark, Backstop, Dies, Goto, TypeInv, TickType
  <2> QED  BY <1>6, <2>1, <2>2, <2>3, FoldsMove DEF FoldedSince
<1> QED  BY <1>3, <1>5, <1>6

\* After today's fold the row of a day whose samples are kept is made of all of
\* them, if rows are kept no shorter than samples (history.py, the upsert).
THEOREM WholeAfterFold ==
  ASSUME RawDays <= DailyDays + 1
  PROVE  Spec => []WholeWhileKept
<1>1. TypeInv /\ WholeInv => WholeWhileKept
  BY DEF WholeInv, Whole, WholeWhileKept
<1>2. TypeInv /\ WholeInv /\ [Next]_vars => (TypeInv /\ WholeInv)'
  BY TypeStep, WholeStep
<1> QED  BY <1>1, <1>2, TypeInit, WholeInit, PTL DEF Spec

-----------------------------------------------------------------------------
(* Blocklists                                                              *)

Stages == {"idle", "read", "write", "apply", "putback", "note", "next", "update", "remove"}

\* A thread at work on a list has the list in hand.
InHand == \A t \in Threads : stage[t] \notin {"idle", "next"} => at[t] \in Lists

\* What a list whose domains file has this text is rendered as.
Shown(l, text) == IF list[l] # "on" THEN None ELSE IF text = None THEN "empty" ELSE text

\* A list whose file nobody has in doubt is rendered as its record and file are.
Settled == ~spoiled => \A l \in Lists : ~InDoubt(l) => conf[l] = Shown(l, file[l])

\* A refresh that nobody has disturbed holds the file its list is rendered from.
Held == ~spoiled => \A t \in Pending \ disturbed : conf[at[t]] = Shown(at[t], prev[t])

ListsInv == ListsTypeOK /\ InHand /\ Settled /\ Held

LEMMA RenderedIs == \A l \in Lists : Rendered(list)[l] = Shown(l, file[l])
BY DEF Rendered, Shown

LEMMA ListsAtFirst == ListsInit => ListsInv
<1> SUFFICES ASSUME ListsInit PROVE ListsInv
  OBVIOUS
<1> USE DEF ListsInit
<1>1. ListsTypeOK
  <2>1. /\ list \in [Lists -> {"unmade", "on", "off", "gone"}] /\ due \in [Lists -> BOOLEAN]
        /\ file \in [Lists -> Texts \cup {None}]
    BY TextAssumption
  <2>2. /\ conf \in [Lists -> (Texts \ Bad) \cup {None, "empty"}]
        /\ source \in [Lists -> Texts \cup {None}]
    BY TextAssumption
  <2>3. /\ stage \in [Threads -> Stages] /\ at \in [Threads -> Lists \cup {None}]
        /\ got \in [Threads -> Texts \cup {None}] /\ prev \in [Threads -> Texts \cup {None}]
    BY DEF Stages
  <2>4. /\ held \in [Threads -> [state : {"on", "off"}, due : BOOLEAN]]
        /\ todo \in [Threads -> SUBSET Lists]
    BY DEF Nothing
  <2>5. disturbed \in SUBSET Threads /\ spoiled \in BOOLEAN
    OBVIOUS
  <2>6. edits \in 0..MaxEdits
    BY EditsAssumption
  <2> QED
    BY <2>1, <2>2, <2>3, <2>4, <2>5, <2>6 DEF ListsTypeOK, Stages
<1>2. InHand
  BY DEF InHand
<1>3. Settled
  BY DEF Settled, Shown
<1>4. Held
  BY DEF Held, Pending
<1> QED
  BY <1>1, <1>2, <1>3, <1>4 DEF ListsInv

\* What a thread does.
ListsMove(t) ==
  \/ Proceed(t) \/ Pass(t) \/ OtherEdit(t) \/ Rollback(t) \/ Restore(t)
  \/ \E l \in Lists : Refresh(t, l) \/ Add(t, l) \/ StartUpdate(t, l) \/ Delete(t, l)

-----------------------------------------------------------------------------
(* Types                                                                   *)

LEMMA AcceptedTyped ==
  ASSUME ListsTypeOK, NEW t \in Threads, NEW choice \in [Lists -> {"unmade", "on", "off", "gone"}],
         NEW attempts \in [Lists -> BOOLEAN], Accepted(t, choice, attempts)
  PROVE  /\ list' \in [Lists -> {"unmade", "on", "off", "gone"}] /\ due' \in [Lists -> BOOLEAN]
         /\ file' \in [Lists -> Texts \cup {None}]
         /\ conf' \in [Lists -> (Texts \ Bad) \cup {None, "empty"}]
         /\ disturbed' \in SUBSET Threads /\ spoiled' \in BOOLEAN
<1>1. Rendered(choice) \in [Lists -> (Texts \ Bad) \cup {None, "empty"}]
  BY DEF ListsTypeOK, Accepted, Rendered
<1> QED
  BY <1>1 DEF ListsTypeOK, Accepted, Pending

LEMMA RejectedTyped ==
  ASSUME ListsTypeOK, NEW choice, Rejected(choice)
  PROVE  /\ list' \in [Lists -> {"unmade", "on", "off", "gone"}] /\ due' \in [Lists -> BOOLEAN]
         /\ file' \in [Lists -> Texts \cup {None}]
         /\ conf' \in [Lists -> (Texts \ Bad) \cup {None, "empty"}]
         /\ disturbed' \in SUBSET Threads /\ spoiled' \in BOOLEAN
BY DEF ListsTypeOK, Rejected, stores, history

\* The part of the type invariant that is about a thread, and its step.
LocalsTyped ==
  /\ stage \in [Threads -> Stages] /\ at \in [Threads -> Lists \cup {None}]
  /\ got \in [Threads -> Texts \cup {None}] /\ prev \in [Threads -> Texts \cup {None}]
  /\ held \in [Threads -> [state : {"on", "off"}, due : BOOLEAN]]
  /\ todo \in [Threads -> SUBSET Lists]

LEMMA LocalsAre == ListsTypeOK => LocalsTyped
BY DEF ListsTypeOK, LocalsTyped, Stages

\* The end of a request leaves a thread with nothing in hand.
LEMMA DoneIs ==
  ASSUME LocalsTyped, NEW t \in Threads, Done(t), UNCHANGED todo,
         held' \in [Threads -> [state : {"on", "off"}, due : BOOLEAN]]
  PROVE  /\ LocalsTyped' /\ stage'[t] \in {"idle", "next"}
         /\ \A u \in Threads \ {t} : UNCHANGED <<stage[u], at[u], prev[u]>>
BY DEF LocalsTyped, Done, GoOn, Stages

LEMMA FetchIs ==
  ASSUME LocalsTyped, source \in [Lists -> Texts \cup {None}],
         NEW t \in Threads, NEW l \in Lists, Fetch(t, l), UNCHANGED prev,
         todo' \in [Threads -> SUBSET Lists],
         held' \in [Threads -> [state : {"on", "off"}, due : BOOLEAN]]
  PROVE  /\ LocalsTyped' /\ stage'[t] \in {"note", "read"} /\ at'[t] = l
         /\ \A u \in Threads \ {t} : UNCHANGED <<stage[u], at[u], prev[u]>>
BY DEF LocalsTyped, Fetch, GoOn, Stages

\* The parts of the type invariant put together again.
LEMMA ListsTyped ==
  ASSUME LocalsTyped',
         list' \in [Lists -> {"unmade", "on", "off", "gone"}], due' \in [Lists -> BOOLEAN],
         file' \in [Lists -> Texts \cup {None}],
         conf' \in [Lists -> (Texts \ Bad) \cup {None, "empty"}],
         source' \in [Lists -> Texts \cup {None}],
         disturbed' \in SUBSET Threads, spoiled' \in BOOLEAN, edits' \in 0..MaxEdits
  PROVE  ListsTypeOK'
BY DEF LocalsTyped, ListsTypeOK, Stages

LEMMA EditedTyped == ASSUME ListsTypeOK, Edited PROVE edits' \in 0..MaxEdits
<1>1. edits \in 0..MaxEdits /\ edits < MaxEdits /\ edits' = edits + 1
  BY DEF ListsTypeOK, Edited
<1> QED
  BY <1>1, EditsAssumption

LEMMA AttemptedTyped ==
  ASSUME ListsTypeOK, NEW l \in Lists
  PROVE  Attempted(l) \in [Lists -> BOOLEAN]
BY DEF ListsTypeOK, Attempted

\* What every step of a thread keeps: the types, a list in hand while it is at work
\* on one, and the other threads.
Moved(t) ==
  /\ ListsTypeOK' /\ (stage'[t] \notin {"idle", "next"} => at'[t] \in Lists)
  /\ \A u \in Threads \ {t} : UNCHANGED <<stage[u], at[u], prev[u]>>

\* The steps of a refresh, each with the list in hand.
LEMMA RefreshMoves ==
  ASSUME ListsTypeOK, InHand, NEW t \in Threads,
         ReadPrevious(t) \/ WriteFile(t) \/ ApplyRefresh(t) \/ PutBack(t) \/ Note(t) \/ RemoveFile(t)
  PROVE  Moved(t)
<1>1. LocalsTyped /\ at[t] \in Lists
  BY LocalsAre DEF InHand, ReadPrevious, WriteFile, ApplyRefresh, PutBack, Note, RemoveFile
<1>2. got[t] \in Texts \cup {None} /\ prev[t] \in Texts \cup {None}
  BY <1>1 DEF LocalsTyped
<1> USE DEF ListsTypeOK, stores, history
<1>3. CASE ReadPrevious(t)
  <2>1. LocalsTyped'
    BY <1>1, <1>3 DEF ReadPrevious, LocalsTyped, GoOn, Stages
  <2>2. ListsTypeOK'
    BY <1>3, <2>1, ListsTyped DEF ReadPrevious
  <2> QED
    BY <1>1, <1>3, <2>2 DEF Moved, ReadPrevious, GoOn, LocalsTyped
<1>4. CASE WriteFile(t)
  <2>1. LocalsTyped'
    BY <1>1, <1>4 DEF WriteFile, LocalsTyped, GoOn, Stages, locals
  <2>2. file' \in [Lists -> Texts \cup {None}]
    BY <1>2, <1>4 DEF WriteFile, SetFile
  <2>3. ListsTypeOK'
    BY <1>4, <2>1, <2>2, ListsTyped DEF WriteFile
  <2> QED
    BY <1>1, <1>4, <2>3 DEF Moved, WriteFile, GoOn, LocalsTyped, locals
<1>5. CASE PutBack(t)
  <2>1. LocalsTyped'
    BY <1>1, <1>5 DEF PutBack, LocalsTyped, GoOn, Stages, locals
  <2>2. file' \in [Lists -> Texts \cup {None}] /\ spoiled' \in BOOLEAN
    BY <1>2, <1>5 DEF PutBack, SetFile
  <2>3. ListsTypeOK'
    BY <1>5, <2>1, <2>2, ListsTyped DEF PutBack
  <2> QED
    BY <1>1, <1>5, <2>3 DEF Moved, PutBack, GoOn, LocalsTyped, locals
<1>6. CASE RemoveFile(t)
  <2>1. /\ LocalsTyped' /\ stage'[t] \in {"idle", "next"}
        /\ \A u \in Threads \ {t} : UNCHANGED <<stage[u], at[u], prev[u]>>
    BY <1>1, <1>6, DoneIs DEF RemoveFile
  <2>2. file' \in [Lists -> Texts \cup {None}] /\ spoiled' \in BOOLEAN
    BY <1>6 DEF RemoveFile, SetFile
  <2>3. ListsTypeOK'
    BY <1>6, <2>1, <2>2, ListsTyped DEF RemoveFile
  <2> QED
    BY <2>1, <2>3 DEF Moved
<1>7. CASE Note(t)
  <2>1. /\ LocalsTyped' /\ stage'[t] \in {"idle", "next"}
        /\ \A u \in Threads \ {t} : UNCHANGED <<stage[u], at[u], prev[u]>>
    BY <1>1, <1>7, DoneIs DEF Note
  <2>2. due' \in [Lists -> BOOLEAN]
    BY <1>1, <1>7, AttemptedTyped DEF Note
  <2>3. ListsTypeOK'
    BY <1>7, <2>1, <2>2, ListsTyped DEF Note
  <2> QED
    BY <2>1, <2>3 DEF Moved
<1>8. CASE ApplyRefresh(t)
  <2>1. UNCHANGED <<source, edits>>
    BY <1>8 DEF ApplyRefresh
  <2>2. CASE Accepted(t, list, Attempted(at[t])) /\ Done(t) /\ UNCHANGED <<held, todo>>
    <3>1. /\ LocalsTyped' /\ stage'[t] \in {"idle", "next"}
          /\ \A u \in Threads \ {t} : UNCHANGED <<stage[u], at[u], prev[u]>>
      BY <1>1, <2>2, DoneIs
    <3>2. Attempted(at[t]) \in [Lists -> BOOLEAN]
      BY <1>1, AttemptedTyped
    <3>3. ListsTypeOK'
      BY <2>1, <2>2, <3>1, <3>2, AcceptedTyped, ListsTyped
    <3> QED
      BY <3>1, <3>3 DEF Moved
  <2>3. CASE Rejected(list) /\ GoOn(t, "putback") /\ UNCHANGED locals
    <3>1. LocalsTyped'
      BY <1>1, <2>3 DEF LocalsTyped, GoOn, Stages, locals
    <3>2. ListsTypeOK'
      BY <2>1, <2>3, <3>1, RejectedTyped, ListsTyped
    <3> QED
      BY <1>1, <2>3, <3>2 DEF Moved, GoOn, LocalsTyped, locals
  <2> QED
    BY <1>8, <2>2, <2>3 DEF ApplyRefresh
<1> QED
  BY <1>3, <1>4, <1>5, <1>6, <1>7, <1>8

\* The steps that choose lists to refresh, and change none.
LEMMA ChoiceMoves ==
  ASSUME ListsTypeOK, InHand, NEW t \in Threads,
         \/ Pass(t) \/ NextDue(t)
         \/ \E l \in Lists : Refresh(t, l) \/ StartUpdate(t, l)
  PROVE  /\ Moved(t) /\ stage[t] \notin {"apply", "putback"}
         /\ stage'[t] \notin {"write", "apply", "putback"} /\ UNCHANGED <<list, file, conf, history>>
<1>1. LocalsTyped
  BY LocalsAre
<1> USE DEF ListsTypeOK, stores, history
<1>2. ASSUME NEW l \in Lists, Refresh(t, l) PROVE
        /\ Moved(t) /\ stage'[t] \in {"note", "read"} /\ stage[t] = "idle"
        /\ UNCHANGED <<list, file, conf, history>>
  <2>1. /\ LocalsTyped' /\ stage'[t] \in {"note", "read"} /\ at'[t] = l
        /\ \A u \in Threads \ {t} : UNCHANGED <<stage[u], at[u], prev[u]>>
    BY <1>1, <1>2, FetchIs DEF Refresh, LocalsTyped
  <2>2. ListsTypeOK'
    BY <1>2, <2>1, ListsTyped DEF Refresh
  <2> QED
    BY <1>2, <2>1, <2>2 DEF Moved, Refresh
<1>3. ASSUME NEW l \in Lists, StartUpdate(t, l) PROVE
        /\ Moved(t) /\ stage'[t] = "update" /\ stage[t] = "idle"
        /\ UNCHANGED <<list, file, conf, history>>
  <2>1. held' \in [Threads -> [state : {"on", "off"}, due : BOOLEAN]]
    <3>1. PICK state \in {"on", "off"} : held' = [held EXCEPT ![t] = [state |-> state, due |-> due[l]]]
      BY <1>3 DEF StartUpdate
    <3> QED
      BY <1>1, <3>1 DEF LocalsTyped
  <2>2. at'[t] = l /\ stage'[t] = "update" /\ LocalsTyped'
    BY <1>1, <1>3, <2>1 DEF StartUpdate, LocalsTyped, GoOn, Stages
  <2>3. edits' \in 0..MaxEdits
    BY <1>3, EditedTyped DEF StartUpdate
  <2>4. ListsTypeOK'
    BY <1>3, <2>2, <2>3, ListsTyped DEF StartUpdate
  <2>5. \A u \in Threads \ {t} : UNCHANGED <<stage[u], at[u], prev[u]>>
    BY <1>1, <1>3 DEF StartUpdate, LocalsTyped, GoOn
  <2> QED
    BY <1>3, <2>2, <2>4, <2>5 DEF Moved, StartUpdate
<1>4. ASSUME Pass(t) PROVE
        /\ Moved(t) /\ stage'[t] = "next" /\ stage[t] = "idle"
        /\ UNCHANGED <<list, file, conf, history>>
  <2>1. DueLists \subseteq Lists
    BY DEF DueLists
  <2>2. stage'[t] = "next" /\ LocalsTyped'
    BY <1>1, <1>4, <2>1 DEF Pass, LocalsTyped, GoOn, Stages
  <2>3. ListsTypeOK'
    BY <1>4, <2>2, ListsTyped DEF Pass
  <2> QED
    BY <1>1, <1>4, <2>2, <2>3 DEF Moved, Pass, LocalsTyped, GoOn
<1>5. ASSUME NextDue(t) PROVE
        /\ Moved(t) /\ stage'[t] \in {"note", "read", "idle", "next"} /\ stage[t] = "next"
        /\ UNCHANGED <<list, file, conf, history>>
  <2>1. PICK l \in todo[t] :
          /\ todo' = [todo EXCEPT ![t] = @ \ {l}]
          /\ \/ Present(l) /\ Fetch(t, l)
             \/ /\ ~Present(l) /\ UNCHANGED <<at, got>>
                /\ GoOn(t, IF todo[t] = {l} THEN "idle" ELSE "next")
    BY <1>5 DEF NextDue
  <2>2. l \in Lists /\ todo' \in [Threads -> SUBSET Lists]
    BY <1>1, <2>1 DEF LocalsTyped
  <2>3. UNCHANGED <<held, prev>> /\ held' \in [Threads -> [state : {"on", "off"}, due : BOOLEAN]]
    BY <1>1, <1>5 DEF NextDue, LocalsTyped
  <2>4. CASE Fetch(t, l)
    <3>1. /\ LocalsTyped' /\ stage'[t] \in {"note", "read"} /\ at'[t] = l
          /\ \A u \in Threads \ {t} : UNCHANGED <<stage[u], at[u], prev[u]>>
      BY <1>1, <2>2, <2>3, <2>4, FetchIs
    <3>2. ListsTypeOK'
      BY <1>5, <3>1, ListsTyped DEF NextDue
    <3> QED
      BY <1>5, <2>2, <3>1, <3>2 DEF Moved, NextDue
  <2>5. CASE UNCHANGED <<at, got>> /\ GoOn(t, IF todo[t] = {l} THEN "idle" ELSE "next")
    <3>1. LocalsTyped' /\ stage'[t] \in {"idle", "next"}
      BY <1>1, <2>2, <2>3, <2>5 DEF LocalsTyped, GoOn, Stages
    <3>2. ListsTypeOK'
      BY <1>5, <3>1, ListsTyped DEF NextDue
    <3>3. \A u \in Threads \ {t} : UNCHANGED <<stage[u], at[u], prev[u]>>
      BY <1>1, <2>3, <2>5 DEF LocalsTyped, GoOn
    <3> QED
      BY <1>5, <3>1, <3>2, <3>3 DEF Moved, NextDue
  <2> QED
    BY <2>1, <2>4, <2>5
<1> QED
  BY <1>2, <1>3, <1>4, <1>5

\* An apply that is accepted, or one that is rejected and changes nothing.
Records  == [Lists -> {"unmade", "on", "off", "gone"}]
Applied(t) ==
  \/ \E choice \in Records, attempts \in [Lists -> BOOLEAN] : Accepted(t, choice, attempts)
  \/ UNCHANGED <<list, file, conf, history>>

LEMMA AppliedTyped ==
  ASSUME ListsTypeOK, NEW t \in Threads, UNCHANGED source,
         NEW choice \in Records, NEW attempts \in [Lists -> BOOLEAN],
         Accepted(t, choice, attempts) \/ Rejected(choice),
         edits' \in 0..MaxEdits, LocalsTyped'
  PROVE  ListsTypeOK' /\ Applied(t)
<1>1. CASE Accepted(t, choice, attempts)
  BY <1>1, AcceptedTyped, ListsTyped DEF Records, ListsTypeOK, Applied
<1>2. CASE Rejected(choice)
  <2>1. Applied(t)
    BY <1>2 DEF Rejected, Applied, stores
  <2>2. source' \in [Lists -> Texts \cup {None}]
    BY DEF ListsTypeOK
  <2>3. ListsTypeOK'
    BY <1>2, <2>2, RejectedTyped, ListsTyped
  <2> QED
    BY <2>1, <2>3
<1> QED
  BY <1>1, <1>2

\* The routes that apply, each from a thread with no file in hand.
LEMMA RouteMoves ==
  ASSUME ListsTypeOK, InHand, NEW t \in Threads,
         \/ Update(t) \/ OtherEdit(t) \/ Rollback(t) \/ Restore(t)
         \/ \E l \in Lists : Add(t, l) \/ Delete(t, l)
  PROVE  /\ Moved(t) /\ Applied(t) /\ stage[t] \notin {"apply", "putback"}
         /\ stage'[t] \notin {"write", "apply", "putback"}
<1>1. LocalsTyped /\ source \in [Lists -> Texts \cup {None}] /\ edits \in 0..MaxEdits
  BY LocalsAre DEF ListsTypeOK
<1>2. list \in Records /\ due \in [Lists -> BOOLEAN]
  BY DEF ListsTypeOK, Records
<1>3. /\ held \in [Threads -> [state : {"on", "off"}, due : BOOLEAN]]
      /\ todo \in [Threads -> SUBSET Lists]
  BY <1>1 DEF LocalsTyped
<1>4. ASSUME stage[t] = "idle", UNCHANGED <<stage, locals>>
      PROVE  /\ LocalsTyped' /\ stage'[t] = "idle"
             /\ \A u \in Threads \ {t} : UNCHANGED <<stage[u], at[u], prev[u]>>
  BY <1>1, <1>4 DEF LocalsTyped, locals
<1>5. ASSUME NEW l \in Lists, Add(t, l)
      PROVE  /\ Moved(t) /\ Applied(t) /\ stage[t] = "idle"
             /\ stage'[t] \notin {"write", "apply", "putback"}
  <2>1. edits' \in 0..MaxEdits /\ stage[t] = "idle" /\ UNCHANGED source
    BY <1>5, EditedTyped DEF Add
  <2>2. PICK state \in {"on", "off"} :
          LET choice == [list EXCEPT ![l] = state] IN
          \/ /\ Accepted(t, choice, [due EXCEPT ![l] = TRUE]) /\ Fetch(t, l)
             /\ UNCHANGED <<prev, held, todo>>
          \/ Rejected(choice) /\ UNCHANGED <<stage, locals>>
    BY <1>5 DEF Add
  <2> DEFINE choice == [list EXCEPT ![l] = state]
             attempts == [due EXCEPT ![l] = TRUE]
  <2>3. choice \in Records /\ attempts \in [Lists -> BOOLEAN]
    BY <1>2 DEF Records
  <2>4. /\ LocalsTyped' /\ stage'[t] \notin {"write", "apply", "putback"}
        /\ \A u \in Threads \ {t} : UNCHANGED <<stage[u], at[u], prev[u]>>
        /\ stage'[t] \notin {"idle", "next"} => at'[t] \in Lists
    <3>1. CASE Fetch(t, l) /\ UNCHANGED <<prev, held, todo>>
      BY <1>1, <1>3, <3>1, FetchIs
    <3>2. CASE UNCHANGED <<stage, locals>>
      BY <1>4, <2>1, <3>2
    <3> QED
      BY <2>2, <3>1, <3>2
  <2>5. Accepted(t, choice, attempts) \/ Rejected(choice)
    BY <2>2
  <2> HIDE DEF choice, attempts
  <2>6. ListsTypeOK' /\ Applied(t)
    BY <2>1, <2>3, <2>4, <2>5, AppliedTyped
  <2> QED
    BY <2>1, <2>4, <2>6 DEF Moved
<1>6. ASSUME NEW l \in Lists, Delete(t, l)
      PROVE  /\ Moved(t) /\ Applied(t) /\ stage[t] = "idle"
             /\ stage'[t] \notin {"write", "apply", "putback"}
  <2>1. edits' \in 0..MaxEdits /\ stage[t] = "idle" /\ UNCHANGED source
    BY <1>6, EditedTyped DEF Delete
  <2> DEFINE choice == [list EXCEPT ![l] = "gone"]
             attempts == [due EXCEPT ![l] = FALSE]
  <2>2. \/ /\ Accepted(t, choice, attempts)
           /\ at' = [at EXCEPT ![t] = l] /\ GoOn(t, "remove")
           /\ UNCHANGED <<got, prev, held, todo>>
        \/ Rejected(choice) /\ UNCHANGED <<stage, locals>>
    BY <1>6 DEF Delete
  <2>3. choice \in Records /\ attempts \in [Lists -> BOOLEAN]
    BY <1>2 DEF Records
  <2> HIDE DEF choice, attempts
  <2>4. /\ LocalsTyped' /\ stage'[t] \notin {"write", "apply", "putback"}
        /\ \A u \in Threads \ {t} : UNCHANGED <<stage[u], at[u], prev[u]>>
        /\ stage'[t] \notin {"idle", "next"} => at'[t] \in Lists
    <3>1. CASE /\ at' = [at EXCEPT ![t] = l] /\ GoOn(t, "remove")
               /\ UNCHANGED <<got, prev, held, todo>>
      BY <1>1, <3>1 DEF LocalsTyped, GoOn, Stages
    <3>2. CASE UNCHANGED <<stage, locals>>
      BY <1>4, <2>1, <3>2
    <3> QED
      BY <2>2, <3>1, <3>2
  <2>5. Accepted(t, choice, attempts) \/ Rejected(choice)
    BY <2>2
  <2>6. ListsTypeOK' /\ Applied(t)
    BY <2>1, <2>3, <2>4, <2>5, AppliedTyped
  <2> QED
    BY <2>1, <2>4, <2>6 DEF Moved
<1>7. ASSUME Update(t)
      PROVE  /\ Moved(t) /\ Applied(t) /\ stage[t] = "update"
             /\ stage'[t] \notin {"write", "apply", "putback"}
  <2>1. stage[t] = "update" /\ at[t] \in Lists /\ UNCHANGED <<source, todo, edits>>
    BY <1>7 DEF Update, InHand
  <2>2. held' \in [Threads -> [state : {"on", "off"}, due : BOOLEAN]]
    BY <1>3, <1>7 DEF Update, Nothing
  <2> DEFINE choice == IF Present(at[t]) THEN [list EXCEPT ![at[t]] = held[t].state] ELSE list
             attempts == IF Present(at[t]) THEN [due EXCEPT ![at[t]] = held[t].due] ELSE due
  <2>3. \/ /\ Accepted(t, choice, attempts)
           /\ Done(t) \/ (Fetch(t, at[t]) /\ UNCHANGED prev)
        \/ Rejected(choice) /\ Done(t)
    BY <1>7 DEF Update
  <2>4. held[t].state \in {"on", "off"} /\ held[t].due \in BOOLEAN
    BY <1>3
  <2>5. choice \in Records /\ attempts \in [Lists -> BOOLEAN]
    BY <1>2, <2>4 DEF Records
  <2> HIDE DEF choice, attempts
  <2>6. /\ LocalsTyped' /\ stage'[t] \notin {"write", "apply", "putback"}
        /\ \A u \in Threads \ {t} : UNCHANGED <<stage[u], at[u], prev[u]>>
        /\ stage'[t] \notin {"idle", "next"} => at'[t] \in Lists
    <3>1. CASE Done(t)
      BY <1>1, <2>1, <2>2, <3>1, DoneIs
    <3>2. CASE Fetch(t, at[t]) /\ UNCHANGED prev
      BY <1>1, <1>3, <2>1, <2>2, <3>2, FetchIs
    <3> QED
      BY <2>3, <3>1, <3>2
  <2>7. Accepted(t, choice, attempts) \/ Rejected(choice)
    BY <2>3
  <2>8. ListsTypeOK' /\ Applied(t)
    BY <1>1, <2>1, <2>5, <2>6, <2>7, AppliedTyped
  <2> QED
    BY <2>1, <2>6, <2>8 DEF Moved
<1>8. ASSUME OtherEdit(t)
      PROVE  /\ Moved(t) /\ Applied(t) /\ stage[t] = "idle" /\ stage'[t] = "idle"
  <2>1. /\ stage[t] = "idle" /\ UNCHANGED <<source, stage, locals, edits>>
        /\ Accepted(t, list, due) \/ Rejected(list)
    BY <1>8 DEF OtherEdit
  <2>2. ListsTypeOK' /\ Applied(t)
    BY <1>1, <1>2, <1>4, <2>1, AppliedTyped
  <2> QED
    BY <1>4, <2>1, <2>2 DEF Moved
<1>9. ASSUME Rollback(t)
      PROVE  /\ Moved(t) /\ Applied(t) /\ stage[t] = "idle" /\ stage'[t] = "idle"
  <2>1. /\ stage[t] = "idle" /\ UNCHANGED <<source, stage, locals>> /\ edits' \in 0..MaxEdits
    BY <1>9, EditedTyped DEF Rollback
  <2>2. PICK choice \in Records, attempts \in [Lists -> BOOLEAN] :
          Accepted(t, choice, attempts) \/ Rejected(choice)
    BY <1>9 DEF Rollback, Records
  <2>3. ListsTypeOK' /\ Applied(t)
    BY <1>4, <2>1, <2>2, AppliedTyped
  <2> QED
    BY <1>4, <2>1, <2>3 DEF Moved
<1>10. ASSUME Restore(t)
       PROVE  /\ Moved(t) /\ Applied(t) /\ stage[t] = "idle"
              /\ stage'[t] \in {"next", "idle"}
  <2>1. /\ stage[t] = "idle" /\ UNCHANGED source /\ edits' \in 0..MaxEdits
    BY <1>10, EditedTyped DEF Restore
  <2>2. PICK saved \in SUBSET {l \in Lists : list[l] # "unmade"} :
          LET choice == [l \in Lists |-> IF l \in saved THEN "on"
                                         ELSE IF list[l] = "unmade" THEN "unmade" ELSE "gone"]
          IN \/ /\ Accepted(t, choice, [l \in Lists |-> l \in saved]) /\ saved # {}
                /\ todo' = [todo EXCEPT ![t] = saved] /\ GoOn(t, "next")
                /\ UNCHANGED <<at, got, prev, held>>
             \/ Rejected(choice) /\ UNCHANGED <<stage, locals>>
    BY <1>10 DEF Restore
  <2> DEFINE choice == [l \in Lists |-> IF l \in saved THEN "on"
                                        ELSE IF list[l] = "unmade" THEN "unmade" ELSE "gone"]
             attempts == [l \in Lists |-> l \in saved]
  <2>3. choice \in Records /\ attempts \in [Lists -> BOOLEAN]
    BY DEF Records
  <2>4. Accepted(t, choice, attempts) \/ Rejected(choice)
    BY <2>2
  <2>5. /\ LocalsTyped' /\ stage'[t] \in {"next", "idle"}
        /\ \A u \in Threads \ {t} : UNCHANGED <<stage[u], at[u], prev[u]>>
    <3>1. CASE /\ todo' = [todo EXCEPT ![t] = saved] /\ GoOn(t, "next")
               /\ UNCHANGED <<at, got, prev, held>>
      BY <1>1, <3>1 DEF LocalsTyped, GoOn, Stages
    <3>2. CASE UNCHANGED <<stage, locals>>
      BY <1>4, <2>1, <3>2
    <3> QED
      BY <2>2, <3>1, <3>2
  <2> HIDE DEF choice, attempts
  <2>6. ListsTypeOK' /\ Applied(t)
    BY <2>1, <2>3, <2>4, <2>5, AppliedTyped
  <2> QED
    BY <2>1, <2>5, <2>6 DEF Moved
<1> QED
  BY <1>5, <1>6, <1>7, <1>8, <1>9, <1>10

\* Time and the publishers.
LEMMA WorldMoves ==
  ASSUME ListsTypeOK, NEW l \in Lists, Elapse(l) \/ Publish(l)
  PROVE  ListsTypeOK' /\ UNCHANGED <<list, file, conf, stage, at, prev, history>>
<1>1. LocalsTyped
  BY LocalsAre
<1>2. CASE Elapse(l)
  <2>1. due' \in [Lists -> BOOLEAN]
    BY <1>2 DEF Elapse, ListsTypeOK
  <2>2. held' \in [Threads -> [state : {"on", "off"}, due : BOOLEAN]]
    <3>1. \A t \in Threads : held[t] \in [state : {"on", "off"}, due : BOOLEAN]
      BY <1>1 DEF LocalsTyped
    <3>2. \A t \in Threads : [held[t] EXCEPT !.due = TRUE] \in [state : {"on", "off"}, due : BOOLEAN]
      BY <3>1
    <3> QED
      BY <1>2, <3>1, <3>2 DEF Elapse
  <2>3. LocalsTyped'
    BY <1>1, <1>2, <2>2 DEF Elapse, LocalsTyped
  <2> QED
    BY <1>2, <2>1, <2>3, ListsTyped DEF Elapse, ListsTypeOK, history
<1>3. CASE Publish(l)
  <2>1. source' \in [Lists -> Texts \cup {None}]
    BY <1>3 DEF Publish, ListsTypeOK
  <2>2. edits' \in 0..MaxEdits
    BY <1>3, EditedTyped DEF Publish
  <2>3. LocalsTyped'
    BY <1>1, <1>3 DEF Publish, LocalsTyped, locals
  <2> QED
    BY <1>3, <2>1, <2>2, <2>3, ListsTyped DEF Publish, ListsTypeOK, stores, locals, history
<1> QED
  BY <1>2, <1>3

-----------------------------------------------------------------------------
(* What is rendered, and what is in hand                                   *)

\* An apply that is accepted renders every list from its file, and disturbs every
\* refresh but the one that made it.
LEMMA AcceptedSettles ==
  ASSUME NEW t \in Threads, NEW choice \in Records, NEW attempts, Accepted(t, choice, attempts),
         stage'[t] \notin {"write", "apply", "putback"},
         \A u \in Threads \ {t} : UNCHANGED <<stage[u], at[u], prev[u]>>
  PROVE  Settled' /\ Held'
<1>1. list' = choice /\ file' = file /\ conf' = Rendered(choice)
  BY DEF Accepted
<1>2. \A l \in Lists : conf'[l] = Shown(l, file[l])'
  BY <1>1 DEF Rendered, Shown
<1>3. \A u \in Pending' : u \in disturbed'
  BY DEF Accepted, Pending
<1> QED
  BY <1>2, <1>3 DEF Settled, Held

\* A step that renders nothing, touches no file, and settles no file in doubt.
LEMMA CalmStep ==
  ASSUME Settled, Held, UNCHANGED <<list, file, conf, history>>,
         \A u \in Threads :
           /\ stage'[u] \in {"write", "apply", "putback"} =>
                stage[u] \in {"write", "apply", "putback"} /\ at'[u] = at[u] /\ prev'[u] = prev[u]
           /\ stage[u] \in {"apply", "putback"} =>
                stage'[u] \in {"apply", "putback"} /\ at'[u] = at[u]
  PROVE  Settled' /\ Held'
<1>1. \A l \in Lists : InDoubt(l) => InDoubt(l)'
  BY DEF InDoubt
<1>2. Settled'
  BY <1>1 DEF Settled, Shown, history
<1>3. Held'
  BY DEF Held, Pending, Shown, history
<1> QED
  BY <1>2, <1>3

\* A refresh that looks at a file nobody has in doubt finds what is rendered.
LEMMA ReadSettles ==
  ASSUME ListsInv, NEW t \in Threads, ReadPrevious(t), Moved(t)
  PROVE  Settled' /\ Held'
<1> USE DEF ReadPrevious, GoOn, stores
<1>1. /\ UNCHANGED <<list, file, conf, spoiled, at>>
      /\ stage'[t] = "write" /\ prev'[t] = file[at[t]] /\ at[t] \in Lists /\ stage[t] = "read"
  BY DEF ListsInv, ListsTypeOK, InHand
<1>2. \A l \in Lists : InDoubt(l) => InDoubt(l)'
  BY <1>1 DEF InDoubt, Moved
<1>3. Settled'
  BY <1>1, <1>2 DEF ListsInv, Settled, Shown
<1>4. Held'
  <2> SUFFICES ASSUME ~spoiled, NEW u \in Pending', u \notin disturbed'
               PROVE  conf[at[u]] = Shown(at[u], prev'[u])
    BY <1>1 DEF Held, Shown
  <2>1. CASE u = t
    <3>1. ~InDoubt(at[t])
      BY <2>1
    <3> QED
      BY <1>1, <2>1, <3>1 DEF ListsInv, Settled
  <2>2. CASE u # t
    <3>1. u \in Pending /\ prev'[u] = prev[u] /\ u \notin disturbed
      BY <2>2 DEF Pending, Moved
    <3> QED
      BY <3>1 DEF ListsInv, Held
  <2> QED
    BY <2>1, <2>2
<1> QED
  BY <1>3, <1>4

\* Writing a file puts it in doubt.
LEMMA WriteSettles ==
  ASSUME ListsInv, NEW t \in Threads, WriteFile(t), Moved(t)
  PROVE  Settled' /\ Held'
<1> USE DEF WriteFile, SetFile, GoOn, stores, locals, history
<1>1. /\ UNCHANGED <<list, conf, spoiled, disturbed, at, prev>>
      /\ stage'[t] = "apply" /\ stage[t] = "write" /\ at[t] \in Lists
      /\ \A l \in Lists \ {at[t]} : file'[l] = file[l]
  BY DEF ListsInv, ListsTypeOK, InHand
<1>2. \A l \in Lists : InDoubt(l) => InDoubt(l)'
  BY <1>1 DEF InDoubt, Moved
<1>3. InDoubt(at[t])'
  BY <1>1 DEF InDoubt
<1>4. Settled'
  BY <1>1, <1>2, <1>3 DEF ListsInv, Settled, Shown
<1>5. Pending' = Pending
  BY <1>1 DEF Pending, Moved
<1>6. Held'
  BY <1>1, <1>5 DEF ListsInv, Held, Shown
<1> QED
  BY <1>4, <1>6

\* What a refresh puts back is what its list is rendered from, unless others have
\* rendered the list since: then it is the exception.
LEMMA PutBackSettles ==
  ASSUME ListsInv, NEW t \in Threads, PutBack(t), Moved(t)
  PROVE  Settled' /\ Held'
<1> USE DEF PutBack, SetFile, GoOn, stores, locals
<1>1. /\ UNCHANGED <<list, conf, disturbed, at, prev>>
      /\ stage'[t] = "note" /\ stage[t] = "putback" /\ at[t] \in Lists
      /\ file'[at[t]] = prev[t] /\ \A l \in Lists \ {at[t]} : file'[l] = file[l]
  BY DEF ListsInv, ListsTypeOK, InHand
<1> SUFFICES ASSUME ~spoiled' PROVE Settled' /\ Held'
  BY DEF Settled, Held
<1>2. ~spoiled /\ t \notin disturbed /\ t \in Pending
  BY <1>1 DEF Pending
<1>3. conf[at[t]] = Shown(at[t], prev[t])
  BY <1>2 DEF ListsInv, Held
<1>4. \A l \in Lists \ {at[t]} : InDoubt(l) => InDoubt(l)'
  BY <1>1 DEF InDoubt, Moved
<1>5. Settled'
  BY <1>1, <1>2, <1>3, <1>4 DEF ListsInv, Settled, Shown
<1>6. \A u \in Pending' : u \in Pending
  BY <1>1 DEF Pending, Moved
<1>7. Held'
  BY <1>1, <1>2, <1>6 DEF ListsInv, Held, Shown
<1> QED
  BY <1>5, <1>7

\* The file that a delete removes is of a list that is not rendered, or this is the
\* other exception.
LEMMA RemoveSettles ==
  ASSUME ListsInv, NEW t \in Threads, RemoveFile(t), Moved(t)
  PROVE  Settled' /\ Held'
<1> USE DEF RemoveFile, SetFile, GoOn, stores
<1>1. /\ UNCHANGED <<list, conf, disturbed>> /\ stage[t] = "remove" /\ at[t] \in Lists
      /\ stage'[t] \in {"idle", "next"}
      /\ \A l \in Lists \ {at[t]} : file'[l] = file[l]
  BY DEF ListsInv, ListsTypeOK, InHand, Done
<1> SUFFICES ASSUME ~spoiled' PROVE Settled' /\ Held'
  BY DEF Settled, Held
<1>2. ~spoiled /\ list[at[t]] # "on"
  OBVIOUS
<1>3. \A l \in Lists : InDoubt(l) => InDoubt(l)'
  BY <1>1 DEF InDoubt, Moved
<1>4. Settled'
  BY <1>1, <1>2, <1>3 DEF ListsInv, Settled, Shown
<1>5. \A u \in Pending' : u \in Pending /\ at'[u] = at[u] /\ prev'[u] = prev[u]
  BY <1>1 DEF Pending, Moved
<1>6. Held'
  BY <1>1, <1>2, <1>5 DEF ListsInv, Held, Shown
<1> QED
  BY <1>4, <1>6

LEMMA ListsMoveKeeps ==
  ASSUME ListsInv, NEW t \in Threads, ListsMove(t)
  PROVE  ListsInv'
<1>1. ASSUME Moved(t), Settled', Held' PROVE ListsInv'
  <2>1. InHand'
    BY <1>1 DEF Moved, ListsInv, InHand
  <2> QED
    BY <1>1, <2>1 DEF Moved, ListsInv
<1>2. ASSUME Moved(t), Applied(t), stage[t] \notin {"apply", "putback"},
             stage'[t] \notin {"write", "apply", "putback"}
      PROVE  ListsInv'
  <2>1. CASE UNCHANGED <<list, file, conf, history>>
    <3>1. Settled' /\ Held'
      BY <1>2, <2>1, CalmStep DEF Moved, ListsInv
    <3> QED
      BY <1>1, <1>2, <3>1
  <2>2. CASE \E choice \in Records, attempts \in [Lists -> BOOLEAN] : Accepted(t, choice, attempts)
    <3>1. Settled' /\ Held'
      BY <1>2, <2>2, AcceptedSettles DEF Moved
    <3> QED
      BY <1>1, <1>2, <3>1
  <2> QED
    BY <1>2, <2>1, <2>2 DEF Applied
<1>3. CASE \/ Update(t) \/ OtherEdit(t) \/ Rollback(t) \/ Restore(t)
           \/ \E l \in Lists : Add(t, l) \/ Delete(t, l)
  BY <1>2, <1>3, RouteMoves DEF ListsInv
<1>4. CASE Pass(t) \/ NextDue(t) \/ \E l \in Lists : Refresh(t, l) \/ StartUpdate(t, l)
  <2>1. /\ Moved(t) /\ stage[t] \notin {"apply", "putback"}
        /\ stage'[t] \notin {"write", "apply", "putback"} /\ UNCHANGED <<list, file, conf, history>>
    BY <1>4, ChoiceMoves DEF ListsInv
  <2> QED
    BY <1>2, <2>1 DEF Applied
<1>5. CASE ReadPrevious(t) \/ WriteFile(t) \/ PutBack(t) \/ RemoveFile(t)
  <2>1. Moved(t)
    BY <1>5, RefreshMoves DEF ListsInv
  <2> QED
    BY <1>1, <1>5, <2>1, ReadSettles, WriteSettles, PutBackSettles, RemoveSettles
<1>6. CASE Note(t)
  <2>1. Moved(t)
    BY <1>6, RefreshMoves DEF ListsInv
  <2>2. /\ stage[t] = "note" /\ stage'[t] \in {"idle", "next"}
        /\ UNCHANGED <<list, file, conf, history>>
    BY <1>6 DEF Note, Done, GoOn, ListsInv, ListsTypeOK
  <2> QED
    BY <1>2, <2>1, <2>2 DEF Applied
<1>7. CASE ApplyRefresh(t)
  <2>1. Moved(t)
    BY <1>7, RefreshMoves DEF ListsInv
  <2>2. CASE Accepted(t, list, Attempted(at[t])) /\ Done(t)
    <3>1. list \in Records /\ stage'[t] \in {"idle", "next"}
      BY <2>2 DEF Done, GoOn, ListsInv, ListsTypeOK, Records
    <3>2. Settled' /\ Held'
      BY <2>1, <2>2, <3>1, AcceptedSettles DEF Moved
    <3> QED
      BY <1>1, <2>1, <3>2
  <2>3. CASE Rejected(list) /\ GoOn(t, "putback") /\ UNCHANGED locals
    <3>1. /\ stage[t] = "apply" /\ stage'[t] = "putback"
          /\ UNCHANGED <<list, file, conf, history, at, prev>>
      BY <1>7, <2>3 DEF ApplyRefresh, Rejected, GoOn, stores, locals, ListsInv, ListsTypeOK
    <3>2. Settled' /\ Held'
      BY <2>1, <3>1, CalmStep DEF Moved, ListsInv
    <3> QED
      BY <1>1, <2>1, <3>2
  <2> QED
    BY <1>7, <2>2, <2>3 DEF ApplyRefresh
<1> QED
  BY <1>3, <1>4, <1>5, <1>6, <1>7 DEF ListsMove, Proceed

LEMMA ListsStep == ListsInv /\ [ListsNext]_listVars => ListsInv'
<1> SUFFICES ASSUME ListsInv, [ListsNext]_listVars PROVE ListsInv'
  OBVIOUS
<1>1. ASSUME NEW t \in Threads, ListsMove(t) PROVE ListsInv'
  BY <1>1, ListsMoveKeeps
<1>2. ASSUME ListsTypeOK', UNCHANGED <<list, file, conf, stage, at, prev, history>>
      PROVE  ListsInv'
  <2>1. Settled' /\ Held'
    BY <1>2, CalmStep DEF ListsInv
  <2> QED
    BY <1>2, <2>1 DEF ListsInv, InHand
<1>3. ASSUME NEW l \in Lists, Elapse(l) \/ Publish(l) PROVE ListsInv'
  BY <1>2, <1>3, WorldMoves DEF ListsInv
<1>4. CASE UNCHANGED listVars
  <2>1. ListsTypeOK'
    BY <1>4 DEF listVars, stores, locals, history, ListsInv, ListsTypeOK
  <2> QED
    BY <1>2, <1>4, <2>1 DEF listVars, stores, locals
<1> QED
  BY <1>1, <1>3, <1>4 DEF ListsNext, ListsMove

\* refresh_list and the routes of blocklists.py: whenever no request is at work on a
\* list, dnsmasq's files are the rendering of the lists and their domains files, with
\* the exceptions the property names.
THEOREM QuietIsRendered == ListsSpec => []QuietMeansRendered
<1>1. ListsInv => QuietMeansRendered
  <2> SUFFICES ASSUME ListsInv, Quiet, ~spoiled PROVE conf = Rendered(list)
    BY DEF QuietMeansRendered
  <2>1. \A l \in Lists : ~InDoubt(l)
    BY DEF Quiet, InDoubt
  <2>2. \A l \in Lists : conf[l] = Rendered(list)[l]
    BY <2>1, RenderedIs DEF ListsInv, Settled
  <2>3. conf \in [Lists -> (Texts \ Bad) \cup {None, "empty"}]
    BY DEF ListsInv, ListsTypeOK
  <2> QED
    BY <2>2, <2>3 DEF Rendered
<1> QED
  BY <1>1, ListsAtFirst, ListsStep, PTL DEF ListsSpec

\* Blocklists: every variable keeps its type, so what dnsmasq's files hold is always
\* acceptable.
THEOREM ListsTypeCorrect == ListsSpec => []ListsTypeOK
<1>1. ListsInv => ListsTypeOK
  BY DEF ListsInv
<1> QED
  BY <1>1, ListsAtFirst, ListsStep, PTL DEF ListsSpec
=============================================================================
