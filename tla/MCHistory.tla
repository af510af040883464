----------------------------- MODULE MCHistory -----------------------------
(***************************************************************************)
(* A small instance of History: the app over four days with no queries to  *)
(* count, or two tickers within a day with some.                           *)
(***************************************************************************)
EXTENDS History

DaysOrQueries ==
  {[last |-> LastSlot, answers |-> 0, tickers |-> {"app"}],
   [last |-> Slots - 1, answers |-> MaxAnswers, tickers |-> Tickers]}
=============================================================================
