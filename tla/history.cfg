SPECIFICATION Spec
CONSTANTS
  Tickers = {"app", "cli"}
  Slots = 2
  RawDays = 2
  DailyDays = 2
  LastSlot = 7
  MaxAnswers = 3
  Scopes <- DaysOrQueries
INVARIANTS NeverOvercounted FoldedBeforeGone WholeWhileKept
CHECK_DEADLOCK FALSE
