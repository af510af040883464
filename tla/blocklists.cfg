SPECIFICATION FairListsSpec
CONSTANTS
  l1 = l1  l2 = l2  ticker = ticker  web = web  good = good  bad = bad
  None = None
  Lists = {l1, l2}
  Threads = {ticker, web}
  Ticker = ticker
  Texts = {good, bad}
  Bad = {bad}
  MaxEdits = 2
INVARIANT QuietMeansRendered
PROPERTY CatchesUp
CHECK_DEADLOCK FALSE
