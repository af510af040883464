SPECIFICATION FairSpec
CONSTANTS
  t1 = t1  t2 = t2
  Threads = {t1, t2}
  MaxSpawns = 3
  MaxWrites = 2
INVARIANTS TypeOK OneChild Watched
PROPERTIES RestartLoads ComesBack
CHECK_DEADLOCK FALSE
