SPECIFICATION SyncSpec
CONSTANTS
  t1 = t1  t2 = t2  doh = doh  relay = relay  Off = Off  NoConfig = NoConfig
  Threads = {t1, t2}
  Configs = {doh, relay}
  MaxSpawns = 3
  MaxWrites = 2
  MaxRequests = 3
INVARIANT QuietMeansSynced
SYMMETRY Alike
CHECK_DEADLOCK FALSE
