SPECIFICATION FairSpec
CONSTANTS
  m1 = m1  m2 = m2  cert = cert  NoMac = NoMac
  Macs = {m1, m2}
  Faults = {cert}
  Profiles <- DevicesOrService
  Full = 2
  Low = 1
  Cooldown = 2
  Grace = 2
  MaxCount = 1
INVARIANT KnownMeansTold
PROPERTIES TellOnce NoFalseAlarm FaultsAreTold
CHECK_DEADLOCK FALSE
