SPECIFICATION FairSpec
CONSTANTS
  t1 = t1  t2 = t2  NoThread = NoThread  Absent = Absent
  Threads = {t1, t2}
  Stores <- MCStores
  Content <- MCContent
  Files <- MCFiles
  HupOnly <- MCHupOnly
  Text <- MCText
  Render <- MCRender
  Accepts <- MCAccepts
  Starts <- MCStarts
  Defaults <- MCDefaults
  Requests <- MCRequests
  Mirrored = {"dhcp"}
  Unlisted = {"blocklists"}
  Supervise = TRUE
  FaultKinds = {}
  MaxFaults = 0
  MaxSerial = 2
INVARIANTS TypeOK LockFreeConsistent SerialIdentifiesContent IdleMeansCurrent ChangelogCurrent
PROPERTIES RefinesRegister DriftRepaired
