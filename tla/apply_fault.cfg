SPECIFICATION Spec
CONSTANTS
  t1 = t1  t2 = t2  NoThread = NoThread  Absent = Absent
  Threads = {t1, t2}
  Stores <- MCStores
  Content <- MCContent
  Files <- MCFiles
  HupOnly <- MCHupOnly
  Text <- MCText
  Render <- MCRender
  Accepts <- MCAccepts
  Starts <- MCStarts
  Defaults <- MCDefaults
  Requests <- MCRequests
  Unlisted = {"blocklists"}
  Mirrored = {}
  Supervise = TRUE
  FaultKinds = {"crash", "abort"}
  MaxFaults = 1
  MaxSerial = 2
INVARIANTS LockFreeConsistent IdleMeansCurrent
