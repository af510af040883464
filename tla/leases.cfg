SPECIFICATION Spec
CONSTANTS
  None = None
  Macs = {mac1, mac2}
  Ips = {ip1, ip2}
  Names = {name1}
  Ids = {id1, id2}
  Requests = {req1, req2}
  AtStart = 1
  MaxChanges = 2
INVARIANTS HostsOnce OwnSnapshotsRestore AnswersHold
SYMMETRY Alike
CHECK_DEADLOCK FALSE
