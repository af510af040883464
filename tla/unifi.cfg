SPECIFICATION Spec
CONSTANTS
  None = None
  Names = {a, b}
  Addresses = {x, y}
  Peers <- AnyPeer
  Earlier <- OldStores
  MaxEdits = 1
  MaxMeddling = 1
  MaxSyncs = 1
INVARIANTS OkMeansMatching StatusIsTrue EmptyDeletesNothing
SYMMETRY Alike
CHECK_DEADLOCK FALSE
