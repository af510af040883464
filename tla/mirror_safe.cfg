SPECIFICATION Spec
CONSTANTS
  p1 = p1  p2 = p2  NoPush = NoPush  NoMessage = NoMessage  NoSource = NoSource
  Pushes = {p1, p2}
  Sections <- MCSections
  Stores <- MCStores
  SectionStore <- MCSectionStore
  CarriedBy <- MCCarriedBy
  Edits <- MCEdits
  LocalWrites <- MCLocalWrites
  MaxEdits = 1
  MaxSerial = 2
  MaxUpsets = 3
INVARIANTS Lineage SerialOrdersContent AnsweredMeansMirrored
PROPERTY FreshNeverStale
SYMMETRY MCSymmetry
CHECK_DEADLOCK FALSE
