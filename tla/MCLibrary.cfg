\* A new original beside one that two datasets share; two requests at once.
CONSTANTS
  Originals = {o1, o2}
  Documents = {o1}
  Shelved = {o2}
  Datasets = {d1, d2}
  Clients = {c1, c2}
  Contents = {x, y}
  MaxRows = 2
  None = None
SPECIFICATION Spec
SYMMETRY Symmetry
INVARIANTS Consistent OriginalsAreKept ProvenanceIsKept NothingIsLeftBehind
CHECK_DEADLOCK FALSE
