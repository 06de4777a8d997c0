SPECIFICATION FairSpec
CONSTANTS
  Executors = {"kubernetes", "sagemaker", "ssh"}
  FaultKinds = {"crash", "api", "answer", "late", "evict", "corrupt"}
  MaxFaults = 3
INVARIANTS Consistent NothingIsOrphaned WorkIsNotWasted
PROPERTIES RunIsDecided
CHECK_DEADLOCK FALSE
