SPECIFICATION FairSpec
CONSTANTS
  Executors = {"kubernetes", "sagemaker"}
  FaultKinds = {"crash", "api", "answer", "replace", "server"}
  MaxFaults = 3
INVARIANTS Consistent NothingIsOrphaned
PROPERTIES LeaseEnds
CHECK_DEADLOCK FALSE
