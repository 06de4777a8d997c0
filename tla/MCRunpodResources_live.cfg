\* A training run or a playground: fair loops, every fault twice.
CONSTANTS
  Runs = {r1}
  Plays = {d1}
  Target <- MCTarget
  TargetLimit = 1
  GlobalLimit = 1
  Workers = {w1}
  Reconcilers = {c1}
  NoProc = NoProc
  None = None
  Enabled = {"runpod", "ssh"}
  FaultKinds = {"crash", "claim", "api", "answer", "removal", "server"}
  MaxOwners = 1
  MaxFaults = 2
SPECIFICATION FairSpec
INVARIANTS Consistent EveryPodIsOwned VerdictIsKept
PROPERTIES PodsAreReturned
CHECK_DEADLOCK FALSE
