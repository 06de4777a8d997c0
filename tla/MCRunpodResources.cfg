\* A training run and a playground that compete for the one Pod of a target.
CONSTANTS
  Runs = {r1}
  Plays = {d1}
  Target <- MCTarget
  TargetLimit = 1
  GlobalLimit = 1
  Workers = {w1}
  Reconcilers = {c1}
  NoProc = NoProc
  None = None
  Enabled = {"runpod", "ssh"}
  FaultKinds = {"crash", "claim", "api", "answer", "removal", "server"}
  MaxOwners = 2
  MaxFaults = 1
SPECIFICATION Spec
INVARIANTS CapacityHolds
CHECK_DEADLOCK FALSE
