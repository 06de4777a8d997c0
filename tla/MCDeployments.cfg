\* One playground, two workers and a reconciler, every fault, liveness included.
CONSTANTS
  Playgrounds = {d1}
  Workers = {w1, w2}
  Reconcilers = {c1}
  Chat = Chat
  NoProc = NoProc
  None = None
  Leases = {1, 2}
  Day = 2
  Deadline = 1
  FaultKinds = {"crash", "claim", "daemon", "storage", "removal", "server"}
  MaxFaults = 2
SPECIFICATION FairSpec
INVARIANTS TypeOK TerminalIsFree RunningWasHealthy ChatIsUndisturbed
PROPERTIES RequestsAreDecided LeaseEnds
