\* Two workers and a reconciler race for one run, under every fault; liveness included.
CONSTANTS
  Runs = {r1}
  Workers = {w1, w2}
  Reconcilers = {c1}
  NoProc = NoProc
  NoRun = NoRun
  FaultKinds = {"claim", "crash", "daemon", "storage", "removal"}
  MaxFaults = 3
SPECIFICATION LoopSpec
INVARIANTS WellFormed LaunchedOnce QuietWhenTerminal SuccessIsBacked LostMeansAbsent
PROPERTIES CancelIsNotUndone EveryRunSettles
