\* A completion just before docker stop is discarded.
CONSTANTS
  Runs = {r1}
  Workers = {w1}
  Reconcilers = {c1}
  NoProc = NoProc
  NoRun = NoRun
  FaultKinds = {}
  MaxFaults = 0
SPECIFICATION Spec
INVARIANTS CompletionIsRetained
