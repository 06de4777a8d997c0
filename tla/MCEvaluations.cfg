SPECIFICATION FairSpec
CONSTANTS
  Prompts = {p1, p2}
  Preferences = {"base_better", "same"}
  Clients = {c1, c2}
  MaxAttempts = 2
  FaultKinds = {"crash", "work", "store", "docker"}
  MaxFaults = 2
INVARIANTS Consistent ReportIsCurrent SuccessIsComplete
PROPERTIES AttemptsEnd
CHECK_DEADLOCK FALSE
