SPECIFICATION FairSpec
CONSTANTS
  Requests = {r1, r2}
  FaultKinds = {"crash", "api", "answer", "late", "vanish"}
  MaxFaults = 3
INVARIANTS Consistent OutcomeMatchesOutput
PROPERTIES RequestsAreDecided
CHECK_DEADLOCK FALSE
