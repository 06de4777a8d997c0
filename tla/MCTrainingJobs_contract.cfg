\* Two runs, one of them perhaps a clone of the other, refine the contract.
CONSTANTS
  Runs = {r1, r2}
  Workers = {w1}
  Reconcilers = {c1}
  NoProc = NoProc
  NoRun = NoRun
  FaultKinds = {"crash", "daemon"}
  MaxFaults = 1
SPECIFICATION Spec
SYMMETRY Symmetry
PROPERTIES KeepsContract
