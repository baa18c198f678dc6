\* The same Agent: it confirms a fact that the control plane never stored.
SPECIFICATION Spec
CONSTANTS
  Fact = {f1, f2}  NoFact = NoFact
  MaxTries = 2  MaxRestarts = 1  MaxInFlight = 1  MaxWorkers = 2
INVARIANTS AckedIsKept
CHECK_DEADLOCK FALSE
