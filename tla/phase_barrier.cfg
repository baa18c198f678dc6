\* Three jobs on a host whose Agent restarts once.
SPECIFICATION FairSpec
CONSTANTS
  Job = {j1, j2, j3}
  MaxRestarts = 1
INVARIANTS TypeOK OpenMeansAllCame
PROPERTIES WaiterKeepsItsBarrier NobodyWaitsForEver
CHECK_DEADLOCK FALSE
