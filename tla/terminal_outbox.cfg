\* One job, two results it may report, an Agent that crashes once.
SPECIFICATION FairSpec
CONSTANTS
  Fact = {f1, f2}  NoFact = NoFact
  MaxTries = 2  MaxRestarts = 1  MaxInFlight = 1  MaxWorkers = 2
INVARIANTS TypeOK AckedMeansEnded FinishedIsNotRelaunched
PROPERTIES PendingResolves
CHECK_DEADLOCK FALSE
