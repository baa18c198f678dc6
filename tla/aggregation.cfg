\* Two jobs, marks consumed one by one, one lost message or crash.
SPECIFICATION FairSpec
CONSTANTS
  j1 = j1  j2 = j2  h1 = h1  h2 = h2  t1 = t1  t2 = t2
  Job = {j1, j2}
  Host = {h1, h2}
  hostOf <- OwnHost
  Tail = {t1}
  BatchLimit = 1
  MaxRounds = 2
  MaxFailures = 1
INVARIANTS TypeOK CountersBetweenMarksAndFacts VerdictOfAllFacts NoStrandedMark OneChild
PROPERTIES SettledOnce AllJobsEndedSettles
