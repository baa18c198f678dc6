\* One device, two runs with one job each, two Agent instances.
SPECIFICATION Spec
CONSTANTS
  j1 = j1  j2 = j2  d1 = d1  d2 = d2  h1 = h1  h2 = h2  r1 = r1  r2 = r2
  i1 = i1  i2 = i2
  done = done  stopped = stopped
  Job = {j1, j2}
  Device = {d1}
  Host = {h1}
  Run = {r1, r2}
  Instance = {i1, i2}
  Payload = {done, stopped}
  NoPayload = NoPayload
  devOf <- SharedDevice
  hostOf <- OneHost
  runOf <- TwoRuns
  outcome <- Outcomes
  MaxGen = 3
SYMMETRY HandoverSymmetry
INVARIANTS TypeOK LeaseExclusion LeaseFollowsJob NewestToken DebtHoldsDevice RetiredDeviceIdle
PROPERTIES TerminalFactsStand OnlyRecoveryRevives AcceptedUnderNewestToken LeasesImplementLock HostAbortForbidsResume
CHECK_DEADLOCK FALSE
