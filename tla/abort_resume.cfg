\* One run over two devices: a job that is UNKNOWN when the run is aborted.
SPECIFICATION Spec
CONSTANTS
  j1 = j1  j2 = j2  d1 = d1  d2 = d2  h1 = h1  h2 = h2  r1 = r1  r2 = r2
  i1 = i1  i2 = i2
  done = done  stopped = stopped
  Job = {j1, j2}
  Device = {d1, d2}
  Host = {h1, h2}
  Run = {r1}
  Instance = {i1}
  Payload = {stopped}
  NoPayload = NoPayload
  devOf <- OwnDevice
  hostOf <- OwnHost
  runOf <- OneRun
  outcome <- StoppedOnly
  MaxGen = 1
PROPERTY AbortForbidsResume
CHECK_DEADLOCK FALSE
