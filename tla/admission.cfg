\* A manual run and a chained one, which may shrink, share a device.
SPECIFICATION FairSpec
CONSTANTS
  manual = manual  chained = chained  d1 = d1  d2 = d2
  Nobody = Nobody  NoRun = NoRun
  Run = {manual, chained}
  Device = {d1, d2}
  wanted <- Overlapping
  Shrinkable = {chained}
  User = {u1}
  Attempt = {a1, a2}
  Batch = 2
  MaxStrikes = 1
INVARIANTS TypeOK WaitingRunHoldsNothing
PROPERTIES SupersededIsInert KeepsRunAdmission PrecheckResolves
CHECK_DEADLOCK FALSE
