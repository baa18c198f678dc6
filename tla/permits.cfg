\* Three devices compete for one permit or three.
SPECIFICATION Spec
CONSTANTS
  w1 = w1  w2 = w2  w3 = w3  d1 = d1  d2 = d2  d3 = d3
  Worker = {w1, w2, w3}
  Device = {d1, d2, d3}
  devOf <- OwnDevice
  Caps = {1, 3}
  MaxAborts = 1
INVARIANTS TypeOK PermitAccounting NoIdlePermit EveryMarkHasReader
PROPERTIES KeepsPermitPool
