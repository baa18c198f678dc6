\* Three devices compete for one permit.
SPECIFICATION FairSpec
CONSTANTS
  w1 = w1  w2 = w2  w3 = w3  d1 = d1  d2 = d2  d3 = d3
  Worker = {w1, w2, w3}
  Device = {d1, d2, d3}
  devOf <- OwnDevice
  Caps = {1}
  MaxAborts = 1
PROPERTIES WaiterIsWoken ShutdownDrains
