\* Three devices, one permit, waits that time out, and no abort.
SPECIFICATION TimedSpec
CONSTANTS
  w1 = w1  w2 = w2  w3 = w3  d1 = d1  d2 = d2  d3 = d3
  Worker = {w1, w2, w3}
  Device = {d1, d2, d3}
  devOf <- OwnDevice
  Caps = {1}
  MaxAborts = 0
PROPERTIES NoStarvation
