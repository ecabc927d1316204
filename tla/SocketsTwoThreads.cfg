SPECIFICATION Spec
CONSTANTS
  s1 = s1  s2 = s2  nobody = nobody  ip = ip  noip = noip  data = data
  Objects <- MCObjects
  Addresses = {ip}
  Nobody = nobody
  NoAddress = noip
  Payloads = {data}
  Callers <- TwoThreads
  MaxQueue = 1
  MaxCalls = 2
SYMMETRY ObjectSymmetry
INVARIANT EveryCallerKeepsSockets
CHECK_DEADLOCK FALSE
