SPECIFICATION Spec
CONSTANTS
  s1 = s1  s2 = s2  nobody = nobody  ip = ip  noip = noip  data = data
  Objects <- MCObjects
  Addresses = {ip}
  Nobody = nobody
  NoAddress = noip
  Payloads = {data}
  Callers <- CarefulOrNot
  MaxQueue = 1
  MaxCalls = 3
SYMMETRY ObjectSymmetry
INVARIANTS
  DescriptorsReleased
  OwnDescriptor
  ArrivalIsReceived
CHECK_DEADLOCK FALSE
