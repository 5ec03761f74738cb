CONSTANTS
  Clients = {c1, c2}
  Instances = {p, q}
  Quiet = info
  Loud = debug
  NoBody = nobody
  MaxLine = 2
  MaxAlive = 1
  Requests <- MCRequests
SPECIFICATION Spec
PROPERTY StaysStopped
