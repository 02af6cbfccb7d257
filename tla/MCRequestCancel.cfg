SPECIFICATION FairSpec
CONSTANTS
  Requests = {r1}
  proc = proc
  comp = comp
  worker = worker
  Containers = {proc, comp, worker}
  NoContext = NoContext
  Kind <- KindOf
PROPERTY CancellationFiredOnAbort
CHECK_DEADLOCK FALSE
