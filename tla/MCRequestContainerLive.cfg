SPECIFICATION FairSpec
CONSTANTS
  r1 = r1
  r2 = r2
  p = p
  w = w
  loop = loop
  waiter = waiter
  user = user
  None = None
  Requests = {r1}
  Containers = {p, w}
  Consumers = {loop, waiter}
  Aborters = {}
  Kind <- LiveKind
  Victim <- NoVictim
  First <- LiveFirst
  Second <- LiveSecond
  Serves <- LiveServes
  Own <- OwnOf
  Target <- TargetOf
PROPERTIES SubmittedGetsDone DisableReturns WaitDoneReturns
CHECK_DEADLOCK FALSE
