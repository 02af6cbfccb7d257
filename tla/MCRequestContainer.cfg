SPECIFICATION Spec
CONSTANTS
  r1 = r1
  r2 = r2
  p = p
  w = w
  loop = loop
  waiter = waiter
  user = user
  None = None
  Requests = {r1, r2}
  Containers = {w}
  Consumers = {loop, waiter}
  Aborters = {user}
  Kind <- KindOf
  Victim <- VictimOf
  First <- FirstOf
  Second <- SecondOf
  Serves <- ServesOf
  Own <- OwnOf
  Target <- TargetOf
INVARIANTS TypeOK NoLostWakeup OnePlace OnlyAbortedLeft
PROPERTIES DisabledForGood
CHECK_DEADLOCK FALSE
