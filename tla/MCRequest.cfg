SPECIFICATION FairSpec
CONSTANTS
  Requests = {r1}
  proc = proc
  comp = comp
  worker = worker
  Containers = {proc, comp, worker}
  NoContext = NoContext
  Kind <- KindOf
INVARIANTS TypeOK NoInvalidCall SubmittedOnce DoneHandlerCalled DestructorAssertions
PROPERTIES AbortIsFinal ImplementsLifecycle QueuedGetsDone AbortGetsFinalized
CHECK_DEADLOCK FALSE
