\* Three threads: one inside, one queueing, one asleep in a wait.
CONSTANTS
  t1 = t1
  t2 = t2
  t3 = t3
  Threads = {t1, t2, t3}
  NoThread = NoThread
  MaxDepth = 2
SPECIFICATION Spec
INVARIANTS TypeOK OneInside CountExact Verdict
PROPERTY ImplementsRecursiveMutex
