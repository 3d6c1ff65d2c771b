\* Two producers and two consumers on a queue of two: a wakeup can be taken by
\* the wrong thread, and an insert can find the queue neither empty nor full.
CONSTANTS
  p1 = p1
  p2 = p2
  c1 = c1
  c2 = c2
  a = a
  b = b
  Producers = {p1, p2}
  Consumers = {c1, c2}
  Values = {a, b}
  Size = 2
  NoValue = NoValue
  MaxInserts = 4
SPECIFICATION FairSpec
INVARIANTS TypeOK ItemsServed RoomServed
PROPERTIES ImplementsBoundedFifo Delivered InsertReturns
CHECK_DEADLOCK FALSE
