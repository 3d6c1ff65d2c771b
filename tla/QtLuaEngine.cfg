CONSTANTS
  e = e
  g = g
  w = w
  None = None
  Threads = {e, g, w}
  Owner = e
  Gui = {g}
  Callers = {g, w}
  Nested = {}
  Calls = {"use", "eval", "async"}
  HopTargets = {g}
  Sessions = {"lockers", "pauses"}
  MaxCalls = 3
  MaxSignals = 2
  MaxHops = 1
  MaxStops = 1
SPECIFICATION FairSpec
INVARIANTS TypeOK OneInLua RunningReported
PROPERTIES CallsReturn SignalsServed
CHECK_DEADLOCK FALSE
