CONSTANTS
  Main = Main
  k1 = k1
  k2 = k2
  Children = {k1, k2}
SPECIFICATION Spec
INVARIANT AnnouncedStateAlive
CHECK_DEADLOCK FALSE
