\* Three children: one can be finishing while another creates the third.
CONSTANTS
  Main = Main
  k1 = k1
  k2 = k2
  k3 = k3
  Children = {k1, k2, k3}
SPECIFICATION FairSpec
INVARIANTS TypeOK ActiveExact ClosesAlone RunningStateAlive
PROPERTY CloseReturns
CHECK_DEADLOCK FALSE
