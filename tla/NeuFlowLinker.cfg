\* Every program of three actions on two ports, in one to three processes, of which
\* some fit into a page and some do not.  Port 2 is the one whose number is a submodule.
CONSTANTS
  Ports = {2, 3}
  Actions = {"prefetch", "sync-prefetch", "read", "activate", "fetch+read",
    "fetch+read+sync+close", "write", "close", "sync+close", "setup", "tile"}
  PageSize = 24
  MaxActions = 3
SPECIFICATION Spec
INVARIANTS TypeOK PortsSeeSame ProcessInPage PaddingJumped
CHECK_DEADLOCK FALSE
