CONSTANTS
  c1 = c1
  l1 = l1
  rgb = rgb
  d11 = d11
  Clients = {c1}
  Loops = {l1}
  Nobody = Nobody
  BadFormat = BadFormat
  Depth11 = d11
  VideoFormats = {rgb}
  DepthFormats = {d11}
  Calls = {"both"}
  Faults = {}
  MaxCalls = 1
SPECIFICATION Spec
INVARIANT OneRingLock
CHECK_DEADLOCK FALSE
