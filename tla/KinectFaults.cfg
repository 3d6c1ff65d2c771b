CONSTANTS
  c1 = c1
  l1 = l1
  l2 = l2
  rgb = rgb
  d11 = d11
  Clients = {c1}
  Loops = {l1, l2}
  Nobody = Nobody
  BadFormat = BadFormat
  Depth11 = d11
  VideoFormats = {rgb, BadFormat}
  DepthFormats = {d11}
  Calls = {"setup", "video", "depth", "both", "control", "stop"}
  Faults = {"open", "events"}
  MaxCalls = 4
SPECIFICATION Spec
INVARIANTS CallbackBuffer RunloopExclusive CleanStop
CHECK_DEADLOCK FALSE
