CONSTANTS
  c1 = c1
  c2 = c2
  l1 = l1
  rgb = rgb
  ir = ir
  d11 = d11
  Clients = {c1, c2}
  Loops = {l1}
  Nobody = Nobody
  BadFormat = BadFormat
  Depth11 = d11
  VideoFormats = {rgb, ir}
  DepthFormats = {d11}
  Calls = {"video", "control"}
  Faults = {}
  MaxCalls = 3
SPECIFICATION FairSpec
INVARIANTS TypeOK CallbackBuffer ReturnedBufferStable RunloopExclusive
PROPERTIES CallsReturn
CHECK_DEADLOCK FALSE
