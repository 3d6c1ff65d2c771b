\* The grid of NeuFlowMemory.cfg: three results of a row or so reach its end.
CONSTANTS
  StrideW = 8
  AlignW = 4
  SizeR = 6
  RawStart = 0
  ImageStart = 1
  HeapStart = 4
  RawSizes = {3, 4, 5, 8}
  ImageWidths = {3, 4, 6}
  ImageHeight = 2
  HeapSizes = {4, 5, 8, 10}
  MaxItems = 3
SPECIFICATION Spec
INVARIANT HeapInMemory
CHECK_DEADLOCK FALSE
