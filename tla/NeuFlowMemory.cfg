\* Rows of 8 words aligned to 4: sizes below, at and above the alignment and the
\* row, results that run over the end of a row, and few enough rows for the
\* heap to start over and for the images to outgrow their segment.
CONSTANTS
  StrideW = 8
  AlignW = 4
  SizeR = 6
  RawStart = 0
  ImageStart = 1
  HeapStart = 4
  RawSizes = {3, 4, 5, 8}
  ImageWidths = {3, 4, 6}
  ImageHeight = 2
  HeapSizes = {4, 5, 8, 10}
  MaxItems = 3
SPECIFICATION Spec
INVARIANTS TypeOK RawApart ImagesApart HeapApart StartsAligned NoErrorNoOverlap FileIsMemory
CHECK_DEADLOCK FALSE
