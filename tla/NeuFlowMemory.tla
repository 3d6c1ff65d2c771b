--------------------------- MODULE NeuFlowMemory ---------------------------
(***************************************************************************)
(* packages/NeuFlow/Memory.lua: where the neuFlow compiler puts kernels    *)
(* (raw data), images and intermediate results (the heap) in the memory of *)
(* the processor, and the collision report Linker.lua makes of it.         *)
(*                                                                         *)
(* Memory is a grid of words: rows of StrideW words, `y' counting rows and *)
(* `x' words within one.  The streamer reads from multiples of AlignW.     *)
(* Each segment keeps the items placed so far and the place of the next.   *)
(***************************************************************************)
EXTENDS Naturals, Sequences

CONSTANTS StrideW,      \* streamer.stride_w, words in a row
          AlignW,       \* streamer.align_w
          SizeR,        \* memory.size_r, rows of memory
          RawStart, ImageStart, HeapStart,  \* the row each segment starts at
          RawSizes,     \* words of a padded kernel and its bias
          ImageWidths, ImageHeight,         \* "all the data of the same size"
          HeapSizes,    \* words of an intermediate result
          MaxItems      \* bound on the items of each segment

ASSUME GeometryAssumption == /\ AlignW \in Nat \ {0}
                             /\ StrideW \in Nat \ {0} /\ StrideW % AlignW = 0
                             /\ SizeR \in Nat
ASSUME SegmentsAssumption == /\ {RawStart, ImageStart, HeapStart} \subseteq Nat
                             /\ RawStart < ImageStart /\ ImageStart < HeapStart
                             /\ HeapStart < SizeR
ASSUME SizesAssumption == /\ RawSizes \subseteq 1 .. StrideW
                          /\ ImageWidths \subseteq 1 .. StrideW
                          /\ ImageHeight \in Nat \ {0}
                          /\ HeapSizes \subseteq Nat \ {0}
                          /\ MaxItems \in Nat

VARIABLES raw, rawAt,      \* raw_data and its offset pointer
          lastAlign,       \* last_align: padding after the last kernel
          image, imageAt,  \* data
          heap, heapAt,    \* buff
          lap              \* the items since the heap last started over

vars == <<raw, rawAt, lastAlign, image, imageAt, heap, heapAt, lap>>

Places == [x : 0 .. StrideW, y : Nat]
Items(widths) == [x : 0 .. StrideW, y : Nat, w : widths]

TypeOK == /\ raw \in Seq(Items(RawSizes)) /\ rawAt \in Places
          /\ lastAlign \in 0 .. (AlignW - 1)
          /\ image \in Seq(Items(ImageWidths)) /\ imageAt \in Places
          /\ heap \in Seq(Items(HeapSizes)) /\ heapAt \in Places
          /\ lap \in 0 .. Len(heap)

Place(x, y) == [x |-> x, y |-> y]
Item(p, w) == [x |-> p.x, y |-> p.y, w |-> w]

Init == /\ raw = <<>> /\ rawAt = Place(0, RawStart) /\ lastAlign = 0
        /\ image = <<>> /\ imageAt = Place(0, ImageStart)
        /\ heap = <<>> /\ heapAt = Place(0, HeapStart)
        /\ lap = 0

-----------------------------------------------------------------------------
\* Seeded faults: no step to the next band; a step of one row for all items.
FittingNever(p, w, rows) == p
FittingOneRow(p, w, rows) == IF p.x + w > StrideW THEN Place(0, p.y + 1) ELSE p

\* Where an item of w words goes when it must not cross the end of a row: the
\* next band of rows is `rows' further down.
Fitting(p, w, rows) == IF p.x + w > StrideW THEN Place(0, p.y + rows) ELSE p

\* Seeded fault: the pointer is left where the item ends.
RoundUpNot(x) == x

RoundUp(x) == IF x % AlignW = 0 THEN x ELSE (x \div AlignW + 1) * AlignW

\* The place after p, aligned.
AlignedPlace(p, rows) ==
  IF RoundUp(p.x) > StrideW THEN Place(0, p.y + rows) ELSE Place(RoundUp(p.x), p.y)

\* Seeded fault: a kernel that ends aligned is padded as well.
PaddingFull(end) == AlignW - (end % AlignW)

\* last_align after a kernel that ends at word `end' of its row.
Padding(end) == IF end % AlignW = 0 THEN lastAlign
                ELSE IF RoundUp(end) > StrideW THEN 0 ELSE RoundUp(end) - end

\* allocKernel, of a padded kernel and its bias, and allocRawData.
AllocRaw(n) ==
  LET p == Fitting(rawAt, n, 1)
      end == p.x + n
  IN /\ Len(raw) < MaxItems
     /\ raw' = Append(raw, Item(p, n))
     /\ rawAt' = AlignedPlace(Place(end, p.y), 1)
     /\ lastAlign' = Padding(end)
     /\ UNCHANGED <<image, imageAt, heap, heapAt, lap>>

AllocImage(w) ==
  LET p == Fitting(imageAt, w, ImageHeight)
  IN /\ Len(image) < MaxItems
     /\ image' = Append(image, Item(p, w))
     /\ imageAt' = AlignedPlace(Place(p.x + w, p.y), ImageHeight)
     /\ UNCHANGED <<raw, rawAt, lastAlign, heap, heapAt, lap>>

\* Seeded fault: what is left over stays in the row.
InRowSame(x, y) == IF x > StrideW THEN Place(x - StrideW, y) ELSE Place(x, y)

\* The place n words after p: an item of the heap goes on in the next rows.
InRow(x, y) == IF x > StrideW THEN Place(x - StrideW, y + 1) ELSE Place(x, y)
Advance(p, n) == InRow(p.x + (n % StrideW), p.y + (n \div StrideW))

\* When the rows are used up the heap starts over, on top of its first items.
AllocHeap(n) ==
  LET over == heapAt.y + 1 > SizeR
      p == IF over THEN Place(0, HeapStart) ELSE heapAt
  IN /\ Len(heap) < MaxItems
     /\ heap' = Append(heap, Item(p, n))
     /\ heapAt' = AlignedPlace(Advance(p, n), 1)
     /\ lap' = IF over THEN 1 ELSE lap + 1
     /\ UNCHANGED <<raw, rawAt, lastAlign, image, imageAt>>

Next == \/ \E n \in RawSizes : AllocRaw(n)
        \/ \E w \in ImageWidths : AllocImage(w)
        \/ \E n \in HeapSizes : AllocHeap(n)

Spec == Init /\ [][Next]_vars

-----------------------------------------------------------------------------
\* Linker:checkCollisions, in words

Row(y) == y * StrideW

ReportedRawEnd == Row(rawAt.y) + rawAt.x - lastAlign

\* Seeded fault: the last band counts as empty.
ReportedImageEndFlat == Row(imageAt.y)

ReportedImageEnd == Row(imageAt.y + (IF imageAt.x # 0 THEN ImageHeight ELSE 0))

Overlap == \/ ReportedRawEnd > Row(ImageStart)
           \/ ReportedImageEnd > Row(HeapStart)

-----------------------------------------------------------------------------
\* Linker:dump_RawData and dump_ImageData write a file, padding up to the place of
\* each item: kernels in their order, then the images row by row.

First(item) == Row(item.y) + item.x
End(item) == First(item) + item.w

RawChunks == [i \in DOMAIN raw |-> [at |-> First(raw[i]), w |-> raw[i].w]]
ImageChunks ==
  [k \in 1 .. (Len(image) * ImageHeight) |->
     LET item == image[((k - 1) % Len(image)) + 1]
     IN  [at |-> First(item) + Row((k - 1) \div Len(image)), w |-> item.w]]
Chunks == RawChunks \o ImageChunks

\* Seeded fault: the words follow one another.
PadNot(pos, at) == pos
\* Zeros up to `at'; the file never goes back.
Pad(pos, at) == IF pos < at THEN at ELSE pos

\* Where the k-th chunk is written, behind the ones before it.
Written ==
  LET place[k \in 1 .. Len(Chunks)] ==
        Pad(IF k = 1 THEN Row(RawStart) ELSE place[k - 1] + Chunks[k - 1].w, Chunks[k].at)
  IN  place

-----------------------------------------------------------------------------
\* Properties

\* The words of an image: its rows are StrideW apart.
ImageEnd(item) == First(item) + Row(ImageHeight - 1) + item.w

\* An item ends before p: in an earlier band of rows, or left of it.
Behind(item, p, rows) == \/ item.y + rows <= p.y
                         \/ item.y = p.y /\ item.x + item.w <= p.x

\* No two items share a word, and none crosses the end of its row.
Apart(seg, rows) == /\ \A i \in DOMAIN seg : seg[i].x + seg[i].w <= StrideW
                    /\ \A i, j \in DOMAIN seg : i < j => Behind(seg[i], seg[j], rows)

\* Two kernels never share a word, whatever sizes came before, and the streamer
\* never has to read one across the end of a row.
RawApart == Apart(raw, 1)

\* The same of images, each of them a rectangle of ImageHeight rows.
ImagesApart == Apart(image, ImageHeight)

\* Until the heap starts over, every result has its words to itself, those that
\* run through several rows and those that fill one to the last word included.
HeapApart == \A i, j \in (Len(heap) - lap + 1) .. Len(heap) :
               i < j => End(heap[i]) <= First(heap[j])

\* Every item starts where the streamer can start to read.
StartsAligned == \A seg \in {raw, image, heap} : \A i \in DOMAIN seg : seg[i].x % AlignW = 0

\* The collision report may be relied on: when it prints no error, no kernel
\* reaches into the images and no image into the heap.
NoErrorNoOverlap == ~Overlap =>
  /\ \A i \in DOMAIN raw : End(raw[i]) <= Row(ImageStart)
  /\ \A i \in DOMAIN image : ImageEnd(image[i]) <= Row(HeapStart)

\* The file is the memory: when the report prints no error and the images take one
\* band of rows, every word of a kernel or an image is in the file at its address.
\* (The rows of a second band come before the later rows of the first.)
FileIsMemory == ~Overlap /\ (\A i \in DOMAIN image : image[i].y = ImageStart) =>
  \A k \in DOMAIN Chunks : Written[k] = Chunks[k].at

\* Memory.lua:282: the heap starts over when there is no "space in the mem"; so
\* no result reaches beyond it.
HeapInMemory == \A i \in DOMAIN heap : End(heap[i]) <= Row(SizeR)
=============================================================================
