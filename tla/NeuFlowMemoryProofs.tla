------------------------ MODULE NeuFlowMemoryProofs ------------------------
(***************************************************************************)
(* Whatever kernels, images and results a network needs, in whatever order *)
(* and however rows and alignment are chosen, Memory.lua gives two live    *)
(* items of a segment different words, and a silent collision report means *)
(* that the segments are apart too, and that the file the linker writes is *)
(* the memory they describe.                                               *)
(***************************************************************************)
EXTENDS NeuFlowMemory, WellFoundedInduction, TLAPS

-----------------------------------------------------------------------------
\* The inductive invariant: the pointers are aligned and all items are behind
\* them, in the order that tells two items of the segment apart.

PointersAligned == \A p \in {rawAt, imageAt, heapAt} : p.x % AlignW = 0

AllBehind(seg, p, rows) == \A i \in DOMAIN seg : Behind(seg[i], p, rows)

RawBehind == AllBehind(raw, rawAt, 1)

ImagesBehind == AllBehind(image, imageAt, ImageHeight)

HeapBehind == \A i \in (Len(heap) - lap + 1) .. Len(heap) : End(heap[i]) <= First(heapAt)

IInv == /\ TypeOK
        /\ PointersAligned /\ StartsAligned
        /\ RawBehind /\ RawApart
        /\ ImagesBehind /\ ImagesApart
        /\ HeapBehind /\ HeapApart

\* The words of the file start with the segment of the kernels: none lies in front
\* of it.
RawFromStart == rawAt.y >= RawStart /\ \A i \in DOMAIN raw : raw[i].y >= RawStart

FileInv == IInv /\ RawFromStart

-----------------------------------------------------------------------------
\* Arithmetic of rows and alignment

\* Division with remainder.
LEMMA Division ==
  ASSUME NEW x \in Nat, NEW a \in Nat \ {0}
  PROVE  /\ x \div a \in Nat
         /\ x % a \in 0 .. (a - 1)
         /\ x = a * (x \div a) + (x % a)
BY SMT

\* A multiple leaves no remainder.
LEMMA Multiple ==
  ASSUME NEW k \in Nat, NEW a \in Nat \ {0}
  PROVE  (k * a) % a = 0
BY SMT

\* RoundUp goes to the next multiple of AlignW, less than AlignW away.
LEMMA RoundUpNext ==
  ASSUME NEW x \in Nat
  PROVE  /\ RoundUp(x) \in Nat
         /\ RoundUp(x) % AlignW = 0
         /\ x <= RoundUp(x) /\ RoundUp(x) < x + AlignW
<1>1. CASE x % AlignW = 0
  BY <1>1, GeometryAssumption DEF RoundUp
<1>2. CASE x % AlignW # 0
  <2> DEFINE q == x \div AlignW
  <2>0. AlignW \in Nat \ {0}
    BY GeometryAssumption
  <2>1. /\ q \in Nat /\ x % AlignW \in 0 .. (AlignW - 1)
        /\ x = AlignW * q + (x % AlignW)
    BY <2>0, Division, Zenon
  <2>2. RoundUp(x) = (q + 1) * AlignW
    BY <1>2 DEF RoundUp
  <2>3. (q + 1) * AlignW = AlignW * q + AlignW
    BY <2>1, GeometryAssumption, SMT
  <2>4. q + 1 \in Nat
    BY <2>1
  <2>5. ((q + 1) * AlignW) % AlignW = 0
    BY <2>0, <2>4, Multiple, Zenon
  <2> QED BY <1>2, <2>0, <2>1, <2>2, <2>3, <2>5, SMT
<1> QED BY <1>1, <1>2

\* Zero is aligned.
LEMMA ZeroAligned == 0 % AlignW = 0
BY Multiple, GeometryAssumption, SMT

\* Rows are StrideW words each, one after the other.
LEMMA RowNext ==
  ASSUME NEW y \in Nat
  PROVE  Row(y) \in Nat /\ Row(y + 1) = Row(y) + StrideW
BY GeometryAssumption, SMT DEF Row

\* A later row starts after all words of an earlier one.
LEMMA RowsApart ==
  ASSUME NEW y \in Nat, NEW z \in Nat, y < z
  PROVE  Row(y) + StrideW <= Row(z)
<1>1. y + 1 <= z
  OBVIOUS
<1> QED BY <1>1, GeometryAssumption, SMT DEF Row

\* Rows add up.
LEMMA RowSum ==
  ASSUME NEW y \in Nat, NEW z \in Nat
  PROVE  Row(y + z) = Row(y) + Row(z)
BY GeometryAssumption, SMT DEF Row

-----------------------------------------------------------------------------
\* The helpers of the allocators

\* Fitting keeps an item inside a row, at the old place or at the start of the
\* next band.
LEMMA FittingInRow ==
  ASSUME NEW p \in Places, NEW w \in 1 .. StrideW, NEW rows \in Nat, p.x % AlignW = 0
  PROVE  LET f == Fitting(p, w, rows) IN
           /\ f \in Places
           /\ f.x + w <= StrideW
           /\ f.x % AlignW = 0
           /\ f = p \/ (f.x = 0 /\ f.y = p.y + rows)
BY ZeroAligned, GeometryAssumption, SMT DEF Fitting, Place, Places

\* AlignedPlace moves right in the row or to the start of the next band.
LEMMA AlignedPlaceAfter ==
  ASSUME NEW x \in 0 .. StrideW, NEW y \in Nat, NEW rows \in Nat
  PROVE  LET q == AlignedPlace(Place(x, y), rows) IN
           /\ q \in Places
           /\ q.x % AlignW = 0
           /\ \/ q.y = y /\ x <= q.x
              \/ q.x = 0 /\ q.y = y + rows
<1>1. /\ x \in Nat /\ RoundUp(x) \in Nat
      /\ RoundUp(x) % AlignW = 0 /\ x <= RoundUp(x)
  BY RoundUpNext, GeometryAssumption
<1> QED BY <1>1, ZeroAligned, GeometryAssumption, SMT DEF AlignedPlace, Place, Places

\* The words of an item are at counted places, and there is one at least.
LEMMA ItemShape ==
  ASSUME NEW S \in SUBSET (Nat \ {0}), NEW seg \in Seq(Items(S)), NEW i \in DOMAIN seg
  PROVE  /\ seg[i].x \in Nat /\ seg[i].y \in Nat
         /\ seg[i].w \in Nat /\ seg[i].w > 0
<1>1. seg[i] \in Items(S)
  OBVIOUS
<1>2. seg[i].x \in 0 .. StrideW /\ seg[i].y \in Nat /\ seg[i].w \in S
  BY <1>1 DEF Items
<1>3. \A w \in S : w \in Nat /\ w > 0
  OBVIOUS
<1>4. \A x \in 0 .. StrideW : x \in Nat
  OBVIOUS
<1> QED BY <1>2, <1>3, <1>4, Zenon

\* Advance counts words through the ends of rows.
LEMMA AdvanceCounts ==
  ASSUME NEW p \in Places, NEW n \in Nat
  PROVE  Advance(p, n) \in Places /\ First(Advance(p, n)) = First(p) + n
<1> DEFINE r == n % StrideW
           q == n \div StrideW
<1>1. p.x \in 0 .. StrideW /\ p.y \in Nat
  BY DEF Places
<1>0. /\ q \in Nat /\ r \in 0 .. (StrideW - 1) /\ n = StrideW * q + r
  <2>1. StrideW \in Nat \ {0}
    BY GeometryAssumption
  <2> QED BY <2>1, Division, Zenon
<1>4. Advance(p, n) = InRow(p.x + r, p.y + q)
  BY DEF Advance
<1> HIDE DEF r, q
<1>2. Row(p.y + q) = Row(p.y) + Row(q) /\ Row(p.y) \in Nat /\ Row(q) \in Nat
  BY <1>0, <1>1, RowSum, RowNext
<1>8. Row(q) = StrideW * q
  BY <1>0, GeometryAssumption, SMT DEF Row
<1>3. Row(p.y + q + 1) = Row(p.y + q) + StrideW
  BY <1>0, <1>1, RowNext
<1>5. First(p) = Row(p.y) + p.x
  BY DEF First
<1>6. CASE p.x + r > StrideW
  <2> DEFINE X == p.x + r - StrideW
             Y == p.y + q + 1
  <2>1. Advance(p, n) = Place(X, Y)
    BY <1>0, <1>1, <1>4, <1>6, GeometryAssumption DEF InRow, Place
  <2>2. X \in 0 .. StrideW /\ Y \in Nat /\ Row(Y) + X = First(p) + n
    BY <1>0, <1>1, <1>2, <1>3, <1>5, <1>6, <1>8, GeometryAssumption
  <2> HIDE DEF X, Y
  <2> QED BY <2>1, <2>2 DEF Place, Places, First
<1>7. CASE ~(p.x + r > StrideW)
  <2> DEFINE X == p.x + r
             Y == p.y + q
  <2>1. Advance(p, n) = Place(X, Y)
    BY <1>4, <1>7 DEF InRow
  <2>2. X \in 0 .. StrideW /\ Y \in Nat /\ Row(Y) + X = First(p) + n
    BY <1>0, <1>1, <1>2, <1>5, <1>7, <1>8, GeometryAssumption
  <2> HIDE DEF X, Y
  <2> QED BY <2>1, <2>2 DEF Place, Places, First
<1> QED BY <1>6, <1>7

\* Aligning never goes back.
LEMMA AlignedPlaceForward ==
  ASSUME NEW p \in Places
  PROVE  /\ First(p) \in Nat
         /\ AlignedPlace(p, 1) \in Places
         /\ AlignedPlace(p, 1).x % AlignW = 0
         /\ First(p) <= First(AlignedPlace(p, 1))
<1> DEFINE q == AlignedPlace(p, 1)
<1>1. p = Place(p.x, p.y) /\ p.x \in 0 .. StrideW /\ p.y \in Nat
  BY DEF Place, Places
<1>2. /\ q \in Places /\ q.x % AlignW = 0
      /\ \/ q.y = p.y /\ p.x <= q.x
         \/ q.x = 0 /\ q.y = p.y + 1
  BY <1>1, AlignedPlaceAfter
<1>3. Row(p.y) \in Nat /\ Row(p.y + 1) = Row(p.y) + StrideW
  BY <1>1, RowNext
<1> HIDE DEF q
<1>4. q.x \in 0 .. StrideW
  BY <1>2 DEF Places
<1>5. First(p) \in Nat /\ First(p) <= First(q)
  BY <1>1, <1>2, <1>3, <1>4, GeometryAssumption, SMT DEF First
<1> QED BY <1>2, <1>5 DEF q

-----------------------------------------------------------------------------
\* The inductive invariant

\* Nothing has been placed yet.
LEMMA InitEstablishesIInv == Init => IInv
<1> SUFFICES ASSUME Init PROVE IInv
  OBVIOUS
<1>1. TypeOK
  BY GeometryAssumption, SegmentsAssumption DEF Init, TypeOK, Places, Items, Place
<1>2. PointersAligned /\ StartsAligned
  BY ZeroAligned DEF Init, PointersAligned, StartsAligned, Place
<1>3. RawBehind /\ RawApart /\ ImagesBehind /\ ImagesApart
  BY DEF Init, RawBehind, RawApart, ImagesBehind, ImagesApart, Apart, AllBehind
<1>4. HeapBehind /\ HeapApart
  BY DEF Init, HeapBehind, HeapApart
<1> QED BY <1>1, <1>2, <1>3, <1>4 DEF IInv

\* An item that is fitted in goes behind those before it, and the pointer behind
\* the item.
LEMMA Packing ==
  ASSUME NEW S \in SUBSET (1 .. StrideW), NEW rows \in Nat \ {0},
         NEW seg \in Seq(Items(S)), NEW at \in Places, NEW n \in S,
         at.x % AlignW = 0,
         \A i \in DOMAIN seg : seg[i].x % AlignW = 0,
         AllBehind(seg, at, rows), Apart(seg, rows)
  PROVE  LET p == Fitting(at, n, rows)
             more == Append(seg, Item(p, n))
             next == AlignedPlace(Place(p.x + n, p.y), rows)
         IN /\ p.x + n \in 0 .. StrideW
            /\ more \in Seq(Items(S)) /\ next \in Places
            /\ next.x % AlignW = 0
            /\ \A i \in DOMAIN more : more[i].x % AlignW = 0
            /\ AllBehind(more, next, rows) /\ Apart(more, rows)
<1> DEFINE p == Fitting(at, n, rows)
           e == p.x + n
           next == AlignedPlace(Place(e, p.y), rows)
           item == Item(p, n)
           more == Append(seg, item)
<1>1. n \in 1 .. StrideW
  OBVIOUS
<1>2. /\ p \in Places /\ e <= StrideW /\ p.x % AlignW = 0
      /\ p = at \/ (p.x = 0 /\ p.y = at.y + rows)
  BY <1>1, FittingInRow
<1> HIDE DEF p
<1>3. e \in 0 .. StrideW /\ p.x \in 0 .. StrideW /\ p.y \in Nat
  BY <1>1, <1>2, GeometryAssumption DEF Places
<1>5. e = p.x + n
  OBVIOUS
<1>14. rows \in Nat
  OBVIOUS
<1> HIDE DEF e
<1>4. /\ next \in Places /\ next.x % AlignW = 0
      /\ \/ next.y = p.y /\ e <= next.x
         \/ next.x = 0 /\ next.y = p.y + rows
  BY <1>3, <1>14, AlignedPlaceAfter
<1> HIDE DEF next
<1>6. item \in Items(S) /\ item.x = p.x /\ item.y = p.y /\ item.w = n
  BY <1>3 DEF Item, Items
<1> HIDE DEF item
<1>7. /\ more \in Seq(Items(S)) /\ DOMAIN more = 1 .. Len(more)
      /\ Len(more) = Len(seg) + 1 /\ Len(seg) \in Nat
      /\ more[Len(more)] = item
      /\ \A i \in DOMAIN more : i # Len(more) => i \in DOMAIN seg /\ more[i] = seg[i]
  BY <1>6
<1> HIDE DEF more
<1>8. \A i \in DOMAIN more : /\ more[i].x \in 0 .. StrideW /\ more[i].y \in Nat
                             /\ more[i].w \in 1 .. StrideW
  <2>1. \A i \in DOMAIN more : more[i] \in Items(S)
    BY <1>7
  <2>2. \A i \in DOMAIN more : more[i].x \in 0 .. StrideW /\ more[i].y \in Nat /\ more[i].w \in S
    BY <2>1 DEF Items
  <2>3. \A w \in S : w \in 1 .. StrideW
    OBVIOUS
  <2> QED BY <2>2, <2>3
<1>9. at.x \in 0 .. StrideW /\ at.y \in Nat /\ next.x \in 0 .. StrideW /\ next.y \in Nat
  BY <1>4 DEF Places
<1>10. ASSUME NEW i \in DOMAIN more, i # Len(more)
       PROVE  Behind(more[i], p, rows)
  <2>1. \/ more[i].y + rows <= at.y
        \/ more[i].y = at.y /\ more[i].x + more[i].w <= at.x
    BY <1>7, <1>10 DEF AllBehind, Behind
  <2> QED BY <1>2, <1>3, <1>8, <1>9, <2>1 DEF Behind
<1>11. \A i \in DOMAIN more : more[i].x % AlignW = 0
  BY <1>2, <1>6, <1>7
<1>12. ASSUME NEW i \in DOMAIN more
       PROVE  Behind(more[i], next, rows)
  <2>1. CASE i = Len(more)
    BY <2>1, <1>1, <1>3, <1>4, <1>5, <1>6, <1>7, <1>9, SMTT(30) DEF Behind
  <2>2. CASE i # Len(more)
    <3>1. \/ more[i].y + rows <= p.y
          \/ more[i].y = p.y /\ more[i].x + more[i].w <= p.x
      BY <2>2, <1>10 DEF Behind
    <3>2. more[i].x \in Nat /\ more[i].y \in Nat /\ more[i].w \in Nat
      BY <1>8
    <3>3. p.x <= e /\ p.x \in Nat /\ e \in Nat /\ p.y \in Nat
      BY <1>1, <1>3, <1>5
    <3> QED BY <3>1, <3>2, <3>3, <1>4, <1>9, SMTT(30) DEF Behind
  <2> QED BY <2>1, <2>2
<1>13. Apart(more, rows)
  <2>1. \A i \in DOMAIN more : more[i].x + more[i].w <= StrideW
    BY <1>2, <1>5, <1>6, <1>7 DEF Apart
  <2>2. ASSUME NEW i \in DOMAIN more, NEW j \in DOMAIN more, i < j
        PROVE  Behind(more[i], more[j], rows)
    <3>1. i # Len(more)
      BY <2>2, <1>7
    <3>2. CASE j = Len(more)
      BY <3>1, <3>2, <1>6, <1>7, <1>10 DEF Behind
    <3>3. CASE j # Len(more)
      BY <2>2, <3>1, <3>3, <1>7 DEF Apart
    <3> QED BY <3>2, <3>3
  <2> QED BY <2>1, <2>2 DEF Apart
<1> QED BY <1>3, <1>4, <1>7, <1>11, <1>12, <1>13 DEF AllBehind, p, e, next, item, more

\* allocKernel and allocRawData.
LEMMA RawStep ==
  ASSUME IInv, NEW n \in RawSizes, AllocRaw(n)
  PROVE  IInv'
<1> DEFINE p == Fitting(rawAt, n, 1)
           e == p.x + n
<1>1. /\ rawAt \in Places /\ rawAt.x % AlignW = 0
      /\ raw \in Seq(Items(RawSizes)) /\ RawSizes \in SUBSET (1 .. StrideW)
      /\ \A i \in DOMAIN raw : raw[i].x % AlignW = 0
      /\ AllBehind(raw, rawAt, 1) /\ Apart(raw, 1)
  BY SizesAssumption
     DEF IInv, TypeOK, PointersAligned, StartsAligned, RawBehind, RawApart
<1>2. /\ e \in 0 .. StrideW
      /\ raw' \in Seq(Items(RawSizes)) /\ rawAt' \in Places /\ rawAt'.x % AlignW = 0
      /\ \A i \in DOMAIN raw' : raw'[i].x % AlignW = 0
      /\ AllBehind(raw', rawAt', 1) /\ Apart(raw', 1)
  BY <1>1, Packing DEF AllocRaw
<1>3. UNCHANGED <<image, imageAt, heap, heapAt, lap>>
  BY DEF AllocRaw
<1>4. lastAlign' \in 0 .. (AlignW - 1)
  <2>1. RoundUp(e) \in Nat /\ e <= RoundUp(e) /\ RoundUp(e) < e + AlignW
    BY <1>2, RoundUpNext
  <2>2. lastAlign \in 0 .. (AlignW - 1)
    BY DEF IInv, TypeOK
  <2>3. lastAlign' \in {lastAlign, 0, RoundUp(e) - e}
    BY DEF AllocRaw, Padding
  <2> QED BY <1>2, <2>1, <2>2, <2>3, GeometryAssumption
<1>5. TypeOK'
  BY <1>2, <1>3, <1>4 DEF IInv, TypeOK
<1>6. (PointersAligned /\ StartsAligned)'
  BY <1>2, <1>3 DEF IInv, PointersAligned, StartsAligned
<1>7. (RawBehind /\ RawApart)'
  BY <1>2 DEF RawBehind, RawApart
<1>8. (ImagesBehind /\ ImagesApart /\ HeapBehind /\ HeapApart)'
  BY <1>3 DEF IInv, ImagesBehind, ImagesApart, AllBehind, Apart, HeapBehind, HeapApart
<1> QED BY <1>5, <1>6, <1>7, <1>8 DEF IInv

\* allocImageData.
LEMMA ImageStep ==
  ASSUME IInv, NEW w \in ImageWidths, AllocImage(w)
  PROVE  IInv'
<1>1. /\ imageAt \in Places /\ imageAt.x % AlignW = 0
      /\ image \in Seq(Items(ImageWidths)) /\ ImageWidths \in SUBSET (1 .. StrideW)
      /\ ImageHeight \in Nat \ {0}
      /\ \A i \in DOMAIN image : image[i].x % AlignW = 0
      /\ AllBehind(image, imageAt, ImageHeight) /\ Apart(image, ImageHeight)
  BY SizesAssumption
     DEF IInv, TypeOK, PointersAligned, StartsAligned, ImagesBehind, ImagesApart
<1>2. /\ image' \in Seq(Items(ImageWidths)) /\ imageAt' \in Places
      /\ imageAt'.x % AlignW = 0
      /\ \A i \in DOMAIN image' : image'[i].x % AlignW = 0
      /\ AllBehind(image', imageAt', ImageHeight) /\ Apart(image', ImageHeight)
  BY <1>1, Packing DEF AllocImage
<1>3. UNCHANGED <<raw, rawAt, lastAlign, heap, heapAt, lap>>
  BY DEF AllocImage
<1>4. TypeOK'
  BY <1>2, <1>3 DEF IInv, TypeOK
<1>5. (PointersAligned /\ StartsAligned)'
  BY <1>2, <1>3 DEF IInv, PointersAligned, StartsAligned
<1>6. (ImagesBehind /\ ImagesApart)'
  BY <1>2 DEF ImagesBehind, ImagesApart
<1>7. (RawBehind /\ RawApart /\ HeapBehind /\ HeapApart)'
  BY <1>3 DEF IInv, RawBehind, RawApart, AllBehind, Apart, HeapBehind, HeapApart
<1> QED BY <1>4, <1>5, <1>6, <1>7 DEF IInv

\* allocOnTheHeap: words are counted through the ends of rows, and starting over
\* leaves one live item.
LEMMA HeapStep ==
  ASSUME IInv, NEW n \in HeapSizes, AllocHeap(n)
  PROVE  IInv'
<1> DEFINE p == IF heapAt.y + 1 > SizeR THEN Place(0, HeapStart) ELSE heapAt
           item == Item(p, n)
           end == Advance(p, n)
           live == (Len(heap) - lap + 1) .. Len(heap)
<1>1. /\ heapAt \in Places /\ heapAt.x % AlignW = 0
      /\ heap \in Seq(Items(HeapSizes)) /\ lap \in 0 .. Len(heap)
      /\ n \in Nat /\ n > 0
  BY SizesAssumption DEF IInv, TypeOK, PointersAligned
<1>2. p \in Places /\ p.x % AlignW = 0
  BY <1>1, ZeroAligned, GeometryAssumption, SegmentsAssumption DEF Place, Places
<1>3. /\ heap' = Append(heap, item) /\ heapAt' = AlignedPlace(end, 1)
      /\ \/ p = heapAt /\ lap' = lap + 1
         \/ lap' = 1
  BY DEF AllocHeap
<1>4. UNCHANGED <<raw, rawAt, lastAlign, image, imageAt>>
  BY DEF AllocHeap
<1>5. item \in Items(HeapSizes) /\ item.x = p.x /\ item.y = p.y /\ item.w = n
  BY <1>2 DEF Item, Items, Places
<1>6. First(item) = First(p) /\ End(item) = First(p) + n
  BY <1>5, Zenon DEF First, End
<1>7. end \in Places /\ First(end) = First(p) + n
  BY <1>1, <1>2, AdvanceCounts
<1> HIDE DEF p, item, end
<1>8. First(p) \in Nat
  BY <1>2, AlignedPlaceForward
<1>9. /\ First(end) <= First(heapAt') /\ heapAt' \in Places /\ heapAt'.x % AlignW = 0
  BY <1>3, <1>7, AlignedPlaceForward
<1>10. First(heapAt') \in Nat
  BY <1>9, AlignedPlaceForward
<1>11. /\ heap' \in Seq(Items(HeapSizes)) /\ Len(heap) \in Nat
       /\ Len(heap') = Len(heap) + 1 /\ DOMAIN heap' = 1 .. (Len(heap) + 1)
       /\ heap'[Len(heap) + 1] = item
       /\ \A i \in 1 .. Len(heap) : heap'[i] = heap[i] /\ i \in DOMAIN heap
  BY <1>1, <1>3, <1>5
<1>12. /\ lap' \in 0 .. Len(heap')
       /\ \A i \in (Len(heap') - lap' + 1) .. Len(heap') :
            i = Len(heap) + 1 \/ (p = heapAt /\ i \in live /\ i \in 1 .. Len(heap))
  BY <1>1, <1>3, <1>11
<1>13. \A i \in 1 .. Len(heap) : End(heap[i]) \in Nat
  <2> SUFFICES ASSUME NEW i \in 1 .. Len(heap) PROVE End(heap[i]) \in Nat
    OBVIOUS
  <2>1. heap[i].x \in Nat /\ heap[i].y \in Nat /\ heap[i].w \in Nat
    <3>1. HeapSizes \in SUBSET (Nat \ {0}) /\ i \in DOMAIN heap
      BY <1>11, SizesAssumption
    <3> QED BY <3>1, <1>1, ItemShape
  <2>2. Row(heap[i].y) \in Nat
    BY <2>1, RowNext
  <2> QED BY <2>1, <2>2 DEF End, First
<1>14. \A i \in live : End(heap[i]) <= First(heapAt)
  BY DEF IInv, HeapBehind
<1>15. HeapBehind'
  <2> SUFFICES ASSUME NEW i \in (Len(heap') - lap' + 1) .. Len(heap')
               PROVE  End(heap'[i]) <= First(heapAt')
    BY DEF HeapBehind, End, First, Row
  <2>1. CASE i = Len(heap) + 1
    BY <2>1, <1>6, <1>7, <1>9, <1>11
  <2>2. CASE p = heapAt /\ i \in live /\ i \in 1 .. Len(heap)
    <3>1. heap'[i] = heap[i] /\ End(heap[i]) <= First(p) /\ End(heap[i]) \in Nat
      BY <2>2, <1>11, <1>13, <1>14
    <3>2. First(p) <= First(heapAt')
      BY <1>1, <1>7, <1>8, <1>9, <1>10
    <3> QED BY <3>1, <3>2, <1>8, <1>10
  <2> QED BY <2>1, <2>2, <1>12
<1>16. HeapApart'
  <2> SUFFICES ASSUME NEW i \in (Len(heap') - lap' + 1) .. Len(heap'),
                      NEW j \in (Len(heap') - lap' + 1) .. Len(heap'), i < j
               PROVE  End(heap'[i]) <= First(heap'[j])
    BY DEF HeapApart, End, First, Row
  <2>1. i # Len(heap) + 1 /\ p = heapAt /\ i \in live /\ i \in 1 .. Len(heap)
    BY <1>11, <1>12
  <2>2. CASE j = Len(heap) + 1
    BY <2>1, <2>2, <1>6, <1>11, <1>14
  <2>3. CASE j \in live /\ j \in 1 .. Len(heap)
    BY <2>1, <2>3, <1>11 DEF IInv, HeapApart
  <2> QED BY <2>2, <2>3, <1>12
<1>17. TypeOK'
  BY <1>4, <1>9, <1>11, <1>12 DEF IInv, TypeOK
<1>18. (PointersAligned /\ StartsAligned)'
  <2>1. \A i \in DOMAIN heap' : heap'[i].x % AlignW = 0
    BY <1>2, <1>5, <1>11 DEF IInv, StartsAligned
  <2> QED BY <2>1, <1>4, <1>9 DEF IInv, PointersAligned, StartsAligned
<1>19. (RawBehind /\ RawApart /\ ImagesBehind /\ ImagesApart)'
  BY <1>4 DEF IInv, RawBehind, RawApart, ImagesBehind, ImagesApart, AllBehind, Apart
<1> QED BY <1>15, <1>16, <1>17, <1>18, <1>19 DEF IInv

\* Every allocation preserves the invariant.
LEMMA NextPreservesIInv == IInv /\ [Next]_vars => IInv'
<1> SUFFICES ASSUME IInv, [Next]_vars PROVE IInv'
  OBVIOUS
<1>1. ASSUME NEW n \in RawSizes, AllocRaw(n) PROVE IInv'
  BY <1>1, RawStep
<1>2. ASSUME NEW w \in ImageWidths, AllocImage(w) PROVE IInv'
  BY <1>2, ImageStep
<1>3. ASSUME NEW n \in HeapSizes, AllocHeap(n) PROVE IInv'
  BY <1>3, HeapStep
<1>4. CASE UNCHANGED vars
  BY <1>4 DEF vars, IInv, TypeOK, PointersAligned, StartsAligned, RawBehind, RawApart,
     ImagesBehind, ImagesApart, AllBehind, Apart, HeapBehind, HeapApart
<1> QED BY <1>1, <1>2, <1>3, <1>4 DEF Next

-----------------------------------------------------------------------------
\* What a silent report tells

\* When the reported end of the raw data is in its segment so is every kernel,
\* although last_align is subtracted from it and may be an older kernel's.
LEMMA RawInFront ==
  ASSUME TypeOK, PointersAligned, RawBehind, RawApart, ~Overlap, NEW i \in DOMAIN raw
  PROVE  End(raw[i]) <= Row(ImageStart)
<1>1. /\ raw[i].x \in Nat /\ raw[i].y \in Nat /\ raw[i].w \in Nat /\ raw[i].w > 0
      /\ raw[i].x + raw[i].w <= StrideW
  <2>1. raw \in Seq(Items(RawSizes)) /\ RawSizes \in SUBSET (Nat \ {0})
    BY SizesAssumption, GeometryAssumption DEF TypeOK
  <2> QED BY <2>1, ItemShape DEF RawApart, Apart
<1>2. /\ rawAt.x \in 0 .. StrideW /\ rawAt.y \in Nat /\ rawAt.x % AlignW = 0
      /\ lastAlign \in 0 .. (AlignW - 1)
  BY DEF TypeOK, Places, PointersAligned
<1>3. Row(rawAt.y) + rawAt.x - lastAlign <= Row(ImageStart)
  <2>1. Row(rawAt.y) \in Nat /\ Row(ImageStart) \in Nat
    BY <1>2, RowNext, SegmentsAssumption
  <2> QED BY <1>2, <2>1, GeometryAssumption DEF Overlap, ReportedRawEnd
<1>4. raw[i].y < ImageStart
  <2>1. \/ raw[i].y + 1 <= rawAt.y
        \/ raw[i].y = rawAt.y /\ raw[i].x + raw[i].w <= rawAt.x
    BY DEF RawBehind, AllBehind, Behind
  <2>2. rawAt.y <= ImageStart
    <3> SUFFICES ASSUME ImageStart < rawAt.y PROVE FALSE
      BY <1>2, SegmentsAssumption
    <3>1. Row(ImageStart) + StrideW <= Row(rawAt.y)
      BY <1>2, RowsApart, SegmentsAssumption
    <3>2. AlignW <= StrideW
      BY GeometryAssumption
    <3>3. Row(rawAt.y) \in Nat /\ Row(ImageStart) \in Nat
      BY <1>2, RowNext, SegmentsAssumption
    <3> QED BY <1>2, <1>3, <3>1, <3>2, <3>3, GeometryAssumption
  <2>3. rawAt.y = ImageStart => rawAt.x = 0
    <3> SUFFICES ASSUME rawAt.y = ImageStart PROVE rawAt.x = 0
      OBVIOUS
    <3>1. Row(ImageStart) \in Nat
      BY RowNext, SegmentsAssumption
    <3>2. rawAt.x < AlignW
      BY <1>2, <1>3, <3>1, GeometryAssumption
    <3> QED BY <1>2, <3>2, GeometryAssumption
  <2> QED BY <1>1, <1>2, <2>1, <2>2, <2>3, SegmentsAssumption
<1>5. Row(raw[i].y) + StrideW <= Row(ImageStart)
  BY <1>1, <1>4, RowsApart, SegmentsAssumption
<1>6. Row(raw[i].y) \in Nat /\ Row(ImageStart) \in Nat
  BY <1>1, RowNext, SegmentsAssumption
<1> QED BY <1>1, <1>5, <1>6, GeometryAssumption DEF End, First

\* When the reported end of the images is in their segment so is every image:
\* the last band counts with its full height unless it is empty.
LEMMA ImagesInFront ==
  ASSUME TypeOK, ImagesBehind, ImagesApart, ~Overlap, NEW i \in DOMAIN image
  PROVE  ImageEnd(image[i]) <= Row(HeapStart)
<1> DEFINE y == image[i].y
           H == ImageHeight
           rows == IF imageAt.x # 0 THEN H ELSE 0
<1>1. /\ image[i].x \in Nat /\ y \in Nat /\ image[i].w \in Nat /\ image[i].w > 0
      /\ image[i].x + image[i].w <= StrideW
  <2>1. image \in Seq(Items(ImageWidths)) /\ ImageWidths \in SUBSET (Nat \ {0})
    BY SizesAssumption, GeometryAssumption DEF TypeOK
  <2> QED BY <2>1, ItemShape DEF ImagesApart, Apart
<1>2. imageAt.x \in Nat /\ imageAt.y \in Nat /\ H \in Nat /\ H > 0
  BY SizesAssumption DEF TypeOK, Places
<1>3. y + H <= imageAt.y + rows
  <2>1. \/ y + H <= imageAt.y
        \/ y = imageAt.y /\ image[i].x + image[i].w <= imageAt.x
    BY DEF ImagesBehind, AllBehind, Behind
  <2> QED BY <1>1, <1>2, <2>1
<1>4. imageAt.y + rows \in Nat
  BY <1>2
<1>5. ~(Row(imageAt.y + rows) > Row(HeapStart))
  BY DEF Overlap, ReportedImageEnd
<1> HIDE DEF rows, y, H
<1>6. y + H <= HeapStart
  <2> SUFFICES ASSUME HeapStart < imageAt.y + rows PROVE FALSE
    BY <1>1, <1>2, <1>3, <1>4, SegmentsAssumption
  <2>1. Row(HeapStart) + StrideW <= Row(imageAt.y + rows)
    BY <1>4, RowsApart, SegmentsAssumption
  <2>2. Row(HeapStart) \in Nat /\ Row(imageAt.y + rows) \in Nat
    BY <1>4, RowNext, SegmentsAssumption
  <2> QED BY <1>5, <2>1, <2>2, GeometryAssumption
<1>7. Row(y + (H - 1)) + StrideW <= Row(HeapStart)
  BY <1>1, <1>2, <1>6, RowsApart, SegmentsAssumption
<1>8. Row(y + (H - 1)) = Row(y) + Row(H - 1) /\ Row(y) \in Nat /\ Row(H - 1) \in Nat
  <2>1. y \in Nat /\ H - 1 \in Nat
    BY <1>1, <1>2
  <2> QED BY <2>1, RowSum, RowNext, Zenon
<1>9. ImageEnd(image[i]) = Row(y) + image[i].x + Row(H - 1) + image[i].w
  BY DEF ImageEnd, First, y, H
<1>10. Row(HeapStart) \in Nat
  BY RowNext, SegmentsAssumption
<1> QED BY <1>1, <1>7, <1>8, <1>9, <1>10, GeometryAssumption

\* The invariant makes the report reliable.
LEMMA IInvReliable == IInv => NoErrorNoOverlap
BY RawInFront, ImagesInFront DEF IInv, NoErrorNoOverlap

-----------------------------------------------------------------------------
\* Every reachable state satisfies the inductive invariant.
THEOREM InvariantHolds == Spec => []IInv
BY InitEstablishesIInv, NextPreservesIInv, PTL DEF Spec

\* Offsets stay inside their rows and what is stored keeps its shape.
THEOREM TypeCorrect == Spec => []TypeOK
<1>1. IInv => TypeOK
  BY DEF IInv
<1> QED BY <1>1, InvariantHolds, PTL

\* allocKernel and allocRawData never give two kernels the same word, nor a
\* kernel words of two rows.
THEOREM KernelsApart == Spec => []RawApart
<1>1. IInv => RawApart
  BY DEF IInv
<1> QED BY <1>1, InvariantHolds, PTL

\* allocImageData never gives two images the same word.
THEOREM PicturesApart == Spec => []ImagesApart
<1>1. IInv => ImagesApart
  BY DEF IInv
<1> QED BY <1>1, InvariantHolds, PTL

\* allocOnTheHeap never gives two results the same word before it starts over.
THEOREM ResultsApart == Spec => []HeapApart
<1>1. IInv => HeapApart
  BY DEF IInv
<1> QED BY <1>1, InvariantHolds, PTL

\* Every item starts at a multiple of align_w.
THEOREM AlignedStarts == Spec => []StartsAligned
<1>1. IInv => StartsAligned
  BY DEF IInv
<1> QED BY <1>1, InvariantHolds, PTL

\* When checkCollisions prints no error, the segments do not reach into each
\* other.
THEOREM ReportReliable == Spec => []NoErrorNoOverlap
BY IInvReliable, InvariantHolds, PTL

-----------------------------------------------------------------------------
\* The file: what is padded up to places in order is written where it belongs

\* A set of numbers that is not empty has a least member.
LEMMA Least ==
  ASSUME NEW T \in SUBSET Nat, T # {}
  PROVE  \E x \in T : \A y \in T : x <= y
<1> DEFINE R == {ss \in Nat \X Nat : ss[1] < ss[2]}
<1>1. IsWellFoundedOn(R, Nat)
  BY NatLessThanWellFounded DEF OpToRel
<1>2. PICK x \in T : \A y \in T : ~(<<y, x>> \in R)
  <2> HIDE DEF R
  <2> QED BY <1>1, WFMin
<1>3. ASSUME NEW y \in T PROVE x <= y
  <2>1. x \in Nat /\ y \in Nat
    OBVIOUS
  <2>2. <<y, x>> \in Nat \X Nat /\ <<y, x>>[1] = y /\ <<y, x>>[2] = x
    BY <2>1
  <2>3. ~(<<y, x>>[1] < <<y, x>>[2])
    BY <1>2, <2>2, Zenon
  <2> QED BY <2>1, <2>2, <2>3
<1> QED BY <1>3

\* Chunks that follow one another without going back.
InOrder(chunks, start) ==
  /\ chunks \in Seq([at : Nat, w : Nat])
  /\ chunks # <<>> => start <= chunks[1].at
  /\ \A k \in 2 .. Len(chunks) : chunks[k - 1].at + chunks[k - 1].w <= chunks[k].at

\* What Written says of a chunk, given where those before it are.
Following(chunks, start, place) ==
  [k \in 1 .. Len(chunks) |->
     Pad(IF k = 1 THEN start ELSE place[k - 1] + chunks[k - 1].w, chunks[k].at)]

\* What chunks in order are.
LEMMA InOrderShape ==
  ASSUME NEW chunks, NEW start \in Nat, InOrder(chunks, start)
  PROVE  /\ DOMAIN chunks = 1 .. Len(chunks) /\ Len(chunks) \in Nat
         /\ \A k \in 1 .. Len(chunks) : chunks[k].at \in Nat /\ chunks[k].w \in Nat
         /\ Len(chunks) > 0 => start <= chunks[1].at
         /\ \A k \in 2 .. Len(chunks) : chunks[k - 1].at + chunks[k - 1].w <= chunks[k].at
<1>1. chunks \in Seq([at : Nat, w : Nat])
  BY DEF InOrder
<1>2. DOMAIN chunks = 1 .. Len(chunks) /\ Len(chunks) \in Nat
  BY <1>1
<1>3. \A k \in 1 .. Len(chunks) : chunks[k] \in [at : Nat, w : Nat]
  <2> DEFINE Chunk == [at : Nat, w : Nat]
  <2>1. chunks \in Seq(Chunk)
    BY <1>1
  <2> HIDE DEF Chunk
  <2>2. \A k \in 1 .. Len(chunks) : chunks[k] \in Chunk
    BY <2>1
  <2> QED BY <2>2 DEF Chunk
<1>4. Len(chunks) > 0 => chunks # <<>>
  <2>1. chunks = <<>> => Len(chunks) = 0
    OBVIOUS
  <2> QED BY <2>1, <1>2
<1>5. \A k \in 1 .. Len(chunks) : chunks[k].at \in Nat /\ chunks[k].w \in Nat
  BY <1>3
<1>6. /\ chunks # <<>> => start <= chunks[1].at
      /\ \A k \in 2 .. Len(chunks) : chunks[k - 1].at + chunks[k - 1].w <= chunks[k].at
  BY DEF InOrder
<1> QED BY <1>2, <1>4, <1>5, <1>6, Zenon

\* Zeros up to every place: chunks that never go back are written where they
\* belong.  A first one that is not would follow one that is.
LEMMA PadsToPlaces ==
  ASSUME NEW chunks, NEW start \in Nat, InOrder(chunks, start),
         NEW place, place = Following(chunks, start, place)
  PROVE  \A k \in DOMAIN chunks : place[k] = chunks[k].at
<1>0. /\ DOMAIN chunks = 1 .. Len(chunks) /\ Len(chunks) \in Nat
      /\ \A k \in 1 .. Len(chunks) : chunks[k].at \in Nat /\ chunks[k].w \in Nat
      /\ Len(chunks) > 0 => start <= chunks[1].at
      /\ \A k \in 2 .. Len(chunks) : chunks[k - 1].at + chunks[k - 1].w <= chunks[k].at
  BY InOrderShape
<1>3. \A k \in 1 .. Len(chunks) :
        place[k] = Pad(IF k = 1 THEN start ELSE place[k - 1] + chunks[k - 1].w, chunks[k].at)
  BY DEF Following
<1> DEFINE Wrong == {k \in 1 .. Len(chunks) : place[k] # chunks[k].at}
<1>1. SUFFICES ASSUME Wrong # {} PROVE FALSE
  BY <1>0
<1>2. PICK k \in Wrong : \A j \in Wrong : k <= j
  <2>1. Wrong \in SUBSET Nat
    BY <1>0
  <2> HIDE DEF Wrong
  <2> QED BY <1>1, <2>1, Least
<1>4. chunks[k].at \in Nat /\ k \in 1 .. Len(chunks) /\ place[k] # chunks[k].at
  BY <1>0
<1>5. CASE k = 1
  BY <1>0, <1>3, <1>4, <1>5 DEF Pad
<1>6. CASE k # 1
  <2>1. k - 1 \in 1 .. Len(chunks) /\ k \in 2 .. Len(chunks) /\ ~(k <= k - 1)
    BY <1>0, <1>4, <1>6
  <2>2. place[k - 1] = chunks[k - 1].at
    BY <1>2, <2>1
  <2>3. /\ chunks[k - 1].at \in Nat /\ chunks[k - 1].w \in Nat
        /\ chunks[k - 1].at + chunks[k - 1].w <= chunks[k].at
    BY <2>1, <1>0
  <2>5. place[k] = Pad(place[k - 1] + chunks[k - 1].w, chunks[k].at)
    BY <1>3, <1>4, <1>6
  <2> QED BY <1>4, <2>2, <2>3, <2>5 DEF Pad
<1> QED BY <1>5, <1>6

\* The places themselves are such a function.
LEMMA PlacesFollow ==
  ASSUME NEW chunks, NEW start \in Nat, InOrder(chunks, start)
  PROVE  LET places == [k \in 1 .. Len(chunks) |-> chunks[k].at]
         IN  places = Following(chunks, start, places)
<1> DEFINE places == [k \in 1 .. Len(chunks) |-> chunks[k].at]
<1>0. /\ DOMAIN chunks = 1 .. Len(chunks) /\ Len(chunks) \in Nat
      /\ \A k \in 1 .. Len(chunks) : chunks[k].at \in Nat /\ chunks[k].w \in Nat
      /\ Len(chunks) > 0 => start <= chunks[1].at
      /\ \A k \in 2 .. Len(chunks) : chunks[k - 1].at + chunks[k - 1].w <= chunks[k].at
  BY InOrderShape
<1>1. ASSUME NEW k \in 1 .. Len(chunks)
      PROVE  chunks[k].at = Pad(IF k = 1 THEN start ELSE places[k - 1] + chunks[k - 1].w,
                                chunks[k].at)
  <2>1. CASE k = 1
    BY <1>0, <2>1 DEF Pad
  <2>2. CASE k # 1
    <3>1. k - 1 \in 1 .. Len(chunks) /\ k \in 2 .. Len(chunks)
      BY <1>0, <2>2
    <3>2. places[k - 1] = chunks[k - 1].at
      BY <3>1
    <3>3. /\ chunks[k - 1].at \in Nat /\ chunks[k - 1].w \in Nat /\ chunks[k].at \in Nat
          /\ chunks[k - 1].at + chunks[k - 1].w <= chunks[k].at
      BY <3>1, <1>0
    <3> HIDE DEF places
    <3> QED BY <2>2, <3>2, <3>3 DEF Pad
  <2> QED BY <2>1, <2>2
<1> QED BY <1>1 DEF Following

\* So the file is the memory wherever the chunks never go back.
LEMMA WrittenInPlace ==
  ASSUME InOrder(Chunks, Row(RawStart))
  PROVE  \A k \in DOMAIN Chunks : Written[k] = Chunks[k].at
<1> DEFINE start == Row(RawStart)
<1>1. start \in Nat
  BY RowNext, SegmentsAssumption
<1>2. Written = CHOOSE place : place = Following(Chunks, start, place)
  BY DEF Written, Following
<1>3. \E place : place = Following(Chunks, start, place)
  BY <1>1, PlacesFollow
<1>4. Written = Following(Chunks, start, Written)
  BY <1>2, <1>3
<1> QED BY <1>1, <1>4, PadsToPlaces

-----------------------------------------------------------------------------
\* Rows of images: counting chunks by quotient and remainder

\* A quotient and a remainder are the only ones.
LEMMA DivisionUnique ==
  ASSUME NEW a \in Nat \ {0}, NEW q \in Nat, NEW r \in 0 .. (a - 1)
  PROVE  (a * q + r) \div a = q /\ (a * q + r) % a = r
BY SMT

\* One more: the next remainder, or the next quotient.
LEMMA DivisionNext ==
  ASSUME NEW a \in Nat \ {0}, NEW x \in Nat
  PROVE  \/ (x + 1) % a = (x % a) + 1 /\ (x + 1) \div a = x \div a
         \/ x % a = a - 1 /\ (x + 1) % a = 0 /\ (x + 1) \div a = (x \div a) + 1
<1> DEFINE q == x \div a
           r == x % a
<1>1. q \in Nat /\ r \in 0 .. (a - 1) /\ x = a * q + r
  BY Division
<1> HIDE DEF q, r
<1>2. CASE r < a - 1
  <2>1. r + 1 \in 0 .. (a - 1) /\ x + 1 = a * q + (r + 1)
    BY <1>1, <1>2
  <2>2. (a * q + (r + 1)) \div a = q /\ (a * q + (r + 1)) % a = r + 1
    BY <1>1, <2>1, DivisionUnique, Zenon
  <2>3. (x + 1) \div a = q /\ (x + 1) % a = r + 1
    BY <2>1, <2>2, Zenon
  <2> QED BY <2>3, Zenon DEF q, r
<1>3. CASE ~(r < a - 1)
  <2>1. r = a - 1 /\ q + 1 \in Nat /\ 0 \in 0 .. (a - 1)
    BY <1>1, <1>3
  <2>2. x + 1 = a * (q + 1) + 0
    BY <1>1, <2>1, SMT
  <2>3. (a * (q + 1) + 0) \div a = q + 1 /\ (a * (q + 1) + 0) % a = 0
    BY <2>1, DivisionUnique, Zenon
  <2>4. (x + 1) \div a = q + 1 /\ (x + 1) % a = 0
    BY <2>2, <2>3, Zenon
  <2> QED BY <2>1, <2>4, Zenon DEF q, r
<1> QED BY <1>2, <1>3

\* What the invariant says of one kernel.
LEMMA KernelChunk ==
  ASSUME IInv, NEW i \in DOMAIN raw
  PROVE  /\ raw[i].x \in Nat /\ raw[i].y \in Nat /\ raw[i].w \in Nat
         /\ Row(raw[i].y) \in Nat /\ First(raw[i]) = Row(raw[i].y) + raw[i].x
         /\ First(raw[i]) \in Nat /\ End(raw[i]) = First(raw[i]) + raw[i].w
         /\ raw[i].x + raw[i].w <= StrideW
<1>1. raw \in Seq(Items(RawSizes)) /\ RawSizes \in SUBSET (Nat \ {0})
  BY SizesAssumption, GeometryAssumption DEF IInv, TypeOK
<1>2. raw[i].x \in Nat /\ raw[i].y \in Nat /\ raw[i].w \in Nat
  BY <1>1, ItemShape
<1>3. Row(raw[i].y) \in Nat
  BY <1>2, RowNext
<1> QED BY <1>2, <1>3 DEF First, End, IInv, RawApart, Apart

\* Kernels are written one behind the other.
LEMMA KernelsInOrder ==
  ASSUME IInv, NEW i \in DOMAIN raw, NEW j \in DOMAIN raw, i < j
  PROVE  End(raw[i]) <= First(raw[j])
<1>1. Behind(raw[i], raw[j], 1)
  BY DEF IInv, RawApart, Apart
<1>2. \A k \in {i, j} :
        /\ raw[k].x \in Nat /\ raw[k].y \in Nat /\ raw[k].w \in Nat
        /\ Row(raw[k].y) \in Nat /\ First(raw[k]) = Row(raw[k].y) + raw[k].x
        /\ End(raw[k]) = First(raw[k]) + raw[k].w
        /\ raw[k].x + raw[k].w <= StrideW
  BY KernelChunk
<1>3. CASE raw[i].y + 1 <= raw[j].y
  <2>1. Row(raw[i].y) + StrideW <= Row(raw[j].y)
    BY <1>2, <1>3, RowsApart
  <2> QED BY <1>2, <2>1, GeometryAssumption
<1>4. CASE raw[i].y = raw[j].y /\ raw[i].x + raw[i].w <= raw[j].x
  BY <1>2, <1>4
<1> QED BY <1>1, <1>3, <1>4 DEF Behind

\* What the invariant says of one image in the first band.
LEMMA ImageChunk ==
  ASSUME IInv, NEW i \in DOMAIN image, image[i].y = ImageStart, NEW q \in Nat
  PROVE  /\ image[i].x \in Nat /\ image[i].w \in Nat
         /\ Row(ImageStart) \in Nat /\ Row(q) \in Nat
         /\ First(image[i]) = Row(ImageStart) + image[i].x
         /\ image[i].x + image[i].w <= StrideW
<1>1. image \in Seq(Items(ImageWidths)) /\ ImageWidths \in SUBSET (Nat \ {0})
  BY SizesAssumption, GeometryAssumption DEF IInv, TypeOK
<1>2. image[i].x \in Nat /\ image[i].w \in Nat
  BY <1>1, ItemShape
<1>3. Row(ImageStart) \in Nat /\ Row(q) \in Nat
  BY RowNext, SegmentsAssumption
<1> QED BY <1>2, <1>3 DEF First, IInv, ImagesApart, Apart

\* Images of one band lie side by side.
LEMMA ImagesSideBySide ==
  ASSUME IInv, NEW i \in DOMAIN image, NEW j \in DOMAIN image, i < j,
         image[i].y = ImageStart, image[j].y = ImageStart
  PROVE  image[i].x + image[i].w <= image[j].x
<1>1. Behind(image[i], image[j], ImageHeight)
  BY DEF IInv, ImagesApart, Apart
<1> QED BY <1>1, SizesAssumption, SegmentsAssumption DEF Behind

\* The rows of a band of images, one after the other.
LEMMA ImageChunksInOrder ==
  ASSUME IInv, \A i \in DOMAIN image : image[i].y = ImageStart
  PROVE  /\ ImageChunks \in Seq([at : Nat, w : Nat])
         /\ Len(ImageChunks) = Len(image) * ImageHeight
         /\ \A k \in 1 .. Len(ImageChunks) : Row(ImageStart) <= ImageChunks[k].at
         /\ \A k \in 2 .. Len(ImageChunks) :
              ImageChunks[k - 1].at + ImageChunks[k - 1].w <= ImageChunks[k].at
<1> DEFINE a == Len(image)
           b == ImageHeight
           n == a * b
           at(x) == First(image[(x % a) + 1]) + Row(x \div a)
           w(x) == image[(x % a) + 1].w
<1>1. a \in Nat /\ b \in Nat \ {0} /\ DOMAIN image = 1 .. a /\ n \in Nat
  <2>1. image \in Seq(Items(ImageWidths))
    BY DEF IInv, TypeOK
  <2>2. a \in Nat /\ b \in Nat \ {0} /\ DOMAIN image = 1 .. a
    BY <2>1, SizesAssumption
  <2> HIDE DEF a, b
  <2> QED BY <2>2
<1>2. ImageChunks = [k \in 1 .. n |-> [at |-> at(k - 1), w |-> w(k - 1)]]
  BY DEF ImageChunks
<1>3. ASSUME NEW x \in Nat, x < n
      PROVE  /\ a \in Nat \ {0} /\ x \div a \in Nat /\ (x % a) + 1 \in DOMAIN image
             /\ Row(x \div a) \in Nat /\ Row(ImageStart) \in Nat
             /\ image[(x % a) + 1].x \in Nat /\ image[(x % a) + 1].w \in Nat
             /\ image[(x % a) + 1].x + image[(x % a) + 1].w <= StrideW
             /\ at(x) = Row(ImageStart) + image[(x % a) + 1].x + Row(x \div a)
  <2>1. a \in Nat \ {0}
    <3> HIDE DEF a, b
    <3> QED BY <1>1, <1>3, SMT
  <2>2. x \div a \in Nat /\ x % a \in 0 .. (a - 1)
    BY <2>1, Division
  <2>3. (x % a) + 1 \in DOMAIN image
    BY <1>1, <2>1, <2>2
  <2> DEFINE i == (x % a) + 1
             q == x \div a
  <2>4. i \in DOMAIN image /\ q \in Nat /\ image[i].y = ImageStart
    BY <2>2, <2>3
  <2>5. at(x) = First(image[i]) + Row(q)
    OBVIOUS
  <2> HIDE DEF i, q, at
  <2>6. /\ image[i].x \in Nat /\ image[i].w \in Nat
        /\ Row(ImageStart) \in Nat /\ Row(q) \in Nat
        /\ First(image[i]) = Row(ImageStart) + image[i].x
        /\ image[i].x + image[i].w <= StrideW
    BY <2>4, ImageChunk
  <2>7. at(x) = Row(ImageStart) + image[i].x + Row(q)
    BY <2>5, <2>6
  <2> QED BY <2>1, <2>4, <2>6, <2>7 DEF i, q
<1> HIDE DEF n, w, at, a, b
<1>4. ASSUME NEW x \in Nat, x < n
      PROVE  /\ at(x) \in Nat /\ w(x) \in Nat /\ Row(ImageStart) <= at(x)
  BY <1>3, <1>4 DEF w
<1>5. ASSUME NEW x \in Nat, x + 1 < n
      PROVE  at(x) + w(x) <= at(x + 1)
  <2> DEFINE i == (x % a) + 1
             j == ((x + 1) % a) + 1
             q == x \div a
             r == (x + 1) \div a
  <2>0. x + 1 \in Nat /\ x < n
    BY <1>1, <1>5
  <2>1. /\ a \in Nat \ {0} /\ q \in Nat /\ i \in DOMAIN image
        /\ Row(q) \in Nat /\ Row(ImageStart) \in Nat
        /\ image[i].x \in Nat /\ image[i].w \in Nat /\ image[i].x + image[i].w <= StrideW
        /\ at(x) = Row(ImageStart) + image[i].x + Row(q)
    BY <2>0, <1>3
  <2>2. /\ r \in Nat /\ j \in DOMAIN image
        /\ Row(r) \in Nat /\ image[j].x \in Nat
        /\ at(x + 1) = Row(ImageStart) + image[j].x + Row(r)
    BY <2>0, <1>3, <1>5
  <2>3. w(x) = image[i].w
    BY DEF w
  <2>4. \/ j = i + 1 /\ r = q
        \/ r = q + 1
    BY <2>1, DivisionNext
  <2>5. i \in Nat /\ j \in Nat
    BY <1>1, <2>1, <2>2
  <2> HIDE DEF i, j, q, r
  <2>6. CASE j = i + 1 /\ r = q
    <3>1. image[i].x + image[i].w <= image[j].x
      BY <2>1, <2>2, <2>5, <2>6, ImagesSideBySide
    <3> QED BY <2>1, <2>2, <2>3, <2>6, <3>1
  <2>7. CASE r = q + 1
    <3>1. Row(r) = Row(q) + StrideW
      BY <2>1, <2>7, RowNext
    <3> QED BY <2>1, <2>2, <2>3, <3>1, GeometryAssumption
  <2> QED BY <2>4, <2>6, <2>7
<1>6. \A k \in 1 .. n : [at |-> at(k - 1), w |-> w(k - 1)] \in [at : Nat, w : Nat]
  BY <1>1, <1>4
<1>7. ImageChunks \in [1 .. n -> [at : Nat, w : Nat]]
  BY <1>2, <1>6
<1>8. ImageChunks \in Seq([at : Nat, w : Nat]) /\ Len(ImageChunks) = n
  <2> DEFINE Chunk == [at : Nat, w : Nat]
  <2>1. ImageChunks \in [1 .. n -> Chunk]
    BY <1>7
  <2> HIDE DEF Chunk
  <2>2. ImageChunks \in Seq(Chunk) /\ Len(ImageChunks) = n
    BY <1>1, <2>1
  <2> QED BY <2>2 DEF Chunk
<1>9. \A k \in 1 .. n : ImageChunks[k].at = at(k - 1) /\ ImageChunks[k].w = w(k - 1)
  BY <1>2
<1>10. \A k \in 1 .. n : Row(ImageStart) <= ImageChunks[k].at
  BY <1>1, <1>4, <1>9
<1>11. ASSUME NEW k \in 2 .. n
       PROVE  ImageChunks[k - 1].at + ImageChunks[k - 1].w <= ImageChunks[k].at
  <2>1. k - 2 \in Nat /\ (k - 2) + 1 < n /\ (k - 2) + 1 = k - 1 /\ (k - 1) - 1 = k - 2
        /\ k \in 1 .. n /\ k - 1 \in 1 .. n
    BY <1>1
  <2>2. at(k - 2) + w(k - 2) <= at(k - 1)
    BY <1>5, <2>1
  <2>3. /\ ImageChunks[k].at = at(k - 1) /\ ImageChunks[k - 1].at = at(k - 2)
        /\ ImageChunks[k - 1].w = w(k - 2)
    BY <1>9, <2>1
  <2> QED BY <2>2, <2>3
<1> QED BY <1>8, <1>10, <1>11 DEF n, a, b

\* What stands where in one sequence behind another.
LEMMA OneBehindOther ==
  ASSUME NEW S, NEW s \in Seq(S), NEW t \in Seq(S)
  PROVE  /\ s \o t \in Seq(S) /\ Len(s \o t) = Len(s) + Len(t)
         /\ \A k \in 1 .. Len(s) : (s \o t)[k] = s[k]
         /\ \A k \in Len(s) + 1 .. Len(s) + Len(t) : (s \o t)[k] = t[k - Len(s)]
OBVIOUS

\* The file never has to go back: kernels, then the rows of the images, each
\* place behind the one before.
LEMMA ChunksInOrder ==
  ASSUME FileInv, ~Overlap, \A i \in DOMAIN image : image[i].y = ImageStart
  PROVE  InOrder(Chunks, Row(RawStart))
<1> DEFINE n == Len(raw)
           m == Len(ImageChunks)
           Chunk == [at : Nat, w : Nat]
<1>1. IInv /\ RawFromStart
  BY DEF FileInv
<1>2. /\ ImageChunks \in Seq(Chunk) /\ m \in Nat
      /\ \A k \in 1 .. m : Row(ImageStart) <= ImageChunks[k].at
      /\ \A k \in 2 .. m : ImageChunks[k - 1].at + ImageChunks[k - 1].w <= ImageChunks[k].at
  <2>1. ImageChunks \in Seq(Chunk)
    BY <1>1, ImageChunksInOrder
  <2> HIDE DEF Chunk
  <2>2. m \in Nat
    BY <2>1
  <2> QED BY <2>1, <2>2, <1>1, ImageChunksInOrder
<1>3. DOMAIN raw = 1 .. n /\ n \in Nat
  <2>1. raw \in Seq(Items(RawSizes))
    BY <1>1 DEF IInv, TypeOK
  <2> QED BY <2>1
<1>4. \A k \in 1 .. n : RawChunks[k].at = First(raw[k]) /\ RawChunks[k].w = raw[k].w
  BY <1>3 DEF RawChunks
<1>5. \A k \in 1 .. n : /\ First(raw[k]) \in Nat /\ raw[k].w \in Nat
                        /\ End(raw[k]) = First(raw[k]) + raw[k].w
  BY <1>1, <1>3, KernelChunk
<1>6. RawChunks \in Seq(Chunk) /\ Len(RawChunks) = n
  <2>1. \A k \in 1 .. n : [at |-> First(raw[k]), w |-> raw[k].w] \in Chunk
    BY <1>5
  <2> HIDE DEF Chunk
  <2>2. RawChunks \in [1 .. n -> Chunk]
    BY <2>1, <1>3 DEF RawChunks
  <2> QED BY <2>2, <1>3
<1> HIDE DEF n, m, Chunk
<1>7. /\ Chunks \in Seq(Chunk) /\ Len(Chunks) = n + m
      /\ \A k \in 1 .. n : Chunks[k] = RawChunks[k]
      /\ \A k \in n + 1 .. n + m : Chunks[k] = ImageChunks[k - n]
  <2>1. Len(ImageChunks) = m
    BY DEF m
  <2>2. Chunks = RawChunks \o ImageChunks
    BY DEF Chunks
  <2> QED BY <1>2, <1>6, <2>1, <2>2, OneBehindOther, ZenonT(30)
<1>8. Row(RawStart) \in Nat /\ Row(ImageStart) \in Nat /\ Row(RawStart) <= Row(ImageStart)
  <2>1. Row(RawStart) + StrideW <= Row(ImageStart)
    BY RowsApart, SegmentsAssumption
  <2>2. Row(RawStart) \in Nat /\ Row(ImageStart) \in Nat
    BY RowNext, SegmentsAssumption
  <2> QED BY <2>1, <2>2, GeometryAssumption
<1>9. n + m > 0 => Row(RawStart) <= Chunks[1].at
  <2>1. CASE n > 0
    <3>1. 1 \in DOMAIN raw /\ raw[1].y >= RawStart
      BY <1>1, <1>3, <2>1 DEF RawFromStart
    <3>2. /\ raw[1].x \in Nat /\ raw[1].y \in Nat /\ Row(raw[1].y) \in Nat
          /\ First(raw[1]) = Row(raw[1].y) + raw[1].x
      BY <1>1, <3>1, KernelChunk
    <3>3. raw[1].y = RawStart \/ Row(RawStart) + StrideW <= Row(raw[1].y)
      BY <3>1, <3>2, RowsApart, SegmentsAssumption
    <3>4. Row(RawStart) <= First(raw[1])
      BY <1>8, <3>2, <3>3, GeometryAssumption
    <3>5. Chunks[1].at = First(raw[1])
      BY <1>3, <1>4, <1>7, <2>1
    <3> QED BY <3>4, <3>5
  <2>2. CASE ~(n > 0) /\ m > 0
    <3>1. n = 0 /\ 1 \in n + 1 .. n + m /\ 1 \in 1 .. m /\ 1 - n = 1
      BY <1>2, <1>3, <2>2
    <3>2. Chunks[1] = ImageChunks[1]
      BY <1>7, <3>1
    <3>3. Row(ImageStart) <= ImageChunks[1].at /\ ImageChunks[1].at \in Nat
      <4>1. ImageChunks[1] \in Chunk
        BY <1>2, <3>1 DEF m
      <4> QED BY <1>2, <3>1, <4>1 DEF Chunk
    <3> QED BY <1>8, <3>2, <3>3
  <2> QED BY <1>2, <1>3, <2>1, <2>2
<1>10. ASSUME NEW k \in 2 .. n + m
       PROVE  Chunks[k - 1].at + Chunks[k - 1].w <= Chunks[k].at
  <2>1. CASE k <= n
    <3>1. k \in 1 .. n /\ k - 1 \in 1 .. n /\ k - 1 < k
      BY <1>3, <2>1
    <3>2. End(raw[k - 1]) <= First(raw[k])
      BY <1>1, <1>3, <3>1, KernelsInOrder
    <3>3. /\ Chunks[k - 1].at = First(raw[k - 1]) /\ Chunks[k - 1].w = raw[k - 1].w
          /\ Chunks[k].at = First(raw[k])
      BY <1>4, <1>7, <3>1
    <3>4. End(raw[k - 1]) = First(raw[k - 1]) + raw[k - 1].w
      BY <1>5, <3>1
    <3> QED BY <3>2, <3>3, <3>4
  <2>2. CASE k = n + 1
    <3>1. n \in 1 .. n /\ k - 1 = n /\ k \in n + 1 .. n + m /\ k - n = 1 /\ 1 \in 1 .. m
      BY <1>2, <1>3, <2>2
    <3>2. End(raw[n]) <= Row(ImageStart)
      BY <1>1, <1>3, <3>1, RawInFront DEF IInv
    <3>3. /\ Chunks[k - 1].at = First(raw[n]) /\ Chunks[k - 1].w = raw[n].w
          /\ Chunks[k].at = ImageChunks[1].at
      BY <1>4, <1>7, <3>1
    <3>4. End(raw[n]) = First(raw[n]) + raw[n].w /\ First(raw[n]) \in Nat /\ raw[n].w \in Nat
      BY <1>5, <3>1
    <3>5. Row(ImageStart) <= ImageChunks[1].at /\ ImageChunks[1].at \in Nat
      <4>1. ImageChunks[1] \in Chunk
        BY <1>2, <3>1 DEF m
      <4> QED BY <1>2, <3>1, <4>1 DEF Chunk
    <3> QED BY <1>8, <3>2, <3>3, <3>4, <3>5
  <2>3. CASE k > n + 1
    <3>1. /\ k \in n + 1 .. n + m /\ k - 1 \in n + 1 .. n + m
          /\ k - n \in 2 .. m /\ (k - 1) - n = (k - n) - 1
      BY <1>2, <1>3, <2>3
    <3>2. Chunks[k] = ImageChunks[k - n] /\ Chunks[k - 1] = ImageChunks[(k - n) - 1]
      BY <1>7, <3>1
    <3>3. ImageChunks[(k - n) - 1].at + ImageChunks[(k - n) - 1].w <= ImageChunks[k - n].at
      BY <1>2, <3>1
    <3> QED BY <3>2, <3>3
  <2> QED BY <1>2, <1>3, <2>1, <2>2, <2>3
<1>11. Chunks # <<>> => n + m > 0
  <2>1. Len(Chunks) = 0 => Chunks = <<>>
    BY <1>7
  <2> QED BY <2>1, <1>2, <1>3, <1>7
<1> QED BY <1>7, <1>9, <1>10, <1>11 DEF InOrder, Chunk

\* Kernels are placed from the start of their segment on.
LEMMA RawFromStartKept == IInv /\ RawFromStart /\ [Next]_vars => RawFromStart'
<1> SUFFICES ASSUME IInv, RawFromStart, [Next]_vars PROVE RawFromStart'
  OBVIOUS
<1>1. ASSUME NEW n \in RawSizes, AllocRaw(n) PROVE RawFromStart'
  <2> DEFINE p == Fitting(rawAt, n, 1)
             e == p.x + n
  <2>1. /\ rawAt \in Places /\ rawAt.x % AlignW = 0 /\ n \in 1 .. StrideW /\ 1 \in Nat
        /\ raw \in Seq(Items(RawSizes))
    BY SizesAssumption DEF IInv, TypeOK, PointersAligned
  <2>2. /\ p \in Places /\ e <= StrideW
        /\ p = rawAt \/ p.y = rawAt.y + 1
    BY <2>1, FittingInRow
  <2>3. rawAt' = AlignedPlace(Place(e, p.y), 1) /\ raw' = Append(raw, Item(p, n))
    BY <1>1 DEF AllocRaw
  <2>4. p.x \in 0 .. StrideW /\ p.y \in Nat /\ p.y >= RawStart /\ rawAt.y \in Nat
    BY <2>1, <2>2, SegmentsAssumption DEF RawFromStart, Places
  <2>5. e \in 0 .. StrideW
    BY <2>1, <2>2, <2>4, GeometryAssumption
  <2> HIDE DEF p, e
  <2>6. rawAt'.y = p.y \/ rawAt'.y = p.y + 1
    BY <2>1, <2>3, <2>4, <2>5, AlignedPlaceAfter
  <2>7. Item(p, n).y = p.y
    BY DEF Item
  <2> DEFINE item == Item(p, n)
  <2>8. item \in Items(RawSizes)
    BY <2>4 DEF Item, Items
  <2> HIDE DEF item
  <2>9. \A i \in DOMAIN raw' : raw'[i] = item \/ (i \in DOMAIN raw /\ raw'[i] = raw[i])
    BY <2>1, <2>3, <2>8 DEF item
  <2>10. \A i \in DOMAIN raw' : raw'[i].y >= RawStart
    BY <2>4, <2>7, <2>9 DEF item, RawFromStart
  <2> QED BY <2>4, <2>6, <2>10, SegmentsAssumption DEF RawFromStart
<1>2. CASE UNCHANGED <<raw, rawAt>>
  BY <1>2 DEF RawFromStart
<1>3. (\E n \in RawSizes : AllocRaw(n)) \/ UNCHANGED <<raw, rawAt>>
  BY DEF Next, AllocImage, AllocHeap, vars
<1> QED BY <1>1, <1>2, <1>3

\* With the kernels behind the start of the file, the invariant tells where
\* every chunk is written.
LEMMA FileInvExact == FileInv => FileIsMemory
BY ChunksInOrder, WrittenInPlace DEF FileIsMemory

\* dump_RawData and dump_ImageData write every kernel and every image at its
\* address, when checkCollisions is silent and the images fill one band.
THEOREM FileExact == Spec => []FileIsMemory
<1>1. Init => FileInv
  BY InitEstablishesIInv, SegmentsAssumption DEF FileInv, RawFromStart, Init, Place
<1>2. FileInv /\ [Next]_vars => FileInv'
  BY NextPreservesIInv, RawFromStartKept DEF FileInv
<1> QED BY <1>1, <1>2, FileInvExact, PTL DEF Spec
=============================================================================
