--------------------------- MODULE ChunkExportProofs ---------------------------
(***************************************************************************)
(* Proofs about ChunkExport, for cubes and chunks of every size and any     *)
(* number of threads: the offsets of the four exports put every element on  *)
(* the pixel of its cell, so whatever chunks have been written in whatever  *)
(* order, the output never holds a cell in the wrong place.                 *)
(***************************************************************************)
EXTENDS ChunkExport, ChunkGeometryProofs

\* A cube that is exported, and a GDAL image only of a cube that was reduced.
Exported ==
    /\ shape \in Shapes /\ format \in Formats /\ nthreads \in 1..MaxThreads
    /\ format = "gdal" => n.t = 1 /\ s.t = 1

LEMMA SizesOfShape ==
    ASSUME shape \in Shapes
    PROVE  n \in Sizes /\ s \in Sizes
BY ExportAssumption DEF n, s

\* write_gdal_image computes the offset from the coordinates of the chunk and clamps the
\* row; the result is that of the limits, also for the smaller chunks at the top.
LEMMA GdalStartIsNetcdfStart ==
    ASSUME shape \in Shapes, n.t = 1, NEW id \in Ids
    PROVE  GdalStart(id) = NetcdfStart(id)
<1> DEFINE b  == chunk_limits(n, s, id)
           ct == chunk_coords_from_id(n, s, id)
           yoff == n.y - (ct.y + 1) * s.y
<1>1. n \in Sizes /\ s \in Sizes
  BY SizesOfShape
<1>2. id \in ChunkIds(n, s)
  BY DEF Ids
<1>3. /\ ct \in Coords(n, s)
      /\ b.low.x = Low(n.x, s.x, ct.x) /\ b.high.y = High(n.y, s.y, ct.y)
      /\ b.low.t \in 0..(n.t - 1) /\ b.high.y \in b.low.y..(n.y - 1) /\ b.low.y \in 0..(n.y - 1)
  BY <1>1, <1>2, ChunkLimits
<1>4. /\ n.x \in Nat \ {0} /\ n.y \in Nat \ {0} /\ s.x \in Nat \ {0} /\ s.y \in Nat \ {0}
      /\ Ceil(n.x, s.x) \in Nat \ {0} /\ Ceil(n.y, s.y) \in Nat \ {0}
  BY <1>1, Radices
<1>5. ct.x \in 0..(Ceil(n.x, s.x) - 1) /\ ct.y \in 0..(Ceil(n.y, s.y) - 1)
  BY <1>3 DEF Coords
<1>6. Low(n.x, s.x, ct.x) = ct.x * s.x
  BY <1>4, <1>5, LimitsInside
<1>7. ct.y \in Nat /\ ct.y * s.y \in Nat /\ (ct.y + 1) * s.y = ct.y * s.y + s.y
  BY <1>4, <1>5, SMT
<1>8. b.high.y = IF ct.y * s.y + s.y - 1 <= n.y - 1 THEN ct.y * s.y + s.y - 1 ELSE n.y - 1
  BY <1>3 DEF High, Smaller
<1>9. b.low.t = 0
  BY <1>3
<1> HIDE DEF b, ct
<1>10. (IF yoff < 0 THEN 0 ELSE yoff) = n.y - b.high.y - 1
  BY <1>3, <1>4, <1>7, <1>8
<1>11. GdalStart(id) = <<0, IF yoff < 0 THEN 0 ELSE yoff, ct.x * s.x>>
  BY DEF GdalStart, ct
<1>12. NetcdfStart(id) = <<b.low.t, n.y - b.high.y - 1, b.low.x>>
  BY DEF NetcdfStart, b
<1> HIDE DEF yoff
<1> QED BY <1>3, <1>6, <1>9, <1>10, <1>11, <1>12

\* All four exports begin at the same pixel.
LEMMA StartsAgree ==
    ASSUME Exported, NEW id \in Ids
    PROVE  StartOf(id) = NetcdfStart(id)
<1> DEFINE b == chunk_limits(n, s, id)
           m == bounds_from_chunk(n, s, id)
<1>1. n \in Sizes /\ s \in Sizes
  BY SizesOfShape DEF Exported
<1>2. id \in ChunkIds(n, s)
  BY DEF Ids
<1>3. CASE format = "netcdf"
  BY <1>3 DEF StartOf
<1>4. CASE format = "tif"
  BY <1>4 DEF StartOf, TifStart, NetcdfStart
<1>5. CASE format = "chunks"
  <2>1. m.t0 = b.low.t /\ m.top = b.high.y + 1 /\ m.left = b.low.x
    BY DEF bounds_from_chunk, Borders
  <2>2. n.y \in Nat /\ b.high.y \in b.low.y..(n.y - 1) /\ b.low.y \in 0..(n.y - 1)
    BY <1>1, <1>2, ChunkLimits, Radices
  <2>3. ChunksStart(id) = <<m.t0, n.y - m.top, m.left>>
    BY DEF ChunksStart
  <2>4. NetcdfStart(id) = <<b.low.t, n.y - b.high.y - 1, b.low.x>>
    BY DEF NetcdfStart
  <2> HIDE DEF b, m
  <2>5. n.y - m.top = n.y - b.high.y - 1
    BY <2>1, <2>2
  <2>6. ChunksStart(id) = NetcdfStart(id)
    BY <2>1, <2>3, <2>4, <2>5
  <2> QED BY <1>5, <2>6 DEF StartOf
<1>6. CASE format = "gdal"
  BY <1>6, GdalStartIsNetcdfStart DEF StartOf, Exported
<1> QED BY <1>3, <1>4, <1>5, <1>6 DEF Exported, Formats

\* An element goes to the pixel of the output that stands for its cell, and that is the
\* pixel the variables it, iy and ix of apply_pixel name.
LEMMA PixelOfElement ==
    ASSUME Exported, NEW id \in Ids, NEW e \in Elements(n, s, id)
    PROVE  /\ PixelOf(id, e) \in Pixels(n)
           /\ PixelCell(n, PixelOf(id, e)) = ElementCell(n, s, id, e)
           /\ PixelVariables(n, s, id, e) = PixelOf(id, e)
<1> DEFINE b == chunk_limits(n, s, id)
           p == ElementCell(n, s, id, e)
           q == PixelOf(id, e)
<1>1. n \in Sizes /\ s \in Sizes
  BY SizesOfShape DEF Exported
<1>2. id \in ChunkIds(n, s)
  BY DEF Ids
<1>3. /\ b.low.t \in 0..(n.t - 1) /\ b.high.t \in b.low.t..(n.t - 1)
      /\ b.low.y \in 0..(n.y - 1) /\ b.high.y \in b.low.y..(n.y - 1)
      /\ b.low.x \in 0..(n.x - 1) /\ b.high.x \in b.low.x..(n.x - 1)
  BY <1>1, <1>2, ChunkLimits
<1>4. /\ p = [t |-> b.low.t + e.t, y |-> b.high.y - e.row, x |-> b.low.x + e.col]
      /\ e.t \in Nat /\ e.row \in Nat /\ e.col \in Nat
      /\ p.t \in b.low.t..b.high.t /\ p.y \in b.low.y..b.high.y /\ p.x \in b.low.x..b.high.x
  BY <1>1, <1>2, ElementLimits
<1>5. n.t \in Nat /\ n.y \in Nat /\ n.x \in Nat
  BY <1>1, Radices
<1>6. StartOf(id) = <<b.low.t, n.y - b.high.y - 1, b.low.x>>
  BY StartsAgree DEF NetcdfStart
<1>7. q = <<StartOf(id)[1] + e.t, StartOf(id)[2] + e.row, StartOf(id)[3] + e.col>>
  BY DEF PixelOf
<1>8. PixelVariables(n, s, id, e)
        = <<b.low.t + e.t, n.y - 1 - (b.high.y - e.row), b.low.x + e.col>>
  BY DEF PixelVariables
<1>9. PixelCell(n, q) = [t |-> q[1], y |-> n.y - 1 - q[2], x |-> q[3]]
  BY DEF PixelCell
<1> HIDE DEF b, p, q
<1>10. q = <<b.low.t + e.t, (n.y - b.high.y - 1) + e.row, b.low.x + e.col>>
  BY <1>6, <1>7
<1>11. /\ p.t = b.low.t + e.t /\ p.y = b.high.y - e.row /\ p.x = b.low.x + e.col
       /\ q[1] = b.low.t + e.t /\ q[2] = (n.y - b.high.y - 1) + e.row /\ q[3] = b.low.x + e.col
  BY <1>4, <1>10
<1>12. /\ q[1] \in 0..(n.t - 1) /\ q[2] \in 0..(n.y - 1) /\ q[3] \in 0..(n.x - 1)
       /\ n.y - 1 - q[2] = b.high.y - e.row
       /\ n.y - 1 - (b.high.y - e.row) = (n.y - b.high.y - 1) + e.row
  BY <1>3, <1>4, <1>5, <1>11
<1>13. q \in Pixels(n)
  BY <1>10, <1>11, <1>12 DEF Pixels
<1>14. PixelCell(n, q) = p
  BY <1>4, <1>9, <1>11, <1>12
<1>15. PixelVariables(n, s, id, e) = q
  BY <1>8, <1>10, <1>12
<1> QED BY <1>13, <1>14, <1>15 DEF p, q

\* Writing elements of a chunk to an image leaves every pixel right.
LEMMA DrawnRight ==
    ASSUME Exported, NEW id \in Ids, NEW E \in SUBSET Elements(n, s, id), NEW im,
           DOMAIN im \subseteq Pixels(n),
           \A q \in DOMAIN im : im[q] \in {Nothing, PixelCell(n, q)}
    PROVE  /\ DOMAIN Drawn(im, id, E) = DOMAIN im
           /\ \A q \in DOMAIN im : Drawn(im, id, E)[q] \in {Nothing, PixelCell(n, q)}
<1>1. DOMAIN Drawn(im, id, E) = DOMAIN im
  BY DEF Drawn
<1>2. SUFFICES ASSUME NEW q \in DOMAIN im
              PROVE  Drawn(im, id, E)[q] \in {Nothing, PixelCell(n, q)}
  BY <1>1
<1>3. CASE \E e \in E : PixelOf(id, e) = q
  <2> DEFINE f == CHOOSE e \in E : PixelOf(id, e) = q
  <2>1. f \in E /\ PixelOf(id, f) = q
    BY <1>3
  <2>2. Drawn(im, id, E)[q] = ElementCell(n, s, id, f)
    BY <1>3 DEF Drawn
  <2> HIDE DEF f
  <2>3. ElementCell(n, s, id, f) = PixelCell(n, q)
    BY <2>1, PixelOfElement
  <2> QED BY <2>2, <2>3
<1>4. CASE ~ \E e \in E : PixelOf(id, e) = q
  <2>1. Drawn(im, id, E)[q] = im[q]
    BY <1>4 DEF Drawn
  <2> QED BY <2>1
<1> QED BY <1>3, <1>4

-------------------------------------------------------------------------------
\* f takes at least one step for a chunk.
LEMMA StepsOfType ==
    ASSUME Exported, NEW id \in Ids
    PROVE  StepsOf(id) \in 1..(n.t + 3)
<1> DEFINE z == chunk_size(n, s, id)
           b == chunk_limits(n, s, id)
<1>1. n \in Sizes /\ s \in Sizes /\ id \in ChunkIds(n, s)
  BY SizesOfShape DEF Exported, Ids
<1>2. b.low.t \in 0..(n.t - 1) /\ b.high.t \in b.low.t..(n.t - 1) /\ n.t \in Nat
  BY <1>1, ChunkLimits, Radices
<1>3. z.t = b.high.t - b.low.t + 1
  BY DEF chunk_size, SizeOf
<1>4. StepsOf(id) \in {1, 3, z.t}
  <2>1. CASE format = "netcdf"
    BY <2>1 DEF StepsOf
  <2>2. CASE format = "gdal"
    BY <2>2 DEF StepsOf
  <2>3. CASE format # "netcdf" /\ format # "gdal"
    BY <2>3 DEF StepsOf
  <2> QED BY <2>1, <2>2, <2>3
<1> HIDE DEF z, b
<1> QED BY <1>2, <1>3, <1>4

\* What the dataset of a chunk holds are rows of the image, with every pixel right.
HandleRight(id) ==
    /\ DOMAIN handle[id] \subseteq Pixels(n)
    /\ \A q \in DOMAIN handle[id] : handle[id][q] \in {Nothing, PixelCell(n, q)}

\* The inductive invariant: RightPlace alone is not inductive, closing a dataset copies
\* what it holds to the image.
IInv ==
    /\ Exported
    /\ DOMAIN pos = Ids /\ \A id \in Ids : pos[id] \in 0..StepsOf(id)
    /\ skipped \subseteq Ids \X (0..(n.t + 3))
    /\ DOMAIN image = Pixels(n) /\ RightPlace
    /\ DOMAIN handle = Ids /\ \A id \in Ids : HandleRight(id)

\* What no step changes.
Fixed == UNCHANGED <<shape, format, nthreads>>

LEMMA FixedKeeps ==
    ASSUME Fixed
    PROVE  /\ n' = n /\ s' = s /\ Ids' = Ids /\ Exported' = Exported
           /\ Pixels(n)' = Pixels(n) /\ \A id : StepsOf(id)' = StepsOf(id)
           /\ \A q : PixelCell(n, q)' = PixelCell(n, q)
<1>1. n' = n /\ s' = s /\ format' = format
  BY DEF Fixed, n, s
<1>2. Ids' = Ids /\ Pixels(n)' = Pixels(n)
  BY <1>1 DEF Ids
<1>3. Exported' = Exported
  BY <1>1 DEF Exported, Fixed
<1>4. \A id : StepsOf(id)' = StepsOf(id)
  BY <1>1, Zenon DEF StepsOf
<1>5. \A q : PixelCell(n, q)' = PixelCell(n, q)
  BY <1>1
<1> QED BY <1>1, <1>2, <1>3, <1>4, <1>5

LEMMA InitInvariant == Init => IInv
<1>1. SUFFICES ASSUME Init PROVE IInv
  OBVIOUS
<1>2. Exported
  BY <1>1 DEF Init, Exported, n, s
<1>3. /\ Ids = ChunkIds(shape.n, shape.s) /\ n = shape.n
  BY DEF Ids, n, s
<1>4. DOMAIN pos = Ids /\ \A id \in Ids : pos[id] \in 0..StepsOf(id)
  <2>1. \A id \in Ids : StepsOf(id) \in 1..(n.t + 3)
    BY <1>2, StepsOfType
  <2>2. \A id \in Ids : pos[id] = 0
    BY <1>1, <1>3 DEF Init
  <2>3. n.t \in Nat
    BY <1>2, SizesOfShape, Radices DEF Exported
  <2> QED BY <1>1, <1>3, <2>1, <2>2, <2>3 DEF Init
<1>5. DOMAIN image = Pixels(n) /\ RightPlace
  BY <1>1, <1>3 DEF Init, RightPlace
<1>6. DOMAIN handle = Ids /\ \A id \in Ids : HandleRight(id)
  BY <1>1, <1>3 DEF Init, HandleRight
<1>7. skipped \subseteq Ids \X (0..(n.t + 3))
  BY <1>1 DEF Init
<1> QED BY <1>2, <1>4, <1>5, <1>6, <1>7 DEF IInv

\* One step further with one chunk.
LEMMA StepKeepsPos ==
    ASSUME IInv, Fixed, NEW id \in Ids, pos[id] # StepsOf(id), Step(id)
    PROVE  (DOMAIN pos = Ids /\ \A c \in Ids : pos[c] \in 0..StepsOf(c))'
<1>1. /\ Ids' = Ids /\ \A c : StepsOf(c)' = StepsOf(c)
  BY FixedKeeps
<1>2. DOMAIN pos = Ids /\ \A c \in Ids : pos[c] \in 0..StepsOf(c)
  BY DEF IInv
<1>3. \A c \in Ids : StepsOf(c) \in Nat
  BY StepsOfType, SizesOfShape, Radices DEF IInv, Exported
<1>4. pos' = [pos EXCEPT ![id] = @ + 1]
  BY DEF Step
<1>5. DOMAIN pos' = Ids
  BY <1>2, <1>4
<1>6. \A c \in Ids : pos'[c] \in 0..StepsOf(c)
  <2>1. SUFFICES ASSUME NEW c \in Ids PROVE pos'[c] \in 0..StepsOf(c)
    OBVIOUS
  <2>2. CASE c = id
    BY <1>2, <1>3, <1>4, <2>2
  <2>3. CASE c # id
    BY <1>2, <1>4, <2>3
  <2> QED BY <2>2, <2>3
<1>7. \A c \in Ids : StepsOf(c)' = StepsOf(c)
  BY <1>1
<1> QED BY <1>1, <1>5, <1>6, <1>7

\* What is written to the image by one chunk keeps it right.
LEMMA DrawKeepsImage ==
    ASSUME IInv, Fixed, NEW id \in Ids, NEW E \in SUBSET Elements(n, s, id),
           image' = Drawn(image, id, E)
    PROVE  (DOMAIN image = Pixels(n) /\ RightPlace)'
<1>1. n' = n /\ Pixels(n)' = Pixels(n) /\ \A q : PixelCell(n, q)' = PixelCell(n, q)
  BY FixedKeeps
<1>2. Exported /\ DOMAIN image = Pixels(n) /\ \A q \in Pixels(n) : image[q] \in {Nothing, PixelCell(n, q)}
  BY DEF IInv, RightPlace
<1>3. /\ DOMAIN Drawn(image, id, E) = DOMAIN image
      /\ \A q \in DOMAIN image : Drawn(image, id, E)[q] \in {Nothing, PixelCell(n, q)}
  BY <1>2, DrawnRight
<1>4. DOMAIN image' = Pixels(n) /\ \A q \in Pixels(n) : image'[q] \in {Nothing, PixelCell(n, q)}
  BY <1>2, <1>3
<1> QED BY <1>1, <1>4 DEF RightPlace

\* The parts of the invariant a step may leave alone.
LEMMA ImageKept ==
    ASSUME IInv, Fixed, image' = image
    PROVE  (DOMAIN image = Pixels(n) /\ RightPlace)'
BY FixedKeeps DEF IInv, RightPlace

LEMMA HandleKept ==
    ASSUME IInv, Fixed, handle' = handle
    PROVE  (DOMAIN handle = Ids /\ \A c \in Ids : HandleRight(c))'
BY FixedKeeps DEF IInv, HandleRight

LEMMA SkippedKept ==
    ASSUME IInv, Fixed, skipped' = skipped
    PROVE  (skipped \subseteq Ids \X (0..(n.t + 3)))'
BY FixedKeeps DEF IInv

\* The dataset of one chunk changes to something right.
LEMMA HandleChanges ==
    ASSUME IInv, Fixed, NEW id \in Ids, NEW h, handle' = [handle EXCEPT ![id] = h],
           DOMAIN h \subseteq Pixels(n), \A q \in DOMAIN h : h[q] \in {Nothing, PixelCell(n, q)}
    PROVE  (DOMAIN handle = Ids /\ \A c \in Ids : HandleRight(c))'
<1>1. /\ Ids' = Ids /\ Pixels(n)' = Pixels(n) /\ n' = n
      /\ \A q : PixelCell(n, q)' = PixelCell(n, q)
  BY FixedKeeps
<1>2. DOMAIN handle = Ids /\ \A c \in Ids : HandleRight(c)
  BY DEF IInv
<1>3. DOMAIN handle' = Ids
  BY <1>2
<1>4. \A c \in Ids : HandleRight(c)'
  <2>1. SUFFICES ASSUME NEW c \in Ids PROVE HandleRight(c)'
    OBVIOUS
  <2>2. CASE c = id
    <3>1. handle'[c] = h
      BY <1>2, <2>2
    <3> QED BY <1>1, <3>1 DEF HandleRight
  <2>3. CASE c # id
    <3>1. handle'[c] = handle[c]
      BY <1>2, <2>3
    <3> QED BY <1>1, <1>2, <3>1 DEF HandleRight
  <2> QED BY <2>2, <2>3
<1> QED BY <1>1, <1>3, <1>4

LEMMA NextInvariant == IInv /\ [Next]_vars => IInv'
<1>1. SUFFICES ASSUME IInv, [Next]_vars PROVE IInv'
  OBVIOUS
<1>2. ASSUME NEW id \in Ids, Skip(id) PROVE IInv'
  <2>1. Fixed /\ image' = image /\ handle' = handle /\ Exported
    BY <1>1, <1>2 DEF Skip, Fixed, IInv
  <2>2. StepsOf(id) \in 1..(n.t + 3) /\ n.t \in Nat
    BY <2>1, StepsOfType, SizesOfShape, Radices DEF Exported
  <2>3. (DOMAIN pos = Ids /\ \A c \in Ids : pos[c] \in 0..StepsOf(c))'
    <3>1. Ids' = Ids /\ \A c : StepsOf(c)' = StepsOf(c)
      BY <2>1, FixedKeeps
    <3>2. DOMAIN pos = Ids /\ \A c \in Ids : pos[c] \in 0..StepsOf(c)
      BY <1>1 DEF IInv
    <3>3. pos' = [pos EXCEPT ![id] = StepsOf(id)]
      BY <1>2 DEF Skip
    <3>4. DOMAIN pos' = Ids /\ \A c \in Ids : pos'[c] \in 0..StepsOf(c)
      BY <2>2, <3>2, <3>3
    <3>5. \A c \in Ids : StepsOf(c)' = StepsOf(c)
      BY <3>1
    <3> QED BY <3>1, <3>4, <3>5
  <2>4. (skipped \subseteq Ids \X (0..(n.t + 3)))'
    <3>1. Ids' = Ids /\ n' = n
      BY <2>1, FixedKeeps
    <3>2. skipped' = skipped \cup ({id} \X (0..(StepsOf(id) - 1)))
      BY <1>2 DEF Skip
    <3>3. 0..(StepsOf(id) - 1) \subseteq 0..(n.t + 3)
      BY <2>2
    <3>4. skipped \subseteq Ids \X (0..(n.t + 3))
      BY <1>1 DEF IInv
    <3> QED BY <3>1, <3>2, <3>3, <3>4
  <2>5. Exported'
    BY <2>1, FixedKeeps
  <2> QED BY <1>1, <2>1, <2>3, <2>4, <2>5, ImageKept, HandleKept DEF IInv
<1>3. ASSUME NEW id \in Ids, PutVara(id) PROVE IInv'
  <2>1. Fixed /\ handle' = handle /\ skipped' = skipped /\ Step(id) /\ pos[id] # StepsOf(id)
    BY <1>3 DEF PutVara, Fixed, Running, Ended
  <2>2. image' = Drawn(image, id, Elements(n, s, id))
    BY <1>3 DEF PutVara
  <2>3. (DOMAIN image = Pixels(n) /\ RightPlace)'
    BY <1>1, <2>1, <2>2, DrawKeepsImage
  <2>4. Exported'
    BY <1>1, <2>1, FixedKeeps DEF IInv
  <2> QED BY <1>1, <2>1, <2>3, <2>4, StepKeepsPos, SkippedKept, HandleKept DEF IInv
<1>4. ASSUME NEW id \in Ids, WriteSlice(id) PROVE IInv'
  <2>1. Fixed /\ handle' = handle /\ skipped' = skipped /\ Step(id) /\ pos[id] # StepsOf(id)
    BY <1>4 DEF WriteSlice, Fixed, Running, Ended
  <2>2. image' = Drawn(image, id, Slice(id, pos[id]))
    BY <1>4 DEF WriteSlice
  <2>3. Slice(id, pos[id]) \in SUBSET Elements(n, s, id)
    BY DEF Slice
  <2>4. (DOMAIN image = Pixels(n) /\ RightPlace)'
    BY <1>1, <2>1, <2>2, <2>3, DrawKeepsImage
  <2>5. Exported'
    BY <1>1, <2>1, FixedKeeps DEF IInv
  <2> QED BY <1>1, <2>1, <2>4, <2>5, StepKeepsPos, SkippedKept, HandleKept DEF IInv
<1>5. ASSUME NEW id \in Ids, WriteFails(id) PROVE IInv'
  <2>1. /\ Fixed /\ handle' = handle /\ image' = image /\ Step(id) /\ pos[id] # StepsOf(id)
        /\ skipped' = skipped \cup {<<id, pos[id]>>}
    BY <1>5 DEF WriteFails, Fixed, Running, Ended
  <2>2. Exported /\ pos[id] \in 0..StepsOf(id) /\ skipped \subseteq Ids \X (0..(n.t + 3))
    BY <1>1 DEF IInv
  <2>3. StepsOf(id) \in 1..(n.t + 3) /\ n.t \in Nat
    BY <2>2, StepsOfType, SizesOfShape, Radices DEF Exported
  <2>4. <<id, pos[id]>> \in Ids \X (0..(n.t + 3))
    BY <2>2, <2>3
  <2>5. (skipped \subseteq Ids \X (0..(n.t + 3)))'
    BY <2>1, <2>2, <2>4, FixedKeeps
  <2>6. Exported'
    BY <2>1, <2>2, FixedKeeps
  <2> QED BY <1>1, <2>1, <2>5, <2>6, StepKeepsPos, ImageKept, HandleKept DEF IInv
<1>6. ASSUME NEW id \in Ids, GdalOpen(id) PROVE IInv'
  <2>1. /\ Fixed /\ handle' = handle /\ image' = image /\ skipped' = skipped
        /\ Step(id) /\ pos[id] # StepsOf(id)
    BY <1>6 DEF GdalOpen, Fixed, Running, Ended
  <2>2. Exported'
    BY <1>1, <2>1, FixedKeeps DEF IInv
  <2> QED BY <1>1, <2>1, <2>2, StepKeepsPos, SkippedKept, ImageKept, HandleKept DEF IInv
<1>7. ASSUME NEW id \in Ids, GdalWrite(id) PROVE IInv'
  <2> DEFINE rows == {PixelOf(id, e)[2] : e \in Elements(n, s, id)}
             loaded == [q \in {p \in Pixels(n) : p[2] \in rows} |-> image[q]]
             h == Drawn(loaded, id, Elements(n, s, id))
  <2>1. Fixed /\ image' = image /\ skipped' = skipped /\ Step(id)
    BY <1>7 DEF GdalWrite, Fixed
  <2>2. pos[id] # StepsOf(id)
    BY <1>7 DEF GdalWrite, StepsOf
  <2>3. handle' = [handle EXCEPT ![id] = h]
    BY <1>7 DEF GdalWrite
  <2>4. Exported /\ \A q \in Pixels(n) : image[q] \in {Nothing, PixelCell(n, q)}
    BY <1>1 DEF IInv, RightPlace
  <2>5. /\ DOMAIN loaded \subseteq Pixels(n)
        /\ \A q \in DOMAIN loaded : loaded[q] \in {Nothing, PixelCell(n, q)}
    BY <2>4
  <2> HIDE DEF rows, loaded
  <2>6. DOMAIN h = DOMAIN loaded /\ \A q \in DOMAIN loaded : h[q] \in {Nothing, PixelCell(n, q)}
    BY <2>4, <2>5, DrawnRight
  <2> HIDE DEF h
  <2>7. (DOMAIN handle = Ids /\ \A c \in Ids : HandleRight(c))'
    BY <1>1, <2>1, <2>3, <2>5, <2>6, HandleChanges
  <2>8. Exported'
    BY <2>1, <2>4, FixedKeeps
  <2> QED BY <1>1, <2>1, <2>2, <2>7, <2>8, StepKeepsPos, SkippedKept, ImageKept DEF IInv
<1>8. ASSUME NEW id \in Ids, GdalClose(id) PROVE IInv'
  <2>1. Fixed /\ skipped' = skipped /\ Step(id) /\ handle' = [handle EXCEPT ![id] = <<>>]
    BY <1>8 DEF GdalClose, Fixed
  <2>2. pos[id] # StepsOf(id)
    BY <1>8 DEF GdalClose, StepsOf
  <2>3. image' = [q \in DOMAIN image |->
                    IF q \in DOMAIN handle[id] THEN handle[id][q] ELSE image[q]]
    BY <1>8 DEF GdalClose
  <2>4. /\ Exported /\ HandleRight(id) /\ DOMAIN image = Pixels(n)
        /\ \A q \in Pixels(n) : image[q] \in {Nothing, PixelCell(n, q)}
    BY <1>1 DEF IInv, RightPlace
  <2>5. DOMAIN image' = Pixels(n) /\ \A q \in Pixels(n) : image'[q] \in {Nothing, PixelCell(n, q)}
    BY <2>3, <2>4 DEF HandleRight
  <2>6. (DOMAIN image = Pixels(n) /\ RightPlace)'
    BY <2>1, <2>5, FixedKeeps DEF RightPlace
  <2>7. (DOMAIN handle = Ids /\ \A c \in Ids : HandleRight(c))'
    <3>1. DOMAIN <<>> = {}
      OBVIOUS
    <3> QED BY <1>1, <2>1, <3>1, HandleChanges
  <2>8. Exported'
    BY <2>1, <2>4, FixedKeeps
  <2> QED BY <1>1, <2>1, <2>2, <2>6, <2>7, <2>8, StepKeepsPos, SkippedKept DEF IInv
<1>9. CASE UNCHANGED vars
  <2>1. Fixed /\ skipped' = skipped /\ image' = image /\ handle' = handle /\ pos' = pos
    BY <1>9 DEF vars, Fixed
  <2>2. (DOMAIN pos = Ids /\ \A c \in Ids : pos[c] \in 0..StepsOf(c))'
    <3>1. Ids' = Ids /\ \A c : StepsOf(c)' = StepsOf(c)
      BY <2>1, FixedKeeps
    <3>2. DOMAIN pos' = Ids /\ \A c \in Ids : pos'[c] \in 0..StepsOf(c)
      BY <1>1, <2>1 DEF IInv
    <3>3. \A c \in Ids : StepsOf(c)' = StepsOf(c)
      BY <3>1
    <3> QED BY <3>1, <3>2, <3>3
  <2>3. Exported'
    BY <1>1, <2>1, FixedKeeps DEF IInv
  <2> QED BY <1>1, <2>1, <2>2, <2>3, SkippedKept, ImageKept, HandleKept DEF IInv
<1> QED BY <1>1, <1>2, <1>3, <1>4, <1>5, <1>6, <1>7, <1>8, <1>9 DEF Next

THEOREM Invariance == Spec => []IInv
BY InitInvariant, NextInvariant, PTL DEF Spec

-------------------------------------------------------------------------------
\* Type correctness, for all cubes and any number of threads.
THEOREM TypeCorrect == Spec => []TypeOK
<1>1. IInv => TypeOK
  <2>1. SUFFICES ASSUME IInv PROVE TypeOK
    OBVIOUS
  <2>2. Exported /\ n \in Sizes
    BY <2>1, SizesOfShape DEF IInv, Exported
  <2>3. \A q \in Pixels(n) : PixelCell(n, q) \in Cells(n)
    <3>1. n.t \in Nat /\ n.y \in Nat /\ n.x \in Nat
      BY <2>2, Radices
    <3> QED BY <3>1 DEF Pixels, PixelCell, Cells
  <2>4. \A q \in Pixels(n) : image[q] \in Maybe(Cells(n))
    BY <2>1, <2>3 DEF IInv, RightPlace, Maybe
  <2> QED BY <2>1, <2>4 DEF IInv, TypeOK, Exported, HandleRight
<1> QED BY <1>1, Invariance, PTL

\* No export ever puts a cell in the wrong place: flipped rows, smaller chunks at the
\* boundary, several threads and failing writes included.
THEOREM EverythingInPlace == Spec => []RightPlace
<1>1. IInv => RightPlace
  BY DEF IInv
<1> QED BY <1>1, Invariance, PTL

\* A cube of any size is divided among its chunks, and ids and coordinates agree.
THEOREM Partition == Spec => []ChunksPartition
<1>1. IInv => ChunksPartition
  <2>1. SUFFICES ASSUME IInv PROVE ChunksPartition
    OBVIOUS
  <2>2. n \in Sizes /\ s \in Sizes /\ Ids = ChunkIds(n, s)
    BY <2>1, SizesOfShape DEF IInv, Exported, Ids
  <2>3. \A id \in Ids : chunk_id_from_coords(n, s, chunk_coords_from_id(n, s, id)) = id
    BY <2>2, IdOfCoordsOfId
  <2>4. ASSUME NEW p \in Cells(n)
        PROVE  {id \in Ids : \E e \in Elements(n, s, id) : ElementCell(n, s, id, e) = p}
                  = {find_chunk_that_contains(n, s, p)}
    <3> DEFINE f == find_chunk_that_contains(n, s, p)
    <3>1. f \in Ids
      BY <2>2, FoundCoords
    <3>2. \E e \in Elements(n, s, f) : ElementCell(n, s, f, e) = p
      BY <2>2, QueriedCell
    <3>3. \A id \in Ids : \A e \in Elements(n, s, id) : ElementCell(n, s, id, e) = p => f = id
      BY <2>2, OnlyChunk
    <3> HIDE DEF f
    <3>4. {id \in Ids : \E e \in Elements(n, s, id) : ElementCell(n, s, id, e) = p} = {f}
      BY <3>1, <3>2, <3>3
    <3> QED BY <3>4 DEF f
  <2> QED BY <2>3, <2>4 DEF ChunksPartition
<1> QED BY <1>1, Invariance, PTL

\* A point query finds the element of its cell.
THEOREM PointsAreFound == Spec => []PointsFound
<1>1. IInv => PointsFound
  <2>1. SUFFICES ASSUME IInv PROVE PointsFound
    OBVIOUS
  <2>2. n \in Sizes /\ s \in Sizes
    BY <2>1, SizesOfShape DEF IInv, Exported
  <2> QED BY <2>2, QueriedCell DEF PointsFound
<1> QED BY <1>1, Invariance, PTL

\* Expressions over pixels see the position at which their result is exported.
THEOREM VariablesAreRight == Spec => []VariablesAgree
<1>1. IInv => VariablesAgree
  BY PixelOfElement DEF IInv, VariablesAgree
<1> QED BY <1>1, Invariance, PTL

-------------------------------------------------------------------------------
(***************************************************************************)
(* Exports are complete: the pixels that hold a value are those of the      *)
(* elements that were written, whatever chunks are skipped, whatever writes *)
(* fail and in whatever order the threads go on.  For netCDF and GeoTIFF    *)
(* files a write is one step; a GDAL image is complete with one thread,     *)
(* since then the dataset of a chunk closes before the next opens.          *)
(***************************************************************************)

-------------------------------------------------------------------------------
\* The invariant.

\* Only steps that are done are skipped; a GDAL image has only whole chunks skipped.
SkippedDone ==
    \A id \in Ids : \A k \in Nat :
        <<id, k>> \in skipped => k < pos[id] /\ (format = "gdal" => pos[id] = 3)

\* A thread is between opening and closing a GDAL image.
Open(id) == pos[id] \in {1, 2}

\* One thread has one dataset open; what was written to it is what closing it will
\* add to the image, the other pixels in it are those of the image.
DatasetCurrent ==
    format = "gdal" /\ nthreads = 1 =>
        /\ \A c, d \in Ids : Open(c) /\ Open(d) => c = d
        /\ \A id \in Ids : pos[id] = 2 =>
              /\ \A e \in Elements(n, s, id) : PixelOf(id, e) \in DOMAIN handle[id]
              /\ \A q \in DOMAIN handle[id] :
                    handle[id][q] = Nothing
                        <=> /\ image[q] = Nothing
                            /\ \A e \in Elements(n, s, id) : PixelOf(id, e) # q

\* The pixels that hold a value are those of written elements.
Complete ==
    Lossless => \A q \in Pixels(n) :
        image[q] # Nothing <=>
            \E id \in Ids : \E e \in WrittenElements(id) : PixelOf(id, e) = q

KInv == SkippedDone /\ DatasetCurrent /\ Complete

-------------------------------------------------------------------------------
\* Pixels and cells correspond, and no cell is the fill value.
LEMMA PixelsAndCells ==
    ASSUME Exported, NEW q \in Pixels(n)
    PROVE  /\ PixelCell(n, q) # Nothing
           /\ \A r \in Pixels(n) : PixelCell(n, r) = PixelCell(n, q) => r = q
<1>1. n.t \in Nat /\ n.y \in Nat /\ n.x \in Nat
  BY SizesOfShape, Radices DEF Exported
<1>2. q[1] \in 0..(n.t - 1) /\ q[2] \in 0..(n.y - 1) /\ q = <<q[1], q[2], q[3]>>
  BY DEF Pixels
<1>3. PixelCell(n, q) # Nothing
  <2>1. PixelCell(n, q).t = q[1] /\ Nothing.t = -1
    BY DEF PixelCell, Nothing
  <2> QED BY <1>1, <1>2, <2>1
<1>4. ASSUME NEW r \in Pixels(n), PixelCell(n, r) = PixelCell(n, q) PROVE r = q
  <2>1. r[2] \in 0..(n.y - 1) /\ r = <<r[1], r[2], r[3]>>
    BY DEF Pixels
  <2>2. r[1] = q[1] /\ n.y - 1 - r[2] = n.y - 1 - q[2] /\ r[3] = q[3]
    BY <1>4 DEF PixelCell
  <2>3. r[2] = q[2]
    BY <1>1, <1>2, <2>1, <2>2
  <2> QED BY <1>2, <2>1, <2>2, <2>3
<1> QED BY <1>3, <1>4

\* After elements were drawn, their pixels hold a value, and no others are new.
LEMMA DrawnSet ==
    ASSUME Exported, NEW id \in Ids, NEW E \in SUBSET Elements(n, s, id), NEW im,
           NEW q \in DOMAIN im
    PROVE  Drawn(im, id, E)[q] = Nothing
              <=> im[q] = Nothing /\ \A e \in E : PixelOf(id, e) # q
<1>1. CASE \E e \in E : PixelOf(id, e) = q
  <2> DEFINE f == CHOOSE e \in E : PixelOf(id, e) = q
  <2>1. f \in E /\ PixelOf(id, f) = q
    BY <1>1
  <2>2. Drawn(im, id, E)[q] = ElementCell(n, s, id, f)
    BY <1>1 DEF Drawn
  <2> HIDE DEF f
  <2>3. q \in Pixels(n) /\ ElementCell(n, s, id, f) = PixelCell(n, q)
    BY <2>1, PixelOfElement
  <2>4. PixelCell(n, q) # Nothing
    BY <2>3, PixelsAndCells
  <2> QED BY <1>1, <2>2, <2>3, <2>4
<1>2. CASE ~ \E e \in E : PixelOf(id, e) = q
  <2>1. Drawn(im, id, E)[q] = im[q]
    BY <1>2 DEF Drawn
  <2> QED BY <1>2, <2>1
<1> QED BY <1>1, <1>2

LEMMA DrawnImage ==
    ASSUME IInv, NEW id \in Ids, NEW E \in SUBSET Elements(n, s, id), image' = Drawn(image, id, E)
    PROVE  \A q \in Pixels(n) :
               image'[q] # Nothing <=> image[q] # Nothing \/ \E e \in E : PixelOf(id, e) = q
<1>1. Exported /\ DOMAIN image = Pixels(n)
  BY DEF IInv
<1>2. SUFFICES ASSUME NEW q \in Pixels(n)
              PROVE  image'[q] # Nothing <=> image[q] # Nothing \/ \E e \in E : PixelOf(id, e) = q
  OBVIOUS
<1>3. Drawn(image, id, E)[q] = Nothing <=> image[q] = Nothing /\ \A e \in E : PixelOf(id, e) # q
  BY <1>1, DrawnSet
<1>4. image'[q] = Drawn(image, id, E)[q]
  OBVIOUS
<1> QED BY <1>3, <1>4

LEMMA PixelsFixed ==
    ASSUME Fixed
    PROVE  /\ \A id, e : PixelOf(id, e)' = PixelOf(id, e)
           /\ \A id : Elements(n, s, id)' = Elements(n, s, id)
           /\ Lossless' = Lossless
<1>1. n' = n /\ s' = s /\ format' = format /\ nthreads' = nthreads
  BY FixedKeeps DEF Fixed
<1>2. \A id : StartOf(id)' = StartOf(id)
  BY <1>1, Zenon DEF StartOf, NetcdfStart, TifStart, ChunksStart, GdalStart
<1>3. \A id, e : PixelOf(id, e)' = PixelOf(id, e)
  BY <1>2, Zenon DEF PixelOf
<1>4. \A id : Elements(n, s, id)' = Elements(n, s, id)
  BY <1>1
<1>5. Lossless' = Lossless
  BY <1>1 DEF Lossless
<1> QED BY <1>3, <1>4, <1>5

\* Which elements are written depends on the steps of their own chunk only.
LEMMA OthersWritten ==
    ASSUME Fixed, NEW id \in Ids, NEW c \in Ids, c # id,
           \E k : pos' = [pos EXCEPT ![id] = k],
           \E K : skipped' = skipped \cup ({id} \X K)
    PROVE  WrittenElements(c)' = WrittenElements(c)
<1>1. pos'[c] = pos[c]
  OBVIOUS
<1>2. \A k : <<c, k>> \in skipped' <=> <<c, k>> \in skipped
  OBVIOUS
<1>3. n' = n /\ s' = s /\ format' = format
  BY FixedKeeps DEF Fixed
<1>4. Elements(n, s, c)' = Elements(n, s, c)
  BY <1>3
<1>5. CASE format = "netcdf"
  BY <1>1, <1>2, <1>3, <1>4, <1>5 DEF WrittenElements
<1>6. CASE format = "gdal"
  BY <1>1, <1>2, <1>3, <1>4, <1>6 DEF WrittenElements
<1>7. CASE format # "netcdf" /\ format # "gdal"
  BY <1>1, <1>2, <1>3, <1>4, <1>7 DEF WrittenElements
<1> QED BY <1>5, <1>6, <1>7

\* The elements written and the pixels that hold a value grow together.
LEMMA GrowTogether ==
    ASSUME Fixed, Complete, NEW id \in Ids, NEW E,
           Lossless => \A q \in Pixels(n) :
               image'[q] # Nothing <=> image[q] # Nothing \/ \E e \in E : PixelOf(id, e) = q,
           \A c \in Ids : c # id => WrittenElements(c)' = WrittenElements(c),
           WrittenElements(id)' = WrittenElements(id) \cup E
    PROVE  Complete'
<1>1. /\ \A c, e : PixelOf(c, e)' = PixelOf(c, e)
      /\ Lossless' = Lossless /\ Ids' = Ids /\ Pixels(n)' = Pixels(n)
  BY FixedKeeps, PixelsFixed
<1>2. SUFFICES ASSUME Lossless, NEW q \in Pixels(n)
              PROVE  image'[q] # Nothing <=>
                        \E c \in Ids : \E e \in WrittenElements(c)' : PixelOf(c, e) = q
  BY <1>1, Zenon DEF Complete
<1>3. image[q] # Nothing <=> \E c \in Ids : \E e \in WrittenElements(c) : PixelOf(c, e) = q
  BY <1>2 DEF Complete
<1>4. (\E c \in Ids : \E e \in WrittenElements(c)' : PixelOf(c, e) = q)
        <=> \/ \E c \in Ids : \E e \in WrittenElements(c) : PixelOf(c, e) = q
            \/ \E e \in E : PixelOf(id, e) = q
  <2>1. ASSUME NEW c \in Ids, NEW e \in WrittenElements(c)', PixelOf(c, e) = q
        PROVE  \/ \E d \in Ids : \E f \in WrittenElements(d) : PixelOf(d, f) = q
               \/ \E f \in E : PixelOf(id, f) = q
    BY <2>1
  <2>2. ASSUME NEW c \in Ids, NEW e \in WrittenElements(c), PixelOf(c, e) = q
        PROVE  \E d \in Ids : \E f \in WrittenElements(d)' : PixelOf(d, f) = q
    BY <2>2
  <2>3. ASSUME NEW e \in E, PixelOf(id, e) = q
        PROVE  \E d \in Ids : \E f \in WrittenElements(d)' : PixelOf(d, f) = q
    BY <2>3
  <2> QED BY <2>1, <2>2, <2>3
<1> QED BY <1>2, <1>3, <1>4

-------------------------------------------------------------------------------
\* The part about skipped steps, for a step with the chunk id.
LEMMA StaysDone ==
    ASSUME IInv, SkippedDone, Fixed, NEW id \in Ids, NEW m \in Nat, pos[id] < m,
           pos' = [pos EXCEPT ![id] = m], format = "gdal" => pos[id] # 3,
           NEW K, skipped' = skipped \cup ({id} \X K),
           \A k \in K : k < m /\ (format = "gdal" => m = 3)
    PROVE  SkippedDone'
<1>1. Ids' = Ids /\ format' = format /\ DOMAIN pos = Ids
  BY FixedKeeps DEF Fixed, IInv
<1>2. SUFFICES ASSUME NEW c \in Ids, NEW k \in Nat, <<c, k>> \in skipped'
              PROVE  k < pos'[c] /\ (format = "gdal" => pos'[c] = 3)
  BY <1>1, Zenon DEF SkippedDone
<1>3. CASE <<c, k>> \in skipped
  <2>1. k < pos[c] /\ (format = "gdal" => pos[c] = 3)
    BY <1>3 DEF SkippedDone
  <2>2. pos[c] \in Nat
    BY SizesOfShape, Radices, StepsOfType DEF IInv, Exported
  <2> QED BY <1>1, <2>1, <2>2
<1>4. CASE c = id /\ k \in K
  BY <1>1, <1>4
<1> QED BY <1>2, <1>3, <1>4

\* A chunk that is begun by the only thread finds no other dataset open.
LEMMA OpensAlone ==
    ASSUME IInv, format = "gdal", nthreads = 1, NEW id \in Ids, Running(id), pos[id] = 0
    PROVE  \A c \in Ids : ~Open(c)
<1> DEFINE S == {c \in Ids : pos[c] > 0 /\ ~Ended(c)}
<1>1. Cardinality(S) < 1
  BY DEF Running
<1>2. IsFiniteSet(Ids)
  <2>1. n \in Sizes /\ s \in Sizes
    BY SizesOfShape DEF IInv, Exported
  <2>2. count_chunks(n, s) \in Int
    BY <2>1, Radices, SMT DEF count_chunks
  <2> QED BY <2>2, FS_Interval DEF Ids, ChunkIds
<1>3. IsFiniteSet(S) /\ Cardinality(S) \in Nat
  <2>1. S \in SUBSET Ids
    OBVIOUS
  <2> QED BY <1>2, <2>1, FS_Subset, FS_CardinalityType
<1>4. S = {}
  <2>1. Cardinality(S) = 0
    BY <1>1, <1>3
  <2> QED BY <1>3, <2>1, FS_EmptySet
<1>5. ASSUME NEW c \in Ids, Open(c) PROVE FALSE
  <2>1. pos[c] > 0 /\ pos[c] # 3
    BY <1>5 DEF Open
  <2>2. StepsOf(c) = 3
    BY DEF StepsOf
  <2> QED BY <1>4, <2>1, <2>2 DEF Ended
<1> QED BY <1>5

LEMMA InitKInv == Init => KInv
<1>1. SUFFICES ASSUME Init PROVE KInv
  OBVIOUS
<1>2. Ids = ChunkIds(shape.n, shape.s) /\ n = shape.n /\ Exported
  <2>1. Exported
    BY <1>1, InitInvariant DEF IInv
  <2> QED BY <2>1 DEF Ids, n, s
<1>3. \A id \in Ids : pos[id] = 0
  BY <1>1, <1>2 DEF Init
<1>4. SkippedDone
  BY <1>1 DEF Init, SkippedDone
<1>5. DatasetCurrent
  BY <1>3 DEF DatasetCurrent, Open
<1>6. \A id \in Ids : WrittenElements(id) = {}
  <2>1. SUFFICES ASSUME NEW id \in Ids, NEW e \in WrittenElements(id) PROVE FALSE
    OBVIOUS
  <2>2. e \in Elements(n, s, id) /\ pos[id] = 0
    BY <1>3 DEF WrittenElements
  <2>3. e.t \in Nat
    BY <1>2, <2>2, SizesOfShape, ElementLimits DEF Exported, Ids
  <2>4. CASE format = "netcdf"
    BY <2>1, <2>2, <2>4 DEF WrittenElements
  <2>5. CASE format = "gdal"
    BY <2>1, <2>2, <2>5 DEF WrittenElements
  <2>6. CASE format # "netcdf" /\ format # "gdal"
    <3>1. e.t < pos[id]
      BY <2>1, <2>6 DEF WrittenElements
    <3> QED BY <2>2, <2>3, <3>1
  <2> QED BY <2>4, <2>5, <2>6
<1>7. \A q \in Pixels(n) : image[q] = Nothing
  BY <1>1, <1>2 DEF Init
<1>8. Complete
  BY <1>6, <1>7 DEF Complete
<1> QED BY <1>4, <1>5, <1>8 DEF KInv

-------------------------------------------------------------------------------
\* One lemma per action.

LEMMA SkipKeeps ==
    ASSUME IInv, KInv, NEW id \in Ids, Skip(id)
    PROVE  KInv'
<1>1. /\ Fixed /\ image' = image /\ handle' = handle /\ pos[id] = 0 /\ Running(id)
      /\ pos' = [pos EXCEPT ![id] = StepsOf(id)]
      /\ skipped' = skipped \cup ({id} \X (0..(StepsOf(id) - 1)))
  BY DEF Skip, Fixed
<1>2. StepsOf(id) \in Nat /\ StepsOf(id) > 0 /\ Exported
  BY StepsOfType, SizesOfShape, Radices DEF IInv, Exported
<1>3. format = "gdal" => StepsOf(id) = 3
  BY DEF StepsOf
<1>4. SkippedDone'
  <2>1. \A k \in 0..(StepsOf(id) - 1) : k < StepsOf(id) /\ (format = "gdal" => StepsOf(id) = 3)
    BY <1>2, <1>3
  <2>2. pos[id] < StepsOf(id) /\ pos[id] # 3
    BY <1>1, <1>2
  <2> QED BY <1>1, <1>2, <2>1, <2>2, StaysDone DEF KInv
<1>5. Ids' = Ids /\ format' = format /\ nthreads' = nthreads /\ DOMAIN pos = Ids
  BY <1>1, FixedKeeps DEF Fixed, IInv
<1>6. DatasetCurrent'
  <2>1. SUFFICES ASSUME format = "gdal", nthreads = 1
                PROVE  \A c \in Ids : pos'[c] \notin {1, 2}
    BY <1>5 DEF DatasetCurrent, Open
  <2>2. \A c \in Ids : pos[c] \notin {1, 2}
    BY <1>1, <2>1, OpensAlone DEF Open
  <2> QED BY <1>1, <1>3, <1>5, <2>1, <2>2
<1>7. WrittenElements(id) = {} /\ WrittenElements(id)' = {}
  <2>1. \A e \in Elements(n, s, id) : e.t \in Nat
    BY <1>2, SizesOfShape, ElementLimits DEF Exported, Ids
  <2>2. /\ Elements(n, s, id)' = Elements(n, s, id) /\ pos'[id] = StepsOf(id)
        /\ \A k \in 0..(StepsOf(id) - 1) : <<id, k>> \in skipped'
    BY <1>1, <1>5, PixelsFixed
  <2>3. CASE format = "netcdf"
    BY <1>1, <1>2, <1>5, <2>2, <2>3 DEF WrittenElements
  <2>4. CASE format = "gdal"
    BY <1>1, <1>2, <1>5, <2>2, <2>4 DEF WrittenElements
  <2>5. CASE format # "netcdf" /\ format # "gdal"
    <3>1. \A e \in Elements(n, s, id) : ~(e.t < 0) /\ (e.t < StepsOf(id) => <<id, e.t>> \in skipped')
      BY <1>2, <2>1, <2>2
    <3> QED BY <1>1, <1>5, <2>2, <2>5, <3>1 DEF WrittenElements
  <2> QED BY <2>3, <2>4, <2>5
<1>8. \A c \in Ids : c # id => WrittenElements(c)' = WrittenElements(c)
  BY <1>1, OthersWritten
<1>9. Complete'
  <2> DEFINE E == {}
  <2>1. WrittenElements(id)' = WrittenElements(id) \cup E
    BY <1>7
  <2>2. \A q \in Pixels(n) :
           image'[q] # Nothing <=> image[q] # Nothing \/ \E e \in E : PixelOf(id, e) = q
    BY <1>1
  <2>3. Fixed /\ Complete
    BY <1>1 DEF KInv
  <2> HIDE DEF E
  <2> QED BY <1>8, <2>1, <2>2, <2>3, GrowTogether, Zenon
<1> QED BY <1>4, <1>6, <1>9 DEF KInv

\* A step of a file that is written in single steps: E is what it writes.
LEMMA FileStepKeeps ==
    ASSUME IInv, KInv, Fixed, NEW id \in Ids, Running(id), Step(id), format # "gdal",
           NEW K, K \subseteq {pos[id]}, skipped' = skipped \cup ({id} \X K),
           NEW E \in SUBSET Elements(n, s, id),
           \A q \in Pixels(n) :
               image'[q] # Nothing <=> image[q] # Nothing \/ \E e \in E : PixelOf(id, e) = q,
           \A e \in Elements(n, s, id) :
               e \in WrittenElements(id)' <=> e \in WrittenElements(id) \/ e \in E
    PROVE  KInv'
<1>1. Exported /\ DOMAIN pos = Ids /\ pos[id] \in Nat
  BY SizesOfShape, Radices, StepsOfType DEF IInv, Exported
<1>2. pos' = [pos EXCEPT ![id] = pos[id] + 1]
  BY DEF Step
<1>3. SkippedDone'
  <2> DEFINE m == pos[id] + 1
  <2>1. m \in Nat /\ pos[id] < m /\ \A k \in K : k < m /\ (format = "gdal" => m = 3)
    BY <1>1
  <2>2. pos' = [pos EXCEPT ![id] = m] /\ SkippedDone
    BY <1>2 DEF KInv
  <2> HIDE DEF m
  <2> QED BY <2>1, <2>2, StaysDone
<1>4. DatasetCurrent'
  BY DEF Fixed, DatasetCurrent
<1>5. \A c \in Ids : c # id => WrittenElements(c)' = WrittenElements(c)
  BY <1>2, OthersWritten
<1>6. WrittenElements(id)' = WrittenElements(id) \cup E
  <2>1. WrittenElements(id) \subseteq Elements(n, s, id)
    BY DEF WrittenElements
  <2>2. WrittenElements(id)' \subseteq Elements(n, s, id)
    <3>1. WrittenElements(id)' \subseteq Elements(n, s, id)'
      BY DEF WrittenElements
    <3> QED BY <3>1, PixelsFixed
  <2> QED BY <2>1, <2>2
<1>7. Complete'
  <2>1. Complete
    BY DEF KInv
  <2>2. Lossless => \A q \in Pixels(n) :
            image'[q] # Nothing <=> image[q] # Nothing \/ \E e \in E : PixelOf(id, e) = q
    OBVIOUS
  <2> QED BY <1>5, <1>6, <2>1, <2>2, GrowTogether, Zenon
<1> QED BY <1>3, <1>4, <1>7 DEF KInv

LEMMA PutVaraKeeps ==
    ASSUME IInv, KInv, NEW id \in Ids, PutVara(id)
    PROVE  KInv'
<1> DEFINE E == Elements(n, s, id)
<1>1. /\ Fixed /\ skipped' = skipped /\ format = "netcdf" /\ Running(id) /\ Step(id)
      /\ image' = Drawn(image, id, E)
  BY DEF PutVara, Fixed
<1>2. StepsOf(id) = 1 /\ pos[id] \in 0..1 /\ pos[id] # 1 /\ DOMAIN pos = Ids
  BY <1>1 DEF IInv, StepsOf, Running, Ended
<1>3. pos[id] = 0 /\ pos'[id] = 1 /\ <<id, 0>> \notin skipped'
  <2>1. pos[id] = 0
    BY <1>2
  <2>2. <<id, 0>> \notin skipped
    BY <2>1 DEF KInv, SkippedDone
  <2> QED BY <1>1, <1>2, <2>1, <2>2 DEF Step
<1>4. \A e \in E : e \in WrittenElements(id)' <=> e \in WrittenElements(id) \/ e \in E
  <2>1. format' = "netcdf" /\ Elements(n, s, id)' = E
    BY <1>1, PixelsFixed DEF Fixed
  <2> HIDE DEF E
  <2> QED BY <1>3, <2>1 DEF WrittenElements
<1>5. skipped' = skipped \cup ({id} \X {})
  BY <1>1
<1> HIDE DEF E
<1>6. E \in SUBSET Elements(n, s, id)
  BY DEF E
<1>7. \A e \in Elements(n, s, id) : e \in WrittenElements(id)' <=> e \in WrittenElements(id) \/ e \in E
  BY <1>4 DEF E
<1>8. \A q \in Pixels(n) : image'[q] # Nothing <=> image[q] # Nothing \/ \E e \in E : PixelOf(id, e) = q
  BY <1>1, <1>6, DrawnImage
<1> QED
  <2> DEFINE K == {}
  <2>1. K \subseteq {pos[id]} /\ skipped' = skipped \cup ({id} \X K) /\ format # "gdal"
    BY <1>1, <1>5
  <2> HIDE DEF K
  <2> QED BY <1>1, <1>6, <1>7, <1>8, <2>1, FileStepKeeps

LEMMA WriteSliceKeeps ==
    ASSUME IInv, KInv, NEW id \in Ids, WriteSlice(id)
    PROVE  KInv'
<1> DEFINE E == Slice(id, pos[id])
           K == {}
<1>1. /\ Fixed /\ skipped' = skipped /\ format \in {"tif", "chunks"} /\ Running(id) /\ Step(id)
      /\ image' = Drawn(image, id, E)
  BY DEF WriteSlice, Fixed
<1>2. Exported /\ DOMAIN pos = Ids /\ pos[id] \in Nat
  BY SizesOfShape, Radices, StepsOfType DEF IInv, Exported
<1>3. pos'[id] = pos[id] + 1 /\ <<id, pos[id]>> \notin skipped
  BY <1>1, <1>2 DEF Step, KInv, SkippedDone
<1>4. E \in SUBSET Elements(n, s, id) /\ \A e \in Elements(n, s, id) : e \in E <=> e.t = pos[id]
  BY DEF Slice
<1> HIDE DEF E
<1>5. \A e \in Elements(n, s, id) : e \in WrittenElements(id)' <=> e \in WrittenElements(id) \/ e \in E
  <2>1. format' = format /\ Elements(n, s, id)' = Elements(n, s, id)
    BY <1>1, PixelsFixed DEF Fixed
  <2>2. \A e \in Elements(n, s, id) : e.t \in Nat
    BY <1>2, SizesOfShape, ElementLimits DEF Exported, Ids
  <2>3. \A e \in Elements(n, s, id) : e.t < pos[id] + 1 <=> e.t < pos[id] \/ e.t = pos[id]
    BY <1>2, <2>2
  <2> QED BY <1>1, <1>3, <1>4, <2>1, <2>3 DEF WrittenElements
<1>6. K \subseteq {pos[id]} /\ skipped' = skipped \cup ({id} \X K) /\ format # "gdal"
  BY <1>1
<1>7. \A q \in Pixels(n) : image'[q] # Nothing <=> image[q] # Nothing \/ \E e \in E : PixelOf(id, e) = q
  BY <1>1, <1>4, DrawnImage
<1> HIDE DEF K
<1> QED BY <1>1, <1>4, <1>5, <1>6, <1>7, FileStepKeeps

LEMMA WriteFailsKeeps ==
    ASSUME IInv, KInv, NEW id \in Ids, WriteFails(id)
    PROVE  KInv'
<1> DEFINE E == {}
           K == {pos[id]}
<1>1. /\ Fixed /\ skipped' = skipped \cup {<<id, pos[id]>>} /\ image' = image
      /\ format # "gdal" /\ Running(id) /\ Step(id)
  BY DEF WriteFails, Fixed
<1>2. Exported /\ DOMAIN pos = Ids /\ pos[id] \in Nat
  BY SizesOfShape, Radices, StepsOfType DEF IInv, Exported
<1>3. pos'[id] = pos[id] + 1
  BY <1>1, <1>2 DEF Step
<1>4. \A k \in Nat : <<id, k>> \in skipped' <=> <<id, k>> \in skipped \/ k = pos[id]
  BY <1>1
<1>5. \A e \in Elements(n, s, id) : e \in WrittenElements(id)' <=> e \in WrittenElements(id)
  <2>1. format' = format /\ Elements(n, s, id)' = Elements(n, s, id)
    BY <1>1, PixelsFixed DEF Fixed
  <2>2. \A e \in Elements(n, s, id) : e.t \in Nat
    BY <1>2, SizesOfShape, ElementLimits DEF Exported, Ids
  <2>3. CASE format = "netcdf"
    <3>1. StepsOf(id) = 1 /\ pos[id] # 1
      BY <1>1, <2>3 DEF StepsOf, Running, Ended
    <3>2. pos[id] = 0
      BY <1>2, <3>1 DEF IInv
    <3> QED BY <1>3, <1>4, <2>1, <2>3, <3>2 DEF WrittenElements
  <2>4. CASE format # "netcdf"
    <3>1. \A e \in Elements(n, s, id) : e.t < pos[id] + 1 <=> e.t < pos[id] \/ e.t = pos[id]
      BY <1>2, <2>2
    <3>2. \A e \in Elements(n, s, id) :
             /\ (e.t < pos'[id] /\ <<id, e.t>> \notin skipped')
                   <=> (e.t < pos[id] /\ <<id, e.t>> \notin skipped)
      BY <1>2, <1>3, <1>4, <2>2, <3>1
    <3> QED BY <1>1, <2>1, <2>4, <3>2 DEF WrittenElements
  <2> QED BY <2>3, <2>4
<1>6. \A q \in Pixels(n) : image'[q] # Nothing <=> image[q] # Nothing \/ \E e \in E : PixelOf(id, e) = q
  BY <1>1
<1>7. E \in SUBSET Elements(n, s, id) /\ K \subseteq {pos[id]} /\ skipped' = skipped \cup ({id} \X K)
  BY <1>1
<1>8. \A e \in Elements(n, s, id) : e \in WrittenElements(id)' <=> e \in WrittenElements(id) \/ e \in E
  BY <1>5
<1> HIDE DEF E, K
<1> QED BY <1>1, <1>6, <1>7, <1>8, FileStepKeeps

\* A step with a GDAL image that writes nothing to the file.
LEMMA GdalStepKeeps ==
    ASSUME IInv, KInv, Fixed, NEW id \in Ids, Step(id), format = "gdal", pos[id] < 2,
           skipped' = skipped, image' = image
    PROVE  SkippedDone' /\ Complete'
<1>1. Exported /\ DOMAIN pos = Ids /\ pos[id] \in Nat
  BY SizesOfShape, Radices, StepsOfType DEF IInv, Exported
<1> DEFINE m == pos[id] + 1
           K == {}
<1>2. m \in Nat /\ pos[id] < m /\ m # 3 /\ pos[id] # 3
  BY <1>1
<1>3. /\ pos' = [pos EXCEPT ![id] = m] /\ skipped' = skipped \cup ({id} \X K)
      /\ pos'[id] = m /\ \A k \in K : k < m /\ (format = "gdal" => m = 3)
  BY <1>1 DEF Step
<1>4. SkippedDone /\ Complete
  BY DEF KInv
<1> HIDE DEF m, K
<1>5. SkippedDone'
  BY <1>2, <1>3, <1>4, StaysDone
<1>6. \A c \in Ids : c # id => WrittenElements(c)' = WrittenElements(c)
  BY <1>3, OthersWritten
<1>7. Complete'
  <2> DEFINE E == {}
  <2>1. WrittenElements(id)' = WrittenElements(id) \cup E
    <3>1. format' = "gdal"
      BY DEF Fixed
    <3> QED BY <1>2, <1>3, <3>1 DEF WrittenElements
  <2>2. Lossless => \A q \in Pixels(n) :
           image'[q] # Nothing <=> image[q] # Nothing \/ \E e \in E : PixelOf(id, e) = q
    OBVIOUS
  <2> HIDE DEF E
  <2> QED BY <1>4, <1>6, <2>1, <2>2, GrowTogether, Zenon
<1> QED BY <1>5, <1>7

LEMMA GdalOpenKeeps ==
    ASSUME IInv, KInv, NEW id \in Ids, GdalOpen(id)
    PROVE  KInv'
<1>1. /\ Fixed /\ format = "gdal" /\ pos[id] = 0 /\ Running(id) /\ Step(id)
      /\ skipped' = skipped /\ image' = image
  BY DEF GdalOpen, Fixed
<1>2. SkippedDone' /\ Complete'
  BY <1>1, GdalStepKeeps
<1>3. DatasetCurrent'
  <2>1. Ids' = Ids /\ nthreads' = nthreads /\ DOMAIN pos = Ids
    BY <1>1, FixedKeeps DEF Fixed, IInv
  <2>2. SUFFICES ASSUME nthreads = 1
                PROVE  /\ \A c \in Ids : c # id => pos'[c] \notin {1, 2}
                       /\ pos'[id] = 1
    BY <2>1 DEF DatasetCurrent, Open
  <2>3. \A c \in Ids : pos[c] \notin {1, 2}
    BY <1>1, <2>2, OpensAlone DEF Open
  <2> QED BY <1>1, <2>1, <2>3 DEF Step
<1> QED BY <1>2, <1>3 DEF KInv

LEMMA GdalWriteKeeps ==
    ASSUME IInv, KInv, NEW id \in Ids, GdalWrite(id)
    PROVE  KInv'
<1> DEFINE E == Elements(n, s, id)
           rows == {PixelOf(id, e)[2] : e \in E}
           loaded == [q \in {p \in Pixels(n) : p[2] \in rows} |-> image[q]]
           h == Drawn(loaded, id, E)
<1>1. /\ Fixed /\ format = "gdal" /\ pos[id] = 1 /\ Step(id)
      /\ skipped' = skipped /\ image' = image
  BY DEF GdalWrite, Fixed
<1>2. Exported /\ DOMAIN pos = Ids /\ DOMAIN handle = Ids
  BY DEF IInv
<1>3. handle'[id] = h
  BY <1>2 DEF GdalWrite
<1>4. SkippedDone' /\ Complete'
  BY <1>1, GdalStepKeeps
<1>5. DatasetCurrent'
  <2>1. SUFFICES ASSUME nthreads = 1 PROVE DatasetCurrent'
    BY <1>1 DEF DatasetCurrent, Fixed
  <2>2. \A c \in Ids : c # id => pos[c] \notin {1, 2}
    BY <1>1, <2>1 DEF KInv, DatasetCurrent, Open
  <2>3. pos'[id] = 2 /\ \A c \in Ids : c # id => pos'[c] \notin {1, 2}
    BY <1>1, <1>2, <2>2 DEF Step
  <2>4. \A e \in E : PixelOf(id, e) \in DOMAIN h
    <3>1. \A e \in E : PixelOf(id, e) \in Pixels(n) /\ PixelOf(id, e)[2] \in rows
      BY <1>2, PixelOfElement
    <3>2. \A e \in E : PixelOf(id, e) \in DOMAIN loaded
      BY <3>1
    <3> HIDE DEF loaded, rows, E
    <3> QED BY <3>2 DEF h, Drawn
  <2>5. \A q \in DOMAIN h : q \in DOMAIN loaded /\ loaded[q] = image[q]
    <3>1. \A q \in DOMAIN loaded : loaded[q] = image[q]
      OBVIOUS
    <3> HIDE DEF loaded, rows, E
    <3> QED BY <3>1 DEF h, Drawn
  <2>6. ASSUME NEW q \in DOMAIN h
        PROVE  h[q] = Nothing <=> image[q] = Nothing /\ \A e \in E : PixelOf(id, e) # q
    <3>1. q \in DOMAIN loaded /\ loaded[q] = image[q]
      BY <2>5, <2>6
    <3> HIDE DEF loaded
    <3>2. h[q] = Nothing <=> loaded[q] = Nothing /\ \A e \in E : PixelOf(id, e) # q
      BY <1>2, <3>1, DrawnSet
    <3> QED BY <3>1, <3>2
  <2> HIDE DEF h
  <2>7. /\ Ids' = Ids /\ n' = n /\ s' = s
        /\ \A c, e : PixelOf(c, e)' = PixelOf(c, e)
    BY <1>1, FixedKeeps, PixelsFixed DEF Fixed
  <2>8. \A c, d \in Ids : pos'[c] \in {1, 2} /\ pos'[d] \in {1, 2} => c = d
    BY <2>3
  <2>9. ASSUME NEW c \in Ids, pos'[c] = 2
        PROVE  /\ \A e \in Elements(n, s, c) : PixelOf(c, e) \in DOMAIN handle'[c]
               /\ \A q \in DOMAIN handle'[c] :
                    handle'[c][q] = Nothing
                        <=> /\ image'[q] = Nothing
                            /\ \A e \in Elements(n, s, c) : PixelOf(c, e) # q
    <3>1. c = id
      BY <2>3, <2>9
    <3> QED BY <1>1, <1>3, <2>4, <2>6, <2>7, <3>1
  <2> QED BY <2>7, <2>8, <2>9, SMT DEF DatasetCurrent, Open
<1> QED BY <1>4, <1>5 DEF KInv

LEMMA GdalCloseKeeps ==
    ASSUME IInv, KInv, NEW id \in Ids, GdalClose(id)
    PROVE  KInv'
<1> DEFINE E == Elements(n, s, id)
<1>1. /\ Fixed /\ format = "gdal" /\ pos[id] = 2 /\ skipped' = skipped
      /\ pos' = [pos EXCEPT ![id] = 3]
      /\ image' = [q \in DOMAIN image |->
                    IF q \in DOMAIN handle[id] THEN handle[id][q] ELSE image[q]]
  BY DEF GdalClose, Fixed, Step
<1>2. Exported /\ DOMAIN pos = Ids /\ DOMAIN image = Pixels(n) /\ DOMAIN handle[id] \subseteq Pixels(n)
  BY DEF IInv, HandleRight
<1>3. pos'[id] = 3 /\ <<id, 0>> \notin skipped
  BY <1>1, <1>2 DEF KInv, SkippedDone
<1>4. SkippedDone'
  <2> DEFINE K == {}
  <2>1. skipped' = skipped \cup ({id} \X K) /\ \A k \in K : k < 3 /\ (format = "gdal" => 3 = 3)
    BY <1>1
  <2>2. SkippedDone /\ pos[id] < 3 /\ pos[id] # 3
    BY <1>1 DEF KInv
  <2> HIDE DEF K
  <2> QED BY <1>1, <2>1, <2>2, StaysDone
<1>5. DatasetCurrent'
  <2>1. Ids' = Ids /\ nthreads' = nthreads /\ format' = format
    BY <1>1, FixedKeeps DEF Fixed
  <2>2. SUFFICES ASSUME nthreads = 1 PROVE \A c \in Ids : pos'[c] \notin {1, 2}
    BY <2>1 DEF DatasetCurrent, Open
  <2>3. \A c \in Ids : c # id => pos[c] \notin {1, 2}
    BY <1>1, <2>2 DEF KInv, DatasetCurrent, Open
  <2> QED BY <1>1, <1>2, <2>3
<1>6. \A c \in Ids : c # id => WrittenElements(c)' = WrittenElements(c)
  <2>1. skipped' = skipped \cup ({id} \X {})
    BY <1>1
  <2> QED BY <1>1, <2>1, OthersWritten
<1>7. WrittenElements(id)' = WrittenElements(id) \cup E
  <2>1. format' = "gdal" /\ Elements(n, s, id)' = E
    BY <1>1, PixelsFixed DEF Fixed
  <2> HIDE DEF E
  <2>2. WrittenElements(id) \subseteq E
    BY DEF WrittenElements, E
  <2>3. WrittenElements(id)' = E
    BY <1>1, <1>3, <2>1 DEF WrittenElements
  <2> QED BY <2>2, <2>3
<1>8. Lossless => \A q \in Pixels(n) :
         image'[q] # Nothing <=> image[q] # Nothing \/ \E e \in E : PixelOf(id, e) = q
  <2>1. SUFFICES ASSUME nthreads = 1, NEW q \in Pixels(n)
                PROVE  image'[q] # Nothing <=> image[q] # Nothing \/ \E e \in E : PixelOf(id, e) = q
    BY <1>1 DEF Lossless
  <2>2. /\ \A e \in E : PixelOf(id, e) \in DOMAIN handle[id]
        /\ \A p \in DOMAIN handle[id] :
              handle[id][p] = Nothing <=> image[p] = Nothing /\ \A e \in E : PixelOf(id, e) # p
    BY <1>1, <2>1 DEF KInv, DatasetCurrent
  <2> HIDE DEF E
  <2>3. CASE q \in DOMAIN handle[id]
    BY <1>1, <1>2, <2>2, <2>3
  <2>4. CASE q \notin DOMAIN handle[id]
    BY <1>1, <1>2, <2>2, <2>4
  <2> QED BY <2>3, <2>4
<1>9. Complete'
  <2>1. Fixed /\ Complete
    BY <1>1 DEF KInv
  <2> HIDE DEF E
  <2> QED BY <1>6, <1>7, <1>8, <2>1, GrowTogether, Zenon
<1> QED BY <1>4, <1>5, <1>9 DEF KInv

LEMMA StutterKeeps ==
    ASSUME IInv, KInv, UNCHANGED vars
    PROVE  KInv'
<1>1. /\ Fixed /\ skipped' = skipped /\ image' = image /\ handle' = handle /\ pos' = pos
      /\ format' = format /\ nthreads' = nthreads
  BY DEF vars, Fixed
<1>2. /\ Ids' = Ids /\ n' = n /\ s' = s /\ Lossless' = Lossless
      /\ \A c, e : PixelOf(c, e)' = PixelOf(c, e)
  BY <1>1, FixedKeeps, PixelsFixed
<1>3. SkippedDone'
  BY <1>1, <1>2 DEF KInv, SkippedDone
<1>4. DatasetCurrent'
  BY <1>1, <1>2, SMT DEF KInv, DatasetCurrent, Open
<1>5. ASSUME NEW c \in Ids PROVE WrittenElements(c)' = WrittenElements(c)
  <2>1. CASE format = "netcdf"
    BY <1>1, <1>2, <2>1 DEF WrittenElements
  <2>2. CASE format = "gdal"
    BY <1>1, <1>2, <2>2 DEF WrittenElements
  <2>3. CASE format # "netcdf" /\ format # "gdal"
    BY <1>1, <1>2, <2>3 DEF WrittenElements
  <2> QED BY <2>1, <2>2, <2>3
<1>6. Complete'
  BY <1>1, <1>2, <1>5, SMT DEF KInv, Complete
<1> QED BY <1>3, <1>4, <1>6 DEF KInv

LEMMA NextKInv == IInv /\ KInv /\ [Next]_vars => KInv'
BY SkipKeeps, PutVaraKeeps, WriteSliceKeeps, WriteFailsKeeps, GdalOpenKeeps, GdalWriteKeeps,
   GdalCloseKeeps, StutterKeeps DEF Next

-------------------------------------------------------------------------------
\* Exports lose nothing and invent nothing: what was written stays, and pixels of chunks
\* that were skipped, or whose write failed, hold the fill value.
THEOREM EverythingExported == Spec => []NothingMissing
<1>1. IInv /\ KInv => NothingMissing
  <2>1. SUFFICES ASSUME IInv, KInv, Lossless, NEW q \in Pixels(n)
                PROVE  image[q] # Nothing <=> \E id \in Ids : \E e \in WrittenElements(id) :
                                                ElementCell(n, s, id, e) = PixelCell(n, q)
    BY DEF NothingMissing
  <2>2. image[q] # Nothing <=> \E id \in Ids : \E e \in WrittenElements(id) : PixelOf(id, e) = q
    BY <2>1 DEF KInv, Complete
  <2>3. ASSUME NEW id \in Ids, NEW e \in WrittenElements(id)
        PROVE  PixelOf(id, e) = q <=> ElementCell(n, s, id, e) = PixelCell(n, q)
    <3>1. Exported /\ e \in Elements(n, s, id)
      BY <2>1 DEF IInv, WrittenElements
    <3>2. PixelOf(id, e) \in Pixels(n) /\ PixelCell(n, PixelOf(id, e)) = ElementCell(n, s, id, e)
      BY <3>1, PixelOfElement
    <3>3. PixelCell(n, PixelOf(id, e)) = PixelCell(n, q) => PixelOf(id, e) = q
      BY <2>1, <3>1, <3>2, PixelsAndCells
    <3> QED BY <3>2, <3>3
  <2> QED BY <2>2, <2>3
<1> QED BY <1>1, InitInvariant, NextInvariant, InitKInv, NextKInv, PTL DEF Spec
===============================================================================
