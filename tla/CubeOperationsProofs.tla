-------------------------- MODULE CubeOperationsProofs --------------------------
(***************************************************************************)
(* Proofs about CubeOperations and Streaming, for cubes and chunks of every *)
(* size, any values, any choice of empty chunks and any number of threads.  *)
(* First the layout of a buffer, then sizes and cells of what an operation  *)
(* returns, then what the threads and processes of a stream do, then        *)
(* windows and filled gaps, whose series run through several chunks, and    *)
(* last reductions, whose accumulators are fed by several chunks.           *)
(***************************************************************************)
EXTENDS Streaming, ChunkGeometryProofs

-------------------------------------------------------------------------------
\* The layout of a buffer.

\* Sizes of a chunk that has data, and its volume.
FullSize(z) == z.b \in Nat \ {0} /\ z.t \in Nat \ {0} /\ z.y \in Nat \ {0} /\ z.x \in Nat \ {0}

\* Where element p of band b and slice t stands.
Index(z, b, t, p) == b * z.t * z.y * z.x + t * z.y * z.x + p

LEMMA IndexIs ==
    ASSUME NEW z, FullSize(z),
           NEW b \in 0..(z.b - 1), NEW t \in 0..(z.t - 1), NEW p \in 0..(z.y * z.x - 1)
    PROVE  /\ Index(z, b, t, p) \in 0..(Volume(z) - 1)
           /\ Index(z, b, t, p) \div (z.t * z.y * z.x) = b
           /\ (Index(z, b, t, p) \div (z.y * z.x)) % z.t = t
           /\ Index(z, b, t, p) % (z.y * z.x) = p
<1> DEFINE m == z.y * z.x
<1>1. m \in Nat \ {0}
  BY SMT DEF FullSize
<1>2. z.b \in Nat \ {0} /\ z.t \in Nat \ {0} /\ z.y \in Nat \ {0} /\ z.x \in Nat \ {0}
  BY DEF FullSize
<1>3. /\ z.t * z.y * z.x = z.t * m /\ Volume(z) = z.b * (z.t * m)
      /\ b * z.t * z.y * z.x = b * (z.t * m) /\ t * z.y * z.x = t * m
  <2>1. \A i, j, k \in Nat : i * j * k = i * (j * k)
    BY SMT
  <2>2. \A h, i, j, k \in Nat : h * i * j * k = h * (i * (j * k))
    BY SMT
  <2>3. b \in Nat /\ t \in Nat
    BY <1>2
  <2> QED BY <1>2, <2>1, <2>2, <2>3 DEF Volume
<1>4. Index(z, b, t, p) = b * (z.t * m) + t * m + p
  BY <1>3 DEF Index
<1> HIDE DEF m
<1>5. p \in 0..(m - 1)
  BY DEF m
<1>6. Digits(z.b, z.t, m, b, t, p)
  BY <1>1, <1>2, <1>5, Layout
<1> QED BY <1>3, <1>4, <1>6 DEF m, Digits

-------------------------------------------------------------------------------
\* Input cubes and their chunks.

Inputs == {WithChunks(c) : c \in Cubes}

\* Element p of slice t in a chunk of size z.
ElementOf(z, t, p) == [t |-> t, row |-> p \div z.x, col |-> p % z.x]

LEMMA InputIs ==
    ASSUME NEW c \in Inputs
    PROVE  /\ c.n \in Sizes /\ c.s \in Sizes /\ c.nb \in Nat \ {0}
           /\ c.empty \subseteq ChunkIds(c.n, c.s)
           /\ \A id \in ChunkIds(c.n, c.s) :
                /\ c.sizes[id] = chunk_size(c.n, c.s, id)
                /\ ChunkOf(c, id) = ChunkWith(c, id, chunk_size(c.n, c.s, id))
           /\ \A id \in c.empty, b \in 0..(c.nb - 1) : \A e \in Elements(c.n, c.s, id) :
                c.data[b][ElementCell(c.n, c.s, id, e)] = NaN
<1>1. PICK d \in Cubes : c = WithChunks(d)
  BY DEF Inputs
<1>2. /\ c.n = d.n /\ c.s = d.s /\ c.nb = d.nb /\ c.data = d.data /\ c.empty = d.empty
      /\ \A id \in ChunkIds(d.n, d.s) :
            /\ c.sizes[id] = chunk_size(d.n, d.s, id)
            /\ c.chunks[id] = ChunkWith(d, id, chunk_size(d.n, d.s, id))
  BY <1>1 DEF WithChunks
<1>3. \A id, z : ChunkWith(c, id, z) = ChunkWith(d, id, z)
  <2> SUFFICES ASSUME NEW id, NEW z PROVE ChunkWith(c, id, z) = ChunkWith(d, id, z)
    OBVIOUS
  <2>1. CASE id \in d.empty
    BY <1>2, <2>1, Zenon DEF ChunkWith
  <2>2. CASE id \notin d.empty
    BY <1>2, <2>2 DEF ChunkWith, Chunk
  <2> QED BY <2>1, <2>2
<1>4. /\ d.n \in Sizes /\ d.s \in Sizes /\ d.nb \in Nat \ {0}
      /\ d.empty \subseteq ChunkIds(d.n, d.s)
      /\ \A id \in d.empty, b \in 0..(d.nb - 1) : \A e \in Elements(d.n, d.s, id) :
                d.data[b][ElementCell(d.n, d.s, id, e)] = NaN
  BY CubesAssumption
<1> QED BY <1>2, <1>3, <1>4 DEF ChunkOf

LEMMA ChunkSizePositive ==
    ASSUME NEW n \in Sizes, NEW s \in Sizes, NEW id \in ChunkIds(n, s)
    PROVE  LET z == chunk_size(n, s, id)
           IN  z.t \in Nat \ {0} /\ z.y \in Nat \ {0} /\ z.x \in Nat \ {0}
<1> DEFINE b == chunk_limits(n, s, id)
<1>1. /\ b.low.t \in 0..(n.t - 1) /\ b.high.t \in b.low.t..(n.t - 1)
      /\ b.low.y \in 0..(n.y - 1) /\ b.high.y \in b.low.y..(n.y - 1)
      /\ b.low.x \in 0..(n.x - 1) /\ b.high.x \in b.low.x..(n.x - 1)
  BY ChunkLimits
<1>2. n.t \in Nat /\ n.y \in Nat /\ n.x \in Nat
  BY Radices
<1>3. /\ chunk_size(n, s, id).t = b.high.t - b.low.t + 1
      /\ chunk_size(n, s, id).y = b.high.y - b.low.y + 1
      /\ chunk_size(n, s, id).x = b.high.x - b.low.x + 1
  BY DEF chunk_size, SizeOf
<1> HIDE DEF b
<1> QED BY <1>1, <1>2, <1>3

\* An element of a chunk of full size.
LEMMA ElementInside ==
    ASSUME NEW n \in Sizes, NEW s \in Sizes, NEW id \in ChunkIds(n, s),
           NEW t \in 0..(chunk_size(n, s, id).t - 1),
           NEW p \in 0..(chunk_size(n, s, id).y * chunk_size(n, s, id).x - 1)
    PROVE  ElementOf(chunk_size(n, s, id), t, p) \in Elements(n, s, id)
<1> DEFINE zy == chunk_size(n, s, id).y
           zx == chunk_size(n, s, id).x
<1>1. zy \in Nat \ {0} /\ zx \in Nat \ {0}
  BY ChunkSizePositive
<1>2. p % zx \in 0..(zx - 1) /\ p \div zx \in 0..(zy - 1)
  <2>1. zy * zx = zx * zy
    BY <1>1
  <2>2. p \in 0..(zx * zy - 1)
    BY <2>1
  <2> HIDE DEF zy, zx
  <2> QED BY <1>1, <2>2, TwoDigitsOf
<1> QED BY <1>2 DEF ElementOf, Elements

LEMMA FullChunk ==
    ASSUME NEW c \in Inputs, NEW id \in ChunkIds(c.n, c.s), id \notin c.empty
    PROVE  LET z == chunk_size(c.n, c.s, id)
               x == ChunkOf(c, id)
           IN  /\ x.size = BandSize(c.nb, z) /\ FullSize(x.size)
               /\ x.size.b = c.nb /\ x.size.t = z.t /\ x.size.y = z.y /\ x.size.x = z.x
               /\ DOMAIN x.buf = 0..(Volume(x.size) - 1)
               /\ \A b \in 0..(c.nb - 1), t \in 0..(z.t - 1), p \in 0..(z.y * z.x - 1) :
                    Value(x, b, t, p) = c.data[b][ElementCell(c.n, c.s, id, ElementOf(z, t, p))]
<1> DEFINE z == chunk_size(c.n, c.s, id)
           x == ChunkOf(c, id)
           w == BandSize(c.nb, z)
<1>1. c.n \in Sizes /\ c.s \in Sizes /\ c.nb \in Nat \ {0} /\ x = ChunkWith(c, id, z)
  BY InputIs
<1>2. z.t \in Nat \ {0} /\ z.y \in Nat \ {0} /\ z.x \in Nat \ {0}
  BY <1>1, ChunkSizePositive
<1>3. w.b = c.nb /\ w.t = z.t /\ w.y = z.y /\ w.x = z.x
  BY DEF BandSize
<1>4. FullSize(w)
  BY <1>1, <1>2, <1>3 DEF FullSize
<1>5. /\ x.size = w
      /\ x.buf = [k \in 0..(Volume(w) - 1) |->
            c.data[k \div (w.t * w.y * w.x)][ElementCell(c.n, c.s, id,
                ElementOf(z, (k \div (w.y * w.x)) % w.t, k % (w.y * w.x)))]]
  <2> HIDE DEF x, z
  <2>1. x = Chunk(w, LAMBDA b, t, p :
                c.data[b][ElementCell(c.n, c.s, id, [t |-> t, row |-> p \div z.x, col |-> p % z.x])])
    BY <1>1 DEF ChunkWith, Chunk
  <2> HIDE DEF w
  <2> QED BY <2>1 DEF Chunk, ElementOf
<1> HIDE DEF x, z, w
<1>6. ASSUME NEW b \in 0..(c.nb - 1), NEW t \in 0..(z.t - 1), NEW p \in 0..(z.y * z.x - 1)
      PROVE  Value(x, b, t, p) = c.data[b][ElementCell(c.n, c.s, id, ElementOf(z, t, p))]
  <2> DEFINE k == Index(w, b, t, p)
  <2>1. Value(x, b, t, p) = x.buf[k]
    BY <1>5 DEF Value, Index
  <2>2. /\ k \in 0..(Volume(w) - 1) /\ k \div (w.t * w.y * w.x) = b
        /\ (k \div (w.y * w.x)) % w.t = t /\ k % (w.y * w.x) = p
    BY <1>3, <1>4, IndexIs
  <2> HIDE DEF k
  <2> QED BY <1>5, <2>1, <2>2
<1> QED BY <1>3, <1>4, <1>5, <1>6 DEF x, z, w

\* A chunk without data, and what the cells there hold.
LEMMA NoChunk ==
    ASSUME NEW c \in Inputs, NEW id \in c.empty
    PROVE  LET z == chunk_size(c.n, c.s, id)
               x == ChunkOf(c, id)
           IN  /\ x = EmptyChunk /\ x.size = NoSize(0) /\ Volume(x.size) = 0
               /\ x.size.t = 0 /\ x.size.y = 0 /\ x.size.x = 0
               /\ DOMAIN x.buf = 0..(Volume(x.size) - 1)
               /\ \A b \in 0..(c.nb - 1), t \in 0..(z.t - 1), p \in 0..(z.y * z.x - 1) :
                    c.data[b][ElementCell(c.n, c.s, id, ElementOf(z, t, p))] = NaN
<1> DEFINE z == chunk_size(c.n, c.s, id)
           x == ChunkOf(c, id)
<1>1. id \in ChunkIds(c.n, c.s) /\ c.n \in Sizes /\ c.s \in Sizes
  BY InputIs
<1>2. x = EmptyChunk
  BY <1>1, InputIs DEF ChunkWith
<1>3. /\ EmptyChunk.size = NoSize(0)
      /\ DOMAIN EmptyChunk.buf = 0..(Volume(EmptyChunk.size) - 1)
  BY DEF EmptyChunk, Chunk
<1>4. /\ Volume(NoSize(0)) = 0
      /\ NoSize(0).t = 0 /\ NoSize(0).y = 0 /\ NoSize(0).x = 0
  BY DEF Volume, NoSize
<1>5. ASSUME NEW b \in 0..(c.nb - 1), NEW t \in 0..(z.t - 1), NEW p \in 0..(z.y * z.x - 1)
      PROVE  c.data[b][ElementCell(c.n, c.s, id, ElementOf(z, t, p))] = NaN
  <2>1. ElementOf(z, t, p) \in Elements(c.n, c.s, id)
    BY <1>1, ElementInside
  <2> QED BY <2>1, InputIs
<1> HIDE DEF x, z
<1> QED BY <1>2, <1>3, <1>4, <1>5 DEF x, z

-------------------------------------------------------------------------------
\* What has been read.

Inputs2 ==
    /\ cube \in Inputs /\ op \in Operations /\ op.uses \subseteq 0..(cube.nb - 1)
    /\ op.kind = "join_bands" => other \in Inputs /\ other.n = cube.n /\ other.s = cube.s

\* The chunk read last is what the operation returns for its id.
Returned ==
    read # Nothing =>
        /\ read.id \in ChunkIds(OutShape.n, OutShape.s)
        /\ \/ op.kind = "reduce_time" /\ read.out = reduce_time(cube, op.reducer_bands, read.id)
           \/ op.kind = "reduce" /\ read.out = reduce(cube, op.reducer, read.id)
           \/ op.kind = "reduce_space" /\ read.out = reduce_space(cube, op.reducer_bands, read.id)
           \/ op.kind = "window_time" /\ read.out = window_time(cube, op, read.id)
           \/ op.kind = "fill_time" /\ read.out = fill_time(cube, op.method, read.id)
           \/ op.kind = "apply_pixel" /\ read.out = apply_pixel(cube, op.exprs, op.keep, read.id)
           \/ op.kind = "filter_pixel" /\ read.out = filter_pixel(cube, op, read.id)
           \/ op.kind = "select_bands" /\ read.out = select_bands(cube, op.bands, read.id)
           \/ op.kind = "join_bands" /\ read.out = join_bands(cube, other, read.id)

RInv == Inputs2 /\ Returned

LEMMA InitRInv == Init => RInv
<1> SUFFICES ASSUME Init PROVE RInv
  OBVIOUS
<1>1. /\ cube \in Inputs /\ op \in Operations /\ op.uses \subseteq 0..(cube.nb - 1)
      /\ read = Nothing
  BY DEF Init, OperationsInit, Inputs
<1>2. ASSUME op.kind = "join_bands"
      PROVE  other \in Inputs /\ other.n = cube.n /\ other.s = cube.s
  <2>1. other \in {WithChunks(c) : c \in {d \in Cubes : d.n = cube.n /\ d.s = cube.s}}
    BY <1>2 DEF Init, OperationsInit
  <2>2. PICK c \in Cubes : c.n = cube.n /\ c.s = cube.s /\ other = WithChunks(c)
    BY <2>1
  <2> QED BY <2>2 DEF Inputs, WithChunks
<1> QED BY <1>1, <1>2 DEF RInv, Inputs2, Returned

LEMMA NextRInv == RInv /\ [Next]_<<vars, svars>> => RInv'
<1> SUFFICES ASSUME RInv, [Next]_<<vars, svars>> PROVE RInv'
  OBVIOUS
<1>1. ASSUME UNCHANGED vars PROVE RInv'
  BY <1>1 DEF vars, RInv, Inputs2, Returned, OutShape
<1>2. ASSUME OperationsNext PROVE RInv'
  <2>1. UNCHANGED <<cube, other, op>>
    BY <1>2 DEF OperationsNext, ReadReduceTime, ReadReduce, ReadReduceSpace, ReadWindowTime,
            ReadFillTime, ReadApplyPixel, ReadFilterPixel, ReadSelectBands, ReadJoinBands, Reads
  <2>2. \E id \in ChunkIds(OutShape.n, OutShape.s) : 
          \/ op.kind = "reduce_time" /\ read' = [id |-> id, out |-> reduce_time(cube, op.reducer_bands, id)]
          \/ op.kind = "reduce" /\ read' = [id |-> id, out |-> reduce(cube, op.reducer, id)]
          \/ op.kind = "reduce_space" /\ read' = [id |-> id, out |-> reduce_space(cube, op.reducer_bands, id)]
          \/ op.kind = "window_time" /\ read' = [id |-> id, out |-> window_time(cube, op, id)]
          \/ op.kind = "fill_time" /\ read' = [id |-> id, out |-> fill_time(cube, op.method, id)]
          \/ op.kind = "apply_pixel" /\ read' = [id |-> id, out |-> apply_pixel(cube, op.exprs, op.keep, id)]
          \/ op.kind = "filter_pixel" /\ read' = [id |-> id, out |-> filter_pixel(cube, op, id)]
          \/ op.kind = "select_bands" /\ read' = [id |-> id, out |-> select_bands(cube, op.bands, id)]
          \/ op.kind = "join_bands" /\ read' = [id |-> id, out |-> join_bands(cube, other, id)]
    BY <1>2 DEF OperationsNext, ReadReduceTime, ReadReduce, ReadReduceSpace, ReadWindowTime,
            ReadFillTime, ReadApplyPixel, ReadFilterPixel, ReadSelectBands, ReadJoinBands, Reads
  <2>3. OutShape' = OutShape
    BY <2>1 DEF OutShape
  <2>4. Returned'
    BY <2>1, <2>2, <2>3 DEF Returned
  <2> QED BY <2>1, <2>4 DEF RInv, Inputs2
<1> QED BY <1>1, <1>2 DEF Next, Stream, vars

LEMMA RInvariance == Spec => []RInv
  BY InitRInv, NextRInv, PTL DEF Spec

-------------------------------------------------------------------------------
\* Shapes of reductions.

LEMMA OneChunk ==
    ASSUME NEW s \in Nat \ {0}
    PROVE  Ceil(1, s) = 1
<1>1. (s * 1 + 0) \div s = 1
  BY DivisionUnique
<1> QED BY <1>1 DEF Ceil

LEMMA ShapesAre ==
    ASSUME NEW c \in Inputs
    PROVE  /\ TimeShape(c).n \in Sizes /\ TimeShape(c).s \in Sizes
           /\ TimeShape(c).n.t = 1 /\ TimeShape(c).n.y = c.n.y /\ TimeShape(c).n.x = c.n.x
           /\ TimeShape(c).s.t = 1 /\ TimeShape(c).s.y = c.s.y /\ TimeShape(c).s.x = c.s.x
           /\ SpaceShape(c).n \in Sizes /\ SpaceShape(c).s \in Sizes
           /\ SpaceShape(c).n.t = c.n.t /\ SpaceShape(c).n.y = 1 /\ SpaceShape(c).n.x = 1
           /\ SpaceShape(c).s.t = c.s.t /\ SpaceShape(c).s.y = 1 /\ SpaceShape(c).s.x = 1
<1>1. c.n \in Sizes /\ c.s \in Sizes
  BY InputIs
<1> QED BY <1>1 DEF TimeShape, SpaceShape, Sizes

\* The chunks of a place, one per row of chunks in time, are as large as that of the
\* reduced cube, and in the same rows and columns.
LEMMA TimeColumn ==
    ASSUME NEW c \in Inputs, NEW id \in ChunkIds(TimeShape(c).n, TimeShape(c).s),
           NEW j \in 0..(Ceil(c.n.t, c.s.t) - 1)
    PROVE  LET i == id + j * ChunksPerSlice(c)
               a == chunk_limits(c.n, c.s, i)
               b == chunk_limits(TimeShape(c).n, TimeShape(c).s, id)
           IN  /\ id \in 0..(ChunksPerSlice(c) - 1) /\ ChunksPerSlice(c) \in Nat \ {0}
               /\ i \in ChunkIds(c.n, c.s)
               /\ a.low.t = Low(c.n.t, c.s.t, j) /\ a.high.t = High(c.n.t, c.s.t, j)
               /\ a.low.y = b.low.y /\ a.high.y = b.high.y
               /\ a.low.x = b.low.x /\ a.high.x = b.high.x
               /\ b.low.t = 0 /\ b.high.t = 0
<1> DEFINE n == TimeShape(c).n
           s == TimeShape(c).s
           X == Ceil(c.n.x, c.s.x)
           Y == Ceil(c.n.y, c.s.y)
           d == chunk_coords_from_id(n, s, id)
           e == [t |-> j, y |-> d.y, x |-> d.x]
           i == id + j * ChunksPerSlice(c)
           a == chunk_limits(c.n, c.s, i)
           b == chunk_limits(n, s, id)
<1>1. c.n \in Sizes /\ c.s \in Sizes
  BY InputIs
<1>2. X \in Nat \ {0} /\ Y \in Nat \ {0} /\ Ceil(c.n.t, c.s.t) \in Nat \ {0}
  BY <1>1, Radices
<1>3. /\ n \in Sizes /\ s \in Sizes /\ Ceil(n.t, s.t) = 1 /\ Ceil(n.y, s.y) = Y
      /\ Ceil(n.x, s.x) = X /\ n.t = 1 /\ s.t = 1
  BY ShapesAre, OneChunk
<1>4. id \in ChunkIds(n, s)
  OBVIOUS
<1> HIDE DEF n, s
<1>5. d \in Coords(n, s) /\ chunk_id_from_coords(n, s, d) = id
  BY <1>3, <1>4, IdOfCoordsOfId
<1> HIDE DEF d
<1>6. d.t = 0 /\ d.y \in 0..(Y - 1) /\ d.x \in 0..(X - 1)
  BY <1>3, <1>5 DEF Coords
<1>7. id = d.y * X + d.x
  <2>1. id = d.t * Y * X + d.y * X + d.x
    BY <1>3, <1>5 DEF chunk_id_from_coords
  <2>2. 0 * Y * X = 0 /\ d.y * X \in Nat /\ d.x \in Nat
    BY <1>2, <1>6, SMT
  <2> QED BY <1>6, <2>1, <2>2
<1>8. ChunksPerSlice(c) = Y * X /\ Y * X \in Nat \ {0}
  BY <1>2, SMT DEF ChunksPerSlice
<1>9. id \in 0..(ChunksPerSlice(c) - 1)
  <2>1. X * d.y + d.x \in 0..(X * Y - 1)
    BY <1>2, <1>6, TwoDigits
  <2>2. X * d.y = d.y * X /\ X * Y = Y * X
    BY <1>2, <1>6, SMT
  <2> QED BY <1>7, <1>8, <2>1, <2>2
<1>10. e \in Coords(c.n, c.s)
  BY <1>6 DEF Coords
<1>11. i = chunk_id_from_coords(c.n, c.s, e)
  <2>1. chunk_id_from_coords(c.n, c.s, e) = j * Y * X + d.y * X + d.x
    BY DEF chunk_id_from_coords
  <2>2. j * Y * X = j * (Y * X) /\ j * (Y * X) \in Nat /\ d.y * X \in Nat /\ d.x \in Nat
    BY <1>2, <1>6, SMT
  <2> QED BY <1>7, <1>8, <2>1, <2>2
<1>12. i \in ChunkIds(c.n, c.s) /\ chunk_coords_from_id(c.n, c.s, i) = e
  <2> HIDE DEF i, e
  <2> QED BY <1>1, <1>10, <1>11, CoordsOfIdOfCoords
<1>13. /\ a.low.t = Low(c.n.t, c.s.t, j) /\ a.high.t = High(c.n.t, c.s.t, j)
       /\ a.low.y = Low(c.n.y, c.s.y, d.y) /\ a.high.y = High(c.n.y, c.s.y, d.y)
       /\ a.low.x = Low(c.n.x, c.s.x, d.x) /\ a.high.x = High(c.n.x, c.s.x, d.x)
  BY <1>12 DEF chunk_limits, limits_of_coords
<1>14. /\ b.low.t = Low(1, 1, 0) /\ b.high.t = High(1, 1, 0)
       /\ b.low.y = Low(n.y, s.y, d.y) /\ b.high.y = High(n.y, s.y, d.y)
       /\ b.low.x = Low(n.x, s.x, d.x) /\ b.high.x = High(n.x, s.x, d.x)
  BY <1>3, <1>6 DEF chunk_limits, limits_of_coords, d
<1>15. Low(1, 1, 0) = 0 /\ High(1, 1, 0) = 0
  BY DEF Low, High, Smaller
<1>16. n.y = c.n.y /\ n.x = c.n.x /\ s.y = c.s.y /\ s.x = c.s.x
  BY ShapesAre DEF n, s
<1> HIDE DEF a, b, i
<1> QED BY <1>8, <1>9, <1>12, <1>13, <1>14, <1>15, <1>16 DEF a, b, i, n, s

\* A cube of one slice has the chunks of the reduced one.
LEMMA OneSlice ==
    ASSUME NEW c \in Inputs, c.n.t = 1, NEW id \in ChunkIds(TimeShape(c).n, TimeShape(c).s)
    PROVE  /\ id \in ChunkIds(c.n, c.s)
           /\ chunk_size(TimeShape(c).n, TimeShape(c).s, id) = chunk_size(c.n, c.s, id)
<1> DEFINE i == id + 0 * ChunksPerSlice(c)
           a == chunk_limits(c.n, c.s, i)
           b == chunk_limits(TimeShape(c).n, TimeShape(c).s, id)
<1>1. c.n \in Sizes /\ c.s \in Sizes /\ c.s.t \in Nat \ {0}
  BY InputIs, Radices
<1>2. Ceil(c.n.t, c.s.t) = 1 /\ 0 \in 0..(Ceil(c.n.t, c.s.t) - 1)
  BY <1>1, OneChunk
<1>3. /\ id \in 0..(ChunksPerSlice(c) - 1) /\ ChunksPerSlice(c) \in Nat \ {0}
      /\ i \in ChunkIds(c.n, c.s)
      /\ a.low.t = Low(c.n.t, c.s.t, 0) /\ a.high.t = High(c.n.t, c.s.t, 0)
      /\ a.low.y = b.low.y /\ a.high.y = b.high.y
      /\ a.low.x = b.low.x /\ a.high.x = b.high.x
      /\ b.low.t = 0 /\ b.high.t = 0
  BY <1>2, TimeColumn
<1>4. i = id
  BY <1>3
<1>5. Low(1, c.s.t, 0) = 0 /\ High(1, c.s.t, 0) = 0
  BY <1>1 DEF Low, High, Smaller
<1>6. chunk_size(c.n, c.s, i) = SizeOf(a)
      /\ chunk_size(TimeShape(c).n, TimeShape(c).s, id) = SizeOf(b)
  BY DEF chunk_size
<1> HIDE DEF a, b, i
<1>7. SizeOf(a) = SizeOf(b)
  BY <1>3, <1>5 DEF SizeOf
<1> QED BY <1>3, <1>4, <1>6, <1>7

\* A cube of one cell per slice has the chunks of the one reduced over space.
LEMMA OneCell ==
    ASSUME NEW c \in Inputs, c.n.y = 1, c.n.x = 1,
           NEW id \in ChunkIds(SpaceShape(c).n, SpaceShape(c).s)
    PROVE  /\ id \in ChunkIds(c.n, c.s)
           /\ chunk_size(SpaceShape(c).n, SpaceShape(c).s, id) = chunk_size(c.n, c.s, id)
<1> DEFINE n == SpaceShape(c).n
           s == SpaceShape(c).s
           d == chunk_coords_from_id(n, s, id)
           a == chunk_limits(c.n, c.s, id)
           b == chunk_limits(n, s, id)
<1>1. c.n \in Sizes /\ c.s \in Sizes /\ c.s.y \in Nat \ {0} /\ c.s.x \in Nat \ {0}
  BY InputIs, Radices
<1>2. /\ n \in Sizes /\ s \in Sizes /\ n.t = c.n.t /\ s.t = c.s.t
      /\ n.y = 1 /\ n.x = 1 /\ s.y = 1 /\ s.x = 1
  BY ShapesAre
<1>3. id \in ChunkIds(n, s)
  OBVIOUS
<1> HIDE DEF n, s
<1>4. /\ Ceil(n.y, s.y) = 1 /\ Ceil(n.x, s.x) = 1
      /\ Ceil(c.n.y, c.s.y) = 1 /\ Ceil(c.n.x, c.s.x) = 1
  BY <1>1, <1>2, OneChunk
<1>5. id \in ChunkIds(c.n, c.s) /\ chunk_coords_from_id(c.n, c.s, id) = d
  BY <1>2, <1>3, <1>4 DEF ChunkIds, count_chunks, chunk_coords_from_id
<1>6. /\ a.low.t = b.low.t /\ a.high.t = b.high.t
  BY <1>2, <1>5 DEF chunk_limits, limits_of_coords
<1>7. /\ a.low.y \in 0..(1 - 1) /\ a.high.y \in a.low.y..(1 - 1)
      /\ a.low.x \in 0..(1 - 1) /\ a.high.x \in a.low.x..(1 - 1)
  BY <1>1, <1>5, ChunkLimits
<1>8. /\ b.low.y \in 0..(1 - 1) /\ b.high.y \in b.low.y..(1 - 1)
      /\ b.low.x \in 0..(1 - 1) /\ b.high.x \in b.low.x..(1 - 1)
  BY <1>2, <1>3, ChunkLimits
<1>9. chunk_size(c.n, c.s, id) = SizeOf(a) /\ chunk_size(n, s, id) = SizeOf(b)
  BY DEF chunk_size
<1> HIDE DEF a, b
<1>10. SizeOf(a) = SizeOf(b)
  <2>1. a.low.y = 0 /\ a.high.y = 0 /\ a.low.x = 0 /\ a.high.x = 0
    BY <1>7
  <2>2. b.low.y = 0 /\ b.high.y = 0 /\ b.low.x = 0 /\ b.high.x = 0
    BY <1>8
  <2> QED BY <1>6, <2>1, <2>2 DEF SizeOf
<1> QED BY <1>5, <1>9, <1>10 DEF n, s

-------------------------------------------------------------------------------
\* Sizes of what is read.

\* What TypeOK says of one chunk.
Sized(out, z) ==
    /\ DOMAIN out.buf = 0..(Volume(out.size) - 1)
    /\ \/ out.size = BandSize(out.size.b, z)
       \/ /\ read.id \in cube.empty
          /\ op.kind \notin {"window_time", "fill_time", "join_bands"}
          /\ Volume(out.size) = 0

\* A chunk of the input that is handed through.
LEMMA ChunkSized ==
    ASSUME Inputs2, NEW id \in ChunkIds(cube.n, cube.s), id = read.id,
           op.kind \notin {"window_time", "fill_time", "join_bands"}
    PROVE  Sized(ChunkOf(cube, id), chunk_size(cube.n, cube.s, id))
<1> DEFINE x == ChunkOf(cube, id)
<1>1. CASE id \in cube.empty
  <2>1. Volume(x.size) = 0 /\ DOMAIN x.buf = 0..(Volume(x.size) - 1)
    BY <1>1, NoChunk DEF Inputs2
  <2> QED BY <1>1, <2>1 DEF Sized
<1>2. CASE id \notin cube.empty
  <2>1. /\ x.size = BandSize(cube.nb, chunk_size(cube.n, cube.s, id)) /\ x.size.b = cube.nb
        /\ DOMAIN x.buf = 0..(Volume(x.size) - 1)
    BY <1>2, FullChunk DEF Inputs2
  <2> QED BY <2>1 DEF Sized
<1> QED BY <1>1, <1>2

\* What is computed element by element from a chunk has the size of this chunk, but for
\* the bands.
LEMMA DerivedSized ==
    ASSUME Inputs2, NEW id \in ChunkIds(cube.n, cube.s), id = read.id,
           op.kind \notin {"window_time", "fill_time", "join_bands"},
           NEW nb \in Nat, NEW out,
           out.size = BandSize(nb, ChunkOf(cube, id).size),
           DOMAIN out.buf = 0..(Volume(out.size) - 1)
    PROVE  Sized(out, chunk_size(cube.n, cube.s, id))
<1> DEFINE x == ChunkOf(cube, id)
           z == chunk_size(cube.n, cube.s, id)
<1>1. CASE id \in cube.empty
  <2>1. x.size.t = 0
    BY <1>1, NoChunk DEF Inputs2
  <2>2. x.size.y = 0 /\ x.size.x = 0
    BY <1>1, NoChunk DEF Inputs2
  <2>3. Volume(out.size) = 0
    BY <2>1, <2>2 DEF BandSize, Volume
  <2> QED BY <1>1, <2>3 DEF Sized
<1>2. CASE id \notin cube.empty
  <2>1. x.size.t = z.t /\ x.size.y = z.y /\ x.size.x = z.x
    BY <1>2, FullChunk DEF Inputs2
  <2>2. out.size = BandSize(nb, z) /\ out.size.b = nb
    BY <2>1 DEF BandSize
  <2> QED BY <2>2 DEF Sized
<1> QED BY <1>1, <1>2

\* What an operation returns: a size and a buffer of this size.
ShapeOf(out, z) == out.size = z /\ DOMAIN out.buf = 0..(Volume(out.size) - 1)

LEMMA ReduceTimeShape ==
    ASSUME NEW c, NEW rb, NEW id, c.n.t # 1
    PROVE  LET z == chunk_size(TimeShape(c).n, TimeShape(c).s, id)
           IN  ShapeOf(reduce_time(c, rb, id), [b |-> Len(rb), t |-> 1, y |-> z.y, x |-> z.x])
  BY DEF reduce_time, Chunk, ShapeOf

LEMMA ReduceShape ==
    ASSUME NEW c, NEW r, NEW id, c.n.t # 1
    PROVE  LET z == chunk_size(TimeShape(c).n, TimeShape(c).s, id)
           IN  ShapeOf(reduce(c, r, id), [b |-> c.nb, t |-> 1, y |-> z.y, x |-> z.x])
  BY DEF reduce, Chunk, ShapeOf

LEMMA ReduceSpaceShape ==
    ASSUME NEW c, NEW rb, NEW id, ~ (c.n.y = 1 /\ c.n.x = 1)
    PROVE  LET z == chunk_size(SpaceShape(c).n, SpaceShape(c).s, id)
           IN  ShapeOf(reduce_space(c, rb, id), [b |-> Len(rb), t |-> z.t, y |-> 1, x |-> 1])
  BY DEF reduce_space, Chunk, ShapeOf

LEMMA WindowTimeShape ==
    ASSUME NEW c, NEW w, NEW id
    PROVE  ShapeOf(window_time(c, w, id), BandSize(Len(w.bands), c.sizes[id]))
  BY DEF window_time, Chunk, ShapeOf

LEMMA FillTimeShape ==
    ASSUME NEW c, NEW method, NEW id
    PROVE  ShapeOf(fill_time(c, method, id), BandSize(c.nb, c.sizes[id]))
  BY DEF fill_time, Chunk, ShapeOf

LEMMA JoinBandsShape ==
    ASSUME NEW c, NEW d, NEW id
    PROVE  ShapeOf(join_bands(c, d, id), BandSize(c.nb + d.nb, c.sizes[id]))
  BY DEF join_bands, ShapeOf

LEMMA ApplyPixelShape ==
    ASSUME NEW c, NEW exprs, NEW keep, NEW id
    PROVE  ShapeOf(apply_pixel(c, exprs, keep, id),
                   BandSize((IF keep THEN c.nb ELSE 0) + Len(exprs), ChunkOf(c, id).size))
  BY DEF apply_pixel, Chunk, ShapeOf

LEMMA FilterPixelShape ==
    ASSUME NEW c, NEW pred, NEW id
    PROVE  ShapeOf(filter_pixel(c, pred, id), BandSize(c.nb, ChunkOf(c, id).size))
  BY DEF filter_pixel, Chunk, ShapeOf

LEMMA SelectBandsShape ==
    ASSUME NEW c, NEW bands, NEW id
    PROVE  ShapeOf(select_bands(c, bands, id), BandSize(Len(bands), ChunkOf(c, id).size))
  BY DEF select_bands, Chunk, ShapeOf

\* What has been read, by the kind of the operation.
LEMMA WhatIsRead ==
    ASSUME RInv, read # Nothing
    PROVE  /\ read.id \in ChunkIds(OutShape.n, OutShape.s)
           /\ op.kind = "reduce_time" => read.out = reduce_time(cube, op.reducer_bands, read.id)
           /\ op.kind = "reduce" => read.out = reduce(cube, op.reducer, read.id)
           /\ op.kind = "reduce_space" => read.out = reduce_space(cube, op.reducer_bands, read.id)
           /\ op.kind = "window_time" => read.out = window_time(cube, op, read.id)
           /\ op.kind = "fill_time" => read.out = fill_time(cube, op.method, read.id)
           /\ op.kind = "apply_pixel" => read.out = apply_pixel(cube, op.exprs, op.keep, read.id)
           /\ op.kind = "filter_pixel" => read.out = filter_pixel(cube, op, read.id)
           /\ op.kind = "select_bands" => read.out = select_bands(cube, op.bands, read.id)
           /\ op.kind = "join_bands" => read.out = join_bands(cube, other, read.id)
  BY DEF RInv, Returned

LEMMA ReduceSized ==
    ASSUME RInv, read # Nothing, op.kind \in {"reduce_time", "reduce"}
    PROVE  Sized(read.out, chunk_size(OutShape.n, OutShape.s, read.id))
<1> DEFINE id == read.id
           z == chunk_size(TimeShape(cube).n, TimeShape(cube).s, id)
<1>1. /\ OutShape = TimeShape(cube) /\ id \in ChunkIds(TimeShape(cube).n, TimeShape(cube).s)
      /\ cube \in Inputs
  BY DEF RInv, Returned, Inputs2, OutShape
<1>2. CASE cube.n.t = 1
  <2>1. read.out = ChunkOf(cube, id)
    BY <1>2, WhatIsRead DEF reduce_time, reduce
  <2>2. id \in ChunkIds(cube.n, cube.s) /\ z = chunk_size(cube.n, cube.s, id)
    BY <1>1, <1>2, OneSlice
  <2>3. Sized(ChunkOf(cube, id), chunk_size(cube.n, cube.s, id))
    BY <2>2, ChunkSized DEF RInv
  <2> QED BY <1>1, <2>1, <2>2, <2>3
<1>3. CASE cube.n.t # 1
  <2>1. z.t = 1
    <3>1. TimeShape(cube).n \in Sizes /\ TimeShape(cube).s \in Sizes /\ TimeShape(cube).n.t = 1
      BY <1>1, ShapesAre
    <3> DEFINE n == TimeShape(cube).n
               s == TimeShape(cube).s
               b == chunk_limits(n, s, id)
    <3>2. b.low.t \in 0..(n.t - 1) /\ b.high.t \in b.low.t..(n.t - 1)
      BY <1>1, <3>1, ChunkLimits
    <3>3. z.t = b.high.t - b.low.t + 1
      BY DEF chunk_size, SizeOf
    <3> HIDE DEF b, z
    <3> QED BY <3>1, <3>2, <3>3
  <2>2. /\ read.out.size = [b |-> read.out.size.b, t |-> 1, y |-> z.y, x |-> z.x]
        /\ DOMAIN read.out.buf = 0..(Volume(read.out.size) - 1)
    <3>1. CASE op.kind = "reduce_time"
      <4>1. ShapeOf(read.out, [b |-> Len(op.reducer_bands), t |-> 1, y |-> z.y, x |-> z.x])
        BY <1>3, <3>1, WhatIsRead, ReduceTimeShape
      <4> HIDE DEF z
      <4> QED BY <4>1 DEF ShapeOf
    <3>2. CASE op.kind = "reduce"
      <4>1. ShapeOf(read.out, [b |-> cube.nb, t |-> 1, y |-> z.y, x |-> z.x])
        BY <1>3, <3>2, WhatIsRead, ReduceShape
      <4> HIDE DEF z
      <4> QED BY <4>1 DEF ShapeOf
    <3> QED BY <3>1, <3>2
  <2> QED BY <1>1, <2>1, <2>2 DEF Sized, BandSize
<1> QED BY <1>2, <1>3

LEMMA ReduceSpaceSized ==
    ASSUME RInv, read # Nothing, op.kind = "reduce_space"
    PROVE  Sized(read.out, chunk_size(OutShape.n, OutShape.s, read.id))
<1> DEFINE id == read.id
           n == SpaceShape(cube).n
           s == SpaceShape(cube).s
           z == chunk_size(n, s, id)
<1>1. OutShape = SpaceShape(cube) /\ id \in ChunkIds(n, s) /\ cube \in Inputs
  BY DEF RInv, Returned, Inputs2, OutShape
<1>2. CASE cube.n.y = 1 /\ cube.n.x = 1
  <2>1. read.out = ChunkOf(cube, id)
    BY <1>2, WhatIsRead DEF reduce_space
  <2>2. id \in ChunkIds(cube.n, cube.s) /\ z = chunk_size(cube.n, cube.s, id)
    BY <1>1, <1>2, OneCell
  <2>3. Sized(ChunkOf(cube, id), chunk_size(cube.n, cube.s, id))
    BY <2>2, ChunkSized DEF RInv
  <2> QED BY <1>1, <2>1, <2>2, <2>3
<1>3. CASE ~ (cube.n.y = 1 /\ cube.n.x = 1)
  <2>1. z.y = 1 /\ z.x = 1
    <3>1. n \in Sizes /\ s \in Sizes /\ n.y = 1 /\ n.x = 1
      BY <1>1, ShapesAre
    <3> DEFINE b == chunk_limits(n, s, id)
    <3>2. /\ b.low.y \in 0..(n.y - 1) /\ b.high.y \in b.low.y..(n.y - 1)
          /\ b.low.x \in 0..(n.x - 1) /\ b.high.x \in b.low.x..(n.x - 1)
      BY <1>1, <3>1, ChunkLimits
    <3>3. z.y = b.high.y - b.low.y + 1 /\ z.x = b.high.x - b.low.x + 1
      BY DEF chunk_size, SizeOf
    <3> HIDE DEF b, z
    <3> QED BY <3>1, <3>2, <3>3
  <2>2. /\ read.out.size = [b |-> read.out.size.b, t |-> z.t, y |-> 1, x |-> 1]
        /\ DOMAIN read.out.buf = 0..(Volume(read.out.size) - 1)
    <3>1. ShapeOf(read.out, [b |-> Len(op.reducer_bands), t |-> z.t, y |-> 1, x |-> 1])
      BY <1>3, WhatIsRead, ReduceSpaceShape
    <3> HIDE DEF z
    <3> QED BY <3>1 DEF ShapeOf
  <2> QED BY <1>1, <2>1, <2>2 DEF Sized, BandSize
<1> QED BY <1>2, <1>3

LEMMA SeriesSized ==
    ASSUME RInv, read # Nothing, op.kind \in {"window_time", "fill_time", "join_bands"}
    PROVE  Sized(read.out, chunk_size(OutShape.n, OutShape.s, read.id))
<1> DEFINE id == read.id
           z == cube.sizes[id]
<1>1. OutShape.n = cube.n /\ OutShape.s = cube.s /\ id \in ChunkIds(cube.n, cube.s)
  BY DEF RInv, Returned, OutShape
<1>2. z = chunk_size(cube.n, cube.s, id)
  BY <1>1, InputIs DEF RInv, Inputs2
<1>3. /\ read.out.size = BandSize(read.out.size.b, z)
      /\ DOMAIN read.out.buf = 0..(Volume(read.out.size) - 1)
  <2>1. CASE op.kind = "window_time"
    <3>1. ShapeOf(read.out, BandSize(Len(op.bands), z))
      BY <2>1, WhatIsRead, WindowTimeShape
    <3> HIDE DEF z
    <3> QED BY <3>1 DEF ShapeOf, BandSize
  <2>2. CASE op.kind = "fill_time"
    <3>1. ShapeOf(read.out, BandSize(cube.nb, z))
      BY <2>2, WhatIsRead, FillTimeShape
    <3> HIDE DEF z
    <3> QED BY <3>1 DEF ShapeOf, BandSize
  <2>3. CASE op.kind = "join_bands"
    <3>1. ShapeOf(read.out, BandSize(cube.nb + other.nb, z))
      BY <2>3, WhatIsRead, JoinBandsShape
    <3> HIDE DEF z
    <3> QED BY <3>1 DEF ShapeOf, BandSize
  <2> QED BY <2>1, <2>2, <2>3
<1> QED BY <1>1, <1>2, <1>3 DEF Sized

LEMMA PixelSized ==
    ASSUME RInv, read # Nothing, op.kind \in {"apply_pixel", "filter_pixel", "select_bands"}
    PROVE  Sized(read.out, chunk_size(OutShape.n, OutShape.s, read.id))
<1> DEFINE id == read.id
           x == ChunkOf(cube, id)
<1>1. OutShape.n = cube.n /\ OutShape.s = cube.s /\ id \in ChunkIds(cube.n, cube.s)
  BY DEF RInv, Returned, OutShape
<1>2. cube.nb \in Nat
  BY InputIs DEF RInv, Inputs2
<1>3. \E nb \in Nat : /\ read.out.size = BandSize(nb, x.size)
                      /\ DOMAIN read.out.buf = 0..(Volume(read.out.size) - 1)
  <2>1. CASE op.kind = "apply_pixel"
    <3>1. Len(op.exprs) \in Nat
      BY <2>1, OperationsAssumption DEF RInv, Inputs2
    <3> DEFINE kept == IF op.keep THEN cube.nb ELSE 0
    <3>2. kept + Len(op.exprs) \in Nat
      BY <1>2, <3>1
    <3>3. read.out.size = BandSize(kept + Len(op.exprs), x.size)
      BY <2>1, WhatIsRead, ApplyPixelShape DEF ShapeOf
    <3>4. DOMAIN read.out.buf = 0..(Volume(read.out.size) - 1)
      BY <2>1, WhatIsRead, ApplyPixelShape DEF ShapeOf
    <3> QED BY <3>2, <3>3, <3>4
  <2>2. CASE op.kind = "filter_pixel"
    <3>1. read.out.size = BandSize(cube.nb, x.size)
      BY <2>2, WhatIsRead, FilterPixelShape DEF ShapeOf
    <3>2. DOMAIN read.out.buf = 0..(Volume(read.out.size) - 1)
      BY <2>2, WhatIsRead, FilterPixelShape DEF ShapeOf
    <3> QED BY <1>2, <3>1, <3>2
  <2>3. CASE op.kind = "select_bands"
    <3>1. Len(op.bands) \in Nat
      BY <2>3, OperationsAssumption DEF RInv, Inputs2
    <3>2. read.out.size = BandSize(Len(op.bands), x.size)
      BY <2>3, WhatIsRead, SelectBandsShape DEF ShapeOf
    <3>3. DOMAIN read.out.buf = 0..(Volume(read.out.size) - 1)
      BY <2>3, WhatIsRead, SelectBandsShape DEF ShapeOf
    <3> QED BY <3>1, <3>2, <3>3
  <2> QED BY <2>1, <2>2, <2>3
<1>4. PICK nb \in Nat : /\ read.out.size = BandSize(nb, x.size)
                        /\ DOMAIN read.out.buf = 0..(Volume(read.out.size) - 1)
  BY <1>3
<1> QED BY <1>1, <1>4, DerivedSized DEF RInv

\* A chunk read from an operation has the size of that chunk of the output cube, or no data
\* at all where the input has none, for every operation.
THEOREM TypeCorrect == Spec => []TypeOK
<1>1. ASSUME RInv, read # Nothing
      PROVE  Sized(read.out, chunk_size(OutShape.n, OutShape.s, read.id))
  <2>1. op.kind \in {"reduce_time", "reduce", "reduce_space", "window_time", "fill_time",
                     "join_bands", "apply_pixel", "filter_pixel", "select_bands"}
    BY <1>1 DEF RInv, Returned
  <2> QED BY <1>1, <2>1, ReduceSized, ReduceSpaceSized, SeriesSized, PixelSized
<1>2. RInv => TypeOK
  BY <1>1 DEF TypeOK, Sized
<1> QED BY <1>2, RInvariance, PTL

-------------------------------------------------------------------------------
\* Values of what is computed element by element.

LEMMA ApplyPixelValue ==
    ASSUME NEW c, NEW exprs, NEW keep, NEW id, NEW out, out = apply_pixel(c, exprs, keep, id),
           FullSize(out.size), NEW b \in 0..(out.size.b - 1), NEW t \in 0..(out.size.t - 1),
           NEW p \in 0..(out.size.y * out.size.x - 1)
    PROVE  LET x    == ChunkOf(c, id)
               kept == IF keep THEN c.nb ELSE 0
           IN  Value(out, b, t, p) =
                 IF b < kept THEN Value(x, b, t, p)
                 ELSE te_eval(exprs[b - kept + 1], [i \in 0..(c.nb - 1) |-> Value(x, i, t, p)],
                              PixelVariables(c.n, c.s, id, Place(x, t, p)))
<1> DEFINE x    == ChunkOf(c, id)
           kept == IF keep THEN c.nb ELSE 0
           w    == out.size
           k    == Index(w, b, t, p)
           F(e, h, q) ==
                 IF e < kept THEN Value(x, e, h, q)
                 ELSE te_eval(exprs[e - kept + 1], [i \in 0..(c.nb - 1) |-> Value(x, i, h, q)],
                              PixelVariables(c.n, c.s, id, Place(x, h, q)))
<1>1. out.buf = [j \in 0..(Volume(w) - 1) |->
                   F(j \div (w.t * w.y * w.x), (j \div (w.y * w.x)) % w.t, j % (w.y * w.x))]
  <2> DEFINE z == BandSize(kept + Len(exprs), x.size)
  <2>1. out = [size |-> z,
               buf  |-> [j \in 0..(Volume(z) - 1) |->
                           F(j \div (z.t * z.y * z.x), (j \div (z.y * z.x)) % z.t, j % (z.y * z.x))]]
    BY Zenon DEF apply_pixel, Chunk
  <2> HIDE DEF F, z
  <2>2. w = z
    BY <2>1
  <2> QED BY <2>1, <2>2
<1>2. Value(out, b, t, p) = out.buf[k]
  BY DEF Value, Index
<1>3. /\ k \in 0..(Volume(w) - 1) /\ k \div (w.t * w.y * w.x) = b
      /\ (k \div (w.y * w.x)) % w.t = t /\ k % (w.y * w.x) = p
  BY IndexIs
<1> HIDE DEF k, w, F
<1>4. out.buf[k] = F(b, t, p)
  BY <1>1, <1>3
<1> QED BY <1>2, <1>4 DEF F

LEMMA FilterPixelValue ==
    ASSUME NEW c, NEW pred, NEW id, NEW out, out = filter_pixel(c, pred, id),
           FullSize(out.size), NEW b \in 0..(out.size.b - 1), NEW t \in 0..(out.size.t - 1),
           NEW p \in 0..(out.size.y * out.size.x - 1)
    PROVE  LET x == ChunkOf(c, id)
           IN  Value(out, b, t, p) =
                 IF Holds(pred, [i \in 0..(c.nb - 1) |-> Value(x, i, t, p)])
                 THEN Value(x, b, t, p) ELSE NaN
<1> DEFINE x == ChunkOf(c, id)
           w == out.size
           k == Index(w, b, t, p)
           F(e, h, q) == IF Holds(pred, [i \in 0..(c.nb - 1) |-> Value(x, i, h, q)])
                         THEN Value(x, e, h, q) ELSE NaN
<1>1. out.buf = [j \in 0..(Volume(w) - 1) |->
                   F(j \div (w.t * w.y * w.x), (j \div (w.y * w.x)) % w.t, j % (w.y * w.x))]
  BY DEF filter_pixel, Chunk
<1>2. Value(out, b, t, p) = out.buf[k]
  BY DEF Value, Index
<1>3. /\ k \in 0..(Volume(w) - 1) /\ k \div (w.t * w.y * w.x) = b
      /\ (k \div (w.y * w.x)) % w.t = t /\ k % (w.y * w.x) = p
  BY IndexIs
<1> HIDE DEF k, w, F
<1>4. out.buf[k] = F(b, t, p)
  BY <1>1, <1>3
<1> QED BY <1>2, <1>4 DEF F

LEMMA SelectBandsValue ==
    ASSUME NEW c, NEW bands, NEW id, NEW out, out = select_bands(c, bands, id),
           FullSize(out.size), NEW b \in 0..(out.size.b - 1), NEW t \in 0..(out.size.t - 1),
           NEW p \in 0..(out.size.y * out.size.x - 1)
    PROVE  Value(out, b, t, p) = Value(ChunkOf(c, id), bands[b + 1], t, p)
<1> DEFINE x == ChunkOf(c, id)
           w == out.size
           k == Index(w, b, t, p)
           F(e, h, q) == Value(x, bands[e + 1], h, q)
<1>1. out.buf = [j \in 0..(Volume(w) - 1) |->
                   F(j \div (w.t * w.y * w.x), (j \div (w.y * w.x)) % w.t, j % (w.y * w.x))]
  BY DEF select_bands, Chunk
<1>2. Value(out, b, t, p) = out.buf[k]
  BY DEF Value, Index
<1>3. /\ k \in 0..(Volume(w) - 1) /\ k \div (w.t * w.y * w.x) = b
      /\ (k \div (w.y * w.x)) % w.t = t /\ k % (w.y * w.x) = p
  BY IndexIs
<1> HIDE DEF k, w, F
<1>4. out.buf[k] = F(b, t, p)
  BY <1>1, <1>3
<1> QED BY <1>2, <1>4 DEF F

\* An element of a chunk computed from a chunk of the input: the input has data there, and
\* both chunks have this element in the same cell.
LEMMA DerivedElement ==
    ASSUME RInv, read # Nothing, OutShape.n = cube.n, OutShape.s = cube.s,
           NEW nb \in Nat, read.out.size = BandSize(nb, ChunkOf(cube, read.id).size),
           NEW b \in 0..(read.out.size.b - 1), NEW t \in 0..(read.out.size.t - 1),
           NEW p \in 0..(read.out.size.y * read.out.size.x - 1)
    PROVE  LET x == ChunkOf(cube, read.id)
               z == chunk_size(cube.n, cube.s, read.id)
           IN  /\ read.id \in ChunkIds(cube.n, cube.s) /\ cube.n \in Sizes /\ cube.s \in Sizes
               /\ FullSize(read.out.size) /\ b \in 0..(nb - 1)
               /\ Place(x, t, p) = ElementOf(z, t, p)
               /\ Place(x, t, p) \in Elements(cube.n, cube.s, read.id)
               /\ OutCell(t, p) = ElementCell(cube.n, cube.s, read.id, ElementOf(z, t, p))
               /\ \A i \in 0..(cube.nb - 1) : Value(x, i, t, p) = cube.data[i][OutCell(t, p)]
<1> DEFINE id == read.id
           x  == ChunkOf(cube, id)
           z  == chunk_size(cube.n, cube.s, id)
<1>1. cube \in Inputs /\ id \in ChunkIds(cube.n, cube.s)
  BY DEF RInv, Inputs2, Returned
<1>2. cube.n \in Sizes /\ cube.s \in Sizes
  BY <1>1, InputIs
<1>3. /\ read.out.size.b = nb /\ read.out.size.t = x.size.t
      /\ read.out.size.y = x.size.y /\ read.out.size.x = x.size.x
  BY DEF BandSize
<1>4. id \notin cube.empty
  <2>1. SUFFICES ASSUME id \in cube.empty PROVE FALSE
    OBVIOUS
  <2>2. x.size.t = 0
    BY <1>1, <2>1, NoChunk
  <2> QED BY <1>3, <2>2
<1>5. /\ FullSize(x.size) /\ x.size.t = z.t /\ x.size.y = z.y /\ x.size.x = z.x
      /\ \A i \in 0..(cube.nb - 1), h \in 0..(z.t - 1), q \in 0..(z.y * z.x - 1) :
            Value(x, i, h, q) = cube.data[i][ElementCell(cube.n, cube.s, id, ElementOf(z, h, q))]
  BY <1>1, <1>4, FullChunk
<1>6. t \in 0..(z.t - 1) /\ p \in 0..(z.y * z.x - 1) /\ b \in 0..(nb - 1)
  BY <1>3, <1>5
<1>7. FullSize(read.out.size)
  BY <1>3, <1>5, <1>6 DEF FullSize
<1>8. ElementOf(z, t, p) \in Elements(cube.n, cube.s, id)
  BY <1>1, <1>2, <1>6, ElementInside
<1>9. Place(x, t, p) = ElementOf(z, t, p) /\ Place(read.out, t, p) = ElementOf(z, t, p)
  BY <1>3, <1>5 DEF Place, ElementOf
<1>10. OutCell(t, p) = ElementCell(cube.n, cube.s, id, ElementOf(z, t, p))
  BY <1>9 DEF OutCell
<1> HIDE DEF x, z
<1> QED BY <1>1, <1>2, <1>5, <1>6, <1>7, <1>8, <1>9, <1>10 DEF x, z

LEMMA FilterAgrees ==
    ASSUME RInv, read # Nothing, op.kind = "filter_pixel",
           NEW b \in 0..(read.out.size.b - 1), NEW t \in 0..(read.out.size.t - 1),
           NEW p \in 0..(read.out.size.y * read.out.size.x - 1)
    PROVE  Value(read.out, b, t, p) =
                IF /\ cube.data[op.band][OutCell(t, p)] # NaN
                   /\ cube.data[op.band][OutCell(t, p)] > op.limit
                THEN cube.data[b][OutCell(t, p)] ELSE NaN
<1> DEFINE x == ChunkOf(cube, read.id)
           values == [i \in 0..(cube.nb - 1) |-> Value(x, i, t, p)]
<1>1. read.out = filter_pixel(cube, op, read.id) /\ OutShape.n = cube.n /\ OutShape.s = cube.s
  BY WhatIsRead DEF OutShape
<1>2. cube.nb \in Nat /\ op.band \in 0..(cube.nb - 1)
  BY InputIs, OperationsAssumption DEF RInv, Inputs2
<1>3. read.out.size = BandSize(cube.nb, x.size)
  BY <1>1, FilterPixelShape DEF ShapeOf
<1>4. /\ FullSize(read.out.size) /\ b \in 0..(cube.nb - 1)
      /\ \A i \in 0..(cube.nb - 1) : Value(x, i, t, p) = cube.data[i][OutCell(t, p)]
  BY <1>1, <1>2, <1>3, DerivedElement
<1>5. Value(read.out, b, t, p) = IF Holds(op, values) THEN Value(x, b, t, p) ELSE NaN
  BY <1>1, <1>4, FilterPixelValue
<1>6. values[op.band] = cube.data[op.band][OutCell(t, p)]
  BY <1>2, <1>4
<1> HIDE DEF values, x
<1> QED BY <1>4, <1>5, <1>6 DEF Holds

LEMMA SelectAgrees ==
    ASSUME RInv, read # Nothing, op.kind = "select_bands",
           NEW b \in 0..(read.out.size.b - 1), NEW t \in 0..(read.out.size.t - 1),
           NEW p \in 0..(read.out.size.y * read.out.size.x - 1)
    PROVE  Value(read.out, b, t, p) = cube.data[op.bands[b + 1]][OutCell(t, p)]
<1> DEFINE x == ChunkOf(cube, read.id)
<1>1. read.out = select_bands(cube, op.bands, read.id) /\ OutShape.n = cube.n /\ OutShape.s = cube.s
  BY WhatIsRead DEF OutShape
<1>2. op.bands \in Seq(op.uses) /\ op.uses \subseteq 0..(cube.nb - 1)
  BY OperationsAssumption DEF RInv, Inputs2
<1>3. read.out.size = BandSize(Len(op.bands), x.size) /\ Len(op.bands) \in Nat
  BY <1>1, <1>2, SelectBandsShape DEF ShapeOf
<1>4. /\ FullSize(read.out.size) /\ b \in 0..(Len(op.bands) - 1)
      /\ \A i \in 0..(cube.nb - 1) : Value(x, i, t, p) = cube.data[i][OutCell(t, p)]
  BY <1>1, <1>3, DerivedElement
<1>5. Value(read.out, b, t, p) = Value(x, op.bands[b + 1], t, p)
  BY <1>1, <1>4, SelectBandsValue
<1>6. op.bands[b + 1] \in 0..(cube.nb - 1)
  BY <1>2, <1>4
<1> HIDE DEF x
<1> QED BY <1>4, <1>5, <1>6

LEMMA ApplyAgrees ==
    ASSUME RInv, read # Nothing, op.kind = "apply_pixel",
           NEW b \in 0..(read.out.size.b - 1), NEW t \in 0..(read.out.size.t - 1),
           NEW p \in 0..(read.out.size.y * read.out.size.x - 1)
    PROVE  LET v    == Value(read.out, b, t, p)
               cell == OutCell(t, p)
               kept == IF op.keep THEN cube.nb ELSE 0
           IN  IF b < kept THEN v = cube.data[b][cell]
               ELSE /\ v.bands = [i \in op.exprs[b - kept + 1].bands |-> cube.data[i][cell]]
                    /\ v.variables = [i \in op.exprs[b - kept + 1].vars |->
                            <<cell.t, cube.n.y - 1 - cell.y, cell.x>>[i]]
<1> DEFINE id   == read.id
           x    == ChunkOf(cube, id)
           z    == chunk_size(cube.n, cube.s, id)
           v    == Value(read.out, b, t, p)
           cell == OutCell(t, p)
           kept == IF op.keep THEN cube.nb ELSE 0
           e    == op.exprs[b - kept + 1]
           values == [i \in 0..(cube.nb - 1) |-> Value(x, i, t, p)]
           el   == Place(x, t, p)
<1>1. /\ read.out = apply_pixel(cube, op.exprs, op.keep, id)
      /\ OutShape.n = cube.n /\ OutShape.s = cube.s
  BY WhatIsRead DEF OutShape
<1>2. /\ cube.nb \in Nat /\ op.uses \subseteq 0..(cube.nb - 1)
      /\ op.exprs \in Seq([bands : SUBSET op.uses, vars : SUBSET (1..3)])
  BY InputIs, OperationsAssumption DEF RInv, Inputs2
<1>3. /\ read.out.size = BandSize(kept + Len(op.exprs), x.size) /\ kept + Len(op.exprs) \in Nat
      /\ kept \in Nat /\ Len(op.exprs) \in Nat
  BY <1>1, <1>2, ApplyPixelShape DEF ShapeOf
<1>4. /\ id \in ChunkIds(cube.n, cube.s) /\ cube.n \in Sizes /\ cube.s \in Sizes
      /\ FullSize(read.out.size) /\ b \in 0..(kept + Len(op.exprs) - 1)
      /\ el = ElementOf(z, t, p) /\ el \in Elements(cube.n, cube.s, id)
      /\ cell = ElementCell(cube.n, cube.s, id, ElementOf(z, t, p))
      /\ \A i \in 0..(cube.nb - 1) : Value(x, i, t, p) = cube.data[i][cell]
  <2>1. PICK m \in Nat : m = kept + Len(op.exprs)
    BY <1>3
  <2>2. read.out.size = BandSize(m, ChunkOf(cube, read.id).size)
    BY <1>3, <2>1
  <2>3. /\ id \in ChunkIds(cube.n, cube.s) /\ cube.n \in Sizes /\ cube.s \in Sizes
        /\ FullSize(read.out.size) /\ b \in 0..(m - 1)
        /\ el = ElementOf(z, t, p) /\ el \in Elements(cube.n, cube.s, id)
        /\ cell = ElementCell(cube.n, cube.s, id, ElementOf(z, t, p))
        /\ \A i \in 0..(cube.nb - 1) : Value(x, i, t, p) = cube.data[i][cell]
    BY <1>1, <2>2, DerivedElement
  <2> HIDE DEF id, el, cell, x, z, kept
  <2>4. b \in 0..(kept + Len(op.exprs) - 1)
    BY <1>3, <2>1, <2>3
  <2> QED BY <2>3, <2>4
<1>5. v = IF b < kept THEN Value(x, b, t, p)
          ELSE te_eval(e, values, PixelVariables(cube.n, cube.s, id, el))
  BY <1>1, <1>4, ApplyPixelValue
<1>6. PixelVariables(cube.n, cube.s, id, el) = <<cell.t, cube.n.y - 1 - cell.y, cell.x>>
  <2> DEFINE l == chunk_limits(cube.n, cube.s, id)
  <2>1. cell = [t |-> l.low.t + el.t, y |-> l.high.y - el.row, x |-> l.low.x + el.col]
    BY <1>4, ElementLimits
  <2>2. PixelVariables(cube.n, cube.s, id, el) =
            <<l.low.t + el.t, cube.n.y - 1 - (l.high.y - el.row), l.low.x + el.col>>
    BY DEF PixelVariables
  <2> HIDE DEF l, el, cell
  <2> QED BY <2>1, <2>2
<1>7. CASE b < kept
  <2>1. b \in 0..(cube.nb - 1)
    BY <1>2, <1>4, <1>7
  <2> HIDE DEF v, cell, x
  <2>2. v = Value(x, b, t, p)
    BY <1>5, <1>7
  <2> QED BY <1>4, <1>7, <2>1, <2>2 DEF v, cell
<1>8. CASE ~ (b < kept)
  <2>1. b - kept + 1 \in 1..Len(op.exprs)
    BY <1>2, <1>4, <1>8
  <2>2. e \in [bands : SUBSET op.uses, vars : SUBSET (1..3)]
    <3> DEFINE S == [bands : SUBSET op.uses, vars : SUBSET (1..3)]
               j == b - kept + 1
    <3>1. op.exprs \in Seq(S) /\ j \in 1..Len(op.exprs)
      BY <1>2, <2>1
    <3> HIDE DEF S, j
    <3>2. op.exprs[j] \in S
      BY <3>1
    <3> QED BY <3>2 DEF S, j
  <2>3. e.bands \subseteq 0..(cube.nb - 1) /\ e.vars \subseteq 1..3
    BY <1>2, <2>2
  <2>4. v = te_eval(e, values, <<cell.t, cube.n.y - 1 - cell.y, cell.x>>)
    BY <1>5, <1>6, <1>8
  <2> HIDE DEF v, cell, e, kept, x
  <2>5. v.bands = [i \in e.bands |-> values[i]]
    BY <2>4 DEF te_eval
  <2>6. \A i \in e.bands : values[i] = cube.data[i][cell]
    BY <1>4, <2>3
  <2>7. v.bands = [i \in e.bands |-> cube.data[i][cell]]
    BY <2>5, <2>6
  <2>8. v.variables = [i \in e.vars |-> <<cell.t, cube.n.y - 1 - cell.y, cell.x>>[i]]
    BY <2>4 DEF te_eval
  <2> QED BY <1>8, <2>7, <2>8 DEF v, cell, e, kept
<1> QED BY <1>7, <1>8

\* The second buffer begins where the first one ends.
LEMMA IndexAfter ==
    ASSUME NEW z, NEW m \in Nat, z.t \in Nat, z.y \in Nat, z.x \in Nat, NEW b \in Nat, m <= b,
           NEW t \in Nat, NEW p \in Nat, NEW w
    PROVE  Index(z, b, t, p) = Volume(BandSize(m, z)) + Index(w, b - m, t, p)
              \/ w.t # z.t \/ w.y # z.y \/ w.x # z.x
<1> SUFFICES ASSUME w.t = z.t, w.y = z.y, w.x = z.x
             PROVE  Index(z, b, t, p) = Volume(BandSize(m, z)) + Index(w, b - m, t, p)
  OBVIOUS
<1>1. b * z.t * z.y * z.x = m * z.t * z.y * z.x + (b - m) * z.t * z.y * z.x
  <2>1. \A i, j, k, h, l \in Nat : j <= i =>
            i * k * h * l = j * k * h * l + (i - j) * k * h * l
    <3>1. SUFFICES ASSUME NEW i \in Nat, NEW j \in Nat, NEW k \in Nat, NEW h \in Nat, NEW l \in Nat,
                          j <= i
                   PROVE  i * k * h * l = j * k * h * l + (i - j) * k * h * l
      OBVIOUS
    <3>2. i - j \in Nat /\ i = j + (i - j)
      BY <3>1
    <3> DEFINE d == i - j
    <3> HIDE DEF d
    <3>3. (j + d) * k * h * l = j * k * h * l + d * k * h * l
      <4>1. d \in Nat
        BY <3>2 DEF d
      <4> QED BY <4>1, SMT
    <3> QED BY <3>2, <3>3 DEF d
  <2> QED BY <2>1
<1>2. Volume(BandSize(m, z)) = m * z.t * z.y * z.x
  BY DEF Volume, BandSize
<1>3. /\ b * z.t * z.y * z.x \in Nat /\ m * z.t * z.y * z.x \in Nat
      /\ (b - m) * z.t * z.y * z.x \in Nat /\ t * z.y * z.x \in Nat
  <2>1. b - m \in Nat
    OBVIOUS
  <2>2. \A i, j, k, h \in Nat : i * j * k * h \in Nat /\ i * j * k \in Nat
    BY SMT
  <2> QED BY <2>1, <2>2
<1> QED BY <1>1, <1>2, <1>3 DEF Index

LEMMA JoinAgrees ==
    ASSUME RInv, read # Nothing, op.kind = "join_bands", read.id \notin cube.empty,
           NEW b \in 0..(read.out.size.b - 1), NEW t \in 0..(read.out.size.t - 1),
           NEW p \in 0..(read.out.size.y * read.out.size.x - 1)
    PROVE  Value(read.out, b, t, p) =
                IF b < cube.nb THEN cube.data[b][OutCell(t, p)]
                ELSE other.data[b - cube.nb][OutCell(t, p)]
<1> DEFINE id  == read.id
           out == read.out
           z   == chunk_size(cube.n, cube.s, id)
           fst == ChunkOf(cube, id)
           snd == ChunkOf(other, id)
           w   == out.size
           k   == Index(w, b, t, p)
           V   == Volume(fst.size)
           j   == k - V
           cell == ElementCell(cube.n, cube.s, id, ElementOf(z, t, p))
<1>1. /\ out = join_bands(cube, other, id) /\ id \in ChunkIds(cube.n, cube.s)
      /\ OutShape.n = cube.n /\ OutShape.s = cube.s
  BY WhatIsRead DEF OutShape
<1>2. /\ cube \in Inputs /\ other \in Inputs /\ other.n = cube.n /\ other.s = cube.s
  BY DEF RInv, Inputs2
<1>3. /\ cube.nb \in Nat \ {0} /\ other.nb \in Nat \ {0} /\ cube.sizes[id] = z
      /\ cube.n \in Sizes /\ cube.s \in Sizes
  BY <1>1, <1>2, InputIs
<1>4. z.t \in Nat \ {0} /\ z.y \in Nat \ {0} /\ z.x \in Nat \ {0}
  BY <1>1, <1>3, ChunkSizePositive
<1>5. /\ w = BandSize(cube.nb + other.nb, z)
      /\ out.buf = [i \in 0..(Volume(w) - 1) |->
                        IF i < V THEN fst.buf[i]
                        ELSE IF i - V < Volume(snd.size) THEN snd.buf[i - V] ELSE NaN]
  BY <1>1, <1>3 DEF join_bands
<1>6. /\ w.b = cube.nb + other.nb /\ w.t = z.t /\ w.y = z.y /\ w.x = z.x
  BY <1>5 DEF BandSize
<1>7. /\ b \in 0..(cube.nb + other.nb - 1) /\ t \in 0..(z.t - 1) /\ p \in 0..(z.y * z.x - 1)
  <2>1. b \in 0..(w.b - 1) /\ t \in 0..(w.t - 1) /\ p \in 0..(w.y * w.x - 1)
    OBVIOUS
  <2> HIDE DEF w, z
  <2>2. w.y * w.x = z.y * z.x /\ w.b = cube.nb + other.nb /\ w.t = z.t
    BY <1>6
  <2>3. b \in 0..(cube.nb + other.nb - 1)
    BY <1>3, <2>1, <2>2
  <2>4. t \in 0..(z.t - 1)
    BY <2>1, <2>2
  <2>5. p \in 0..(z.y * z.x - 1)
    BY <2>1, <2>2, Zenon
  <2> QED BY <2>3, <2>4, <2>5
<1>8. FullSize(w)
  BY <1>3, <1>4, <1>6 DEF FullSize
<1>9. k \in 0..(Volume(w) - 1) /\ out.buf[k] = Value(out, b, t, p)
  BY <1>8, IndexIs DEF Value, Index
<1>10. OutCell(t, p) = cell
  BY <1>1, <1>6 DEF OutCell, Place, ElementOf
<1>11. /\ fst.size = BandSize(cube.nb, z) /\ FullSize(fst.size) /\ fst.size.b = cube.nb
       /\ fst.size.t = z.t /\ fst.size.y = z.y /\ fst.size.x = z.x
       /\ \A bb \in 0..(cube.nb - 1), tt \in 0..(z.t - 1), pp \in 0..(z.y * z.x - 1) :
            Value(fst, bb, tt, pp) = cube.data[bb][ElementCell(cube.n, cube.s, id, ElementOf(z, tt, pp))]
  BY <1>1, <1>2, FullChunk
<1>12. V \in Nat /\ Volume(w) \in Nat
  <2>1. \A i, l, m, h \in Nat : i * l * m * h \in Nat
    BY SMT
  <2> QED BY <2>1, <1>8, <1>11 DEF Volume, FullSize
<1> HIDE DEF out, z, fst, snd, w, V
<1>13. CASE b < cube.nb
  <2>1. b \in 0..(fst.size.b - 1) /\ b \in 0..(cube.nb - 1)
    BY <1>3, <1>7, <1>11, <1>13
  <2>2. Index(fst.size, b, t, p) = k /\ fst.buf[k] = Value(fst, b, t, p)
    BY <1>6, <1>11 DEF Index, Value
  <2>3. Index(fst.size, b, t, p) \in 0..(Volume(fst.size) - 1)
    BY <1>7, <1>11, <2>1, IndexIs
  <2> HIDE DEF k
  <2>4. k < V
    BY <1>12, <2>2, <2>3 DEF V
  <2>5. out.buf[k] = fst.buf[k]
    BY <1>5, <1>9, <2>4
  <2>6. Value(fst, b, t, p) = cube.data[b][cell]
    BY <1>7, <1>11, <2>1
  <2> QED BY <1>9, <1>10, <1>13, <2>2, <2>5, <2>6 DEF out
<1>14. CASE ~ (b < cube.nb)
  <2> DEFINE r == b - cube.nb
             y == BandSize(other.nb, z)
  <2>1. r \in 0..(other.nb - 1) /\ cube.nb <= b /\ b \in Nat /\ r \in Nat
    BY <1>3, <1>7, <1>14
  <2>2. y.b = other.nb /\ y.t = z.t /\ y.y = z.y /\ y.x = z.x
    BY DEF BandSize
  <2>3. FullSize(y)
    BY <1>3, <1>4, <2>2 DEF FullSize
  <2> HIDE DEF r, y
  <2>4. Index(y, r, t, p) \in 0..(Volume(y) - 1)
    BY <1>7, <2>1, <2>2, <2>3, IndexIs
  <2>5. k = V + Index(y, r, t, p)
    <3>1. BandSize(cube.nb, w) = fst.size
      BY <1>6, <1>11 DEF BandSize
    <3>2. t \in Nat /\ p \in Nat /\ cube.nb \in Nat
      BY <1>3, <1>7
    <3>3. w.t \in Nat /\ w.y \in Nat /\ w.x \in Nat
      BY <1>4, <1>6
    <3>4. Index(w, b, t, p) = Volume(BandSize(cube.nb, w)) + Index(y, r, t, p)
      BY <1>6, <2>1, <2>2, <3>2, <3>3, IndexAfter DEF r
    <3> QED BY <3>1, <3>4 DEF V
  <2> HIDE DEF k
  <2>6. Index(y, r, t, p) \in Int /\ ~ (k < V) /\ k - V = Index(y, r, t, p)
    BY <1>12, <2>4, <2>5
  <2>7. out.buf[k] = IF Index(y, r, t, p) < Volume(snd.size) THEN snd.buf[Index(y, r, t, p)] ELSE NaN
    BY <1>5, <1>9, <2>6
  <2>8. CASE id \in other.empty
    <3>1. /\ Volume(snd.size) = 0
          /\ \A bb \in 0..(other.nb - 1), tt \in 0..(z.t - 1), pp \in 0..(z.y * z.x - 1) :
                other.data[bb][ElementCell(cube.n, cube.s, id, ElementOf(z, tt, pp))] = NaN
      BY <1>2, <2>8, NoChunk DEF snd, z
    <3>2. out.buf[k] = NaN
      BY <2>4, <2>7, <3>1
    <3>3. other.data[r][cell] = NaN
      BY <1>7, <2>1, <3>1
    <3> QED BY <1>9, <1>10, <1>14, <3>2, <3>3 DEF r, out
  <2>9. CASE id \notin other.empty
    <3>1. /\ snd.size = y
          /\ \A bb \in 0..(other.nb - 1), tt \in 0..(z.t - 1), pp \in 0..(z.y * z.x - 1) :
                Value(snd, bb, tt, pp) = other.data[bb][ElementCell(cube.n, cube.s, id, ElementOf(z, tt, pp))]
      BY <1>1, <1>2, <2>9, FullChunk DEF snd, z, y
    <3>2. Volume(y) \in Nat
      <4>1. \A i, l, m, h \in Nat : i * l * m * h \in Nat
        BY SMT
      <4> QED BY <4>1, <2>3 DEF Volume, FullSize
    <3>3. out.buf[k] = snd.buf[Index(y, r, t, p)]
      BY <2>4, <2>7, <3>1, <3>2
    <3>4. snd.buf[Index(y, r, t, p)] = Value(snd, r, t, p)
      BY <3>1 DEF Value, Index
    <3>5. Value(snd, r, t, p) = other.data[r][cell]
      BY <1>7, <2>1, <3>1
    <3> QED BY <1>9, <1>10, <1>14, <3>3, <3>4, <3>5 DEF r, out
  <2> QED BY <2>8, <2>9
<1> QED BY <1>13, <1>14

\* Every element of what apply_pixel, filter_pixel, select_bands and join_bands return is
\* determined by the values of its own cell: expressions see its bands and its position,
\* filters keep or blank all of its bands, selected and joined bands keep their values.
THEOREM BandsCorrect == Spec => []BandsAgree
<1>1. ASSUME RInv PROVE BandsAgree
  <2>1. ASSUME read # Nothing, op.kind = "apply_pixel"
        PROVE  EachElement(LAMBDA b, cell, v :
                LET kept == IF op.keep THEN cube.nb ELSE 0
                IN  IF b < kept THEN v = cube.data[b][cell]
                    ELSE /\ v.bands = [i \in op.exprs[b - kept + 1].bands |-> cube.data[i][cell]]
                         /\ v.variables = [i \in op.exprs[b - kept + 1].vars |->
                                <<cell.t, cube.n.y - 1 - cell.y, cell.x>>[i]])
    BY <1>1, <2>1, ApplyAgrees DEF EachElement
  <2>2. ASSUME read # Nothing, op.kind = "filter_pixel"
        PROVE  EachElement(LAMBDA b, cell, v :
                v = IF cube.data[op.band][cell] # NaN /\ cube.data[op.band][cell] > op.limit
                    THEN cube.data[b][cell] ELSE NaN)
    BY <1>1, <2>2, FilterAgrees DEF EachElement
  <2>3. ASSUME read # Nothing, op.kind = "select_bands"
        PROVE  EachElement(LAMBDA b, cell, v : v = cube.data[op.bands[b + 1]][cell])
    BY <1>1, <2>3, SelectAgrees DEF EachElement
  <2>4. ASSUME read # Nothing, op.kind = "join_bands", read.id \notin cube.empty
        PROVE  EachElement(LAMBDA b, cell, v :
                v = IF b < cube.nb THEN cube.data[b][cell] ELSE other.data[b - cube.nb][cell])
    BY <1>1, <2>4, JoinAgrees DEF EachElement
  <2> QED BY <2>1, <2>2, <2>3, <2>4 DEF BandsAgree, EachElement
<1> QED BY <1>1, RInvariance, PTL

-------------------------------------------------------------------------------
\* Operations that stream: calls, threads and files.

\* Where a thread may be.
Stages == {"Idle", "Lock", "SetId", "SetIn", "SetOut", "Spawn", "Child", "Abandon", "Collect"}

\* The files of all calls, and environments that name them.
FileNames == Calls \X {"in", "out"}

Environments == [id : SUBSET op.ids, in : SUBSET FileNames, out : SUBSET FileNames]

StreamTypes ==
    /\ pc \in [Threads -> Stages]
    /\ call \in [Threads -> Calls \cup {Nothing}]
    /\ env \in Environments /\ child \in [Threads -> Environments]
    /\ files = [f \in FileNames |-> files[f]]
    /\ result = [k \in Calls |-> result[k]]
    /\ \A t \in Threads : pc[t] # "Idle" => call[t] \in Calls

\* No two threads work on the same call.
Distinct ==
    \A t, u \in Threads : pc[t] # "Idle" /\ pc[u] # "Idle" /\ t # u => call[t] # call[u]

\* Threads with a pipe never wait for a mutex and name no files.
PipesUnlocked ==
    \A t \in Threads : pc[t] \in {"Lock", "SetIn", "SetOut"} => call[t].o # "pipe"

\* A static mutex admits one thread.
Exclusive ==
    \A t, u \in Threads :
        InCritical(t) /\ InCritical(u) /\ call[t].o = call[u].o /\ call[t].o # "pipe" => t = u

\* At most one operator uses files: then one mutex guards the names of files.
OneMutex == Cardinality(op.operators \ {"pipe"}) <= 1

OwnNames ==
    \A t \in Threads : pc[t] # "Idle" /\ call[t].o # "pipe" =>
        /\ pc[t] \in {"SetOut", "Spawn"} => env.in = {<<call[t], "in">>}
        /\ pc[t] = "Spawn" => env.out = {<<call[t], "out">>}
        /\ pc[t] = "Child" => /\ child[t].in = {<<call[t], "in">>}
                              /\ child[t].out = {<<call[t], "out">>}

\* What is in the files of a call, and what the call returned, comes from its input.
OwnFiles ==
    \A k \in Calls : files[<<k, "in">>] \subseteq {Input(k)} /\ files[<<k, "out">>] \subseteq {Input(k)}

OwnResults ==
    \A k \in Calls :
        \/ result[k] \in {Open, Failed, Input(k)}
        \/ result[k] = EmptyChunk /\ k.o \in {"stream", "pipe"} /\ Volume(Input(k).size) = 0

\* With one operator, which uses files, its mutex guards the chunk id too.
OneOperator == Cardinality(op.operators) = 1 /\ op.operators # {"pipe"}

OwnIds ==
    \A t \in Threads :
        /\ pc[t] \in {"SetIn", "SetOut", "Spawn"} => env.id = {call[t].id}
        /\ pc[t] = "Child" => child[t].id = {call[t].id}

StreamInv ==
    op.kind = "stream" =>
        /\ StreamTypes /\ Distinct /\ PipesUnlocked /\ Exclusive
        /\ OneMutex => OwnNames /\ OwnFiles /\ OwnResults
        /\ OneOperator => OwnIds

\* Cubes and operations stay what they are, and all that is defined by them.
LEMMA Fixed ==
    ASSUME UNCHANGED vars
    PROVE  /\ op' = op /\ cube' = cube /\ Calls' = Calls /\ FileNames' = FileNames
           /\ Environments' = Environments
           /\ OneMutex' = OneMutex /\ OneOperator' = OneOperator
           /\ \A k : Input(k)' = Input(k)
<1>1. op' = op /\ cube' = cube
  BY DEF vars
<1>2. Calls' = Calls
  BY <1>1 DEF Calls
<1>3. FileNames' = FileNames
  BY <1>2 DEF FileNames
<1>4. Environments' = Environments
  BY <1>1, <1>3 DEF Environments
<1>5. ASSUME NEW k PROVE Input(k)' = Input(k)
  BY <1>1 DEF Input
<1> QED BY <1>1, <1>2, <1>3, <1>4, <1>5 DEF OneMutex, OneOperator

LEMMA CallIs ==
    ASSUME Inputs2, op.kind = "stream", NEW k \in Calls
    PROVE  /\ k.o \in op.operators /\ k.id \in op.ids
           /\ k.o \in {"stream", "apply", "reduce", "pipe"}
           /\ k.o = "reduce" => k.id \in ChunkIds(TimeShape(cube).n, TimeShape(cube).s)
           /\ k.o # "reduce" => k.id \in ChunkIds(cube.n, cube.s)
<1>1. k \in [o : op.operators, id : op.ids]
  BY DEF Calls
<1>2. op.operators \subseteq {"stream", "apply", "reduce", "pipe"}
  BY OperationsAssumption DEF Inputs2
<1>3. k.id \in IF k.o = "reduce" THEN ChunkIds(TimeShape(cube).n, TimeShape(cube).s)
               ELSE ChunkIds(cube.n, cube.s)
  BY DEF Calls
<1> QED BY <1>1, <1>2, <1>3

\* A set of operators with at most one member has no two.
LEMMA AtMostOne ==
    ASSUME NEW S, IsFiniteSet(S), Cardinality(S) <= 1, NEW a \in S, NEW b \in S
    PROVE  a = b
<1>1. Cardinality(S) \in Nat
  BY FS_CardinalityType
<1>2. Cardinality(S) # 0
  BY FS_EmptySet
<1>3. \E x : S = {x}
  BY <1>1, <1>2, FS_Singleton
<1> QED BY <1>3

LEMMA FiniteOperators ==
    ASSUME Inputs2, op.kind = "stream"
    PROVE  IsFiniteSet(op.operators)
<1>1. op.operators \subseteq {"stream", "apply", "reduce", "pipe"}
  BY OperationsAssumption DEF Inputs2
<1>2. IsFiniteSet({"stream", "apply", "reduce", "pipe"})
  <2>1. IsFiniteSet({"stream"})
    BY FS_Singleton
  <2>2. IsFiniteSet({"stream"} \cup {"apply"})
    BY <2>1, FS_AddElement
  <2>3. IsFiniteSet({"stream"} \cup {"apply"} \cup {"reduce"})
    BY <2>2, FS_AddElement
  <2>4. IsFiniteSet({"stream"} \cup {"apply"} \cup {"reduce"} \cup {"pipe"})
    BY <2>3, FS_AddElement
  <2>5. {"stream"} \cup {"apply"} \cup {"reduce"} \cup {"pipe"} = {"stream", "apply", "reduce", "pipe"}
    OBVIOUS
  <2> QED BY <2>4, <2>5
<1> QED BY <1>1, <1>2, FS_Subset

LEMMA FewOperators ==
    ASSUME Inputs2, op.kind = "stream", OneMutex, NEW k \in Calls, NEW j \in Calls,
           k.o # "pipe", j.o # "pipe"
    PROVE  k.o = j.o
<1> DEFINE S == op.operators \ {"pipe"}
<1>3. IsFiniteSet(S)
  BY FiniteOperators, FS_Subset
<1>4. k.o \in S /\ j.o \in S
  BY CallIs
<1>5. Cardinality(S) <= 1
  BY DEF OneMutex
<1> HIDE DEF S
<1> QED BY <1>3, <1>4, <1>5, AtMostOne

LEMMA TheOperator ==
    ASSUME Inputs2, op.kind = "stream", OneOperator, NEW k \in Calls, NEW j \in Calls
    PROVE  k.o = j.o /\ k.o # "pipe"
<1>2. PICK x : op.operators = {x}
  BY FiniteOperators, FS_Singleton DEF OneOperator
<1>3. k.o \in op.operators /\ j.o \in op.operators
  BY CallIs
<1> QED BY <1>2, <1>3 DEF OneOperator

\* A thread that goes on with its call.
LEMMA Advance ==
    ASSUME Inputs2, op.kind = "stream", StreamTypes, Distinct, PipesUnlocked, Exclusive,
           UNCHANGED <<vars, call>>,
           NEW t \in Threads, pc[t] # "Idle", NEW x \in Stages, pc' = [pc EXCEPT ![t] = x],
           x \in {"SetId", "SetIn", "SetOut", "Spawn"} => InCritical(t) \/ ~MutexHeld(call[t].o),
           x \in {"Lock", "SetIn", "SetOut"} => call[t].o # "pipe"
    PROVE  /\ pc' \in [Threads -> Stages] /\ call' \in [Threads -> Calls' \cup {Nothing}]
           /\ \A u \in Threads : pc'[u] # "Idle" => call'[u] \in Calls'
           /\ Distinct' /\ PipesUnlocked' /\ Exclusive'
           /\ \A u \in Threads : u # t => pc'[u] = pc[u]
           /\ pc'[t] = x
<1>1. call' = call /\ Calls' = Calls
  BY Fixed
<1>2. pc \in [Threads -> Stages] /\ call \in [Threads -> Calls \cup {Nothing}]
  BY DEF StreamTypes, Stages
<1>3. /\ pc' \in [Threads -> Stages] /\ pc'[t] = x
      /\ \A u \in Threads : u # t => pc'[u] = pc[u]
  BY <1>2
<1>4. \A u \in Threads : pc'[u] # "Idle" => pc[u] # "Idle"
  BY <1>3
<1>5. \A u \in Threads : pc'[u] # "Idle" => call'[u] \in Calls'
  BY <1>1, <1>4 DEF StreamTypes
<1>6. Distinct'
  BY <1>1, <1>4 DEF Distinct
<1>7. PipesUnlocked'
  BY <1>1, <1>3 DEF PipesUnlocked
<1>8. Exclusive'
  <2>1. SUFFICES ASSUME NEW u \in Threads, NEW w \in Threads, InCritical(u)', InCritical(w)',
                        call[u].o = call[w].o, call[u].o # "pipe"
                 PROVE  u = w
    BY <1>1 DEF Exclusive
  <2>2. \A v \in Threads : v # t => (InCritical(v)' <=> InCritical(v))
    BY <1>3 DEF InCritical
  <2>3. InCritical(t)' => InCritical(t) \/ ~MutexHeld(call[t].o)
    BY <1>3 DEF InCritical
  <2> QED BY <2>1, <2>2, <2>3 DEF Exclusive, MutexHeld
<1> QED BY <1>1, <1>2, <1>3, <1>5, <1>6, <1>7, <1>8

\* Steps that set no variable and start no process.
LEMMA NamesKept ==
    ASSUME UNCHANGED <<env, child>>,
           \A u \in Threads : pc'[u] \in {"SetIn", "SetOut", "Spawn", "Child"} =>
                pc'[u] = pc[u] /\ call'[u] = call[u]
    PROVE  (OwnNames => OwnNames') /\ (OwnIds => OwnIds')
<1>1. OwnNames => OwnNames'
  BY DEF OwnNames
<1>2. OwnIds => OwnIds'
  BY DEF OwnIds
<1> QED BY <1>1, <1>2

LEMMA FilesKept ==
    ASSUME UNCHANGED <<vars, files>>
    PROVE  OwnFiles => OwnFiles'
<1>1. Calls' = Calls /\ \A k : Input(k)' = Input(k)
  BY Fixed
<1>2. SUFFICES ASSUME OwnFiles, NEW k \in Calls
               PROVE  files[<<k, "in">>] \subseteq {Input(k)'} /\ files[<<k, "out">>] \subseteq {Input(k)'}
  BY <1>1 DEF OwnFiles
<1> QED BY <1>1, <1>2 DEF OwnFiles

\* Only the result of call k is new.
LEMMA ResultsKept ==
    ASSUME UNCHANGED vars, NEW k, \A j \in Calls : j # k => result'[j] = result[j],
           k \in Calls =>
                \/ result'[k] \in {result[k], Open, Failed, Input(k)}
                \/ result'[k] = EmptyChunk /\ k.o \in {"stream", "pipe"} /\ Volume(Input(k).size) = 0
    PROVE  OwnResults => OwnResults'
<1>1. Calls' = Calls /\ \A j : Input(j)' = Input(j)
  BY Fixed
<1>2. EmptyChunk' = EmptyChunk /\ \A j : Volume(Input(j).size)' = Volume(Input(j).size)
  BY <1>1 DEF EmptyChunk, Volume
<1>3. SUFFICES ASSUME OwnResults, NEW j \in Calls
               PROVE  \/ result'[j] \in {Open, Failed, Input(j)}
                      \/ result'[j] = EmptyChunk /\ j.o \in {"stream", "pipe"} /\ Volume(Input(j).size) = 0
  BY <1>1, <1>2 DEF OwnResults
<1> QED BY <1>3 DEF OwnResults

\* The parts of the invariant, for a step.
LEMMA NextParts ==
    ASSUME UNCHANGED vars, StreamTypes', Distinct', PipesUnlocked', Exclusive',
           OneMutex => OwnNames' /\ OwnFiles' /\ OwnResults', OneOperator => OwnIds'
    PROVE  StreamInv'
<1>1. op' = op /\ OneMutex' = OneMutex /\ OneOperator' = OneOperator
  BY Fixed
<1> QED BY <1>1 DEF StreamInv

LEMMA TypesKept ==
    ASSUME StreamTypes, UNCHANGED vars,
           pc' \in [Threads -> Stages], call' \in [Threads -> Calls' \cup {Nothing}],
           \A u \in Threads : pc'[u] # "Idle" => call'[u] \in Calls',
           env' \in Environments, child' \in [Threads -> Environments],
           files' = [f \in FileNames |-> files'[f]], result' = [k \in Calls |-> result'[k]]
    PROVE  StreamTypes'
<1>1. Calls' = Calls /\ FileNames' = FileNames /\ Environments' = Environments
  BY Fixed
<1> QED BY <1>1 DEF StreamTypes, Stages

LEMMA BeginStep ==
    ASSUME Inputs2, op.kind = "stream", StreamInv, NEW t \in Threads, Begin(t), UNCHANGED vars
    PROVE  StreamInv'
<1>1. PICK k \in Calls \ Begun :
        /\ pc[t] = "Idle" /\ call' = [call EXCEPT ![t] = k]
        /\ ReturnEmpty(k) \/ InputFails(k) \/ WriteInput(t, k)
        /\ UNCHANGED <<env, child>>
  BY DEF Begin
<1>2. /\ StreamTypes /\ Distinct /\ PipesUnlocked /\ Exclusive
      /\ OneMutex => OwnNames /\ OwnFiles /\ OwnResults
      /\ OneOperator => OwnIds
  BY DEF StreamInv
<1>3. Calls' = Calls /\ \A j : Input(j)' = Input(j)
  BY Fixed
<1>4. /\ pc \in [Threads -> Stages] /\ call \in [Threads -> Calls \cup {Nothing}]
      /\ files = [f \in FileNames |-> files[f]] /\ result = [j \in Calls |-> result[j]]
  BY <1>2 DEF StreamTypes, Stages
<1>5. /\ call' \in [Threads -> Calls' \cup {Nothing}] /\ call'[t] = k
      /\ \A u \in Threads : u # t => call'[u] = call[u]
  BY <1>1, <1>3, <1>4
<1>6. /\ pc' \in [Threads -> Stages] /\ pc'[t] \in {"Idle", "Lock", "SetId"}
      /\ pc'[t] = "Lock" => k.o # "pipe"
      /\ pc'[t] = "SetId" => k.o = "pipe"
      /\ \A u \in Threads : u # t => pc'[u] = pc[u]
  <2>1. CASE ReturnEmpty(k) \/ InputFails(k)
    BY <1>1, <1>4, <2>1 DEF ReturnEmpty, InputFails
  <2>2. CASE WriteInput(t, k)
    BY <1>1, <1>4, <2>2 DEF WriteInput, Go, Stages
  <2> QED BY <1>1, <2>1, <2>2
<1>7. files' = [f \in FileNames |-> files'[f]] /\ result' = [j \in Calls |-> result'[j]]
  BY <1>1, <1>4 DEF ReturnEmpty, InputFails, WriteInput
<1>8. \A u \in Threads : pc'[u] # "Idle" => call'[u] \in Calls'
  BY <1>1, <1>2, <1>3, <1>5, <1>6 DEF StreamTypes
<1>9. StreamTypes'
  <2>1. env' \in Environments /\ child' \in [Threads -> Environments]
    BY <1>1, <1>2 DEF StreamTypes
  <2> QED BY <1>2, <1>5, <1>6, <1>7, <1>8, <2>1, TypesKept
<1>10. Distinct'
  <2>1. \A u \in Threads : pc[u] # "Idle" => call[u] # k
    BY <1>1 DEF Begun
  <2> QED BY <1>2, <1>5, <1>6, <2>1 DEF Distinct
<1>11. PipesUnlocked'
  BY <1>2, <1>5, <1>6 DEF PipesUnlocked
<1>12. Exclusive'
  <2>1. \A u \in Threads : u # t => (InCritical(u)' <=> InCritical(u))
    BY <1>6 DEF InCritical
  <2>2. InCritical(t)' => k.o = "pipe"
    BY <1>6 DEF InCritical
  <2> QED BY <1>2, <1>5, <2>1, <2>2 DEF Exclusive
<1>13. (OwnNames => OwnNames') /\ (OwnIds => OwnIds')
  BY <1>1, <1>5, <1>6, NamesKept
<1>14. OwnFiles => OwnFiles'
  <2>1. CASE files' = files
    BY <2>1, FilesKept
  <2>2. CASE files' # files
    <3>1. files' = [files EXCEPT ![<<k, "in">>] = {Input(k)}]
      BY <1>1, <2>2 DEF ReturnEmpty, InputFails, WriteInput
    <3>2. SUFFICES ASSUME OwnFiles, NEW j \in Calls
                   PROVE  files'[<<j, "in">>] \subseteq {Input(j)} /\ files'[<<j, "out">>] \subseteq {Input(j)}
      BY <1>3 DEF OwnFiles
    <3>3. <<j, "in">> \in FileNames /\ <<j, "out">> \in FileNames
      BY DEF FileNames
    <3>4. files'[<<j, "out">>] = files[<<j, "out">>]
      BY <1>4, <3>1, <3>3
    <3>5. files'[<<j, "in">>] = IF j = k THEN {Input(k)} ELSE files[<<j, "in">>]
      BY <1>4, <3>1, <3>3
    <3> QED BY <3>2, <3>4, <3>5 DEF OwnFiles
  <2> QED BY <2>1, <2>2
<1>15. OwnResults => OwnResults'
  <2>1. \A j \in Calls : j # k => result'[j] = result[j]
    BY <1>1, <1>4 DEF ReturnEmpty, InputFails, WriteInput
  <2>2. \/ result'[k] \in {result[k], Open, Failed, Input(k)}
        \/ result'[k] = EmptyChunk /\ k.o \in {"stream", "pipe"} /\ Volume(Input(k).size) = 0
    <3>1. CASE ReturnEmpty(k)
      <4>1. result'[k] = EmptyChunk
        BY <1>4, <3>1 DEF ReturnEmpty
      <4> QED BY <3>1, <4>1 DEF ReturnEmpty
    <3>2. CASE InputFails(k)
      BY <1>4, <3>2 DEF InputFails
    <3>3. CASE WriteInput(t, k)
      BY <3>3 DEF WriteInput
    <3> QED BY <1>1, <3>1, <3>2, <3>3
  <2> QED BY <2>1, <2>2, ResultsKept
<1> QED BY <1>2, <1>9, <1>10, <1>11, <1>12, <1>13, <1>14, <1>15, NextParts

LEMMA LockStep ==
    ASSUME Inputs2, op.kind = "stream", StreamInv, NEW t \in Threads, Lock(t), UNCHANGED vars
    PROVE  StreamInv'
<1>1. /\ StreamTypes /\ Distinct /\ PipesUnlocked /\ Exclusive
      /\ OneMutex => OwnNames /\ OwnFiles /\ OwnResults
      /\ OneOperator => OwnIds
  BY DEF StreamInv
<1>2. /\ pc[t] = "Lock" /\ pc' = [pc EXCEPT ![t] = "SetId"] /\ ~MutexHeld(call[t].o)
      /\ UNCHANGED <<call, env, files, child, result>>
  BY DEF Lock, Go
<1>3. /\ pc' \in [Threads -> Stages] /\ call' \in [Threads -> Calls' \cup {Nothing}]
      /\ \A u \in Threads : pc'[u] # "Idle" => call'[u] \in Calls'
      /\ Distinct' /\ PipesUnlocked' /\ Exclusive'
      /\ \A u \in Threads : u # t => pc'[u] = pc[u]
      /\ pc'[t] = "SetId"
  BY <1>1, <1>2, Advance DEF Stages
<1>4. StreamTypes'
  BY <1>1, <1>2, <1>3, TypesKept DEF StreamTypes
<1>5. (OwnNames => OwnNames') /\ (OwnIds => OwnIds')
  BY <1>2, <1>3, NamesKept
<1>6. OwnFiles => OwnFiles'
  BY <1>2, FilesKept
<1>7. OwnResults => OwnResults'
  BY <1>2, ResultsKept
<1> QED BY <1>1, <1>3, <1>4, <1>5, <1>6, <1>7, NextParts

LEMMA SetIdStep ==
    ASSUME Inputs2, op.kind = "stream", StreamInv, NEW t \in Threads, SetId(t), UNCHANGED vars
    PROVE  StreamInv'
<1> DEFINE x == IF call[t].o = "pipe" THEN "Spawn" ELSE "SetIn"
<1>1. /\ StreamTypes /\ Distinct /\ PipesUnlocked /\ Exclusive
      /\ OneMutex => OwnNames /\ OwnFiles /\ OwnResults
      /\ OneOperator => OwnIds
  BY DEF StreamInv
<1>2. /\ pc[t] = "SetId" /\ pc' = [pc EXCEPT ![t] = x] /\ env' = [env EXCEPT !.id = {call[t].id}]
      /\ UNCHANGED <<call, files, child, result>>
  BY DEF SetId, Go
<1>3. /\ pc' \in [Threads -> Stages] /\ call' \in [Threads -> Calls' \cup {Nothing}]
      /\ \A u \in Threads : pc'[u] # "Idle" => call'[u] \in Calls'
      /\ Distinct' /\ PipesUnlocked' /\ Exclusive'
      /\ \A u \in Threads : u # t => pc'[u] = pc[u]
      /\ pc'[t] = x
  <2>1. x \in Stages /\ InCritical(t) /\ (x \in {"Lock", "SetIn", "SetOut"} => call[t].o # "pipe")
    BY <1>2 DEF Stages, InCritical
  <2> HIDE DEF x
  <2> QED BY <1>1, <1>2, <2>1, Advance
<1>4. call[t] \in Calls
  BY <1>1, <1>2 DEF StreamTypes
<1>5. env' \in Environments /\ env'.id = {call[t].id} /\ env'.in = env.in /\ env'.out = env.out
  <2>1. call[t].id \in op.ids
    BY <1>4, CallIs
  <2>2. env \in Environments
    BY <1>1 DEF StreamTypes
  <2> QED BY <1>2, <2>1, <2>2 DEF Environments
<1>6. StreamTypes'
  BY <1>1, <1>2, <1>3, <1>5, TypesKept DEF StreamTypes
<1>7. OwnNames => OwnNames'
  <2>1. SUFFICES ASSUME OwnNames, NEW u \in Threads, pc'[u] # "Idle", call[u].o # "pipe"
                 PROVE  /\ pc'[u] \in {"SetOut", "Spawn"} => env.in = {<<call[u], "in">>}
                        /\ pc'[u] = "Spawn" => env.out = {<<call[u], "out">>}
                        /\ pc'[u] = "Child" => /\ child[u].in = {<<call[u], "in">>}
                                               /\ child[u].out = {<<call[u], "out">>}
    BY <1>2, <1>5 DEF OwnNames
  <2>2. CASE u = t
    BY <1>3, <2>1, <2>2
  <2>3. CASE u # t
    BY <1>3, <2>1, <2>3 DEF OwnNames
  <2> QED BY <2>2, <2>3
<1>8. OneOperator => OwnIds'
  <2>1. SUFFICES ASSUME OneOperator, OwnIds, NEW u \in Threads
                 PROVE  /\ pc'[u] \in {"SetIn", "SetOut", "Spawn"} => {call[t].id} = {call[u].id}
                        /\ pc'[u] = "Child" => child[u].id = {call[u].id}
    BY <1>1, <1>2, <1>5 DEF OwnIds
  <2>2. CASE u = t
    BY <1>3, <2>2
  <2>3. CASE u # t
    <3>1. pc'[u] = pc[u]
      BY <1>3, <2>3
    <3>2. ~ (pc[u] \in {"SetIn", "SetOut", "Spawn"})
      <4>1. SUFFICES ASSUME pc[u] \in {"SetIn", "SetOut", "Spawn"} PROVE FALSE
        OBVIOUS
      <4>2. call[u] \in Calls
        BY <1>1, <4>1 DEF StreamTypes
      <4>3. call[u].o = call[t].o /\ call[t].o # "pipe"
        BY <1>4, <2>1, <4>2, TheOperator
      <4>4. InCritical(u) /\ InCritical(t)
        BY <1>2, <4>1 DEF InCritical
      <4> QED BY <1>1, <2>3, <4>3, <4>4 DEF Exclusive
    <3> QED BY <2>1, <3>1, <3>2 DEF OwnIds
  <2> QED BY <2>2, <2>3
<1>9. OwnFiles => OwnFiles'
  BY <1>2, FilesKept
<1>10. OwnResults => OwnResults'
  BY <1>2, ResultsKept
<1> QED BY <1>1, <1>3, <1>6, <1>7, <1>8, <1>9, <1>10, NextParts

\* Another thread with files is not in the critical section.
LEMMA Alone ==
    ASSUME Inputs2, op.kind = "stream", OneMutex, StreamTypes, Exclusive,
           NEW t \in Threads, InCritical(t), call[t].o # "pipe",
           NEW u \in Threads, u # t, call[u].o # "pipe"
    PROVE  ~InCritical(u)
<1>1. SUFFICES ASSUME InCritical(u) PROVE FALSE
  OBVIOUS
<1>2. call[t] \in Calls /\ call[u] \in Calls
  BY <1>1 DEF StreamTypes, InCritical
<1>3. call[t].o = call[u].o
  BY <1>2, FewOperators
<1> QED BY <1>1, <1>3 DEF Exclusive

LEMMA SetInStep ==
    ASSUME Inputs2, op.kind = "stream", StreamInv, NEW t \in Threads, SetIn(t), UNCHANGED vars
    PROVE  StreamInv'
<1>1. /\ StreamTypes /\ Distinct /\ PipesUnlocked /\ Exclusive
      /\ OneMutex => OwnNames /\ OwnFiles /\ OwnResults
      /\ OneOperator => OwnIds
  BY DEF StreamInv
<1>2. /\ pc[t] = "SetIn" /\ pc' = [pc EXCEPT ![t] = "SetOut"]
      /\ env' = [env EXCEPT !.in = {<<call[t], "in">>}]
      /\ UNCHANGED <<call, files, child, result>>
  BY DEF SetIn, Go
<1>3. InCritical(t) /\ call[t].o # "pipe" /\ call[t] \in Calls
  BY <1>1, <1>2 DEF PipesUnlocked, StreamTypes, InCritical
<1>4. /\ pc' \in [Threads -> Stages] /\ call' \in [Threads -> Calls' \cup {Nothing}]
      /\ \A u \in Threads : pc'[u] # "Idle" => call'[u] \in Calls'
      /\ Distinct' /\ PipesUnlocked' /\ Exclusive'
      /\ \A u \in Threads : u # t => pc'[u] = pc[u]
      /\ pc'[t] = "SetOut"
  BY <1>1, <1>2, <1>3, Advance DEF Stages
<1>5. /\ env' \in Environments /\ env'.in = {<<call[t], "in">>} /\ env'.id = env.id
      /\ env'.out = env.out
  <2>1. <<call[t], "in">> \in FileNames
    BY <1>3 DEF FileNames
  <2>2. env \in Environments
    BY <1>1 DEF StreamTypes
  <2> QED BY <1>2, <2>1, <2>2 DEF Environments
<1>6. StreamTypes'
  BY <1>1, <1>2, <1>4, <1>5, TypesKept DEF StreamTypes
<1>7. OneMutex => OwnNames'
  <2>1. SUFFICES ASSUME OneMutex, OwnNames, NEW u \in Threads, pc'[u] # "Idle", call[u].o # "pipe"
                 PROVE  /\ pc'[u] \in {"SetOut", "Spawn"} => {<<call[t], "in">>} = {<<call[u], "in">>}
                        /\ pc'[u] = "Spawn" => env.out = {<<call[u], "out">>}
                        /\ pc'[u] = "Child" => /\ child[u].in = {<<call[u], "in">>}
                                               /\ child[u].out = {<<call[u], "out">>}
    BY <1>1, <1>2, <1>5 DEF OwnNames
  <2>2. CASE u = t
    BY <1>4, <2>2
  <2>3. CASE u # t
    <3>1. ~InCritical(u)
      BY <1>1, <1>3, <2>1, <2>3, Alone
    <3> QED BY <1>4, <2>1, <2>3, <3>1 DEF OwnNames, InCritical
  <2> QED BY <2>2, <2>3
<1>8. OwnIds => OwnIds'
  <2>1. SUFFICES ASSUME OwnIds, NEW u \in Threads
                 PROVE  /\ pc'[u] \in {"SetIn", "SetOut", "Spawn"} => env.id = {call[u].id}
                        /\ pc'[u] = "Child" => child[u].id = {call[u].id}
    BY <1>2, <1>5 DEF OwnIds
  <2>2. CASE u = t
    BY <1>2, <1>4, <2>1, <2>2 DEF OwnIds
  <2>3. CASE u # t
    BY <1>4, <2>1, <2>3 DEF OwnIds
  <2> QED BY <2>2, <2>3
<1>9. OwnFiles => OwnFiles'
  BY <1>2, FilesKept
<1>10. OwnResults => OwnResults'
  BY <1>2, ResultsKept
<1> QED BY <1>1, <1>4, <1>6, <1>7, <1>8, <1>9, <1>10, NextParts

LEMMA SetOutStep ==
    ASSUME Inputs2, op.kind = "stream", StreamInv, NEW t \in Threads, SetOut(t), UNCHANGED vars
    PROVE  StreamInv'
<1>1. /\ StreamTypes /\ Distinct /\ PipesUnlocked /\ Exclusive
      /\ OneMutex => OwnNames /\ OwnFiles /\ OwnResults
      /\ OneOperator => OwnIds
  BY DEF StreamInv
<1>2. /\ pc[t] = "SetOut" /\ pc' = [pc EXCEPT ![t] = "Spawn"]
      /\ env' = [env EXCEPT !.out = {<<call[t], "out">>}]
      /\ UNCHANGED <<call, files, child, result>>
  BY DEF SetOut, Go
<1>3. InCritical(t) /\ call[t].o # "pipe" /\ call[t] \in Calls
  BY <1>1, <1>2 DEF PipesUnlocked, StreamTypes, InCritical
<1>4. /\ pc' \in [Threads -> Stages] /\ call' \in [Threads -> Calls' \cup {Nothing}]
      /\ \A u \in Threads : pc'[u] # "Idle" => call'[u] \in Calls'
      /\ Distinct' /\ PipesUnlocked' /\ Exclusive'
      /\ \A u \in Threads : u # t => pc'[u] = pc[u]
      /\ pc'[t] = "Spawn"
  BY <1>1, <1>2, <1>3, Advance DEF Stages
<1>5. /\ env' \in Environments /\ env'.out = {<<call[t], "out">>} /\ env'.id = env.id
      /\ env'.in = env.in
  <2>1. <<call[t], "out">> \in FileNames
    BY <1>3 DEF FileNames
  <2>2. env \in Environments
    BY <1>1 DEF StreamTypes
  <2> QED BY <1>2, <2>1, <2>2 DEF Environments
<1>6. StreamTypes'
  BY <1>1, <1>2, <1>4, <1>5, TypesKept DEF StreamTypes
<1>7. OneMutex => OwnNames'
  <2>1. SUFFICES ASSUME OneMutex, OwnNames, NEW u \in Threads, pc'[u] # "Idle", call[u].o # "pipe"
                 PROVE  /\ pc'[u] \in {"SetOut", "Spawn"} => env.in = {<<call[u], "in">>}
                        /\ pc'[u] = "Spawn" => {<<call[t], "out">>} = {<<call[u], "out">>}
                        /\ pc'[u] = "Child" => /\ child[u].in = {<<call[u], "in">>}
                                               /\ child[u].out = {<<call[u], "out">>}
    BY <1>1, <1>2, <1>5 DEF OwnNames
  <2>2. CASE u = t
    BY <1>2, <1>4, <2>1, <2>2 DEF OwnNames
  <2>3. CASE u # t
    <3>1. ~InCritical(u)
      BY <1>1, <1>3, <2>1, <2>3, Alone
    <3> QED BY <1>4, <2>1, <2>3, <3>1 DEF OwnNames, InCritical
  <2> QED BY <2>2, <2>3
<1>8. OwnIds => OwnIds'
  <2>1. SUFFICES ASSUME OwnIds, NEW u \in Threads
                 PROVE  /\ pc'[u] \in {"SetIn", "SetOut", "Spawn"} => env.id = {call[u].id}
                        /\ pc'[u] = "Child" => child[u].id = {call[u].id}
    BY <1>2, <1>5 DEF OwnIds
  <2>2. CASE u = t
    BY <1>2, <1>4, <2>1, <2>2 DEF OwnIds
  <2>3. CASE u # t
    BY <1>4, <2>1, <2>3 DEF OwnIds
  <2> QED BY <2>2, <2>3
<1>9. OwnFiles => OwnFiles'
  BY <1>2, FilesKept
<1>10. OwnResults => OwnResults'
  BY <1>2, ResultsKept
<1> QED BY <1>1, <1>4, <1>6, <1>7, <1>8, <1>9, <1>10, NextParts

LEMMA SpawnStep ==
    ASSUME Inputs2, op.kind = "stream", StreamInv, NEW t \in Threads, Spawn(t), UNCHANGED vars
    PROVE  StreamInv'
<1>1. /\ StreamTypes /\ Distinct /\ PipesUnlocked /\ Exclusive
      /\ OneMutex => OwnNames /\ OwnFiles /\ OwnResults
      /\ OneOperator => OwnIds
  BY DEF StreamInv
<1>2. /\ pc[t] = "Spawn" /\ pc' = [pc EXCEPT ![t] = "Child"] /\ child' = [child EXCEPT ![t] = env]
      /\ UNCHANGED <<call, env, files, result>>
  BY DEF Spawn, Go
<1>3. /\ pc' \in [Threads -> Stages] /\ call' \in [Threads -> Calls' \cup {Nothing}]
      /\ \A u \in Threads : pc'[u] # "Idle" => call'[u] \in Calls'
      /\ Distinct' /\ PipesUnlocked' /\ Exclusive'
      /\ \A u \in Threads : u # t => pc'[u] = pc[u]
      /\ pc'[t] = "Child"
  BY <1>1, <1>2, Advance DEF Stages
<1>4. /\ child' \in [Threads -> Environments] /\ child'[t] = env
      /\ \A u \in Threads : u # t => child'[u] = child[u]
  BY <1>1, <1>2 DEF StreamTypes
<1>5. StreamTypes'
  BY <1>1, <1>2, <1>3, <1>4, TypesKept DEF StreamTypes
<1>6. OwnNames => OwnNames'
  <2>1. SUFFICES ASSUME OwnNames, NEW u \in Threads, pc'[u] # "Idle", call[u].o # "pipe"
                 PROVE  /\ pc'[u] \in {"SetOut", "Spawn"} => env.in = {<<call[u], "in">>}
                        /\ pc'[u] = "Spawn" => env.out = {<<call[u], "out">>}
                        /\ pc'[u] = "Child" => /\ child'[u].in = {<<call[u], "in">>}
                                               /\ child'[u].out = {<<call[u], "out">>}
    BY <1>2 DEF OwnNames
  <2>2. CASE u = t
    BY <1>2, <1>3, <1>4, <2>1, <2>2 DEF OwnNames
  <2>3. CASE u # t
    BY <1>3, <1>4, <2>1, <2>3 DEF OwnNames
  <2> QED BY <2>2, <2>3
<1>7. OwnIds => OwnIds'
  <2>1. SUFFICES ASSUME OwnIds, NEW u \in Threads
                 PROVE  /\ pc'[u] \in {"SetIn", "SetOut", "Spawn"} => env.id = {call[u].id}
                        /\ pc'[u] = "Child" => child'[u].id = {call[u].id}
    BY <1>2 DEF OwnIds
  <2>2. CASE u = t
    BY <1>2, <1>3, <1>4, <2>1, <2>2 DEF OwnIds
  <2>3. CASE u # t
    BY <1>3, <1>4, <2>1, <2>3 DEF OwnIds
  <2> QED BY <2>2, <2>3
<1>8. OwnFiles => OwnFiles'
  BY <1>2, FilesKept
<1>9. OwnResults => OwnResults'
  BY <1>2, ResultsKept
<1> QED BY <1>1, <1>3, <1>5, <1>6, <1>7, <1>8, <1>9, NextParts

LEMMA ChildEndsStep ==
    ASSUME Inputs2, op.kind = "stream", StreamInv, NEW t \in Threads, ChildEnds(t), UNCHANGED vars
    PROVE  StreamInv'
<1> DEFINE k  == call[t]
           in == IF k.o = "pipe" THEN {Input(k)} ELSE UNION {files[f] : f \in child[t].in}
<1>1. /\ StreamTypes /\ Distinct /\ PipesUnlocked /\ Exclusive
      /\ OneMutex => OwnNames /\ OwnFiles /\ OwnResults
      /\ OneOperator => OwnIds
  BY DEF StreamInv
<1>2. PICK ok \in BOOLEAN :
        /\ pc[t] = "Child" /\ pc' = [pc EXCEPT ![t] = IF ok THEN "Collect" ELSE "Abandon"]
        /\ files' = [f \in DOMAIN files |->
                        IF ok /\ k.o # "pipe" /\ f \in child[t].out THEN in ELSE files[f]]
        /\ UNCHANGED <<call, env, child, result>>
  BY DEF ChildEnds, Go
<1> DEFINE x == IF ok THEN "Collect" ELSE "Abandon"
<1>3. /\ pc' \in [Threads -> Stages] /\ call' \in [Threads -> Calls' \cup {Nothing}]
      /\ \A u \in Threads : pc'[u] # "Idle" => call'[u] \in Calls'
      /\ Distinct' /\ PipesUnlocked' /\ Exclusive'
      /\ \A u \in Threads : u # t => pc'[u] = pc[u]
      /\ pc'[t] = x
  <2>1. x \in Stages /\ x \notin {"Lock", "SetId", "SetIn", "SetOut", "Spawn"}
    BY DEF Stages
  <2>2. pc' = [pc EXCEPT ![t] = x]
    BY <1>2
  <2> HIDE DEF x
  <2> QED BY <1>1, <1>2, <2>1, <2>2, Advance
<1>4. k \in Calls /\ DOMAIN files = FileNames
  BY <1>1, <1>2 DEF StreamTypes
<1> HIDE DEF in
<1>5. files' = [f \in FileNames |-> files'[f]]
  BY <1>2, <1>4
<1>6. StreamTypes'
  BY <1>1, <1>2, <1>3, <1>5, TypesKept DEF StreamTypes
<1>7. (OwnNames => OwnNames') /\ (OwnIds => OwnIds')
  BY <1>2, <1>3, NamesKept
<1>8. OwnNames /\ OwnFiles => OwnFiles'
  <2>1. Calls' = Calls /\ \A j : Input(j)' = Input(j)
    BY Fixed
  <2>2. SUFFICES ASSUME OwnNames, OwnFiles, NEW j \in Calls, NEW d \in {"in", "out"}
                 PROVE  files'[<<j, d>>] \subseteq {Input(j)}
    BY <2>1 DEF OwnFiles
  <2>3. <<j, d>> \in FileNames /\ files[<<j, d>>] \subseteq {Input(j)}
    BY <2>2 DEF FileNames, OwnFiles
  <2>4. CASE ok /\ k.o # "pipe" /\ <<j, d>> \in child[t].out
    <3>1. child[t].in = {<<k, "in">>} /\ child[t].out = {<<k, "out">>}
      BY <1>2, <2>2, <2>4 DEF OwnNames
    <3>2. j = k
      BY <2>4, <3>1
    <3>3. files'[<<j, d>>] = in
      BY <1>2, <1>4, <2>3, <2>4
    <3>4. in = files[<<k, "in">>]
      BY <2>4, <3>1 DEF in
    <3>5. files[<<k, "in">>] \subseteq {Input(k)}
      BY <1>4, <2>2 DEF OwnFiles
    <3> QED BY <3>2, <3>3, <3>4, <3>5
  <2>5. CASE ~ (ok /\ k.o # "pipe" /\ <<j, d>> \in child[t].out)
    <3>1. files'[<<j, d>>] = files[<<j, d>>]
      BY <1>2, <1>4, <2>3, <2>5
    <3> QED BY <2>3, <3>1
  <2> QED BY <2>4, <2>5
<1>9. OwnResults => OwnResults'
  BY <1>2, ResultsKept
<1> QED BY <1>1, <1>3, <1>6, <1>7, <1>8, <1>9, NextParts

\* Both ends of a call: its files are removed and its result is set.
LEMMA EndStep ==
    ASSUME Inputs2, op.kind = "stream", StreamInv, NEW t \in Threads, UNCHANGED vars,
           pc[t] \in {"Abandon", "Collect"}, pc' = [pc EXCEPT ![t] = "Idle"],
           files' = IF call[t].o = "pipe" THEN files
                    ELSE [files EXCEPT ![<<call[t], "in">>] = {}, ![<<call[t], "out">>] = {}],
           NEW r, result' = [result EXCEPT ![call[t]] = r],
           OneMutex => r \in {Failed, Input(call[t])},
           UNCHANGED <<call, env, child>>
    PROVE  StreamInv'
<1> DEFINE k == call[t]
<1>1. /\ StreamTypes /\ Distinct /\ PipesUnlocked /\ Exclusive
      /\ OneMutex => OwnNames /\ OwnFiles /\ OwnResults
      /\ OneOperator => OwnIds
  BY DEF StreamInv
<1>2. /\ pc' \in [Threads -> Stages] /\ call' \in [Threads -> Calls' \cup {Nothing}]
      /\ \A u \in Threads : pc'[u] # "Idle" => call'[u] \in Calls'
      /\ Distinct' /\ PipesUnlocked' /\ Exclusive'
      /\ \A u \in Threads : u # t => pc'[u] = pc[u]
      /\ pc'[t] = "Idle"
  <2>1. "Idle" \in Stages /\ pc[t] # "Idle"
    BY DEF Stages
  <2> QED BY <1>1, <2>1, Advance
<1>3. /\ k \in Calls /\ files = [f \in FileNames |-> files[f]] /\ result = [j \in Calls |-> result[j]]
  BY <1>1 DEF StreamTypes
<1>4. files' = [f \in FileNames |-> files'[f]] /\ result' = [j \in Calls |-> result'[j]]
  BY <1>3
<1>5. StreamTypes'
  BY <1>1, <1>2, <1>4, TypesKept DEF StreamTypes
<1>6. (OwnNames => OwnNames') /\ (OwnIds => OwnIds')
  BY <1>2, NamesKept
<1>7. OwnFiles => OwnFiles'
  <2>1. Calls' = Calls /\ \A j : Input(j)' = Input(j)
    BY Fixed
  <2>2. SUFFICES ASSUME OwnFiles, NEW j \in Calls, NEW d \in {"in", "out"}
                 PROVE  files'[<<j, d>>] \subseteq {Input(j)}
    BY <2>1 DEF OwnFiles
  <2>3. <<j, d>> \in FileNames /\ files[<<j, d>>] \subseteq {Input(j)}
    BY <2>2 DEF FileNames, OwnFiles
  <2>4. files'[<<j, d>>] \in {files[<<j, d>>], {}}
    BY <1>3, <2>3
  <2> QED BY <2>3, <2>4
<1>8. OneMutex => (OwnResults => OwnResults')
  <2>1. \A j \in Calls : j # k => result'[j] = result[j]
    BY <1>3
  <2>2. result'[k] = r
    BY <1>3
  <2> QED BY <2>1, <2>2, ResultsKept
<1> QED BY <1>1, <1>2, <1>5, <1>6, <1>7, <1>8, NextParts

LEMMA AbandonStep ==
    ASSUME Inputs2, op.kind = "stream", StreamInv, NEW t \in Threads, Abandon(t), UNCHANGED vars
    PROVE  StreamInv'
  BY EndStep DEF Abandon, Go

LEMMA CollectStep ==
    ASSUME Inputs2, op.kind = "stream", StreamInv, NEW t \in Threads, Collect(t), UNCHANGED vars
    PROVE  StreamInv'
<1> DEFINE k   == call[t]
           out == IF k.o = "pipe" THEN {Input(k)} ELSE files[<<k, "out">>]
           r   == IF out = {} THEN Failed ELSE CHOOSE x \in out : TRUE
<1>1. /\ pc[t] = "Collect" /\ pc' = [pc EXCEPT ![t] = "Idle"]
      /\ files' = IF k.o = "pipe" THEN files
                  ELSE [files EXCEPT ![<<k, "in">>] = {}, ![<<k, "out">>] = {}]
      /\ result' = [result EXCEPT ![k] = r]
      /\ UNCHANGED <<call, env, child>>
  BY DEF Collect, Go
<1>2. OneMutex => r \in {Failed, Input(k)}
  <2>1. SUFFICES ASSUME OneMutex PROVE r \in {Failed, Input(k)}
    OBVIOUS
  <2>2. k \in Calls
    BY <1>1 DEF StreamInv, StreamTypes
  <2>3. out \subseteq {Input(k)}
    BY <2>1, <2>2 DEF StreamInv, OwnFiles
  <2> HIDE DEF out
  <2> QED BY <2>3
<1> HIDE DEF r, out
<1> QED BY <1>1, <1>2, EndStep

LEMMA InitStreamInv == Init => StreamInv
<1> SUFFICES ASSUME Init, op.kind = "stream"
             PROVE  /\ StreamTypes /\ Distinct /\ PipesUnlocked /\ Exclusive
                    /\ OwnNames /\ OwnFiles /\ OwnResults /\ OwnIds
  BY DEF StreamInv
<1>1. /\ pc = [t \in Threads |-> "Idle"] /\ call = [t \in Threads |-> Nothing]
      /\ env = [id |-> {}, in |-> {}, out |-> {}] /\ files = [f \in FileNames |-> {}]
      /\ child = [t \in Threads |-> env] /\ result = [k \in Calls |-> Open]
  BY DEF Init, FileNames
<1>2. env \in Environments
  BY <1>1 DEF Environments
<1>3. StreamTypes
  BY <1>1, <1>2 DEF StreamTypes, Stages
<1>4. Distinct /\ PipesUnlocked /\ Exclusive /\ OwnNames /\ OwnIds
  BY <1>1 DEF Distinct, PipesUnlocked, Exclusive, InCritical, OwnNames, OwnIds
<1>5. OwnFiles
  BY <1>1 DEF OwnFiles, FileNames
<1>6. OwnResults
  BY <1>1 DEF OwnResults
<1> QED BY <1>3, <1>4, <1>5, <1>6

LEMMA NextStreamInv == RInv /\ StreamInv /\ [Next]_<<vars, svars>> => StreamInv'
<1> SUFFICES ASSUME RInv, StreamInv, [Next]_<<vars, svars>> PROVE StreamInv'
  OBVIOUS
<1>1. Inputs2
  BY DEF RInv
<1>2. ASSUME UNCHANGED svars, op' = op, cube' = cube PROVE StreamInv'
  <2>1. Calls' = Calls /\ \A k : Input(k)' = Input(k)
    BY <1>2 DEF Calls, Input
  <2>2. FileNames' = FileNames
    BY <2>1 DEF FileNames
  <2>3. Environments' = Environments
    BY <1>2, <2>2 DEF Environments
  <2>4. /\ StreamTypes => StreamTypes'
        /\ Distinct => Distinct'
        /\ PipesUnlocked => PipesUnlocked'
        /\ Exclusive => Exclusive'
    BY <1>2, <2>1, <2>2, <2>3 DEF svars, StreamTypes, Distinct, PipesUnlocked, Exclusive, InCritical
  <2>5. (OwnNames => OwnNames') /\ (OwnIds => OwnIds')
    BY <1>2, NamesKept DEF svars
  <2>6. OwnFiles => OwnFiles'
    BY <1>2, <2>1 DEF svars, OwnFiles
  <2>7. OwnResults => OwnResults'
    <3>1. EmptyChunk' = EmptyChunk /\ \A j : Volume(Input(j).size)' = Volume(Input(j).size)
      BY <2>1 DEF EmptyChunk, Volume
    <3> QED BY <1>2, <2>1, <3>1 DEF svars, OwnResults
  <2>8. OneMutex' = OneMutex /\ OneOperator' = OneOperator
    BY <1>2 DEF OneMutex, OneOperator
  <2>9. CASE op.kind = "stream"
    <3>1. StreamTypes' /\ Distinct' /\ PipesUnlocked' /\ Exclusive'
      BY <2>4, <2>9 DEF StreamInv
    <3>2. OneMutex => OwnNames' /\ OwnFiles' /\ OwnResults'
      BY <2>5, <2>6, <2>7, <2>9 DEF StreamInv
    <3>3. OneOperator => OwnIds'
      BY <2>5, <2>9 DEF StreamInv
    <3> QED BY <2>8, <3>1, <3>2, <3>3 DEF StreamInv
  <2>10. CASE op.kind # "stream"
    BY <1>2, <2>10 DEF StreamInv
  <2> QED BY <2>9, <2>10
<1>3. ASSUME Stream PROVE StreamInv'
  <2>1. UNCHANGED vars
    BY <1>3 DEF Stream
  <2>2. PICK t \in Threads : \/ Begin(t) \/ Lock(t) \/ SetId(t) \/ SetIn(t) \/ SetOut(t)
                             \/ Spawn(t) \/ ChildEnds(t) \/ Abandon(t) \/ Collect(t)
    BY <1>3 DEF Stream
  <2>3. CASE op.kind = "stream"
    BY <1>1, <2>1, <2>2, <2>3, BeginStep, LockStep, SetIdStep, SetInStep, SetOutStep, SpawnStep,
       ChildEndsStep, AbandonStep, CollectStep
  <2>4. CASE op.kind # "stream"
    BY <2>1, <2>4 DEF vars, StreamInv
  <2> QED BY <2>3, <2>4
<1>4. ASSUME OperationsNext, UNCHANGED svars PROVE StreamInv'
  <2>1. op' = op /\ cube' = cube
    BY <1>4 DEF OperationsNext, ReadReduceTime, ReadReduce, ReadReduceSpace, ReadWindowTime,
            ReadFillTime, ReadApplyPixel, ReadFilterPixel, ReadSelectBands, ReadJoinBands, Reads
  <2> QED BY <1>2, <1>4, <2>1
<1>5. ASSUME UNCHANGED <<vars, svars>> PROVE StreamInv'
  BY <1>2, <1>5 DEF vars
<1> QED BY <1>3, <1>4, <1>5 DEF Next

LEMMA StreamInvariance == Spec => []StreamInv
<1>1. Init => StreamInv
  BY InitStreamInv
<1>2. RInv /\ StreamInv /\ [Next]_<<vars, svars>> => StreamInv'
  BY NextStreamInv
<1> QED BY <1>1, <1>2, RInvariance, PTL DEF Spec

-------------------------------------------------------------------------------
\* What the processes are given.

LEMMA ColumnIs ==
    ASSUME NEW c \in Inputs, NEW id \in ChunkIds(TimeShape(c).n, TimeShape(c).s),
           NEW j \in 0..(Ceil(c.n.t, c.s.t) - 1)
    PROVE  /\ Column(c, id)[j + 1] = id + j * ChunksPerSlice(c)
           /\ DOMAIN Column(c, id) = 1..Ceil(c.n.t, c.s.t)
<1> DEFINE X == Ceil(c.n.x, c.s.x)
           Y == Ceil(c.n.y, c.s.y)
           T == Ceil(c.n.t, c.s.t)
           m == ChunksPerSlice(c)
<1>1. c.n \in Sizes /\ c.s \in Sizes
  BY InputIs
<1>2. X \in Nat \ {0} /\ Y \in Nat \ {0} /\ T \in Nat \ {0}
  BY <1>1, Radices
<1>3. id \in 0..(m - 1) /\ m \in Nat \ {0}
  BY TimeColumn
<1>4. m = Y * X /\ Count(c) = X * Y * T
  BY DEF ChunksPerSlice, Count, count_chunks
<1>5. Count(c) = m * T
  <2>1. \A h, i, k \in Nat : h * i * k = (i * h) * k
    BY SMT
  <2> HIDE DEF X, Y, T, m
  <2>2. X * Y * T = (Y * X) * T
    BY <1>2, <2>1
  <2> QED BY <1>4, <2>2
<1>6. Ceil(Count(c) - id, m) = T
  <2> HIDE DEF X, Y, T, m
  <2>1. m - 1 - id \in 0..(m - 1) /\ T \in Nat
    BY <1>2, <1>3
  <2>2. (m * T + (m - 1 - id)) \div m = T
    BY <1>3, <2>1, DivisionUnique
  <2>3. m * T \in Nat
    BY <1>2, <1>3, SMT
  <2>4. Count(c) - id + m - 1 = m * T + (m - 1 - id)
    BY <1>3, <1>5, <2>3
  <2> QED BY <2>2, <2>4 DEF Ceil
<1> HIDE DEF X, Y, T
<1>7. j + 1 \in 1..T /\ (j + 1) - 1 = j
  BY <1>2 DEF T
<1>8. Column(c, id) = [k \in 1..T |-> id + (k - 1) * m]
  BY <1>6 DEF Column
<1> HIDE DEF m
<1>9. Column(c, id)[j + 1] = id + ((j + 1) - 1) * m
  BY <1>7, <1>8
<1>10. DOMAIN Column(c, id) = 1..T
  BY <1>8
<1> QED BY <1>7, <1>9, <1>10 DEF m, T

LEMMA GatheredValue ==
    ASSUME NEW c, NEW id, NEW out, out = Gathered(c, id),
           FullSize(out.size), NEW b \in 0..(out.size.b - 1), NEW t \in 0..(out.size.t - 1),
           NEW p \in 0..(out.size.y * out.size.x - 1)
    PROVE  LET x == ChunkOf(c, Column(c, id)[t \div c.s.t + 1])
           IN  Value(out, b, t, p) =
                    IF t % c.s.t >= x.size.t THEN NaN ELSE Value(x, b, t % c.s.t, p)
<1> DEFINE x(h) == ChunkOf(c, Column(c, id)[h \div c.s.t + 1])
           w == out.size
           k == Index(w, b, t, p)
           F(e, h, q) == IF h % c.s.t >= x(h).size.t THEN NaN ELSE Value(x(h), e, h % c.s.t, q)
<1>1. out.buf = [j \in 0..(Volume(w) - 1) |->
                   F(j \div (w.t * w.y * w.x), (j \div (w.y * w.x)) % w.t, j % (w.y * w.x))]
  BY DEF Gathered, Chunk
<1>2. Value(out, b, t, p) = out.buf[k]
  BY DEF Value, Index
<1>3. /\ k \in 0..(Volume(w) - 1) /\ k \div (w.t * w.y * w.x) = b
      /\ (k \div (w.y * w.x)) % w.t = t /\ k % (w.y * w.x) = p
  BY IndexIs
<1> HIDE DEF k, w, F
<1>4. out.buf[k] = F(b, t, p)
  BY <1>1, <1>3
<1> QED BY <1>2, <1>4 DEF F

LEMMA GatheredShape ==
    ASSUME NEW c, NEW id
    PROVE  LET v == chunk_size(TimeShape(c).n, TimeShape(c).s, id)
           IN  Gathered(c, id).size = [b |-> c.nb, t |-> c.n.t, y |-> v.y, x |-> v.x]
  BY DEF Gathered, Chunk

\* All slices of a place, in their order.
LEMMA GatheredAgrees ==
    ASSUME NEW c \in Inputs, NEW id \in ChunkIds(TimeShape(c).n, TimeShape(c).s),
           NEW out, out = Gathered(c, id),
           NEW b \in 0..(c.nb - 1), NEW t \in 0..(c.n.t - 1),
           NEW p \in 0..(out.size.y * out.size.x - 1)
    PROVE  Value(out, b, t, p) =
              c.data[b][[ElementCell(TimeShape(c).n, TimeShape(c).s, id, Place(out, 0, p)) EXCEPT !.t = t]]
<1> DEFINE n == TimeShape(c).n
           s == TimeShape(c).s
           v == chunk_size(n, s, id)
           w == out.size
           j == t \div c.s.t
           r == t % c.s.t
           i == id + j * ChunksPerSlice(c)
           z == chunk_size(c.n, c.s, i)
           x == ChunkOf(c, i)
           lo == chunk_limits(n, s, id)
           li == chunk_limits(c.n, c.s, i)
           cell == ElementCell(c.n, c.s, i, ElementOf(z, r, p))
<1>1. c.n \in Sizes /\ c.s \in Sizes /\ c.nb \in Nat \ {0} /\ n \in Sizes /\ s \in Sizes
  BY InputIs, ShapesAre
<1>2. c.n.t \in Nat \ {0} /\ c.s.t \in Nat \ {0}
  BY <1>1, Radices
<1>3. v.y \in Nat \ {0} /\ v.x \in Nat \ {0}
  BY <1>1, ChunkSizePositive
<1>4. w = [b |-> c.nb, t |-> c.n.t, y |-> v.y, x |-> v.x]
  BY GatheredShape
<1>5. w.b = c.nb /\ w.t = c.n.t /\ w.y = v.y /\ w.x = v.x
  <2> HIDE DEF w, v
  <2> QED BY <1>4
<1>6. FullSize(w) /\ b \in 0..(w.b - 1) /\ t \in 0..(w.t - 1) /\ p \in 0..(w.y * w.x - 1)
  <2>1. b \in 0..(w.b - 1) /\ t \in 0..(w.t - 1)
    <3> HIDE DEF w, v
    <3> QED BY <1>1, <1>2, <1>5
  <2>2. FullSize(w)
    <3> HIDE DEF w, v
    <3> QED BY <1>1, <1>2, <1>3, <1>5 DEF FullSize
  <2> QED BY <2>1, <2>2
<1>7. /\ j \in 0..(Ceil(c.n.t, c.s.t) - 1) /\ t \in Low(c.n.t, c.s.t, j)..High(c.n.t, c.s.t, j)
      /\ r = t - Low(c.n.t, c.s.t, j)
  BY <1>2, CellInside
<1>8. Column(c, id)[j + 1] = i
  <2> HIDE DEF j
  <2> QED BY <1>7, ColumnIs
<1>9. Value(out, b, t, p) = IF r >= x.size.t THEN NaN ELSE Value(x, b, r, p)
  BY <1>6, <1>8, GatheredValue
<1>10. /\ i \in ChunkIds(c.n, c.s)
       /\ li.low.t = Low(c.n.t, c.s.t, j) /\ li.high.t = High(c.n.t, c.s.t, j)
       /\ li.low.y = lo.low.y /\ li.high.y = lo.high.y
       /\ li.low.x = lo.low.x /\ li.high.x = lo.high.x
       /\ lo.low.t = 0
  <2> HIDE DEF j, r
  <2> QED BY <1>7, TimeColumn
<1>11. /\ z.t = li.high.t - li.low.t + 1 /\ z.y = v.y /\ z.x = v.x
  <2>1. z = SizeOf(li) /\ v = SizeOf(lo)
    BY DEF chunk_size
  <2> HIDE DEF z, v, li, lo
  <2> QED BY <1>10, <2>1 DEF SizeOf
<1>12. li.low.t \in 0..(c.n.t - 1) /\ li.high.t \in li.low.t..(c.n.t - 1)
  <2> HIDE DEF i
  <2> QED BY <1>1, <1>10, ChunkLimits
<1>13. r \in 0..(z.t - 1) /\ r \in Nat /\ li.low.t + r = t
  <2> HIDE DEF z, li, j, r
  <2> QED BY <1>2, <1>7, <1>10, <1>11, <1>12
<1>14. p \in 0..(z.y * z.x - 1)
  <2>1. w.y * w.x = z.y * z.x
    <3> HIDE DEF w, z, v
    <3> QED BY <1>5, <1>11
  <2> HIDE DEF w, z
  <2> QED BY <1>6, <2>1, Zenon
<1>15. c.data[b][cell] = c.data[b][[ElementCell(n, s, id, Place(out, 0, p)) EXCEPT !.t = t]]
  <2>1. cell = [t |-> li.low.t + r, y |-> (li.high.y + 1) - 1 - (p \div z.x),
                x |-> li.low.x + (p % z.x)]
    BY ElementCellIs DEF ElementOf
  <2>2. ElementCell(n, s, id, Place(out, 0, p)) =
                [t |-> lo.low.t + 0, y |-> (lo.high.y + 1) - 1 - (p \div w.x),
                 x |-> lo.low.x + (p % w.x)]
    BY ElementCellIs DEF Place
  <2> HIDE DEF cell, n, s, li, lo, z, w, r, v
  <2> QED BY <1>5, <1>10, <1>11, <1>13, <2>1, <2>2
<1> HIDE DEF j, r
<1>16. CASE i \in c.empty
  <2>1. /\ x.size.t = 0
        /\ \A bb \in 0..(c.nb - 1), tt \in 0..(z.t - 1), pp \in 0..(z.y * z.x - 1) :
                c.data[bb][ElementCell(c.n, c.s, i, ElementOf(z, tt, pp))] = NaN
    <3> HIDE DEF i
    <3> QED BY <1>16, NoChunk
  <2>2. c.data[b][cell] = NaN
    BY <1>13, <1>14, <2>1
  <2>3. Value(out, b, t, p) = NaN
    <3> HIDE DEF x
    <3> QED BY <1>9, <1>13, <2>1
  <2> QED BY <1>15, <2>2, <2>3
<1>17. CASE i \notin c.empty
  <2>1. /\ x.size.t = z.t
        /\ \A bb \in 0..(c.nb - 1), tt \in 0..(z.t - 1), pp \in 0..(z.y * z.x - 1) :
              Value(x, bb, tt, pp) = c.data[bb][ElementCell(c.n, c.s, i, ElementOf(z, tt, pp))]
    <3> HIDE DEF i
    <3> QED BY <1>10, <1>17, FullChunk
  <2>2. Value(x, b, r, p) = c.data[b][cell]
    BY <1>13, <1>14, <2>1
  <2>3. z.t \in Int
    <3> HIDE DEF z, li
    <3> QED BY <1>2, <1>11, <1>12
  <2>4. Value(out, b, t, p) = Value(x, b, r, p)
    <3> HIDE DEF x, z
    <3> QED BY <1>9, <1>13, <2>1, <2>3
  <2> QED BY <1>15, <2>2, <2>4
<1> QED BY <1>16, <1>17

\* A chunk without elements is the empty one.
LEMMA NoVolume ==
    ASSUME NEW c \in Inputs, NEW id \in ChunkIds(c.n, c.s), Volume(ChunkOf(c, id).size) = 0
    PROVE  ChunkOf(c, id) = EmptyChunk
<1>1. CASE id \in c.empty
  BY <1>1, NoChunk
<1>2. CASE id \notin c.empty
  <2> DEFINE w == ChunkOf(c, id).size
  <2>1. FullSize(w)
    BY <1>2, FullChunk
  <2>2. \A h, i, j, k \in Nat \ {0} : h * i * j * k # 0
    <3>1. \A i, j \in Nat \ {0} : i * j \in Nat \ {0}
      BY SMT
    <3> QED BY <3>1
  <2> HIDE DEF w
  <2>3. Volume(w) # 0
    BY <2>1, <2>2 DEF Volume, FullSize
  <2> QED BY <2>3 DEF w
<1> QED BY <1>1, <1>2

\* As long as one operator with files streams, a process finds its own chunk in its
\* environment, and what read_chunk returns comes from the process that was given this chunk,
\* with any number of threads, chunks and failures.
THEOREM OwnOutputReturned == Spec => []OwnOutput
<1>1. ASSUME RInv, StreamInv PROVE OwnOutput
  <2>1. SUFFICES ASSUME op.kind = "stream"
        PROVE  /\ OneOperator => \A t \in Threads : pc[t] = "Child" => child[t].id = {call[t].id}
               /\ OneMutex =>
                    \A k \in Calls : result[k] \notin {Open, Failed} =>
                        IF k.o # "reduce" THEN result[k] = ChunkOf(cube, k.id)
                        ELSE LET x == result[k]
                             IN  \A b \in 0..(cube.nb - 1), t \in 0..(cube.n.t - 1),
                                    p \in 0..(x.size.y * x.size.x - 1) :
                                    Value(x, b, t, p) = cube.data[b][[ElementCell(TimeShape(cube).n,
                                        TimeShape(cube).s, k.id, Place(x, 0, p)) EXCEPT !.t = t]]
    BY DEF OwnOutput, OneOperator, OneMutex
  <2>2. Inputs2 /\ cube \in Inputs
    BY <1>1 DEF RInv, Inputs2
  <2>3. OneOperator => \A t \in Threads : pc[t] = "Child" => child[t].id = {call[t].id}
    BY <1>1, <2>1 DEF StreamInv, OwnIds
  <2>4. ASSUME OneMutex, NEW k \in Calls, result[k] \notin {Open, Failed}, k.o # "reduce"
        PROVE  result[k] = ChunkOf(cube, k.id)
    <3>1. Input(k) = ChunkOf(cube, k.id) /\ k.id \in ChunkIds(cube.n, cube.s)
      BY <2>1, <2>2, <2>4, CallIs DEF Input
    <3>2. \/ result[k] = Input(k)
          \/ result[k] = EmptyChunk /\ Volume(Input(k).size) = 0
      BY <1>1, <2>1, <2>4 DEF StreamInv, OwnResults
    <3> QED BY <2>2, <3>1, <3>2, NoVolume
  <2>5. ASSUME OneMutex, NEW k \in Calls, result[k] \notin {Open, Failed}, k.o = "reduce",
               NEW b \in 0..(cube.nb - 1), NEW t \in 0..(cube.n.t - 1),
               NEW p \in 0..(result[k].size.y * result[k].size.x - 1)
        PROVE  Value(result[k], b, t, p) = cube.data[b][[ElementCell(TimeShape(cube).n,
                    TimeShape(cube).s, k.id, Place(result[k], 0, p)) EXCEPT !.t = t]]
    <3>1. Input(k) = Gathered(cube, k.id) /\ k.id \in ChunkIds(TimeShape(cube).n, TimeShape(cube).s)
      BY <2>1, <2>2, <2>5, CallIs DEF Input
    <3>2. result[k] = Input(k)
      BY <1>1, <2>1, <2>5 DEF StreamInv, OwnResults
    <3> QED BY <2>2, <2>5, <3>1, <3>2, GatheredAgrees
  <2> QED BY <2>3, <2>4, <2>5
<1> QED BY <1>1, RInvariance, StreamInvariance, PTL

-------------------------------------------------------------------------------
\* The series of a window: what is put into it, slice by slice.

\* a is what a fold goes through.
Through(n, base, a) == a = [k \in 0..n |-> a[k]] /\ a[0] = base

Filling(len, V) == [cur_ts : [0..(len - 1) -> V], idx : Int]

LEMMA SmallIndex ==
    ASSUME NEW len \in Nat, NEW j \in 0..(len - 1)
    PROVE  j \div len = 0 /\ j % len = j
<1>1. len \in Nat \ {0} /\ 0 \in Nat
  OBVIOUS
<1>2. (len * 0 + j) \div len = 0 /\ (len * 0 + j) % len = j
  BY <1>1, DivisionUnique
<1>3. len * 0 + j = j
  OBVIOUS
<1> QED BY <1>2, <1>3

\* With one band, a slice is put at the index.
LEMMA PutIs ==
    ASSUME NEW len \in Nat, NEW step \in Int, NEW V, NEW x \in Filling(len, V), NEW v
    PROVE  PutSlice(x, len, v, step) =
              IF x.idx \notin 0..(len - 1) THEN x
              ELSE [cur_ts |-> [j \in 0..(len - 1) |-> IF j = x.idx THEN v[0] ELSE x.cur_ts[j]],
                    idx |-> x.idx + step]
<1>1. DOMAIN x.cur_ts = 0..(len - 1)
  BY DEF Filling
<1>2. \A j \in 0..(len - 1) : j \div len = 0 /\ j % len = j
  BY SmallIndex
<1>3. [j \in DOMAIN x.cur_ts |-> IF j % len = x.idx THEN v[j \div len] ELSE x.cur_ts[j]]
        = [j \in 0..(len - 1) |-> IF j = x.idx THEN v[0] ELSE x.cur_ts[j]]
  BY <1>1, <1>2
<1> QED BY <1>3 DEF PutSlice

PutEffect(len, step, x, v, y) ==
    y = IF x.idx \notin 0..(len - 1) THEN x
        ELSE [cur_ts |-> [j \in 0..(len - 1) |-> IF j = x.idx THEN v[0] ELSE x.cur_ts[j]],
              idx |-> x.idx + step]

LEMMA PutHas ==
    ASSUME NEW len \in Nat, NEW step \in Int, NEW V, NEW x \in Filling(len, V), NEW v
    PROVE  PutEffect(len, step, x, v, PutSlice(x, len, v, step))
  BY PutIs DEF PutEffect

LEMMA PutType ==
    ASSUME NEW len \in Nat, NEW step \in Int, NEW V, NEW x \in Filling(len, V), NEW v, v[0] \in V
    PROVE  PutSlice(x, len, v, step) \in Filling(len, V)
<1>1. [j \in 0..(len - 1) |-> IF j = x.idx THEN v[0] ELSE x.cur_ts[j]] \in [0..(len - 1) -> V]
  BY DEF Filling
<1>2. x.idx + step \in Int
  BY DEF Filling
<1>3. [cur_ts |-> [j \in 0..(len - 1) |-> IF j = x.idx THEN v[0] ELSE x.cur_ts[j]],
       idx |-> x.idx + step] \in Filling(len, V)
  BY <1>1, <1>2 DEF Filling
<1>4. PICK y : y = PutSlice(x, len, v, step)
  OBVIOUS
<1>5. PutEffect(len, step, x, v, y)
  BY <1>4, PutHas
<1>6. y \in Filling(len, V)
  <2>1. CASE x.idx \notin 0..(len - 1)
    <3>1. y = x
      BY <1>5, <2>1 DEF PutEffect
    <3> QED BY <3>1
  <2>2. CASE x.idx \in 0..(len - 1)
    BY <1>3, <1>5, <2>2, Zenon DEF PutEffect
  <2> QED BY <2>1, <2>2
<1> QED BY <1>4, <1>6

LEMMA OwnIsPut ==
    ASSUME NEW len \in Nat, NEW V, NEW x \in Filling(len, V), NEW v, DOMAIN v = {0}
    PROVE  PutOwnSlice(x, len, v) = PutSlice(x, len, v, 1)
<1>1. DOMAIN x.cur_ts = 0..(len - 1) /\ x.idx \in Int
  BY DEF Filling
<1>2. Cardinality(DOMAIN v) = 1
  BY FS_Singleton
<1>3. ASSUME NEW j \in 0..(len - 1)
      PROVE  /\ (\E b \in DOMAIN v : j = b * len + x.idx + b) <=> j = x.idx
             /\ j = x.idx => (CHOOSE b \in DOMAIN v : j = b * len + x.idx + b) = 0
  <2>1. 0 * len + x.idx + 0 = x.idx
    BY <1>1
  <2> QED BY <2>1
<1>4. [j \in DOMAIN x.cur_ts |->
            IF \E b \in DOMAIN v : j = b * len + x.idx + b
            THEN v[CHOOSE b \in DOMAIN v : j = b * len + x.idx + b] ELSE x.cur_ts[j]]
        = [j \in 0..(len - 1) |-> IF j = x.idx THEN v[0] ELSE x.cur_ts[j]]
  BY <1>1, <1>3
<1>5. PutSlice(x, len, v, 1) =
          IF x.idx \notin 0..(len - 1) THEN x
          ELSE [cur_ts |-> [j \in 0..(len - 1) |-> IF j = x.idx THEN v[0] ELSE x.cur_ts[j]],
                idx |-> x.idx + 1]
  <2>1. 1 \in Int
    OBVIOUS
  <2> QED BY <2>1, PutIs
<1>6. CASE x.idx \notin 0..(len - 1)
  BY <1>5, <1>6 DEF PutOwnSlice
<1>7. CASE x.idx \in 0..(len - 1)
  <2>1. PutOwnSlice(x, len, v) =
          [cur_ts |-> [j \in DOMAIN x.cur_ts |->
                    IF \E b \in DOMAIN v : j = b * len + x.idx + b
                    THEN v[CHOOSE b \in DOMAIN v : j = b * len + x.idx + b] ELSE x.cur_ts[j]],
           idx |-> x.idx + 1]
    BY <1>2, <1>7 DEF PutOwnSlice
  <2>2. PutOwnSlice(x, len, v) =
          [cur_ts |-> [j \in 0..(len - 1) |-> IF j = x.idx THEN v[0] ELSE x.cur_ts[j]],
           idx |-> x.idx + 1]
    BY <1>4, <2>1, Zenon
  <2> QED BY <1>5, <1>7, <2>2
<1> QED BY <1>6, <1>7

SlicesIn(n, seq, V) == DOMAIN seq = 1..n /\ \A k \in 1..n : seq[k][0] \in V

OneBand(n, seq) == \A k \in 1..n : DOMAIN seq[k] = {0}

PutAll(len, seq, base, step) == FoldLeft(LAMBDA st, v : PutSlice(st, len, v, step), base, seq)

PutOwnAll(len, seq, base) == FoldLeft(LAMBDA st, v : PutOwnSlice(st, len, v), base, seq)

PutEquation(len, seq, step, base, g, s) ==
    IF s = {} THEN base ELSE PutSlice(g[s \ {Max(s)}], len, seq[Max(s)], step)

HasPutChain(len, n, seq, base, step) ==
    \E a : /\ Through(n, base, a)
           /\ \A k \in 1..n : a[k] = PutSlice(a[k - 1], len, seq[k], step)
           /\ PutAll(len, seq, base, step) = a[n]

LEMMA PutFold ==
    ASSUME NEW len \in Nat, NEW step \in Int, NEW V, NEW n \in Nat, NEW seq, SlicesIn(n, seq, V),
           NEW base \in Filling(len, V)
    PROVE  HasPutChain(len, n, seq, base, step)
<1> USE DEF HasPutChain, SlicesIn
<1> DEFINE St == Filling(len, V)
           F == [q \in St \X (1..n) |-> PutSlice(q[1], len, seq[q[2]], step)]
           G == CHOOSE g : g = [s \in SUBSET (1..n) |-> PutEquation(len, seq, step, base, g, s)]
<1>1. ASSUME NEW x \in St, NEW k \in 1..n
      PROVE  F[<<x, k>>] = PutSlice(x, len, seq[k], step) /\ PutSlice(x, len, seq[k], step) \in St
  <2>1. F[<<x, k>>] = PutSlice(x, len, seq[k], step)
    OBVIOUS
  <2> QED BY <2>1, PutType
<1>2. PICK f \in [SUBSET (1..n) -> St] : f = [s \in SUBSET (1..n) |-> SeqEquation(F, base, f, s)]
  <2>1. \A x \in St, k \in 1..n : F[<<x, k>>] \in St
    BY <1>1
  <2> HIDE DEF St, F
  <2>2. base \in St
    BY DEF St
  <2>3. SeqFoldable(n, St, F, base)
    BY <2>1, <2>2 DEF SeqFoldable
  <2>4. HasSeqFold(n, St, F, base)
    BY <2>3, SeqFoldExists
  <2> QED BY <2>4 DEF HasSeqFold
<1>3. \A s \in SUBSET (1..n) : SeqEquation(F, base, f, s) = PutEquation(len, seq, step, base, f, s)
  <2> SUFFICES ASSUME NEW s \in SUBSET (1..n), s # {}
               PROVE  F[<<f[s \ {Max(s)}], Max(s)>>] = PutSlice(f[s \ {Max(s)}], len, seq[Max(s)], step)
    BY DEF SeqEquation, PutEquation
  <2>1. Max(s) \in 1..n /\ f[s \ {Max(s)}] \in St
    BY <1>2, LastMember
  <2> QED BY <1>1, <2>1
<1>4. f = [s \in SUBSET (1..n) |-> PutEquation(len, seq, step, base, f, s)]
  BY <1>2, <1>3
<1>5. G = [s \in SUBSET (1..n) |-> PutEquation(len, seq, step, base, G, s)]
  BY <1>4
<1>6. PutAll(len, seq, base, step) = G[1..n]
  BY DEF PutAll, FoldLeft, MapThenFoldSet, PutEquation
<1> HIDE DEF G
<1> DEFINE a == [k \in 0..n |-> G[1..k]]
<1>7. a[0] = base
  <2>1. 1..0 = {} /\ {} \in SUBSET (1..n)
    OBVIOUS
  <2> QED BY <1>5, <2>1 DEF PutEquation
<1>8. ASSUME NEW k \in 1..n PROVE a[k] = PutSlice(a[k - 1], len, seq[k], step)
  <2>1. 1..k \in SUBSET (1..n) /\ 1..k # {} /\ Max(1..k) = k /\ (1..k) \ {k} = 1..(k - 1)
    BY LastOf
  <2>2. PICK i : i = 1..k
    OBVIOUS
  <2>3. G[i] = PutSlice(G[i \ {Max(i)}], len, seq[Max(i)], step)
    BY <1>5, <2>1, <2>2 DEF PutEquation
  <2>4. a[k] = G[1..k] /\ a[k - 1] = G[1..(k - 1)]
    OBVIOUS
  <2> HIDE DEF a
  <2> QED BY <2>1, <2>2, <2>3, <2>4
<1>9. a[n] = G[1..n]
  OBVIOUS
<1>10. a = [k \in 0..n |-> a[k]]
  OBVIOUS
<1> HIDE DEF a
<1> QED BY <1>6, <1>7, <1>8, <1>9, <1>10 DEF Through

OwnEquation(len, seq, base, g, s) ==
    IF s = {} THEN base ELSE PutOwnSlice(g[s \ {Max(s)}], len, seq[Max(s)])

HasOwnChain(len, n, seq, base) ==
    \E a : /\ Through(n, base, a)
           /\ \A k \in 1..n : a[k] = PutOwnSlice(a[k - 1], len, seq[k])
           /\ PutOwnAll(len, seq, base) = a[n]

LEMMA OwnFold ==
    ASSUME NEW len \in Nat, NEW V, NEW n \in Nat, NEW seq, SlicesIn(n, seq, V), OneBand(n, seq),
           NEW base \in Filling(len, V)
    PROVE  HasOwnChain(len, n, seq, base)
<1> USE DEF HasOwnChain, SlicesIn, OneBand
<1> DEFINE St == Filling(len, V)
           F == [q \in St \X (1..n) |-> PutOwnSlice(q[1], len, seq[q[2]])]
           G == CHOOSE g : g = [s \in SUBSET (1..n) |-> OwnEquation(len, seq, base, g, s)]
<1>1. ASSUME NEW x \in St, NEW k \in 1..n
      PROVE  F[<<x, k>>] = PutOwnSlice(x, len, seq[k]) /\ PutOwnSlice(x, len, seq[k]) \in St
  <2>1. F[<<x, k>>] = PutOwnSlice(x, len, seq[k])
    OBVIOUS
  <2>2. DOMAIN seq[k] = {0} /\ seq[k][0] \in V /\ 1 \in Int
    OBVIOUS
  <2>3. PutOwnSlice(x, len, seq[k]) = PutSlice(x, len, seq[k], 1)
    BY <2>2, OwnIsPut
  <2>4. PutSlice(x, len, seq[k], 1) \in St
    BY <2>2, PutType
  <2> QED BY <2>1, <2>3, <2>4
<1>2. PICK f \in [SUBSET (1..n) -> St] : f = [s \in SUBSET (1..n) |-> SeqEquation(F, base, f, s)]
  <2>1. \A x \in St, k \in 1..n : F[<<x, k>>] \in St
    BY <1>1
  <2> HIDE DEF St, F
  <2>2. base \in St
    BY DEF St
  <2>3. SeqFoldable(n, St, F, base)
    BY <2>1, <2>2 DEF SeqFoldable
  <2>4. HasSeqFold(n, St, F, base)
    BY <2>3, SeqFoldExists
  <2> QED BY <2>4 DEF HasSeqFold
<1>3. \A s \in SUBSET (1..n) : SeqEquation(F, base, f, s) = OwnEquation(len, seq, base, f, s)
  <2> SUFFICES ASSUME NEW s \in SUBSET (1..n), s # {}
               PROVE  F[<<f[s \ {Max(s)}], Max(s)>>] = PutOwnSlice(f[s \ {Max(s)}], len, seq[Max(s)])
    BY DEF SeqEquation, OwnEquation
  <2>1. Max(s) \in 1..n /\ f[s \ {Max(s)}] \in St
    BY <1>2, LastMember
  <2> QED BY <1>1, <2>1
<1>4. f = [s \in SUBSET (1..n) |-> OwnEquation(len, seq, base, f, s)]
  BY <1>2, <1>3
<1>5. G = [s \in SUBSET (1..n) |-> OwnEquation(len, seq, base, G, s)]
  BY <1>4
<1>6. PutOwnAll(len, seq, base) = G[1..n]
  BY DEF PutOwnAll, FoldLeft, MapThenFoldSet, OwnEquation
<1> HIDE DEF G
<1> DEFINE a == [k \in 0..n |-> G[1..k]]
<1>7. a[0] = base
  <2>1. 1..0 = {} /\ {} \in SUBSET (1..n)
    OBVIOUS
  <2> QED BY <1>5, <2>1 DEF OwnEquation
<1>8. ASSUME NEW k \in 1..n PROVE a[k] = PutOwnSlice(a[k - 1], len, seq[k])
  <2>1. 1..k \in SUBSET (1..n) /\ 1..k # {} /\ Max(1..k) = k /\ (1..k) \ {k} = 1..(k - 1)
    BY LastOf
  <2>2. PICK i : i = 1..k
    OBVIOUS
  <2>3. G[i] = PutOwnSlice(G[i \ {Max(i)}], len, seq[Max(i)])
    BY <1>5, <2>1, <2>2 DEF OwnEquation
  <2>4. a[k] = G[1..k] /\ a[k - 1] = G[1..(k - 1)]
    OBVIOUS
  <2> HIDE DEF a
  <2> QED BY <2>1, <2>2, <2>3, <2>4
<1>9. a[n] = G[1..n]
  OBVIOUS
<1>10. a = [k \in 0..n |-> a[k]]
  OBVIOUS
<1> HIDE DEF a
<1> QED BY <1>6, <1>7, <1>8, <1>9, <1>10 DEF Through

\* After k slices were put from idx on backwards, or forwards.
PutBack(len, seq, base, x, k) ==
    /\ x.idx = IF k <= base.idx + 1 THEN base.idx - k ELSE -1
    /\ \A j \in 0..(len - 1) :
          x.cur_ts[j] = IF j <= base.idx /\ j > base.idx - k THEN seq[base.idx - j + 1][0]
                        ELSE base.cur_ts[j]

PutOn(len, seq, base, x, k) ==
    /\ x.idx = IF base.idx + k <= len THEN base.idx + k ELSE len
    /\ \A j \in 0..(len - 1) :
          x.cur_ts[j] = IF j >= base.idx /\ j < base.idx + k THEN seq[j - base.idx + 1][0]
                        ELSE base.cur_ts[j]

PutChain(len, n, seq, base, step, a) ==
    Through(n, base, a) /\ \A k \in 1..n : a[k] = PutSlice(a[k - 1], len, seq[k], step)

LEMMA BackChain ==
    ASSUME NEW len \in Nat, NEW V, NEW n \in Nat, NEW seq, SlicesIn(n, seq, V),
           NEW base \in Filling(len, V), base.idx \in (-1)..(len - 1),
           NEW a, PutChain(len, n, seq, base, -1, a)
    PROVE  a[n] \in Filling(len, V) /\ PutBack(len, seq, base, a[n], n)
<1> USE DEF SlicesIn, PutChain
<1> DEFINE G == {k \in 0..n : a[k] \in Filling(len, V) /\ PutBack(len, seq, base, a[k], k)}
<1>1. 0 \in G
  BY DEF Through, PutBack
<1>2. ASSUME NEW k \in 1..n, k - 1 \in G PROVE k \in G
  <2> DEFINE x == a[k - 1]
             i == base.idx
  <2>1. x \in Filling(len, V) /\ PutBack(len, seq, base, x, k - 1) /\ -1 \in Int
    BY <1>2
  <2>2. a[k] = PutSlice(x, len, seq[k], -1) /\ a[k] \in Filling(len, V)
    BY <2>1, PutType
  <2>3. a[k] = IF x.idx \notin 0..(len - 1) THEN x
               ELSE [cur_ts |-> [j \in 0..(len - 1) |-> IF j = x.idx THEN seq[k][0] ELSE x.cur_ts[j]],
                     idx |-> x.idx + (-1)]
    <3> HIDE DEF x
    <3>1. PutEffect(len, -1, x, seq[k], a[k])
      BY <2>1, <2>2, PutHas
    <3> QED BY <3>1 DEF PutEffect
  <2>4. PutBack(len, seq, base, a[k], k)
    <3> HIDE DEF x
    <3>1. CASE k <= i + 1
      <4>1. x.idx = i - (k - 1) /\ x.idx \in 0..(len - 1)
        BY <2>1, <3>1 DEF PutBack
      <4>2. a[k].idx = i - k
        BY <2>3, <4>1
      <4>3. ASSUME NEW j \in 0..(len - 1)
            PROVE  a[k].cur_ts[j] = IF j <= i /\ j > i - k THEN seq[i - j + 1][0] ELSE base.cur_ts[j]
        <5>1. a[k].cur_ts[j] = IF j = x.idx THEN seq[k][0] ELSE x.cur_ts[j]
          BY <2>3, <4>1
        <5>2. x.cur_ts[j] = IF j <= i /\ j > i - (k - 1) THEN seq[i - j + 1][0] ELSE base.cur_ts[j]
          BY <2>1 DEF PutBack
        <5>3. CASE j = x.idx
          <6>1. i - j + 1 = k /\ j <= i /\ j > i - k
            BY <4>1, <5>3
          <6> QED BY <5>1, <5>3, <6>1
        <5>4. CASE j # x.idx
          <6>1. (j <= i /\ j > i - (k - 1)) <=> (j <= i /\ j > i - k)
            BY <4>1, <5>4
          <6> QED BY <5>1, <5>2, <5>4, <6>1
        <5> QED BY <5>3, <5>4
      <4> QED BY <3>1, <4>2, <4>3 DEF PutBack
    <3>2. CASE ~ (k <= i + 1)
      <4>1. x.idx = -1 /\ a[k] = x
        <5>1. x.idx = -1
          <6>1. x.idx = IF k - 1 <= i + 1 THEN i - (k - 1) ELSE -1
            BY <2>1 DEF PutBack
          <6> QED BY <3>2, <6>1
        <5> QED BY <2>3, <5>1
      <4>2. ASSUME NEW j \in 0..(len - 1)
            PROVE  (j <= i /\ j > i - (k - 1)) <=> (j <= i /\ j > i - k)
        BY <3>2
      <4> QED BY <2>1, <3>2, <4>1, <4>2 DEF PutBack
    <3> QED BY <3>1, <3>2
  <2> QED BY <2>2, <2>4
<1>3. G \in SUBSET (0..n)
  OBVIOUS
<1> HIDE DEF G
<1>4. G = 0..n
  BY <1>1, <1>2, <1>3, Upward
<1>5. n \in G
  BY <1>4
<1> QED BY <1>5 DEF G

LEMMA OnChain ==
    ASSUME NEW len \in Nat, NEW V, NEW n \in Nat, NEW seq, SlicesIn(n, seq, V),
           NEW base \in Filling(len, V), base.idx \in 0..len,
           NEW a, PutChain(len, n, seq, base, 1, a)
    PROVE  a[n] \in Filling(len, V) /\ PutOn(len, seq, base, a[n], n)
<1> USE DEF SlicesIn, PutChain
<1> DEFINE G == {k \in 0..n : a[k] \in Filling(len, V) /\ PutOn(len, seq, base, a[k], k)}
<1>1. 0 \in G
  BY DEF Through, PutOn
<1>2. ASSUME NEW k \in 1..n, k - 1 \in G PROVE k \in G
  <2> DEFINE x == a[k - 1]
             i == base.idx
  <2>1. x \in Filling(len, V) /\ PutOn(len, seq, base, x, k - 1) /\ 1 \in Int
    BY <1>2
  <2>2. a[k] = PutSlice(x, len, seq[k], 1) /\ a[k] \in Filling(len, V)
    BY <2>1, PutType
  <2>3. a[k] = IF x.idx \notin 0..(len - 1) THEN x
               ELSE [cur_ts |-> [j \in 0..(len - 1) |-> IF j = x.idx THEN seq[k][0] ELSE x.cur_ts[j]],
                     idx |-> x.idx + 1]
    <3> HIDE DEF x
    <3>1. PutEffect(len, 1, x, seq[k], a[k])
      BY <2>1, <2>2, PutHas
    <3> QED BY <3>1 DEF PutEffect
  <2>4. PutOn(len, seq, base, a[k], k)
    <3> HIDE DEF x
    <3>1. CASE i + k <= len
      <4>1. x.idx = i + (k - 1) /\ x.idx \in 0..(len - 1)
        BY <2>1, <3>1 DEF PutOn
      <4>2. a[k].idx = i + k
        BY <2>3, <4>1
      <4>3. ASSUME NEW j \in 0..(len - 1)
            PROVE  a[k].cur_ts[j] = IF j >= i /\ j < i + k THEN seq[j - i + 1][0] ELSE base.cur_ts[j]
        <5>1. a[k].cur_ts[j] = IF j = x.idx THEN seq[k][0] ELSE x.cur_ts[j]
          BY <2>3, <4>1
        <5>2. x.cur_ts[j] = IF j >= i /\ j < i + (k - 1) THEN seq[j - i + 1][0] ELSE base.cur_ts[j]
          BY <2>1 DEF PutOn
        <5>3. CASE j = x.idx
          <6>1. j - i + 1 = k /\ j >= i /\ j < i + k
            BY <4>1, <5>3
          <6> QED BY <5>1, <5>3, <6>1
        <5>4. CASE j # x.idx
          <6>1. (j >= i /\ j < i + (k - 1)) <=> (j >= i /\ j < i + k)
            BY <4>1, <5>4
          <6> QED BY <5>1, <5>2, <5>4, <6>1
        <5> QED BY <5>3, <5>4
      <4> QED BY <3>1, <4>2, <4>3 DEF PutOn
    <3>2. CASE ~ (i + k <= len)
      <4>1. x.idx = len /\ a[k] = x
        BY <2>1, <2>3, <3>2 DEF PutOn
      <4>2. ASSUME NEW j \in 0..(len - 1)
            PROVE  (j >= i /\ j < i + (k - 1)) <=> (j >= i /\ j < i + k)
        BY <3>2
      <4> QED BY <2>1, <3>2, <4>1, <4>2 DEF PutOn
    <3> QED BY <3>1, <3>2
  <2> QED BY <2>2, <2>4
<1>3. G \in SUBSET (0..n)
  OBVIOUS
<1> HIDE DEF G
<1>4. G = 0..n
  BY <1>1, <1>2, <1>3, Upward
<1>5. n \in G
  BY <1>4
<1> QED BY <1>5 DEF G

\* Slices put backwards, those of the chunk, and slices put after them.
LEMMA PutBackwards ==
    ASSUME NEW len \in Nat, NEW V, NEW n \in Nat, NEW seq, SlicesIn(n, seq, V),
           NEW base \in Filling(len, V), base.idx \in (-1)..(len - 1)
    PROVE  LET x == PutAll(len, seq, base, -1)
           IN  x \in Filling(len, V) /\ PutBack(len, seq, base, x, n)
<1>1. -1 \in Int
  OBVIOUS
<1>2. PICK a : /\ Through(n, base, a)
               /\ \A k \in 1..n : a[k] = PutSlice(a[k - 1], len, seq[k], -1)
               /\ PutAll(len, seq, base, -1) = a[n]
  <2>1. HasPutChain(len, n, seq, base, -1)
    BY <1>1, PutFold
  <2> QED BY <2>1 DEF HasPutChain
<1> QED BY <1>2, BackChain DEF PutChain

LEMMA PutForwards ==
    ASSUME NEW len \in Nat, NEW V, NEW n \in Nat, NEW seq, SlicesIn(n, seq, V),
           NEW base \in Filling(len, V), base.idx \in 0..len
    PROVE  LET x == PutAll(len, seq, base, 1)
           IN  x \in Filling(len, V) /\ PutOn(len, seq, base, x, n)
<1>1. 1 \in Int
  OBVIOUS
<1>2. PICK a : /\ Through(n, base, a)
               /\ \A k \in 1..n : a[k] = PutSlice(a[k - 1], len, seq[k], 1)
               /\ PutAll(len, seq, base, 1) = a[n]
  <2>1. HasPutChain(len, n, seq, base, 1)
    BY <1>1, PutFold
  <2> QED BY <2>1 DEF HasPutChain
<1> QED BY <1>2, OnChain DEF PutChain

LEMMA PutOwn ==
    ASSUME NEW len \in Nat, NEW V, NEW n \in Nat, NEW seq, SlicesIn(n, seq, V), OneBand(n, seq),
           NEW base \in Filling(len, V), base.idx \in 0..len
    PROVE  LET x == PutOwnAll(len, seq, base)
           IN  x \in Filling(len, V) /\ PutOn(len, seq, base, x, n)
<1>1. 1 \in Int
  OBVIOUS
<1>2. PICK a : /\ Through(n, base, a)
               /\ \A k \in 1..n : a[k] = PutOwnSlice(a[k - 1], len, seq[k])
               /\ PutOwnAll(len, seq, base) = a[n]
  <2>1. HasOwnChain(len, n, seq, base)
    BY OwnFold
  <2> QED BY <2>1 DEF HasOwnChain
<1> DEFINE G == {k \in 0..n : a[k] \in Filling(len, V)}
<1>3. ASSUME NEW k \in 1..n, a[k - 1] \in Filling(len, V)
      PROVE  a[k] = PutSlice(a[k - 1], len, seq[k], 1) /\ a[k] \in Filling(len, V)
  <2>1. a[k] = PutSlice(a[k - 1], len, seq[k], 1)
    BY <1>2, <1>3, OwnIsPut DEF OneBand
  <2> QED BY <1>1, <1>3, <2>1, PutType DEF SlicesIn
<1>4. 0 \in G /\ G \in SUBSET (0..n)
  <2>1. a[0] \in Filling(len, V) /\ 0 \in 0..n
    BY <1>2 DEF Through
  <2> QED BY <2>1
<1>5. \A k \in 1..n : k - 1 \in G => k \in G
  BY <1>3
<1> HIDE DEF G
<1>6. G = 0..n
  BY <1>4, <1>5, Upward
<1>7. \A k \in 1..n : a[k - 1] \in Filling(len, V)
  <2>1. \A k \in 1..n : k - 1 \in 0..n
    OBVIOUS
  <2> QED BY <1>6, <2>1 DEF G
<1>8. \A k \in 1..n : a[k] = PutSlice(a[k - 1], len, seq[k], 1)
  BY <1>3, <1>7
<1>9. PutChain(len, n, seq, base, 1, a)
  BY <1>2, <1>8 DEF PutChain
<1>10. a[n] \in Filling(len, V) /\ PutOn(len, seq, base, a[n], n)
  BY <1>9, OnChain
<1> QED BY <1>2, <1>10

-------------------------------------------------------------------------------
\* The chunks of one place.

\* The chunk j rows of chunks in time after id.
InColumn(c, id, j) == id + j * ChunksPerSlice(c)

\* Its row.
RowOf(c, id, j) == chunk_coords_from_id(c.n, c.s, id).t + j

Rows(c) == 0..(Ceil(c.n.t, c.s.t) - 1)

LEMMA ColumnIds ==
    ASSUME NEW c \in Inputs, NEW id \in ChunkIds(c.n, c.s), NEW j \in Int
    PROVE  /\ RowOf(c, id, j) \in Int /\ ChunksPerSlice(c) \in Nat \ {0}
           /\ InColumn(c, id, j) \in Int
           /\ InColumn(c, id, j) \in ChunkIds(c.n, c.s) <=> RowOf(c, id, j) \in Rows(c)
           /\ RowOf(c, id, 0) \in Rows(c) /\ RowOf(c, id, j) = RowOf(c, id, 0) + j
           /\ RowOf(c, id, j) \in Rows(c) =>
                LET a == chunk_limits(c.n, c.s, InColumn(c, id, j))
                    b == chunk_limits(c.n, c.s, id)
                IN  /\ a.low.t = Low(c.n.t, c.s.t, RowOf(c, id, j))
                    /\ a.high.t = High(c.n.t, c.s.t, RowOf(c, id, j))
                    /\ a.low.y = b.low.y /\ a.high.y = b.high.y
                    /\ a.low.x = b.low.x /\ a.high.x = b.high.x
<1> DEFINE n == c.n
           s == c.s
           X == Ceil(n.x, s.x)
           Y == Ceil(n.y, s.y)
           T == Ceil(n.t, s.t)
           m == ChunksPerSlice(c)
           q == chunk_coords_from_id(n, s, id)
           r == q.y * X + q.x
           k == q.t + j
           i == id + j * m
           e == [t |-> k, y |-> q.y, x |-> q.x]
<1>1. n \in Sizes /\ s \in Sizes
  BY InputIs
<1>2. X \in Nat \ {0} /\ Y \in Nat \ {0} /\ T \in Nat \ {0}
  BY <1>1, Radices
<1>3. q \in Coords(n, s) /\ chunk_id_from_coords(n, s, q) = id
  BY <1>1, IdOfCoordsOfId
<1>4. q.t \in 0..(T - 1) /\ q.y \in 0..(Y - 1) /\ q.x \in 0..(X - 1)
  BY <1>3 DEF Coords
<1>5. m = Y * X /\ Y * X \in Nat \ {0} /\ X * Y = Y * X
  BY <1>2, SMT DEF ChunksPerSlice
<1>6. r \in 0..(m - 1)
  <2>1. X * q.y + q.x \in 0..(X * Y - 1)
    <3> HIDE DEF X, Y, q
    <3> QED BY <1>2, <1>4, TwoDigits
  <2>2. X * q.y = q.y * X
    <3> HIDE DEF X, q
    <3> QED BY <1>2, <1>4, SMT
  <2> QED BY <1>5, <2>1, <2>2
<1>7. \A h \in Int : h * Y * X = h * m /\ h * m \in Int
  <2> HIDE DEF X, Y, m
  <2> QED BY <1>2, <1>5, SMT
<1>8. id = q.t * m + r
  <2>1. id = q.t * Y * X + q.y * X + q.x
    BY <1>3 DEF chunk_id_from_coords
  <2>2. q.t * Y * X = q.t * m /\ q.t * m \in Int
    BY <1>4, <1>7
  <2>3. q.y * X \in Int /\ q.x \in Int
    <3> HIDE DEF X, q
    <3> QED BY <1>2, <1>4, SMT
  <2> HIDE DEF X, Y, m, q
  <2> QED BY <2>1, <2>2, <2>3
<1>9. i = k * m + r /\ k \in Int /\ k * m \in Int
  <2>1. (q.t + j) * m = q.t * m + j * m /\ q.t * m \in Int /\ j * m \in Int
    <3> HIDE DEF m, q
    <3> QED BY <1>4, <1>5, SMT
  <2> HIDE DEF m, q, r
  <2> QED BY <1>4, <1>6, <1>8, <2>1
<1>10. ChunkIds(n, s) = 0..(T * m - 1) /\ T * m \in Nat
  <2>1. X * Y * T = T * m /\ T * m \in Nat
    <3> HIDE DEF X, Y, T, m
    <3>1. \A u, v, w \in Nat : u * v * w = w * (v * u)
      BY SMT
    <3> QED BY <1>2, <1>5, <3>1, SMT
  <2> QED BY <2>1 DEF ChunkIds, count_chunks
<1>11. ASSUME k \notin 0..(T - 1) PROVE i \notin ChunkIds(n, s)
  <2> HIDE DEF X, Y, T, m, q, r, k, i
  <2>1. CASE k >= T
    <3>1. T * m <= k * m
      BY <1>2, <1>5, <1>9, <2>1, ProductOrder
    <3> QED BY <1>5, <1>6, <1>9, <1>10, <3>1
  <2>2. CASE k <= -1
    <3>1. k * m <= -m
      BY <1>5, <1>9, <2>2, SMT
    <3> QED BY <1>5, <1>6, <1>9, <1>10, <3>1
  <2> QED BY <1>2, <1>9, <1>11, <2>1, <2>2
<1>12. ASSUME k \in 0..(T - 1)
       PROVE  i \in ChunkIds(n, s) /\ chunk_coords_from_id(n, s, i) = e
  <2>1. e \in Coords(n, s)
    BY <1>4, <1>12 DEF Coords
  <2>2. chunk_id_from_coords(n, s, e) = k * Y * X + q.y * X + q.x
    BY DEF chunk_id_from_coords
  <2>3. chunk_id_from_coords(n, s, e) = i
    <3>1. q.y * X \in Int /\ q.x \in Int
      <4> HIDE DEF X, q
      <4> QED BY <1>2, <1>4, SMT
    <3>2. k * Y * X = k * m
      BY <1>7, <1>9
    <3>3. k * m + q.y * X + q.x = k * m + (q.y * X + q.x)
      <4> HIDE DEF X, q, k, m
      <4> QED BY <1>9, <3>1
    <3> HIDE DEF e, X, Y, k, m, q, i
    <3> QED BY <1>9, <2>2, <3>2, <3>3 DEF r
  <2> HIDE DEF e, i
  <2> QED BY <1>1, <2>1, <2>3, CoordsOfIdOfCoords
<1>13. ASSUME k \in 0..(T - 1)
       PROVE  LET a == chunk_limits(n, s, i)
                  b == chunk_limits(n, s, id)
              IN  /\ a.low.t = Low(n.t, s.t, k) /\ a.high.t = High(n.t, s.t, k)
                  /\ a.low.y = b.low.y /\ a.high.y = b.high.y
                  /\ a.low.x = b.low.x /\ a.high.x = b.high.x
  <2>1. chunk_limits(n, s, i) = limits_of_coords(n, s, e)
    BY <1>12, <1>13 DEF chunk_limits
  <2>2. chunk_limits(n, s, id) = limits_of_coords(n, s, q)
    BY DEF chunk_limits
  <2> HIDE DEF i, q, k, n, s
  <2> QED BY <2>1, <2>2 DEF limits_of_coords
<1>14. /\ RowOf(c, id, j) = k /\ InColumn(c, id, j) = i /\ Rows(c) = 0..(T - 1)
  BY DEF RowOf, InColumn, Rows
<1>15. RowOf(c, id, 0) = q.t /\ k = q.t + j
  <2>1. q.t + 0 = q.t
    BY <1>4
  <2> QED BY <2>1 DEF RowOf
<1>16. i \in Int
  <2> HIDE DEF i, k, m, r
  <2> QED BY <1>5, <1>6, <1>9
<1>17. i \in ChunkIds(n, s) <=> k \in 0..(T - 1)
  <2> HIDE DEF T, k, i
  <2> QED BY <1>11, <1>12
<1>18. m \in Nat \ {0} /\ q.t \in 0..(T - 1) /\ q.t \in Int
  <2> HIDE DEF m
  <2> QED BY <1>4, <1>5
<1> HIDE DEF T, q, k, i
<1>19. /\ RowOf(c, id, j) \in Int /\ InColumn(c, id, j) \in Int
       /\ InColumn(c, id, j) \in ChunkIds(c.n, c.s) <=> RowOf(c, id, j) \in Rows(c)
       /\ RowOf(c, id, 0) \in Rows(c) /\ RowOf(c, id, j) = RowOf(c, id, 0) + j
  BY <1>9, <1>14, <1>15, <1>16, <1>17, <1>18
<1> QED BY <1>13, <1>14, <1>18, <1>19

\* What the pixel of element p of chunk id holds in slice u of the cube.
At(c, id, b, p, u) ==
    c.data[b][[ElementCell(c.n, c.s, id, ElementOf(chunk_size(c.n, c.s, id), 0, p)) EXCEPT !.t = u]]

\* First slice of a chunk.
FirstSlice(c, i) == chunk_limits(c.n, c.s, i).low.t

SlicesOf(c, i) == chunk_size(c.n, c.s, i).t

LEMMA ColumnSizes ==
    ASSUME NEW c \in Inputs, NEW id \in ChunkIds(c.n, c.s), NEW j \in Int,
           RowOf(c, id, j) \in Rows(c)
    PROVE  LET i == InColumn(c, id, j)
               z == chunk_size(c.n, c.s, id)
           IN  /\ chunk_size(c.n, c.s, i).y = z.y /\ chunk_size(c.n, c.s, i).x = z.x
               /\ FirstSlice(c, i) = RowOf(c, id, j) * c.s.t
               /\ FirstSlice(c, i) \in 0..(c.n.t - 1)
               /\ SlicesOf(c, i) \in 1..c.s.t
               /\ SlicesOf(c, i) = Smaller(c.s.t, c.n.t - FirstSlice(c, i))
<1> DEFINE i == InColumn(c, id, j)
           k == RowOf(c, id, j)
           a == chunk_limits(c.n, c.s, i)
           b == chunk_limits(c.n, c.s, id)
<1>1. c.n \in Sizes /\ c.s \in Sizes
  BY InputIs
<1>2. c.n.t \in Nat \ {0} /\ c.s.t \in Nat \ {0}
  BY <1>1, Radices
<1>3. /\ a.low.t = Low(c.n.t, c.s.t, k) /\ a.high.t = High(c.n.t, c.s.t, k)
      /\ a.low.y = b.low.y /\ a.high.y = b.high.y
      /\ a.low.x = b.low.x /\ a.high.x = b.high.x
  BY ColumnIds
<1>4. k \in 0..(Ceil(c.n.t, c.s.t) - 1)
  BY DEF Rows
<1> HIDE DEF a, b, i, k
<1>5. /\ Low(c.n.t, c.s.t, k) = k * c.s.t /\ Low(c.n.t, c.s.t, k) \in 0..(c.n.t - 1)
      /\ High(c.n.t, c.s.t, k) \in Low(c.n.t, c.s.t, k)..(c.n.t - 1)
  BY <1>2, <1>4, LimitsInside
<1>6. High(c.n.t, c.s.t, k) = Smaller(k * c.s.t + c.s.t - 1, c.n.t - 1)
  BY DEF High
<1>7. /\ chunk_size(c.n, c.s, i) = SizeOf(a) /\ chunk_size(c.n, c.s, id) = SizeOf(b)
  BY DEF chunk_size, a, b
<1>8. /\ chunk_size(c.n, c.s, i).t = a.high.t - a.low.t + 1
      /\ chunk_size(c.n, c.s, i).y = chunk_size(c.n, c.s, id).y
      /\ chunk_size(c.n, c.s, i).x = chunk_size(c.n, c.s, id).x
  BY <1>3, <1>7 DEF SizeOf
<1>9. a.high.t - a.low.t + 1 = Smaller(c.s.t, c.n.t - a.low.t)
  BY <1>2, <1>3, <1>5, <1>6 DEF Smaller
<1>10. FirstSlice(c, i) = a.low.t /\ SlicesOf(c, i) = chunk_size(c.n, c.s, i).t
  BY DEF FirstSlice, SlicesOf, a
<1>11. SlicesOf(c, i) \in 1..c.s.t
  BY <1>2, <1>3, <1>5, <1>8, <1>9, <1>10 DEF Smaller
<1> QED BY <1>3, <1>5, <1>8, <1>9, <1>10, <1>11 DEF i, k

\* What a chunk of the place holds.
LEMMA ColumnValue ==
    ASSUME NEW c \in Inputs, NEW id \in ChunkIds(c.n, c.s), NEW j \in Int,
           RowOf(c, id, j) \in Rows(c),
           NEW b \in 0..(c.nb - 1), NEW p \in 0..(chunk_size(c.n, c.s, id).y * chunk_size(c.n, c.s, id).x - 1)
    PROVE  LET i == InColumn(c, id, j)
               x == ChunkOf(c, i)
           IN  /\ i \in c.empty => x.size.t = 0
               /\ i \notin c.empty => x.size.t = SlicesOf(c, i)
               /\ \A t \in 0..(SlicesOf(c, i) - 1) :
                    IF i \in c.empty THEN At(c, id, b, p, FirstSlice(c, i) + t) = NaN
                    ELSE Value(x, b, t, p) = At(c, id, b, p, FirstSlice(c, i) + t)
<1> DEFINE i == InColumn(c, id, j)
           x == ChunkOf(c, i)
           z == chunk_size(c.n, c.s, id)
           w == chunk_size(c.n, c.s, i)
           la == chunk_limits(c.n, c.s, i)
           lb == chunk_limits(c.n, c.s, id)
<1>1. i \in ChunkIds(c.n, c.s)
  BY ColumnIds
<1>2. w.y = z.y /\ w.x = z.x /\ w.t = SlicesOf(c, i) /\ FirstSlice(c, i) = la.low.t
  BY ColumnSizes DEF SlicesOf, FirstSlice
<1>3. la.low.y = lb.low.y /\ la.high.y = lb.high.y /\ la.low.x = lb.low.x /\ la.high.x = lb.high.x
  BY ColumnIds
<1>4. ASSUME NEW t
      PROVE  c.data[b][ElementCell(c.n, c.s, i, ElementOf(w, t, p))] = At(c, id, b, p, la.low.t + t)
  <2>1. ElementCell(c.n, c.s, i, ElementOf(w, t, p)) =
          [t |-> la.low.t + t, y |-> (la.high.y + 1) - 1 - (p \div w.x), x |-> la.low.x + (p % w.x)]
    BY ElementCellIs DEF ElementOf
  <2>2. ElementCell(c.n, c.s, id, ElementOf(z, 0, p)) =
          [t |-> lb.low.t + 0, y |-> (lb.high.y + 1) - 1 - (p \div z.x), x |-> lb.low.x + (p % z.x)]
    BY ElementCellIs DEF ElementOf
  <2>3. At(c, id, b, p, la.low.t + t) =
          c.data[b][[ElementCell(c.n, c.s, id, ElementOf(z, 0, p)) EXCEPT !.t = la.low.t + t]]
    BY DEF At
  <2> HIDE DEF la, lb, z, w, i
  <2> QED BY <1>2, <1>3, <2>1, <2>2, <2>3
<1>5. p \in 0..(w.y * w.x - 1)
  <2>1. p \in 0..(z.y * z.x - 1)
    OBVIOUS
  <2> HIDE DEF w, z
  <2> QED BY <1>2, <2>1, Zenon
<1> HIDE DEF i, la, lb
<1>6. CASE i \in c.empty
  <2>1. /\ x.size.t = 0
        /\ \A bb \in 0..(c.nb - 1), tt \in 0..(w.t - 1), pp \in 0..(w.y * w.x - 1) :
                c.data[bb][ElementCell(c.n, c.s, i, ElementOf(w, tt, pp))] = NaN
    BY <1>6, NoChunk
  <2>2. \A t \in 0..(w.t - 1) : At(c, id, b, p, la.low.t + t) = NaN
    BY <1>4, <1>5, <2>1
  <2> HIDE DEF x, w, z
  <2> QED BY <1>2, <1>6, <2>1, <2>2 DEF i, x
<1>7. CASE i \notin c.empty
  <2>1. /\ x.size.t = w.t
        /\ \A bb \in 0..(c.nb - 1), tt \in 0..(w.t - 1), pp \in 0..(w.y * w.x - 1) :
              Value(x, bb, tt, pp) = c.data[bb][ElementCell(c.n, c.s, i, ElementOf(w, tt, pp))]
    BY <1>1, <1>7, FullChunk
  <2>2. \A t \in 0..(w.t - 1) : Value(x, b, t, p) = At(c, id, b, p, la.low.t + t)
    BY <1>4, <1>5, <2>1
  <2> HIDE DEF x, w, z
  <2> QED BY <1>2, <1>7, <2>1, <2>2 DEF i, x
<1> QED BY <1>6, <1>7

-------------------------------------------------------------------------------
\* The slices of a chunk next to another.

Number == Int \cup {NaN}

LEMMA InputData ==
    ASSUME NEW c \in Inputs
    PROVE  c.data \in [0..(c.nb - 1) -> [Cells(c.n) -> Number]]
<1>1. PICK d \in Cubes : c = WithChunks(d)
  BY DEF Inputs
<1>2. c.n = d.n /\ c.nb = d.nb /\ c.data = d.data
  BY <1>1 DEF WithChunks
<1>3. d.data \in [0..(d.nb - 1) -> [Cells(d.n) -> Number]]
  BY CubesAssumption DEF Number
<1> QED BY <1>2, <1>3

\* Elements of a chunk.
Places(c, id) == 0..(chunk_size(c.n, c.s, id).y * chunk_size(c.n, c.s, id).x - 1)

LEMMA AtNumber ==
    ASSUME NEW c \in Inputs, NEW id \in ChunkIds(c.n, c.s), NEW b \in 0..(c.nb - 1),
           NEW p \in Places(c, id), NEW u \in 0..(c.n.t - 1)
    PROVE  At(c, id, b, p, u) \in Number
<1> DEFINE e == ElementOf(chunk_size(c.n, c.s, id), 0, p)
           k == ElementCell(c.n, c.s, id, e)
<1>1. c.n \in Sizes /\ c.s \in Sizes
  BY InputIs
<1>2. e \in Elements(c.n, c.s, id)
  <2>1. 0 \in 0..(chunk_size(c.n, c.s, id).t - 1)
    BY <1>1, ChunkSizePositive
  <2> QED BY <1>1, <2>1, ElementInside DEF Places
<1>3. k \in Cells(c.n)
  BY <1>1, <1>2, ElementLimits
<1> HIDE DEF e, k
<1>4. [k EXCEPT !.t = u] \in Cells(c.n)
  BY <1>3 DEF Cells
<1>5. At(c, id, b, p, u) = c.data[b][[k EXCEPT !.t = u]]
  BY DEF At, e, k
<1>6. c.data[b] \in [Cells(c.n) -> Number]
  BY InputData
<1> QED BY <1>4, <1>5, <1>6

\* What lies outside of the cube is missing.
SliceAt(c, id, b, p, u) == IF u \in 0..(c.n.t - 1) THEN At(c, id, b, p, u) ELSE NaN

LEMMA SliceNumber ==
    ASSUME NEW c \in Inputs, NEW id \in ChunkIds(c.n, c.s), NEW b \in 0..(c.nb - 1),
           NEW p \in Places(c, id), NEW u
    PROVE  SliceAt(c, id, b, p, u) \in Number
<1>1. NaN \in Number
  BY DEF Number
<1> QED BY <1>1, AtNumber DEF SliceAt

\* Slices of one band.
Slice == [{0} -> Number]

\* v holds the slices from the slice first on.
SlicesFrom(c, id, b, p, v, first) ==
    \A k \in 1..Len(v) : v[k][0] = SliceAt(c, id, b, p, first + k - 1)

LEMMA SlicesAre ==
    ASSUME NEW c \in Inputs, NEW id \in ChunkIds(c.n, c.s), NEW j \in Int,
           InColumn(c, id, j) \notin c.empty,
           NEW w, Len(w.bands) = 1, w.bands[1] \in 0..(c.nb - 1), NEW p \in Places(c, id)
    PROVE  LET i == InColumn(c, id, j)
               v == Slices(c, w, i, p)
               h == RowOf(c, id, j)
           IN  /\ v \in Seq(Slice)
               /\ Len(v) = IF h \in Rows(c) THEN SlicesOf(c, i) ELSE c.s.t
               /\ SlicesFrom(c, id, w.bands[1], p, v, h * c.s.t)
<1> DEFINE i == InColumn(c, id, j)
           v == Slices(c, w, i, p)
           h == RowOf(c, id, j)
           x == ChunkOf(c, i)
           b == w.bands[1]
<1>1. c.n \in Sizes /\ c.s \in Sizes
  BY InputIs
<1>2. c.n.t \in Nat \ {0} /\ c.s.t \in Nat \ {0}
  BY <1>1, Radices
<1>3. 0..(Len(w.bands) - 1) = {0}
  OBVIOUS
<1>4. h \in Int /\ (i \in ChunkIds(c.n, c.s) <=> h \in Rows(c))
  BY ColumnIds
<1>5. CASE h \in Rows(c)
  <2> DEFINE z == SlicesOf(c, i)
  <2>1. /\ FirstSlice(c, i) = h * c.s.t /\ FirstSlice(c, i) \in 0..(c.n.t - 1)
        /\ z \in 1..c.s.t /\ z = Smaller(c.s.t, c.n.t - FirstSlice(c, i))
    BY <1>5, ColumnSizes
  <2>2. /\ x.size.t = z
        /\ \A t \in 0..(z - 1) : Value(x, b, t, p) = At(c, id, b, p, FirstSlice(c, i) + t)
    <3>1. p \in 0..(chunk_size(c.n, c.s, id).y * chunk_size(c.n, c.s, id).x - 1)
      BY DEF Places
    <3>2. b \in 0..(c.nb - 1) /\ i \notin c.empty
      OBVIOUS
    <3>3. /\ x.size.t = z
          /\ \A t \in 0..(z - 1) :
                IF i \in c.empty THEN At(c, id, b, p, FirstSlice(c, i) + t) = NaN
                ELSE Value(x, b, t, p) = At(c, id, b, p, FirstSlice(c, i) + t)
      <4> HIDE DEF b
      <4> QED BY <1>5, <3>1, <3>2, ColumnValue
    <3> HIDE DEF x, z, i, b
    <3> QED BY <3>2, <3>3
  <2>3. v = [k \in 1..x.size.t |-> [e \in 0..(Len(w.bands) - 1) |-> Value(x, w.bands[e + 1], k - 1, p)]]
    BY <1>4, <1>5 DEF Slices
  <2> HIDE DEF x, z, h, i
  <2>4. ASSUME NEW e \in {0} PROVE w.bands[e + 1] = b
    BY <2>4
  <2> HIDE DEF v, b
  <2>5. v = [k \in 1..z |-> [e \in {0} |-> Value(x, b, k - 1, p)]]
    BY <1>3, <2>2, <2>3, <2>4
  <2>6. ASSUME NEW k \in 1..z
        PROVE  /\ v[k] = [e \in {0} |-> Value(x, b, k - 1, p)]
               /\ Value(x, b, k - 1, p) = SliceAt(c, id, b, p, h * c.s.t + k - 1)
               /\ Value(x, b, k - 1, p) \in Number
    <3>1. v[k] = [e \in {0} |-> Value(x, b, k - 1, p)]
      BY <2>5
    <3>2. k - 1 \in 0..(z - 1) /\ FirstSlice(c, i) + (k - 1) \in 0..(c.n.t - 1)
          /\ FirstSlice(c, i) + (k - 1) = h * c.s.t + k - 1
      BY <1>2, <2>1 DEF Smaller
    <3>3. Value(x, b, k - 1, p) = SliceAt(c, id, b, p, h * c.s.t + k - 1)
      BY <2>2, <3>2 DEF SliceAt
    <3>4. b \in 0..(c.nb - 1)
      BY DEF b
    <3> QED BY <3>1, <3>3, <3>4, SliceNumber
  <2>7. v \in [1..z -> Slice]
    BY <2>5, <2>6 DEF Slice
  <2>8. v \in Seq(Slice) /\ Len(v) = z
    <3>1. z \in Nat
      BY <1>2, <2>1
    <3> QED BY <2>7, <3>1, FiniteSeq
  <2>9. SlicesFrom(c, id, b, p, v, h * c.s.t)
    BY <2>6, <2>8 DEF SlicesFrom
  <2> QED BY <1>5, <2>8, <2>9 DEF v, i, h, z, b
<1>6. CASE h \notin Rows(c)
  <2>1. v = [k \in 1..c.s.t |-> [e \in 0..(Len(w.bands) - 1) |-> NaN]]
    BY <1>4, <1>6 DEF Slices
  <2> HIDE DEF v, i, h, b
  <2>2. v = [k \in 1..c.s.t |-> [e \in {0} |-> NaN]]
    BY <1>3, <2>1
  <2>3. ASSUME NEW k \in 1..c.s.t PROVE h * c.s.t + k - 1 \notin 0..(c.n.t - 1)
    <3> DEFINE T == Ceil(c.n.t, c.s.t)
    <3>1. T \in Nat \ {0} /\ c.n.t <= T * c.s.t
      BY <1>2, CeilBounds
    <3>2. h \notin 0..(T - 1)
      BY <1>6 DEF Rows
    <3>3. h * c.s.t \in Int /\ T * c.s.t \in Int
      <4> HIDE DEF T
      <4> QED BY <1>2, <1>4, <3>1, SMT
    <3> HIDE DEF T
    <3>4. CASE h >= T
      <4>1. T * c.s.t <= h * c.s.t
        BY <1>2, <1>4, <3>1, <3>4, ProductOrder
      <4> QED BY <1>2, <3>1, <3>3, <4>1
    <3>5. CASE h <= -1
      <4>1. h * c.s.t <= -c.s.t
        BY <1>2, <1>4, <3>5, SMT
      <4> QED BY <1>2, <3>3, <4>1
    <3> QED BY <1>4, <3>1, <3>2, <3>4, <3>5
  <2>4. v \in [1..c.s.t -> Slice]
    BY <2>2 DEF Slice, Number
  <2>5. v \in Seq(Slice) /\ Len(v) = c.s.t
    <3>1. c.s.t \in Nat
      BY <1>2
    <3> QED BY <2>4, <3>1, FiniteSeq
  <2>6. \A k \in 1..c.s.t : v[k][0] = NaN
    BY <2>2
  <2>7. SlicesFrom(c, id, b, p, v, h * c.s.t)
    BY <2>3, <2>5, <2>6 DEF SlicesFrom, SliceAt
  <2> QED BY <1>6, <2>5, <2>7 DEF v, i, h, b
<1> QED BY <1>5, <1>6

\* The chunks before, the nearest first and each from its end.
BackFrom(c, id, b, p, v, last) ==
    \A k \in 1..Len(v) : v[k][0] = SliceAt(c, id, b, p, last - k)

FullBack(c, id, b, p, n, seqs, f) ==
    \A i \in 1..n : Len(seqs[i]) = c.s.t /\ BackFrom(c, id, b, p, seqs[i], f - (i - 1) * c.s.t)

LEMMA BeforeJoined ==
    ASSUME NEW c \in Inputs, NEW id, NEW b, NEW p, NEW n \in Nat, NEW seqs \in [1..n -> Seq(Slice)],
           NEW f \in Int, FullBack(c, id, b, p, n, seqs, f)
    PROVE  LET v == FlattenSeq(seqs)
           IN  v \in Seq(Slice) /\ Len(v) = n * c.s.t /\ BackFrom(c, id, b, p, v, f)
<1> DEFINE s == c.s.t
<1>1. s \in Nat \ {0}
  <2>1. c.n \in Sizes /\ c.s \in Sizes
    BY InputIs
  <2> QED BY <2>1, Radices
<1> HIDE DEF s
<1>2. PICK a : Joined(n, seqs, a) /\ (\A k \in 0..n : a[k] \in Seq(Slice)) /\ FlattenSeq(seqs) = a[n]
  <2>1. HasJoined(Slice, n, seqs)
    BY JoinedExists
  <2> QED BY <2>1 DEF HasJoined
<1> DEFINE G == {k \in 0..n : Len(a[k]) = k * s /\ BackFrom(c, id, b, p, a[k], f)}
<1>3. 0 \in G
  <2>1. a[0] = <<>> /\ Len(<<>>) = 0 /\ 0 * s = 0
    BY <1>1, <1>2 DEF Joined
  <2> QED BY <2>1 DEF BackFrom
<1>4. ASSUME NEW k \in 1..n, k - 1 \in G PROVE k \in G
  <2> DEFINE u == a[k - 1]
             x == seqs[k]
             d == (k - 1) * s
  <2>1. u \in Seq(Slice) /\ x \in Seq(Slice) /\ a[k] = u \o x
    <3>1. k - 1 \in 0..n
      OBVIOUS
    <3>2. a[k] = a[k - 1] \o seqs[k]
      BY <1>2 DEF Joined
    <3> QED BY <1>2, <3>1, <3>2
  <2>2. Len(u) = d /\ BackFrom(c, id, b, p, u, f)
    BY <1>4
  <2>3. Len(x) = s /\ BackFrom(c, id, b, p, x, f - d)
    BY DEF FullBack, s
  <2>4. d \in Nat /\ k * s = d + s
    <3> HIDE DEF d
    <3>1. (k - 1) * s \in Nat /\ k * s = (k - 1) * s + s
      BY <1>1, SMT
    <3> QED BY <3>1 DEF d
  <2> HIDE DEF u, x, d
  <2>5. /\ Len(u \o x) = Len(u) + Len(x)
        /\ \A i \in 1..(Len(u) + Len(x)) : (u \o x)[i] = IF i <= Len(u) THEN u[i] ELSE x[i - Len(u)]
    BY <2>1, ConcatProperties
  <2>6. ASSUME NEW i \in 1..(d + s) PROVE a[k][i][0] = SliceAt(c, id, b, p, f - i)
    <3>1. CASE i <= d
      BY <1>1, <2>1, <2>2, <2>3, <2>4, <2>5, <3>1 DEF BackFrom
    <3>2. CASE i > d
      <4>1. i - d \in 1..s /\ f - d - (i - d) = f - i
        BY <1>1, <2>4, <3>2
      <4>2. a[k][i] = x[i - d]
        BY <1>1, <2>1, <2>2, <2>3, <2>4, <2>5, <3>2
      <4>3. x[i - d][0] = SliceAt(c, id, b, p, f - d - (i - d))
        BY <2>3, <4>1 DEF BackFrom
      <4> QED BY <4>1, <4>2, <4>3
    <3> QED BY <1>1, <2>4, <3>1, <3>2
  <2>7. Len(a[k]) = k * s
    BY <2>1, <2>2, <2>3, <2>4, <2>5
  <2>8. BackFrom(c, id, b, p, a[k], f)
    BY <2>4, <2>6, <2>7 DEF BackFrom
  <2> QED BY <2>7, <2>8
<1>5. G \in SUBSET (0..n)
  OBVIOUS
<1> HIDE DEF G
<1>6. G = 0..n
  BY <1>3, <1>4, <1>5, Upward
<1>7. n \in G
  BY <1>6
<1> QED BY <1>2, <1>7 DEF G, s

\* The chunks after: slices after the last of the cube are missing.
NextOn(c, id, b, p, n, seqs, h) ==
    \A i \in 1..n :
        /\ Len(seqs[i]) <= c.s.t
        /\ (h + i) * c.s.t < c.n.t => Len(seqs[i]) = Smaller(c.s.t, c.n.t - (h + i) * c.s.t)
        /\ SlicesFrom(c, id, b, p, seqs[i], (h + i) * c.s.t)

AfterIs(c, id, b, p, n, v, t0) ==
    /\ v \in Seq(Slice) /\ SlicesFrom(c, id, b, p, v, t0)
    /\ t0 + Len(v) >= c.n.t \/ Len(v) = n * c.s.t

StartsAfter(c, h, t0) == t0 \in Nat /\ t0 = Smaller((h + 1) * c.s.t, c.n.t)

LEMMA AfterJoined ==
    ASSUME NEW c \in Inputs, NEW id, NEW b, NEW p, NEW n \in Nat, NEW seqs \in [1..n -> Seq(Slice)],
           NEW h \in Nat, NextOn(c, id, b, p, n, seqs, h), NEW t0, StartsAfter(c, h, t0)
    PROVE  AfterIs(c, id, b, p, n, FlattenSeq(seqs), t0)
<1> DEFINE s == c.s.t
           N == c.n.t
<1>1. s \in Nat \ {0} /\ N \in Nat \ {0} /\ t0 \in Nat
  <2>1. c.n \in Sizes /\ c.s \in Sizes
    BY InputIs
  <2> QED BY <2>1, Radices DEF StartsAfter
<1>0. t0 = Smaller((h + 1) * s, N)
  BY DEF StartsAfter
<1> HIDE DEF s, N
<1>2. PICK a : Joined(n, seqs, a) /\ (\A k \in 0..n : a[k] \in Seq(Slice)) /\ FlattenSeq(seqs) = a[n]
  <2>1. HasJoined(Slice, n, seqs)
    BY JoinedExists
  <2> QED BY <2>1 DEF HasJoined
<1> DEFINE I(k) == /\ Len(a[k]) <= k * s
                   /\ t0 + Len(a[k]) >= N \/ (t0 + Len(a[k]) = (h + k + 1) * s /\ Len(a[k]) = k * s)
                   /\ SlicesFrom(c, id, b, p, a[k], t0)
           G == {k \in 0..n : I(k)}
<1>3. 0 \in G
  <2>1. a[0] = <<>> /\ Len(<<>>) = 0 /\ 0 * s = 0
    BY <1>1, <1>2 DEF Joined
  <2>2. h + 0 + 1 = h + 1
    OBVIOUS
  <2>3. t0 >= N \/ t0 = (h + 0 + 1) * s
    <3>1. PICK e : e = (h + 1) * s
      OBVIOUS
    <3>2. e \in Nat
      BY <1>1, <3>1, SMT
    <3>3. t0 >= N \/ t0 = e
      <4>1. t0 = Smaller(e, N)
        BY <1>0, <3>1
      <4> QED BY <1>1, <3>2, <4>1 DEF Smaller
    <3> QED BY <2>2, <3>1, <3>3
  <2>4. I(0)
    BY <1>1, <2>1, <2>3 DEF SlicesFrom
  <2> QED BY <2>4
<1>4. ASSUME NEW k \in 1..n, k - 1 \in G PROVE k \in G
  <2> DEFINE u == a[k - 1]
             x == seqs[k]
             d == (k - 1) * s
             y == (h + k) * s
  <2>1. u \in Seq(Slice) /\ x \in Seq(Slice) /\ a[k] = u \o x
    <3>1. k - 1 \in 0..n
      OBVIOUS
    <3>2. a[k] = a[k - 1] \o seqs[k]
      BY <1>2 DEF Joined
    <3> QED BY <1>2, <3>1, <3>2
  <2>2. /\ Len(u) <= d /\ SlicesFrom(c, id, b, p, u, t0)
        /\ t0 + Len(u) >= N \/ (t0 + Len(u) = y /\ Len(u) = d)
    <3>1. I(k - 1) /\ h + (k - 1) + 1 = h + k
      BY <1>4
    <3> QED BY <3>1
  <2>3. /\ Len(x) <= s /\ SlicesFrom(c, id, b, p, x, y)
        /\ y < N => Len(x) = Smaller(s, N - y)
    BY DEF NextOn, s, N
  <2>4. d \in Nat /\ k * s = d + s /\ y \in Nat /\ (h + k + 1) * s = y + s /\ y = (h + 1) * s + d
        /\ (h + 1) * s \in Nat
    <3> HIDE DEF d, y
    <3>1. (k - 1) * s \in Nat /\ k * s = (k - 1) * s + s
      BY <1>1, SMT
    <3>2. (h + k) * s \in Nat /\ (h + k + 1) * s = (h + k) * s + s /\ (h + 1) * s \in Nat
      BY <1>1, SMT
    <3>3. (h + k) * s = (h + 1) * s + (k - 1) * s
      BY <1>1, SMT
    <3> QED BY <3>1, <3>2, <3>3 DEF d, y
  <2>5. t0 <= (h + 1) * s
    BY <1>0, <1>1, <2>4 DEF Smaller
  <2> HIDE DEF u, x, d, y
  <2>6. /\ Len(u \o x) = Len(u) + Len(x)
        /\ \A i \in 1..(Len(u) + Len(x)) : (u \o x)[i] = IF i <= Len(u) THEN u[i] ELSE x[i - Len(u)]
    BY <2>1, ConcatProperties
  <2>7. Len(u) \in Nat /\ Len(x) \in Nat
    BY <2>1, LenProperties
  <2>8. ASSUME NEW i \in 1..(Len(u) + Len(x)) PROVE a[k][i][0] = SliceAt(c, id, b, p, t0 + i - 1)
    <3>1. CASE i <= Len(u)
      <4>1. i \in 1..Len(u)
        BY <2>7, <3>1
      <4>2. u[i][0] = SliceAt(c, id, b, p, t0 + i - 1)
        BY <2>2, <4>1 DEF SlicesFrom
      <4> QED BY <2>1, <2>6, <3>1, <4>2
    <3>2. CASE i > Len(u)
      <4>1. i - Len(u) \in 1..Len(x)
        BY <2>7, <3>2
      <4>2. a[k][i] = x[i - Len(u)]
        BY <2>1, <2>6, <2>7, <3>2
      <4>3. x[i - Len(u)][0] = SliceAt(c, id, b, p, y + (i - Len(u)) - 1)
        BY <2>3, <4>1 DEF SlicesFrom
      <4>4. CASE t0 + Len(u) = y
        <5>1. y + (i - Len(u)) - 1 = t0 + i - 1
          <6>1. t0 \in Nat /\ Len(u) \in Nat /\ y = t0 + Len(u) /\ i \in Nat
            BY <1>1, <2>7, <4>4
          <6> HIDE DEF s, N, y
          <6> QED BY <6>1
        <5> QED BY <4>2, <4>3, <5>1
      <4>5. CASE t0 + Len(u) >= N
        <5>1. y >= t0 + Len(u)
          BY <1>1, <2>2, <2>4, <2>5, <2>7
        <5>2. y + (i - Len(u)) - 1 \notin 0..(N - 1) /\ t0 + i - 1 \notin 0..(N - 1)
          BY <1>1, <2>4, <2>7, <3>2, <4>5, <5>1
        <5> QED BY <4>2, <4>3, <5>2 DEF SliceAt, N
      <4> QED BY <2>2, <4>4, <4>5
    <3> QED BY <2>7, <3>1, <3>2
  <2>9. Len(a[k]) = Len(u) + Len(x)
    BY <2>1, <2>6
  <2>10. Len(a[k]) <= k * s
    BY <1>1, <2>2, <2>3, <2>4, <2>7, <2>9
  <2>11. t0 + Len(a[k]) >= N \/ (t0 + Len(a[k]) = (h + k + 1) * s /\ Len(a[k]) = k * s)
    <3>1. PICK e : e = (h + k + 1) * s
      OBVIOUS
    <3>2. PICK g : g = k * s
      OBVIOUS
    <3>3. e = y + s /\ g = d + s /\ d \in Nat /\ y \in Nat
      BY <2>4, <3>1, <3>2
    <3>4. t0 + Len(a[k]) >= N \/ (t0 + Len(a[k]) = e /\ Len(a[k]) = g)
      <4>1. CASE t0 + Len(u) >= N
        BY <1>1, <2>7, <2>9, <4>1
      <4>2. CASE t0 + Len(u) < N
        <5>1. t0 + Len(u) = y /\ Len(u) = d /\ y < N
          BY <1>1, <2>2, <2>4, <2>7, <4>2
        <5>2. Len(x) = Smaller(s, N - y)
          BY <2>3, <5>1
        <5>3. CASE Len(x) = s
          <6>1. Len(a[k]) = Len(u) + s
            BY <2>9, <5>3
          <6>2. Len(a[k]) = g
            BY <3>3, <5>1, <6>1
          <6>3. t0 + (Len(u) + s) = (t0 + Len(u)) + s
            BY <1>1, <2>7
          <6>4. t0 + Len(a[k]) = e
            BY <3>3, <5>1, <6>1, <6>3
          <6> QED BY <6>2, <6>4
        <5>4. CASE Len(x) = N - y
          BY <1>1, <2>7, <2>9, <3>3, <5>1, <5>4
        <5> QED BY <5>2, <5>3, <5>4 DEF Smaller
      <4> QED BY <1>1, <2>7, <4>1, <4>2
    <3> QED BY <3>1, <3>2, <3>4
  <2>12. SlicesFrom(c, id, b, p, a[k], t0)
    BY <2>8, <2>9 DEF SlicesFrom
  <2> QED BY <2>10, <2>11, <2>12
<1>5. G \in SUBSET (0..n)
  OBVIOUS
<1> HIDE DEF I
<1>6. G = 0..n
  <2> HIDE DEF G
  <2> QED BY <1>3, <1>4, <1>5, Upward
<1>7. I(n)
  <2>1. n \in G
    BY <1>6
  <2> QED BY <2>1
<1>8. a[n] \in Seq(Slice)
  BY <1>2
<1> QED BY <1>2, <1>7, <1>8 DEF I, s, N, AfterIs

\* Slices that are put have numbers.
LEMMA SlicesGiven ==
    ASSUME NEW v \in Seq(Slice)
    PROVE  Len(v) \in Nat /\ SlicesIn(Len(v), v, Number) /\ OneBand(Len(v), v)
<1>1. Len(v) \in Nat /\ DOMAIN v = 1..Len(v)
  BY LenProperties
<1>2. \A k \in 1..Len(v) : v[k] \in Slice
  BY ElementOfSeq
<1>3. \A k \in 1..Len(v) : DOMAIN v[k] = {0} /\ v[k][0] \in Number
  BY <1>2 DEF Slice
<1> QED BY <1>1, <1>3 DEF SlicesIn, OneBand

\* No chunk that a window from chunk id needs is empty.
NoGaps(c, w, id) ==
    \A j \in (-ChunksBefore(c, w))..ChunksAfter(c, w) : InColumn(c, id, j) \notin c.empty

OneBandWindow(c, w) ==
    Len(w.bands) = 1 /\ w.bands[1] \in 0..(c.nb - 1) /\ w.l \in Nat /\ w.r \in Nat

BackSlices(c, w, id, p) ==
    [i \in 1..ChunksBefore(c, w) |-> Reverse(Slices(c, w, id - i * ChunksPerSlice(c), p))]

NextSlices(c, w, id, p) ==
    [i \in 1..ChunksAfter(c, w) |-> Slices(c, w, id + i * ChunksPerSlice(c), p)]

WindowLength(c, w, id) == w.l + c.sizes[id].t + w.r

Blank(c, w, id) ==
    [cur_ts |-> [k \in 0..(Len(w.bands) * WindowLength(c, w, id) - 1) |-> NaN], idx |-> w.l - 1]

LeftPart(c, w, id, p) ==
    PutAll(WindowLength(c, w, id), FlattenSeq(BackSlices(c, w, id, p)), Blank(c, w, id), -1)

OwnPart(c, w, id, p) ==
    PutOwnAll(WindowLength(c, w, id), Slices(c, w, id, p), [LeftPart(c, w, id, p) EXCEPT !.idx = w.l])

LEMMA WindowSeriesParts ==
    ASSUME NEW c, NEW w, NEW id, NEW p
    PROVE  WindowSeries(c, w, id, p) =
              PutAll(WindowLength(c, w, id), FlattenSeq(NextSlices(c, w, id, p)),
                     OwnPart(c, w, id, p), 1).cur_ts
  BY DEF WindowSeries, PutAll, PutOwnAll, LeftPart, OwnPart, Blank, WindowLength, BackSlices,
         NextSlices, FoldLeft, MapThenFoldSet

LEMMA WindowSizes ==
    ASSUME NEW c \in Inputs, NEW id \in ChunkIds(c.n, c.s), NEW w, OneBandWindow(c, w)
    PROVE  LET f == FirstSlice(c, id)
               h == RowOf(c, id, 0)
               z == c.sizes[id].t
           IN  /\ c.s.t \in Nat \ {0} /\ c.n.t \in Nat \ {0} /\ h \in Rows(c) /\ h \in Nat
               /\ InColumn(c, id, 0) = id /\ ChunksPerSlice(c) \in Nat \ {0} /\ id \in Nat
               /\ f = h * c.s.t /\ f \in 0..(c.n.t - 1) /\ z = SlicesOf(c, id)
               /\ z = Smaller(c.s.t, c.n.t - f) /\ z \in Nat \ {0}
               /\ f + z = Smaller((h + 1) * c.s.t, c.n.t)
               /\ ChunksBefore(c, w) \in Nat /\ w.l <= ChunksBefore(c, w) * c.s.t
               /\ ChunksAfter(c, w) \in Nat /\ w.r <= ChunksAfter(c, w) * c.s.t
               /\ w.l \in Nat /\ w.r \in Nat
               /\ WindowLength(c, w, id) = w.l + z + w.r /\ WindowLength(c, w, id) \in Nat
<1> DEFINE f == FirstSlice(c, id)
           h == RowOf(c, id, 0)
           z == c.sizes[id].t
           s == c.s.t
<1>1. c.n \in Sizes /\ c.s \in Sizes /\ c.sizes[id] = chunk_size(c.n, c.s, id)
  BY InputIs
<1>2. s \in Nat \ {0} /\ c.n.t \in Nat \ {0} /\ Ceil(c.n.t, s) \in Nat \ {0}
  BY <1>1, Radices
<1>3. 0 \in Int
  OBVIOUS
<1>4. h \in Rows(c) /\ ChunksPerSlice(c) \in Nat \ {0}
  BY <1>3, ColumnIds
<1>5. id \in Nat
  BY DEF ChunkIds
<1>6. InColumn(c, id, 0) = id
  <2>1. 0 * ChunksPerSlice(c) = 0
    BY <1>4
  <2> QED BY <1>5, <2>1 DEF InColumn
<1>7. /\ f = h * s /\ f \in 0..(c.n.t - 1) /\ SlicesOf(c, id) \in 1..s
      /\ SlicesOf(c, id) = Smaller(s, c.n.t - f)
  BY <1>3, <1>4, <1>6, ColumnSizes
<1>8. z = SlicesOf(c, id)
  BY <1>1 DEF SlicesOf
<1>9. h \in Nat
  BY <1>2, <1>4 DEF Rows
<1> HIDE DEF f, h, z, s
<1>10. z \in Nat \ {0}
  BY <1>2, <1>7, <1>8
<1>11. f + z = Smaller((h + 1) * s, c.n.t)
  <2>1. PICK e : e = (h + 1) * s
    OBVIOUS
  <2>2. e = f + s
    <3>1. (h + 1) * s = h * s + s
      BY <1>2, <1>9, SMT
    <3> QED BY <1>7, <2>1, <3>1
  <2>3. z = Smaller(s, c.n.t - f)
    BY <1>7, <1>8
  <2>4. f + z = Smaller(e, c.n.t)
    <3>1. f \in 0..(c.n.t - 1)
      BY <1>7
    <3> QED BY <1>2, <2>2, <2>3, <3>1 DEF Smaller
  <2> QED BY <2>1, <2>4
<1>12. w.l \in Nat /\ w.r \in Nat
  BY DEF OneBandWindow
<1>13. /\ ChunksBefore(c, w) \in Nat /\ w.l <= ChunksBefore(c, w) * s
       /\ ChunksAfter(c, w) \in Nat /\ w.r <= ChunksAfter(c, w) * s
  BY <1>2, <1>12, CeilCovers DEF ChunksBefore, ChunksAfter, s
<1>14. WindowLength(c, w, id) = w.l + z + w.r
  BY DEF WindowLength, z
<1>15. WindowLength(c, w, id) \in Nat
  BY <1>10, <1>12, <1>14
<1> QED BY <1>2, <1>4, <1>5, <1>6, <1>7, <1>8, <1>9, <1>10, <1>11, <1>12, <1>13, <1>14, <1>15
       DEF f, h, z, s

LEMMA LeftIs ==
    ASSUME NEW c \in Inputs, NEW id \in ChunkIds(c.n, c.s), NEW w, OneBandWindow(c, w),
           NoGaps(c, w, id), NEW p \in Places(c, id)
    PROVE  LET x == LeftPart(c, w, id, p)
               len == WindowLength(c, w, id)
           IN  /\ x \in Filling(len, Number)
               /\ \A j \in 0..(len - 1) :
                    x.cur_ts[j] = IF j < w.l
                                  THEN SliceAt(c, id, w.bands[1], p, FirstSlice(c, id) - w.l + j)
                                  ELSE NaN
<1> DEFINE len == WindowLength(c, w, id)
           s == c.s.t
           m == ChunksPerSlice(c)
           n == ChunksBefore(c, w)
           f == FirstSlice(c, id)
           h == RowOf(c, id, 0)
           b == w.bands[1]
           seqs == BackSlices(c, w, id, p)
           v == FlattenSeq(seqs)
           base == Blank(c, w, id)
           x == LeftPart(c, w, id, p)
<1>1. /\ s \in Nat \ {0} /\ c.n.t \in Nat \ {0} /\ h \in Rows(c) /\ h \in Nat
      /\ m \in Nat \ {0} /\ id \in Nat /\ f = h * s /\ f \in 0..(c.n.t - 1)
      /\ n \in Nat /\ w.l <= n * s /\ w.l \in Nat /\ w.r \in Nat /\ ChunksAfter(c, w) \in Nat
      /\ len \in Nat /\ c.sizes[id].t \in Nat \ {0} /\ len = w.l + c.sizes[id].t + w.r
  BY WindowSizes
<1>2. b \in 0..(c.nb - 1) /\ Len(w.bands) = 1
  BY DEF OneBandWindow
<1>3. ASSUME NEW i \in 1..n
      PROVE  /\ seqs[i] \in Seq(Slice) /\ Len(seqs[i]) = s
             /\ BackFrom(c, id, b, p, seqs[i], f - (i - 1) * s)
  <2> DEFINE u == Slices(c, w, InColumn(c, id, -i), p)
             g == (i - 1) * s
  <2>1. -i \in Int /\ -i \in (-n)..ChunksAfter(c, w)
    <3> HIDE DEF n
    <3> QED BY <1>1
  <2>2. id - i * m = InColumn(c, id, -i)
    <3>1. id - i * m = id + (-i) * m
      <4> HIDE DEF m
      <4> QED BY <1>1, SMT
    <3> QED BY <3>1 DEF InColumn
  <2>3. seqs[i] = Reverse(u)
    <3> HIDE DEF n
    <3>1. BackSlices(c, w, id, p) = [k \in 1..n |-> Reverse(Slices(c, w, id - k * m, p))]
      BY DEF BackSlices, n
    <3> QED BY <2>2, <3>1
  <2>4. RowOf(c, id, -i) = h + (-i) /\ RowOf(c, id, -i) = h - i
    BY <1>1, <2>1, ColumnIds
  <2>5. InColumn(c, id, -i) \notin c.empty
    BY <2>1 DEF NoGaps
  <2>6. /\ u \in Seq(Slice)
        /\ Len(u) = IF h - i \in Rows(c) THEN SlicesOf(c, InColumn(c, id, -i)) ELSE s
        /\ SlicesFrom(c, id, b, p, u, (h - i) * s)
    BY <1>2, <2>1, <2>4, <2>5, SlicesAre
  <2>7. g \in Nat /\ (h - i) * s = f - g - s
    <3> HIDE DEF s, g
    <3>1. (h - i) * s = h * s - (i - 1) * s - s
      BY <1>1, SMT
    <3>2. (i - 1) * s \in Nat
      BY <1>1, SMT
    <3> QED BY <1>1, <3>1, <3>2 DEF g
  <2>8. Len(u) = s
    <3>1. CASE h - i \in Rows(c)
      <4>1. /\ FirstSlice(c, InColumn(c, id, -i)) = (h - i) * s
            /\ SlicesOf(c, InColumn(c, id, -i)) = Smaller(s, c.n.t - FirstSlice(c, InColumn(c, id, -i)))
        BY <2>1, <2>4, <3>1, ColumnSizes
      <4> HIDE DEF g, u, s, f
      <4>2. c.n.t - (h - i) * s >= s
        BY <1>1, <2>7
      <4>3. Smaller(s, c.n.t - (h - i) * s) = s
        <5>1. (h - i) * s \in Int
          BY <1>1, <2>7
        <5>2. PICK e : e = c.n.t - (h - i) * s
          OBVIOUS
        <5>3. e \in Int /\ e >= s
          BY <1>1, <4>2, <5>1, <5>2
        <5>4. Smaller(s, e) = s
          BY <1>1, <5>3 DEF Smaller
        <5> QED BY <5>2, <5>4
      <4> QED BY <2>6, <3>1, <4>1, <4>3
    <3>2. CASE h - i \notin Rows(c)
      BY <2>6, <3>2
    <3> QED BY <3>1, <3>2
  <2> HIDE DEF u, g, s, n, b, f
  <2>9. DOMAIN Reverse(u) = 1..s /\ \A k \in 1..s : Reverse(u)[k] = u[(s - k) + 1]
    BY <2>8 DEF Reverse
  <2>10. \A k \in 1..s : (s - k) + 1 \in 1..s
    BY <1>1
  <2>11. Reverse(u) \in [1..s -> Slice]
    <3>1. \A k \in 1..s : u[k] \in Slice
      BY <2>6, <2>8, ElementOfSeq
    <3>2. Reverse(u) = [k \in 1..s |-> u[(s - k) + 1]]
      BY <2>8 DEF Reverse
    <3> QED BY <2>10, <3>1, <3>2
  <2>12. Reverse(u) \in Seq(Slice) /\ Len(Reverse(u)) = s
    <3>1. s \in Nat
      BY <1>1
    <3> QED BY <2>11, <3>1, FiniteSeq
  <2>13. ASSUME NEW k \in 1..s PROVE Reverse(u)[k][0] = SliceAt(c, id, b, p, f - g - k)
    <3>1. u[(s - k) + 1][0] = SliceAt(c, id, b, p, (h - i) * s + ((s - k) + 1) - 1)
      BY <2>6, <2>8, <2>10 DEF SlicesFrom
    <3>2. (h - i) * s + ((s - k) + 1) - 1 = f - g - k
      BY <1>1, <2>7
    <3> QED BY <2>9, <3>1, <3>2
  <2>14. BackFrom(c, id, b, p, Reverse(u), f - g)
    BY <2>12, <2>13 DEF BackFrom
  <2> QED BY <2>3, <2>12, <2>14 DEF g
<1>4. seqs \in [1..n -> Seq(Slice)]
  <2>1. seqs = [i \in 1..n |-> Reverse(Slices(c, w, id - i * m, p))]
    BY DEF BackSlices
  <2> HIDE DEF seqs, n, s, f, b
  <2> QED BY <1>3, <2>1
<1>5. FullBack(c, id, b, p, n, seqs, f)
  BY <1>3 DEF FullBack
<1>6. v \in Seq(Slice) /\ Len(v) = n * s /\ BackFrom(c, id, b, p, v, f)
  <2>1. f \in Int
    BY <1>1
  <2> HIDE DEF seqs, n, f, b
  <2> QED BY <1>1, <1>4, <1>5, <2>1, BeforeJoined
<1>7. base \in Filling(len, Number) /\ base.idx = w.l - 1 /\ \A j \in 0..(len - 1) : base.cur_ts[j] = NaN
  <2>1. Len(w.bands) * len = len
    <3> HIDE DEF len
    <3> QED BY <1>1, <1>2
  <2>2. base = [cur_ts |-> [k \in 0..(len - 1) |-> NaN], idx |-> w.l - 1]
    BY <2>1 DEF Blank
  <2>3. w.l - 1 \in Int /\ NaN \in Number
    BY <1>1 DEF Number
  <2> HIDE DEF base, len
  <2> QED BY <2>2, <2>3 DEF Filling
<1>8. base.idx \in (-1)..(len - 1)
  <2> HIDE DEF len, base
  <2> QED BY <1>1, <1>7
<1>9. Len(v) \in Nat /\ SlicesIn(Len(v), v, Number)
  BY <1>6, SlicesGiven
<1>10. x = PutAll(len, v, base, -1)
  BY DEF LeftPart
<1> HIDE DEF v, base, x, len, f, n, s, b, seqs
<1>11. x \in Filling(len, Number) /\ PutBack(len, v, base, x, Len(v))
  BY <1>1, <1>7, <1>8, <1>9, <1>10, PutBackwards
<1>12. ASSUME NEW j \in 0..(len - 1)
       PROVE  x.cur_ts[j] = IF j < w.l THEN SliceAt(c, id, b, p, f - w.l + j) ELSE NaN
  <2>1. x.cur_ts[j] = IF j <= w.l - 1 /\ j > w.l - 1 - Len(v) THEN v[w.l - 1 - j + 1][0] ELSE NaN
    BY <1>7, <1>11 DEF PutBack
  <2>2. CASE j < w.l
    <3>1. j <= w.l - 1 /\ j > w.l - 1 - Len(v) /\ w.l - 1 - j + 1 \in 1..Len(v)
      <4>1. w.l <= Len(v) /\ w.l \in Nat
        BY <1>1, <1>6
      <4> QED BY <1>9, <2>2, <4>1
    <3>2. v[w.l - 1 - j + 1][0] = SliceAt(c, id, b, p, f - (w.l - 1 - j + 1))
      BY <1>6, <3>1 DEF BackFrom
    <3>3. f - (w.l - 1 - j + 1) = f - w.l + j
      BY <1>1
    <3> QED BY <2>1, <2>2, <3>1, <3>2, <3>3
  <2>3. CASE ~ (j < w.l)
    BY <1>1, <2>1, <2>3
  <2> QED BY <2>2, <2>3
<1> QED BY <1>11, <1>12 DEF x, len, f, b

\* The series of a window.
LEMMA WindowSeriesIs ==
    ASSUME NEW c \in Inputs, NEW id \in ChunkIds(c.n, c.s), NEW w, OneBandWindow(c, w),
           NoGaps(c, w, id), NEW p \in Places(c, id),
           NEW j \in 0..(WindowLength(c, w, id) - 1)
    PROVE  WindowSeries(c, w, id, p)[j] =
              SliceAt(c, id, w.bands[1], p, FirstSlice(c, id) - w.l + j)
<1> DEFINE len == WindowLength(c, w, id)
           s == c.s.t
           z == c.sizes[id].t
           m == ChunksPerSlice(c)
           n == ChunksAfter(c, w)
           f == FirstSlice(c, id)
           h == RowOf(c, id, 0)
           b == w.bands[1]
           seqs == NextSlices(c, w, id, p)
           v == FlattenSeq(seqs)
           x == LeftPart(c, w, id, p)
           y == OwnPart(c, w, id, p)
           u == Slices(c, w, id, p)
           x2 == [x EXCEPT !.idx = w.l]
           r == PutAll(len, v, y, 1)
<1>1. /\ s \in Nat \ {0} /\ c.n.t \in Nat \ {0} /\ h \in Rows(c) /\ h \in Nat
      /\ InColumn(c, id, 0) = id /\ m \in Nat \ {0} /\ id \in Nat /\ f = h * s /\ f \in 0..(c.n.t - 1)
      /\ z = SlicesOf(c, id) /\ z \in Nat \ {0} /\ f + z = Smaller((h + 1) * s, c.n.t)
      /\ n \in Nat /\ w.r <= n * s /\ w.l \in Nat /\ w.r \in Nat /\ ChunksBefore(c, w) \in Nat
      /\ len \in Nat /\ len = w.l + z + w.r
  BY WindowSizes
<1>2. b \in 0..(c.nb - 1) /\ Len(w.bands) = 1
  BY DEF OneBandWindow
<1>3. /\ x \in Filling(len, Number)
      /\ \A k \in 0..(len - 1) :
            x.cur_ts[k] = IF k < w.l THEN SliceAt(c, id, b, p, f - w.l + k) ELSE NaN
  BY LeftIs
<1>4. /\ u \in Seq(Slice) /\ Len(u) = z /\ SlicesFrom(c, id, b, p, u, f)
  <2>1. 0 \in Int /\ 0 \in (-ChunksBefore(c, w))..n
    <3> HIDE DEF n
    <3> QED BY <1>1
  <2>2. InColumn(c, id, 0) \notin c.empty
    BY <2>1 DEF NoGaps
  <2>3. LET i == InColumn(c, id, 0)
            e == Slices(c, w, i, p)
        IN  /\ e \in Seq(Slice)
            /\ Len(e) = IF h \in Rows(c) THEN SlicesOf(c, i) ELSE s
            /\ SlicesFrom(c, id, w.bands[1], p, e, h * s)
    BY <1>2, <2>1, <2>2, SlicesAre
  <2> HIDE DEF h, s, f, b
  <2> QED BY <1>1, <2>3 DEF b
<1>5. ASSUME NEW i \in 1..n
      PROVE  /\ seqs[i] \in Seq(Slice)
             /\ Len(seqs[i]) <= s
             /\ (h + i) * s < c.n.t => Len(seqs[i]) = Smaller(s, c.n.t - (h + i) * s)
             /\ SlicesFrom(c, id, b, p, seqs[i], (h + i) * s)
  <2> DEFINE k == InColumn(c, id, i)
             e == Slices(c, w, k, p)
  <2>1. i \in Int /\ i \in (-ChunksBefore(c, w))..n
    <3> HIDE DEF n
    <3> QED BY <1>1
  <2>2. id + i * m = k
    BY DEF InColumn
  <2>3. seqs[i] = e
    <3> HIDE DEF n, k, m
    <3>1. NextSlices(c, w, id, p) = [g \in 1..n |-> Slices(c, w, id + g * m, p)]
      BY DEF NextSlices, n, m
    <3> QED BY <2>2, <3>1
  <2>4. RowOf(c, id, i) = h + i
    BY <2>1, ColumnIds
  <2>5. k \notin c.empty
    BY <2>1 DEF NoGaps
  <2>6. /\ e \in Seq(Slice)
        /\ Len(e) = IF h + i \in Rows(c) THEN SlicesOf(c, k) ELSE s
        /\ SlicesFrom(c, id, b, p, e, (h + i) * s)
    BY <1>2, <2>1, <2>4, <2>5, SlicesAre
  <2>7. Len(e) <= s
    <3>1. CASE h + i \in Rows(c)
      <4>1. SlicesOf(c, k) \in 1..s
        BY <2>1, <2>4, <3>1, ColumnSizes
      <4> HIDE DEF e, k, s
      <4> QED BY <1>1, <2>6, <3>1, <4>1
    <3>2. CASE h + i \notin Rows(c)
      <4> HIDE DEF e, k, s
      <4> QED BY <1>1, <2>6, <3>2
    <3> QED BY <3>1, <3>2
  <2>8. ASSUME (h + i) * s < c.n.t PROVE Len(e) = Smaller(s, c.n.t - (h + i) * s)
    <3>1. h + i \in Rows(c)
      <4> DEFINE T == Ceil(c.n.t, c.s.t)
      <4>1. T \in Nat \ {0} /\ c.n.t <= T * s
        BY <1>1, CeilBounds
      <4>2. Rows(c) = 0..(T - 1)
        BY DEF Rows
      <4>3. SUFFICES ASSUME h + i >= T PROVE FALSE
        <5> HIDE DEF T, n, h
        <5>1. h + i \in Nat
          <6>1. h \in Nat /\ i \in Nat
            BY <1>1
          <6> QED BY <6>1
        <5>2. T \in Nat
          BY <4>1
        <5> QED BY <5>1, <5>2, <4>2
      <4> HIDE DEF T, s, h
      <4>4. T * s <= (h + i) * s
        BY <1>1, <4>1, <4>3, ProductOrder
      <4>5. T * s \in Nat /\ (h + i) * s \in Nat
        BY <1>1, <4>1, SMT
      <4> QED BY <1>1, <2>8, <4>1, <4>4, <4>5
    <3>2. /\ FirstSlice(c, k) = (h + i) * s
          /\ SlicesOf(c, k) = Smaller(s, c.n.t - FirstSlice(c, k))
      BY <2>1, <2>4, <3>1, ColumnSizes
    <3> HIDE DEF e, k, s
    <3> QED BY <2>6, <3>1, <3>2
  <2> QED BY <2>3, <2>6, <2>7, <2>8
<1>6. seqs \in [1..n -> Seq(Slice)]
  <2>1. seqs = [i \in 1..n |-> Slices(c, w, id + i * m, p)]
    BY DEF NextSlices
  <2> HIDE DEF seqs, n, s, h, b
  <2> QED BY <1>5, <2>1
<1>7. NextOn(c, id, b, p, n, seqs, h)
  BY <1>5 DEF NextOn
<1>8. /\ v \in Seq(Slice) /\ SlicesFrom(c, id, b, p, v, f + z)
      /\ f + z + Len(v) >= c.n.t \/ Len(v) = n * s
  <2>1. f + z \in Nat
    <3> HIDE DEF f, z
    <3> QED BY <1>1
  <2> HIDE DEF seqs, n, f, b, h, z
  <2>2. PICK t0 : t0 = f + z
    OBVIOUS
  <2>3. t0 \in Nat /\ t0 = Smaller((h + 1) * c.s.t, c.n.t)
    BY <1>1, <2>1, <2>2
  <2>4. /\ v \in Seq(Slice) /\ SlicesFrom(c, id, b, p, v, t0)
        /\ t0 + Len(v) >= c.n.t \/ Len(v) = n * c.s.t
    <3>1. h \in Nat /\ n \in Nat
      BY <1>1
    <3>2. v = FlattenSeq(seqs)
      OBVIOUS
    <3> HIDE DEF v
    <3>3. StartsAfter(c, h, t0)
      BY <2>3 DEF StartsAfter
    <3>4. AfterIs(c, id, b, p, n, FlattenSeq(seqs), t0)
      BY <1>6, <1>7, <3>1, <3>3, AfterJoined
    <3> QED BY <3>2, <3>4 DEF AfterIs
  <2> QED BY <2>2, <2>4
<1>9. WindowSeries(c, w, id, p) = r.cur_ts
  BY WindowSeriesParts
<1>10. y = PutOwnAll(len, u, x2)
  BY DEF OwnPart
<1> HIDE DEF v, u, x, y, r, len, f, n, s, b, z, seqs
<1>11. /\ x2 \in Filling(len, Number) /\ x2.idx = w.l /\ x2.idx \in 0..len
       /\ x2.cur_ts = x.cur_ts
  <2>1. x \in [cur_ts : [0..(len - 1) -> Number], idx : Int]
    BY <1>3 DEF Filling
  <2>2. x2 = [cur_ts |-> x.cur_ts, idx |-> w.l] /\ x.cur_ts \in [0..(len - 1) -> Number]
    BY <2>1
  <2>3. w.l \in Int /\ w.l \in 0..len
    BY <1>1
  <2>4. x2 \in [cur_ts : [0..(len - 1) -> Number], idx : Int]
    BY <2>2, <2>3
  <2> HIDE DEF x2
  <2> QED BY <2>2, <2>3, <2>4 DEF Filling
<1> HIDE DEF x2
<1>12. y \in Filling(len, Number) /\ PutOn(len, u, x2, y, z)
  <2>1. SlicesIn(z, u, Number) /\ OneBand(z, u) /\ z \in Nat
    BY <1>4, SlicesGiven
  <2> QED BY <1>1, <1>10, <1>11, <2>1, PutOwn
<1>13. y.idx = w.l + z /\ y.idx \in 0..len
  BY <1>1, <1>11, <1>12 DEF PutOn
<1>14. Len(v) \in Nat /\ SlicesIn(Len(v), v, Number)
  BY <1>8, SlicesGiven
<1>15. PutOn(len, v, y, r, Len(v))
  BY <1>1, <1>12, <1>13, <1>14, PutForwards DEF r
<1>16. j \in 0..(len - 1)
  BY DEF len
<1>24. /\ z \in Nat /\ w.l \in Nat /\ w.r \in Nat /\ f \in Nat /\ c.n.t \in Nat /\ len = w.l + z + w.r
       /\ j \in Nat /\ j < w.l + z + w.r
  BY <1>1, <1>16
<1>17. r.cur_ts[j] = IF j >= w.l + z /\ j < w.l + z + Len(v) THEN v[j - (w.l + z) + 1][0] ELSE y.cur_ts[j]
  BY <1>13, <1>15, <1>16 DEF PutOn
<1>18. y.cur_ts[j] = IF j >= w.l /\ j < w.l + z THEN u[j - w.l + 1][0] ELSE x.cur_ts[j]
  BY <1>11, <1>12, <1>16 DEF PutOn
<1>19. x.cur_ts[j] = IF j < w.l THEN SliceAt(c, id, b, p, f - w.l + j) ELSE NaN
  BY <1>3, <1>16
<1>20. CASE j < w.l
  <2>1. ~ (j >= w.l + z) /\ ~ (j >= w.l)
    BY <1>20, <1>24
  <2> QED BY <1>9, <1>17, <1>18, <1>19, <1>20, <2>1 DEF f, b
<1>21. CASE j >= w.l /\ j < w.l + z
  <2>1. r.cur_ts[j] = u[j - w.l + 1][0]
    <3>1. ~ (j >= w.l + z)
      BY <1>21, <1>24
    <3> QED BY <1>17, <1>18, <1>21, <3>1
  <2>2. u[j - w.l + 1][0] = SliceAt(c, id, b, p, f + (j - w.l + 1) - 1)
    <3>1. j - w.l + 1 \in 1..Len(u)
      BY <1>4, <1>21, <1>24
    <3> QED BY <1>4, <3>1 DEF SlicesFrom
  <2>3. f + (j - w.l + 1) - 1 = f - w.l + j
    BY <1>24
  <2> QED BY <1>9, <2>1, <2>2, <2>3 DEF f, b
<1>22. CASE j >= w.l + z /\ j < w.l + z + Len(v)
  <2>1. r.cur_ts[j] = v[j - (w.l + z) + 1][0]
    BY <1>17, <1>22
  <2>2. v[j - (w.l + z) + 1][0] = SliceAt(c, id, b, p, f + z + (j - (w.l + z) + 1) - 1)
    <3>1. j - (w.l + z) + 1 \in 1..Len(v)
      BY <1>14, <1>22, <1>24
    <3> QED BY <1>8, <3>1 DEF SlicesFrom
  <2>3. f + z + (j - (w.l + z) + 1) - 1 = f - w.l + j
    BY <1>24
  <2> QED BY <1>9, <2>1, <2>2, <2>3 DEF f, b
<1>23. CASE j >= w.l + z /\ ~ (j < w.l + z + Len(v))
  <2>1. r.cur_ts[j] = NaN
    <3>1. ~ (j < w.l + z) /\ ~ (j < w.l)
      BY <1>23, <1>24
    <3> QED BY <1>17, <1>18, <1>19, <1>23, <3>1
  <2>2. f + z + Len(v) >= c.n.t
    <3>1. SUFFICES ASSUME Len(v) = n * s PROVE FALSE
      BY <1>8
    <3>2. w.r <= Len(v)
      BY <1>1, <3>1
    <3> QED BY <1>14, <1>23, <1>24, <3>2
  <2>3. f - w.l + j \notin 0..(c.n.t - 1)
    <3>1. PICK l \in Nat, a \in Nat, e \in Nat : l = Len(v) /\ a = w.l /\ e = c.n.t
      BY <1>14, <1>24
    <3>2. j >= a + z + l /\ f + z + l >= e /\ z \in Nat /\ f \in Nat /\ j \in Nat
      BY <1>23, <1>24, <2>2, <3>1
    <3>3. f - a + j \notin 0..(e - 1)
      BY <3>2
    <3> QED BY <3>1, <3>3
  <2>4. SliceAt(c, id, b, p, f - w.l + j) = NaN
    BY <2>3 DEF SliceAt
  <2> QED BY <1>9, <2>1, <2>4 DEF f, b
<1> QED BY <1>14, <1>20, <1>21, <1>22, <1>23, <1>24

\* An element of a chunk of a series: where it lies, and the series of its cell.
LEMMA SeriesElement ==
    ASSUME RInv, read # Nothing, op.kind \in {"window_time", "fill_time"},
           NEW nb \in Nat, read.out.size = BandSize(nb, cube.sizes[read.id]),
           NEW b \in 0..(read.out.size.b - 1), NEW t \in 0..(read.out.size.t - 1),
           NEW p \in 0..(read.out.size.y * read.out.size.x - 1)
    PROVE  /\ cube \in Inputs /\ read.id \in ChunkIds(cube.n, cube.s)
           /\ FullSize(read.out.size) /\ b \in 0..(nb - 1) /\ read.out.size.b = nb
           /\ t \in 0..(cube.sizes[read.id].t - 1) /\ p \in Places(cube, read.id)
           /\ p \in 0..(cube.sizes[read.id].y * cube.sizes[read.id].x - 1)
           /\ OutCell(t, p).t = FirstSlice(cube, read.id) + t
           /\ \A i : Series(i, OutCell(t, p)) = [u \in 0..(cube.n.t - 1) |-> At(cube, read.id, i, p, u)]
<1> DEFINE id == read.id
           z == chunk_size(cube.n, cube.s, id)
           a == chunk_limits(cube.n, cube.s, id)
           k == OutCell(t, p)
           g == ElementCell(cube.n, cube.s, id, ElementOf(z, 0, p))
<1>1. cube \in Inputs /\ OutShape.n = cube.n /\ OutShape.s = cube.s
  BY DEF RInv, Inputs2, OutShape
<1>2. id \in ChunkIds(cube.n, cube.s)
  BY <1>1 DEF RInv, Returned
<1>3. cube.sizes[id] = z /\ cube.n \in Sizes /\ cube.s \in Sizes
  BY <1>1, <1>2, InputIs
<1>4. z.t \in Nat \ {0} /\ z.y \in Nat \ {0} /\ z.x \in Nat \ {0}
  BY <1>2, <1>3, ChunkSizePositive
<1>5. /\ read.out.size.b = nb /\ read.out.size.t = z.t
      /\ read.out.size.y = z.y /\ read.out.size.x = z.x
  <2> HIDE DEF z
  <2> QED BY <1>3 DEF BandSize
<1>6. t \in 0..(z.t - 1) /\ p \in 0..(z.y * z.x - 1) /\ b \in 0..(nb - 1)
  <2> HIDE DEF z
  <2> QED BY <1>5
<1>7. FullSize(read.out.size)
  <2> HIDE DEF z
  <2> QED BY <1>4, <1>5, <1>6 DEF FullSize
<1>8. Place(read.out, t, p) = ElementOf(z, t, p)
  <2> HIDE DEF z
  <2> QED BY <1>5 DEF Place, ElementOf
<1>9. k = ElementCell(cube.n, cube.s, id, ElementOf(z, t, p))
  BY <1>1, <1>8 DEF OutCell
<1>10. k = [t |-> a.low.t + t, y |-> (a.high.y + 1) - 1 - (p \div z.x), x |-> a.low.x + (p % z.x)]
  BY <1>9, ElementCellIs DEF ElementOf
<1>11. g = [t |-> a.low.t + 0, y |-> (a.high.y + 1) - 1 - (p \div z.x), x |-> a.low.x + (p % z.x)]
  BY ElementCellIs DEF ElementOf
<1>12. k.t = FirstSlice(cube, id) + t
  <2> HIDE DEF k, a, z
  <2> QED BY <1>10 DEF FirstSlice, a
<1>13. \A u : [k EXCEPT !.t = u] = [g EXCEPT !.t = u]
  <2> HIDE DEF k, g, a, z
  <2> QED BY <1>10, <1>11
<1>14. ASSUME NEW i, NEW u PROVE cube.data[i][[k EXCEPT !.t = u]] = At(cube, id, i, p, u)
  <2>1. At(cube, id, i, p, u) = cube.data[i][[g EXCEPT !.t = u]]
    BY DEF At
  <2> HIDE DEF k, g
  <2> QED BY <1>13, <2>1
<1>15. ASSUME NEW i
       PROVE  Series(i, k) = [u \in 0..(cube.n.t - 1) |-> At(cube, id, i, p, u)]
  <2>1. Series(i, k) = [u \in 0..(cube.n.t - 1) |-> cube.data[i][[k EXCEPT !.t = u]]]
    BY DEF Series
  <2> HIDE DEF k
  <2> QED BY <1>14, <2>1
<1>16. p \in Places(cube, id)
  BY <1>6 DEF Places
<1> HIDE DEF z, k
<1> QED BY <1>1, <1>2, <1>3, <1>5, <1>6, <1>7, <1>12, <1>15, <1>16 DEF k

\* What a reducer or a kernel is given.
WindowAt(c, w, id, t, p) == [j \in 1..(w.l + 1 + w.r) |-> WindowSeries(c, w, id, p)[t + j - 1]]

LEMMA WindowValue ==
    ASSUME NEW c, NEW w, NEW id, NEW out, out = window_time(c, w, id),
           FullSize(out.size), NEW b \in 0..(out.size.b - 1), NEW t \in 0..(out.size.t - 1),
           NEW p \in 0..(out.size.y * out.size.x - 1), p \in 0..(c.sizes[id].y * c.sizes[id].x - 1)
    PROVE  Value(out, b, t, p) =
              IF w.f = "kernel" THEN kernel_reducer(w, WindowAt(c, w, id, t, p))
              ELSE window_reducer(w, WindowAt(c, w, id, t, p))
<1> DEFINE z == c.sizes[id]
           series == [q \in 0..(z.y * z.x - 1) |-> WindowSeries(c, w, id, q)]
           win(h, q) == [j \in 1..(w.l + 1 + w.r) |-> series[q][h + j - 1]]
           y == BandSize(Len(w.bands), z)
           k == Index(y, b, t, p)
           F(e, h, q) == IF w.f = "kernel" THEN kernel_reducer(w, win(h, q))
                         ELSE window_reducer(w, win(h, q))
<1>0. out = [size |-> y, buf |-> [j \in 0..(Volume(y) - 1) |->
                   F(j \div (y.t * y.y * y.x), (j \div (y.y * y.x)) % y.t, j % (y.y * y.x))]]
  BY DEF window_time, Chunk
<1>1. /\ out.size = y
      /\ out.buf = [j \in 0..(Volume(y) - 1) |->
                   F(j \div (y.t * y.y * y.x), (j \div (y.y * y.x)) % y.t, j % (y.y * y.x))]
  <2> HIDE DEF F, y
  <2> QED BY <1>0
<1>2. Value(out, b, t, p) = out.buf[k]
  <2> HIDE DEF y
  <2> QED BY <1>1 DEF Value, Index
<1>3. /\ k \in 0..(Volume(y) - 1) /\ k \div (y.t * y.y * y.x) = b
      /\ (k \div (y.y * y.x)) % y.t = t /\ k % (y.y * y.x) = p
  <2> HIDE DEF y
  <2>1. /\ FullSize(y) /\ b \in 0..(y.b - 1) /\ t \in 0..(y.t - 1)
        /\ p \in 0..(y.y * y.x - 1)
    BY <1>1
  <2> QED BY <2>1, IndexIs
<1>4. win(t, p) = WindowAt(c, w, id, t, p)
  <2>1. series[p] = WindowSeries(c, w, id, p)
    OBVIOUS
  <2> HIDE DEF series
  <2> QED BY <2>1 DEF WindowAt
<1> HIDE DEF k, y, F, win
<1>5. out.buf[k] = F(b, t, p)
  BY <1>1, <1>3
<1> QED BY <1>2, <1>4, <1>5 DEF F

\* The chunks a window operation reads.
LEMMA WindowNeeds ==
    ASSUME cube \in Inputs, read.id \in ChunkIds(cube.n, cube.s), OneBandWindow(cube, op),
           WindowChunks \cap cube.empty = {}
    PROVE  NoGaps(cube, op, read.id)
<1> DEFINE m == ChunksPerSlice(cube)
           nl == ChunksBefore(cube, op)
           nr == ChunksAfter(cube, op)
           id == read.id
<1>1. m \in Nat \ {0} /\ id \in Nat /\ nl \in Nat /\ nr \in Nat
  BY WindowSizes
<1>2. SUFFICES ASSUME NEW j \in (-nl)..nr, InColumn(cube, id, j) \in cube.empty PROVE FALSE
  BY DEF NoGaps
<1> DEFINE i == InColumn(cube, id, j)
<1>3. i = id + j * m
  BY DEF InColumn
<1>4. i \in ChunkIds(cube.n, cube.s)
  BY <1>2, InputIs
<1>5. j * m \in Int /\ nl * m \in Nat /\ nr * m \in Nat /\ j \in Int
  <2> HIDE DEF m, nl, nr
  <2> QED BY <1>1, SMT
<1>6. -(nl * m) <= j * m /\ j * m <= nr * m
  <2> HIDE DEF m, nl, nr
  <2>1. ASSUME NEW u \in Int, NEW v \in Int, u <= v PROVE u * m <= v * m
    BY <1>1, <2>1, SMT
  <2>2. -nl \in Int /\ (-nl) * m = -(nl * m)
    BY <1>1, SMT
  <2>3. (-nl) * m <= j * m /\ j * m <= nr * m
    BY <1>1, <1>5, <2>1, <2>2
  <2> QED BY <2>2, <2>3
<1>7. (i - id) % m = 0
  <2>1. (j * m) % m = 0
    BY <1>1, <1>5, Multiple
  <2>2. i - id = j * m
    <3> HIDE DEF m, i
    <3> QED BY <1>1, <1>3, <1>5
  <2> HIDE DEF i, m
  <2> QED BY <2>1, <2>2
<1>8. i >= id - nl * m /\ i <= id + nr * m
  <2> HIDE DEF i, m, nl, nr
  <2> QED BY <1>1, <1>3, <1>5, <1>6
<1>9. i \in WindowChunks
  <2> HIDE DEF i
  <2> QED BY <1>4, <1>7, <1>8 DEF WindowChunks
<1> QED BY <1>2, <1>9

OrNaN(S, u) == IF u \in DOMAIN S THEN S[u] ELSE NaN

LEMMA WindowIs ==
    ASSUME NEW S, NEW x, NEW l, NEW r
    PROVE  Window(S, x, l, r) = [j \in 1..(l + 1 + r) |-> OrNaN(S, x - l + j - 1)]
<1>1. ASSUME NEW j \in 1..(l + 1 + r)
      PROVE  Window(S, x, l, r)[j] = OrNaN(S, x - l + j - 1)
  BY DEF Window, OrNaN
<1>2. Window(S, x, l, r) = [j \in 1..(l + 1 + r) |-> Window(S, x, l, r)[j]]
  BY DEF Window
<1> QED BY <1>1, <1>2

\* A window over one band, whose chunks all have data, is a window of the series.
LEMMA WindowAgrees ==
    ASSUME RInv, read # Nothing, op.kind = "window_time", Len(op.bands) = 1,
           WindowChunks \cap cube.empty = {},
           NEW b \in 0..(read.out.size.b - 1), NEW t \in 0..(read.out.size.t - 1),
           NEW p \in 0..(read.out.size.y * read.out.size.x - 1)
    PROVE  LET win == Window(Series(op.bands[1], OutCell(t, p)), OutCell(t, p).t, op.l, op.r)
           IN  Value(read.out, b, t, p) = IF op.f = "kernel" THEN kernel_reducer(op, win)
                                          ELSE window_reducer(op, win)
<1> DEFINE id == read.id
           e == op.bands[1]
           S == Series(e, OutCell(t, p))
           z == cube.sizes[id].t
           f == FirstSlice(cube, id)
           len == WindowLength(cube, op, id)
           win == Window(S, OutCell(t, p).t, op.l, op.r)
<1>1. op.bands \in Seq(op.uses) /\ op.l \in Nat /\ op.r \in Nat /\ op.uses \subseteq 0..(cube.nb - 1)
  BY OperationsAssumption DEF RInv, Inputs2
<1>2. e \in 0..(cube.nb - 1)
  <2>1. 1 \in 1..Len(op.bands)
    OBVIOUS
  <2> QED BY <1>1, <2>1, ElementOfSeq
<1>3. OneBandWindow(cube, op)
  BY <1>1, <1>2 DEF OneBandWindow
<1>4. read.out = window_time(cube, op, id)
  BY WhatIsRead
<1>5. read.out.size = BandSize(1, cube.sizes[id])
  <2>1. ShapeOf(read.out, BandSize(Len(op.bands), cube.sizes[id]))
    BY <1>4, WindowTimeShape
  <2> QED BY <2>1 DEF ShapeOf
<1>6. /\ cube \in Inputs /\ id \in ChunkIds(cube.n, cube.s)
      /\ FullSize(read.out.size) /\ t \in 0..(z - 1) /\ p \in Places(cube, id)
      /\ p \in 0..(cube.sizes[id].y * cube.sizes[id].x - 1)
      /\ OutCell(t, p).t = f + t
      /\ \A i : Series(i, OutCell(t, p)) = [u \in 0..(cube.n.t - 1) |-> At(cube, id, i, p, u)]
  <2>1. 1 \in Nat
    OBVIOUS
  <2> QED BY <1>5, <2>1, SeriesElement
<1>7. Value(read.out, b, t, p) =
              IF op.f = "kernel" THEN kernel_reducer(op, WindowAt(cube, op, id, t, p))
              ELSE window_reducer(op, WindowAt(cube, op, id, t, p))
  BY <1>4, <1>6, WindowValue
<1>8. NoGaps(cube, op, id)
  BY <1>3, <1>6, WindowNeeds
<1>9. f \in Nat /\ len = op.l + z + op.r /\ z \in Nat
  <2>0. cube \in Inputs /\ id \in ChunkIds(cube.n, cube.s)
    BY <1>6
  <2>1. f \in 0..(cube.n.t - 1) /\ z \in Nat \ {0} /\ len = op.l + z + op.r
    BY <1>3, <2>0, WindowSizes
  <2> QED BY <2>1
<1>9a. PICK x : x = f + t
  OBVIOUS
<1>10. ASSUME NEW j \in 1..(op.l + 1 + op.r)
       PROVE  WindowSeries(cube, op, id, p)[t + j - 1] = SliceAt(cube, id, e, p, x - op.l + j - 1)
  <2> HIDE DEF z, f
  <2>1. t + j - 1 \in 0..(len - 1)
    <3> HIDE DEF len
    <3> QED BY <1>1, <1>6, <1>9
  <2>2. WindowSeries(cube, op, id, p)[t + j - 1] = SliceAt(cube, id, e, p, FirstSlice(cube, id) - op.l + (t + j - 1))
    BY <1>3, <1>6, <1>8, <2>1, WindowSeriesIs
  <2>3. f - op.l + (t + j - 1) = x - op.l + j - 1
    BY <1>1, <1>6, <1>9, <1>9a
  <2> QED BY <2>2, <2>3 DEF f
<1>11. win = WindowAt(cube, op, id, t, p)
  <2>1. win = Window(S, x, op.l, op.r)
    <3>1. OutCell(t, p).t = x
      BY <1>6, <1>9a
    <3> HIDE DEF S, f
    <3> QED BY <3>1
  <2>2. S = [u \in 0..(cube.n.t - 1) |-> At(cube, id, e, p, u)]
    BY <1>6
  <2> HIDE DEF S, win, e, f
  <2>3. win = [j \in 1..(op.l + 1 + op.r) |-> SliceAt(cube, id, e, p, x - op.l + j - 1)]
    <3>1. \A u : OrNaN(S, u) = SliceAt(cube, id, e, p, u)
      BY <2>2 DEF SliceAt, OrNaN
    <3>2. win = [j \in 1..(op.l + 1 + op.r) |-> OrNaN(S, x - op.l + j - 1)]
      BY <2>1, WindowIs
    <3> QED BY <3>1, <3>2
  <2>4. WindowAt(cube, op, id, t, p) =
            [j \in 1..(op.l + 1 + op.r) |-> WindowSeries(cube, op, id, p)[t + j - 1]]
    BY DEF WindowAt
  <2> QED BY <1>10, <2>3, <2>4
<1> QED BY <1>7, <1>11

-------------------------------------------------------------------------------
\* Where a slice of the cube lies in the chunks of one place.

\* The chunk of the place of id that lies in row r.
InRow(c, id, r) == InColumn(c, id, r - RowOf(c, id, 0))

LEMMA RowChunk ==
    ASSUME NEW c \in Inputs, NEW id \in ChunkIds(c.n, c.s), NEW r \in Rows(c)
    PROVE  LET i == InRow(c, id, r)
           IN  /\ c.s.t \in Nat \ {0} /\ c.n.t \in Nat \ {0}
               /\ i \in ChunkIds(c.n, c.s) /\ FirstSlice(c, i) = r * c.s.t
               /\ FirstSlice(c, i) \in 0..(c.n.t - 1)
               /\ SlicesOf(c, i) \in 1..c.s.t
               /\ SlicesOf(c, i) = Smaller(c.s.t, c.n.t - FirstSlice(c, i))
<1> DEFINE h == RowOf(c, id, 0)
           j == r - h
           i == InColumn(c, id, j)
<1>1. c.n \in Sizes /\ c.s \in Sizes
  BY InputIs
<1>2. c.n.t \in Nat \ {0} /\ c.s.t \in Nat \ {0}
  BY <1>1, Radices
<1>3. h \in Rows(c) /\ h \in Int /\ r \in Int
  <2>1. 0 \in Int
    OBVIOUS
  <2>2. h \in Rows(c)
    BY <2>1, ColumnIds
  <2>3. Rows(c) \subseteq Int
    BY DEF Rows
  <2> QED BY <2>2, <2>3
<1>4. j \in Int /\ h + j = r
  <2> HIDE DEF h
  <2> QED BY <1>3
<1>5. RowOf(c, id, j) = r /\ (i \in ChunkIds(c.n, c.s) <=> RowOf(c, id, j) \in Rows(c))
  <2> HIDE DEF j
  <2>1. RowOf(c, id, j) = h + j /\ (i \in ChunkIds(c.n, c.s) <=> RowOf(c, id, j) \in Rows(c))
    BY <1>4, ColumnIds
  <2> QED BY <1>4, <2>1
<1>6. /\ FirstSlice(c, i) = RowOf(c, id, j) * c.s.t /\ FirstSlice(c, i) \in 0..(c.n.t - 1)
      /\ SlicesOf(c, i) \in 1..c.s.t
      /\ SlicesOf(c, i) = Smaller(c.s.t, c.n.t - FirstSlice(c, i))
  <2> HIDE DEF j
  <2> QED BY <1>4, <1>5, ColumnSizes
<1>7. InRow(c, id, r) = i
  BY DEF InRow
<1> HIDE DEF i, j
<1> QED BY <1>2, <1>5, <1>6, <1>7

\* Which chunks these are, and their order.
RowsInOrder(c, id) ==
    \A q \in Rows(c), r \in Rows(c) : q < r <=> InRow(c, id, q) < InRow(c, id, r)

LEMMA RowOrder ==
    ASSUME NEW c \in Inputs, NEW id \in ChunkIds(c.n, c.s)
    PROVE  /\ ChunksPerSlice(c) \in Nat \ {0} /\ RowOf(c, id, 0) \in Rows(c) /\ Rows(c) \subseteq Nat
           /\ InRow(c, id, RowOf(c, id, 0)) = id /\ RowsInOrder(c, id)
           /\ \A r \in Rows(c) : InRow(c, id, r) = id + (r - RowOf(c, id, 0)) * ChunksPerSlice(c)
<1> DEFINE m == ChunksPerSlice(c)
           h == RowOf(c, id, 0)
<1>1. m \in Nat \ {0} /\ h \in Rows(c)
  <2>1. 0 \in Int
    OBVIOUS
  <2> QED BY <2>1, ColumnIds
<1>2. Rows(c) \subseteq Nat
  BY DEF Rows
<1>3. id \in Nat
  BY DEF ChunkIds
<1>4. ASSUME NEW r \in Rows(c) PROVE InRow(c, id, r) = id + (r - h) * m
  BY DEF InRow, InColumn
<1> HIDE DEF m, h
<1>5. (h - h) * m = 0
  <2>1. h - h = 0
    BY <1>1, <1>2
  <2> QED BY <1>1, <2>1, SMT
<1>6. InRow(c, id, h) = id
  BY <1>1, <1>3, <1>4, <1>5
<1>7. ASSUME NEW q \in Nat, NEW r \in Nat, q < r PROVE id + (q - h) * m < id + (r - h) * m
  <2>1. h \in Nat /\ r - q \in Nat \ {0}
    BY <1>1, <1>2, <1>7
  <2>2. PICK d \in Nat \ {0} : d = (r - q) * m
    <3> HIDE <1>7
    <3>1. (r - q) * m \in Nat \ {0}
      BY <1>1, <2>1, SMT
    <3> QED BY <3>1
  <2>3. (r - h) * m = (q - h) * m + (r - q) * m
    BY <1>1, <2>1, SMT
  <2>4. (r - h) * m \in Int /\ (q - h) * m \in Int
    BY <1>1, <2>1, SMT
  <2> QED BY <1>3, <2>2, <2>3, <2>4
<1>8. RowsInOrder(c, id)
  <2> SUFFICES ASSUME NEW q \in Rows(c), NEW r \in Rows(c)
               PROVE  q < r <=> InRow(c, id, q) < InRow(c, id, r)
    BY DEF RowsInOrder
  <2>1. q \in Nat /\ r \in Nat
    BY <1>2
  <2>2. InRow(c, id, q) = id + (q - h) * m /\ InRow(c, id, r) = id + (r - h) * m
    BY <1>4
  <2>3. InRow(c, id, q) \in Int /\ InRow(c, id, r) \in Int
    <3>1. (q - h) * m \in Int /\ (r - h) * m \in Int
      BY <1>1, <1>2, <2>1, SMT
    <3> QED BY <1>3, <2>2, <3>1
  <2>4. q < r => InRow(c, id, q) < InRow(c, id, r)
    BY <1>7, <2>1, <2>2
  <2>5. r < q => InRow(c, id, r) < InRow(c, id, q)
    BY <1>7, <2>1, <2>2
  <2> QED BY <2>1, <2>3, <2>4, <2>5
<1> QED BY <1>1, <1>2, <1>4, <1>6, <1>8 DEF m, h

\* The chunks of a place are those of its rows.
LEMMA OfPlace ==
    ASSUME NEW c \in Inputs, NEW id \in ChunkIds(c.n, c.s), NEW i \in ChunkIds(c.n, c.s),
           NEW j \in Int, i = InColumn(c, id, j)
    PROVE  \E r \in Rows(c) : i = InRow(c, id, r)
<1> DEFINE h == RowOf(c, id, 0)
           r == RowOf(c, id, j)
<1>1. r \in Rows(c) /\ r = h + j /\ h \in Rows(c)
  BY ColumnIds
<1>2. Rows(c) \subseteq Int
  BY DEF Rows
<1> HIDE DEF h, r
<1>3. r - h = j
  BY <1>1, <1>2
<1>4. InRow(c, id, r) = i
  BY <1>3 DEF InRow, h
<1> QED BY <1>1, <1>4

\* The row of a slice.
LEMMA RowOfSlice ==
    ASSUME NEW n \in Nat \ {0}, NEW s \in Nat \ {0}, NEW u \in 0..(n - 1)
    PROVE  /\ u \div s \in 0..(Ceil(n, s) - 1) /\ u % s \in 0..(s - 1)
           /\ u = (u \div s) * s + (u % s)
<1> DEFINE r == u \div s
           k == Ceil(n, s)
<1>1. r \in Nat /\ u % s \in 0..(s - 1) /\ u = s * r + (u % s)
  <2>1. u \in Nat
    OBVIOUS
  <2> QED BY <2>1, Division
<1>2. k \in Nat /\ n <= k * s
  BY CeilBounds
<1> HIDE DEF r, k
<1>3. s * r = r * s /\ r * s \in Nat /\ k * s \in Nat
  BY <1>1, <1>2, SMT
<1>4. r < k
  <2> SUFFICES ASSUME k <= r PROVE FALSE
    BY <1>1, <1>2
  <2>1. k * s <= r * s
    BY <1>1, <1>2, ProductOrder
  <2> QED BY <1>1, <1>2, <1>3, <2>1
<1> QED BY <1>1, <1>2, <1>3, <1>4 DEF r, k

\* Rows follow one another.
LEMMA SliceOrder ==
    ASSUME NEW s \in Nat \ {0}, NEW q \in Nat, NEW r \in Nat, NEW t \in 0..(s - 1), NEW x \in 0..(s - 1)
    PROVE  /\ q < r => q * s + t < r * s + x
           /\ q < r => q * s + t < r * s
           /\ q * s + t < r * s => q < r
           /\ q * s \in Nat /\ r * s \in Nat
<1>1. q * s \in Nat /\ r * s \in Nat /\ (q + 1) * s = q * s + s
  BY SMT
<1>2. q < r => (q + 1) * s <= r * s
  <2> SUFFICES ASSUME q < r PROVE (q + 1) * s <= r * s
    OBVIOUS
  <2>1. q + 1 \in Nat /\ q + 1 <= r /\ s \in Nat
    OBVIOUS
  <2> QED BY <2>1, ProductOrder
<1>3. r <= q => r * s <= q * s
  BY ProductOrder
<1> QED BY <1>1, <1>2, <1>3

-------------------------------------------------------------------------------
\* Positions: a chunk of the place and a slice in it.

\* The position of slice u of the cube.
PosOf(c, id, u) == <<InRow(c, id, u \div c.s.t), u % c.s.t>>

\* The slices that have a value.
HasValue(c, id, b, p) == {u \in 0..(c.n.t - 1) : At(c, id, b, p, u) # NaN}

\* What is read at a position.
LookUp(c, b, p, q) ==
    LET x == ChunkOf(c, q[1])
    IN  IF x.size.t = 0 THEN NaN ELSE Value(x, b, q[2], p)

\* The slices of a chunk that have a value are those of the cube that lie in it.
FilledRow(c, id, b, p, r) ==
    \A t : t \in Filled(c, b, p, InRow(c, id, r)) <=>
              t \in 0..(c.s.t - 1) /\ r * c.s.t + t \in HasValue(c, id, b, p)

LEMMA FilledIs ==
    ASSUME NEW c \in Inputs, NEW id \in ChunkIds(c.n, c.s), NEW r \in Rows(c),
           NEW b \in 0..(c.nb - 1), NEW p \in Places(c, id)
    PROVE  /\ FilledRow(c, id, b, p, r)
           /\ \A t \in 0..(SlicesOf(c, InRow(c, id, r)) - 1) :
                LookUp(c, b, p, <<InRow(c, id, r), t>>) = At(c, id, b, p, r * c.s.t + t)
<1> DEFINE i == InRow(c, id, r)
           s == c.s.t
           z == SlicesOf(c, i)
           x == ChunkOf(c, i)
           f == r * c.s.t
           V(t) == At(c, id, b, p, f + t)
<1>1. /\ s \in Nat \ {0} /\ c.n.t \in Nat \ {0} /\ FirstSlice(c, i) = f /\ f \in 0..(c.n.t - 1)
      /\ z \in 1..s /\ z = Smaller(s, c.n.t - f)
  BY RowChunk
<1>2. /\ i \in c.empty => x.size.t = 0
      /\ i \notin c.empty => x.size.t = z
      /\ \A t \in 0..(z - 1) : IF i \in c.empty THEN V(t) = NaN ELSE Value(x, b, t, p) = V(t)
  <2> DEFINE j == r - RowOf(c, id, 0)
  <2>1. RowOf(c, id, 0) \in Int /\ r \in Int
    <3>1. RowOf(c, id, 0) \in Rows(c) /\ Rows(c) \subseteq Nat
      BY RowOrder
    <3> QED BY <3>1
  <2>2. i = InColumn(c, id, j) /\ j \in Int
    BY <2>1 DEF InRow
  <2>3. RowOf(c, id, j) \in Rows(c)
    <3>1. InColumn(c, id, j) \in ChunkIds(c.n, c.s)
      BY <2>2, RowChunk
    <3> HIDE DEF j
    <3> QED BY <2>2, <3>1, ColumnIds
  <2>4. p \in 0..(chunk_size(c.n, c.s, id).y * chunk_size(c.n, c.s, id).x - 1)
    BY DEF Places
  <2> DEFINE k == InColumn(c, id, j)
  <2>5. /\ k \in c.empty => ChunkOf(c, k).size.t = 0
        /\ k \notin c.empty => ChunkOf(c, k).size.t = SlicesOf(c, k)
        /\ \A t \in 0..(SlicesOf(c, k) - 1) :
              IF k \in c.empty THEN At(c, id, b, p, FirstSlice(c, k) + t) = NaN
              ELSE Value(ChunkOf(c, k), b, t, p) = At(c, id, b, p, FirstSlice(c, k) + t)
    <3> HIDE DEF j
    <3> QED BY <2>2, <2>3, <2>4, ColumnValue
  <2>6. k = i
    BY <2>2
  <2> HIDE DEF i, k, f
  <2> QED BY <1>1, <2>5, <2>6
<1>3. \A t \in 0..(z - 1) : LookUp(c, b, p, <<i, t>>) = V(t)
  <2> SUFFICES ASSUME NEW t \in 0..(z - 1) PROVE LookUp(c, b, p, <<i, t>>) = V(t)
    OBVIOUS
  <2>1. LookUp(c, b, p, <<i, t>>) = IF x.size.t = 0 THEN NaN ELSE Value(x, b, t, p)
    BY DEF LookUp
  <2> HIDE DEF V, x, z, i, f
  <2>2. CASE i \in c.empty
    BY <1>2, <2>1, <2>2
  <2>3. CASE i \notin c.empty
    <3>1. x.size.t = z /\ z # 0
      BY <1>1, <1>2, <2>3
    <3> QED BY <1>2, <2>1, <2>3, <3>1
  <2> QED BY <2>2, <2>3
<1>4. ASSUME NEW t PROVE t \in Filled(c, b, p, i) <=> t \in 0..(z - 1) /\ V(t) # NaN
  <2>1. Filled(c, b, p, i) = {k \in 0..(x.size.t - 1) : Value(x, b, k, p) # NaN}
    BY DEF Filled
  <2> HIDE DEF V, x, z, i, f
  <2>2. CASE i \in c.empty
    <3>1. 0..(x.size.t - 1) = {}
      BY <1>2, <2>2
    <3> QED BY <1>2, <2>1, <2>2, <3>1
  <2>3. CASE i \notin c.empty
    BY <1>2, <2>1, <2>3
  <2> QED BY <2>2, <2>3
<1>5. ASSUME NEW t
      PROVE  (t \in 0..(z - 1) /\ V(t) # NaN) <=> (t \in 0..(s - 1) /\ f + t \in HasValue(c, id, b, p))
  <2>1. t \in 0..(z - 1) <=> t \in 0..(s - 1) /\ f + t \in 0..(c.n.t - 1)
    <3> HIDE DEF s, z, f
    <3>1. CASE t \in Int
      BY <1>1, <3>1 DEF Smaller
    <3>2. CASE t \notin Int
      BY <3>2
    <3> QED BY <3>1, <3>2
  <2>2. f + t \in HasValue(c, id, b, p) <=> f + t \in 0..(c.n.t - 1) /\ V(t) # NaN
    BY DEF HasValue
  <2> HIDE DEF s, z, f, V
  <2> QED BY <2>1, <2>2
<1>6. FilledRow(c, id, b, p, r)
  <2> HIDE DEF z, V
  <2> QED BY <1>4, <1>5 DEF FilledRow
<1> QED BY <1>3, <1>6

\* The position of a slice is in a chunk of the place and holds what the cube does.
LEMMA PositionIs ==
    ASSUME NEW c \in Inputs, NEW id \in ChunkIds(c.n, c.s), NEW u \in 0..(c.n.t - 1)
    PROVE  /\ u \div c.s.t \in Rows(c) /\ u \div c.s.t \in Nat
           /\ c.s.t \in Nat \ {0} /\ c.n.t \in Nat \ {0}
           /\ u % c.s.t \in 0..(c.s.t - 1) /\ u = (u \div c.s.t) * c.s.t + (u % c.s.t)
           /\ u % c.s.t \in 0..(SlicesOf(c, PosOf(c, id, u)[1]) - 1)
           /\ PosOf(c, id, u)[1] \in ChunkIds(c.n, c.s)
<1> DEFINE r == u \div c.s.t
           t == u % c.s.t
           i == InRow(c, id, r)
<1>1. c.n.t \in Nat \ {0} /\ c.s.t \in Nat \ {0}
  <2>1. c.n \in Sizes /\ c.s \in Sizes
    BY InputIs
  <2> QED BY <2>1, Radices
<1>2. r \in Rows(c) /\ t \in 0..(c.s.t - 1) /\ u = r * c.s.t + t
  BY <1>1, RowOfSlice DEF Rows
<1> HIDE DEF r, t
<1>3. r \in Nat
  BY <1>2 DEF Rows
<1>4. /\ FirstSlice(c, i) = r * c.s.t /\ FirstSlice(c, i) \in 0..(c.n.t - 1)
      /\ SlicesOf(c, i) = Smaller(c.s.t, c.n.t - FirstSlice(c, i)) /\ i \in ChunkIds(c.n, c.s)
  BY <1>2, RowChunk
<1>5. t \in 0..(SlicesOf(c, i) - 1)
  <2> HIDE DEF i
  <2> QED BY <1>1, <1>2, <1>4 DEF Smaller
<1>6. PosOf(c, id, u)[1] = i
  BY DEF PosOf, r
<1> HIDE DEF i
<1> QED BY <1>1, <1>2, <1>3, <1>4, <1>5, <1>6 DEF r, t

LEMMA LookUpIs ==
    ASSUME NEW c \in Inputs, NEW id \in ChunkIds(c.n, c.s), NEW u \in 0..(c.n.t - 1),
           NEW b \in 0..(c.nb - 1), NEW p \in Places(c, id)
    PROVE  LookUp(c, b, p, PosOf(c, id, u)) = At(c, id, b, p, u)
<1> DEFINE r == u \div c.s.t
           t == u % c.s.t
<1>1. PosOf(c, id, u) = <<InRow(c, id, r), t>>
  BY DEF PosOf
<1>2. r \in Rows(c) /\ u = r * c.s.t + t /\ t \in 0..(SlicesOf(c, PosOf(c, id, u)[1]) - 1)
  BY PositionIs
<1>3. t \in 0..(SlicesOf(c, InRow(c, id, r)) - 1)
  BY <1>1, <1>2
<1> HIDE DEF r, t
<1> QED BY <1>1, <1>2, <1>3, FilledIs

Below(n, S) == n \in Nat /\ S \in SUBSET (0..(n - 1))

LEMMA ExtremesOf ==
    ASSUME NEW n, NEW S, Below(n, S), S # {}
    PROVE  /\ Max(S) \in S /\ \A k \in S : k <= Max(S)
           /\ Min(S) \in S /\ \A k \in S : Min(S) <= k
<1> USE DEF Below
<1>1. PICK x \in S : \A k \in S : x <= k
  <2>1. S \in SUBSET Nat
    OBVIOUS
  <2> QED BY <2>1, LeastMember
<1>2. S \in SUBSET Int
  OBVIOUS
<1>3. Min(S) = x
  BY <1>1, <1>2, MinIs
<1> DEFINE B == {n - k : k \in S}
<1>4. PICK e \in B : \A m \in B : e <= m
  <2>1. \A k \in S : n - k \in Nat
    OBVIOUS
  <2>2. B \in SUBSET Nat /\ B # {}
    BY <2>1
  <2> HIDE DEF B
  <2> QED BY <2>2, LeastMember
<1>5. PICK y \in S : e = n - y
  BY <1>4
<1>6. \A k \in S : k <= y
  <2> SUFFICES ASSUME NEW k \in S PROVE k <= y
    OBVIOUS
  <2>1. e <= n - k
    BY <1>4
  <2> QED BY <1>5, <2>1
<1>7. Max(S) = y
  BY <1>2, <1>6, MaxIs
<1> QED BY <1>1, <1>3, <1>6, <1>7

\* The slices of a chunk are at its positions.
LEMMA OwnPosition ==
    ASSUME NEW c \in Inputs, NEW id \in ChunkIds(c.n, c.s), NEW k \in 0..(SlicesOf(c, id) - 1)
    PROVE  /\ FirstSlice(c, id) \in Nat /\ FirstSlice(c, id) + k \in 0..(c.n.t - 1)
           /\ PosOf(c, id, FirstSlice(c, id) + k) = <<id, k>>
<1> DEFINE h == RowOf(c, id, 0)
           s == c.s.t
           f == FirstSlice(c, id)
           z == SlicesOf(c, id)
<1>1. h \in Rows(c) /\ h \in Nat /\ InRow(c, id, h) = id
  <2>1. h \in Rows(c) /\ Rows(c) \subseteq Nat /\ InRow(c, id, h) = id
    BY RowOrder
  <2> QED BY <2>1
<1>2. /\ s \in Nat \ {0} /\ c.n.t \in Nat \ {0} /\ f = h * s
      /\ f \in 0..(c.n.t - 1) /\ z \in 1..s /\ z = Smaller(s, c.n.t - f)
  <2>1. LET i == InRow(c, id, h)
        IN  /\ c.s.t \in Nat \ {0} /\ c.n.t \in Nat \ {0}
            /\ FirstSlice(c, i) = h * c.s.t
            /\ FirstSlice(c, i) \in 0..(c.n.t - 1)
            /\ SlicesOf(c, i) \in 1..c.s.t
            /\ SlicesOf(c, i) = Smaller(c.s.t, c.n.t - FirstSlice(c, i))
    <3> HIDE DEF h
    <3> QED BY <1>1, RowChunk
  <2> HIDE DEF h
  <2> QED BY <1>1, <2>1
<1> HIDE DEF h, s, f
<1>3. k \in 0..(s - 1) /\ f + k \in 0..(c.n.t - 1) /\ f \in Nat
  <2>1. k \in 0..(z - 1)
    OBVIOUS
  <2> HIDE DEF z
  <2> QED BY <1>2, <2>1 DEF Smaller
<1>4. (f + k) \div s = h /\ (f + k) % s = k
  <2>1. (s * h + k) \div s = h /\ (s * h + k) % s = k
    BY <1>1, <1>2, <1>3, DivisionUnique
  <2>2. s * h = f
    BY <1>1, <1>2, SMT
  <2> QED BY <2>1, <2>2
<1>5. PICK u : u = f + k
  OBVIOUS
<1>6. u \div s = h /\ u % s = k
  BY <1>4, <1>5
<1>7. PosOf(c, id, u) = <<InRow(c, id, u \div s), u % s>>
  BY DEF PosOf, s
<1>8. PosOf(c, id, u) = <<id, k>>
  BY <1>1, <1>6, <1>7
<1> QED BY <1>3, <1>5, <1>8 DEF f

\* Distances are counted in chunks and slices.
LEMMA Distance ==
    ASSUME NEW c \in Inputs, NEW id \in ChunkIds(c.n, c.s), NEW u \in 0..(c.n.t - 1), NEW k \in Nat
    PROVE  LET q == PosOf(c, id, u)
               m == ChunksPerSlice(c)
               f == FirstSlice(c, id)
           IN  /\ ((id - q[1]) \div m) * c.s.t + k - q[2] = f + k - u
               /\ ((q[1] - id) \div m) * c.s.t - k + q[2] = u - (f + k)
<1> DEFINE h == RowOf(c, id, 0)
           m == ChunksPerSlice(c)
           f == FirstSlice(c, id)
           s == c.s.t
           r == u \div s
           t == u % s
           i == InRow(c, id, r)
<1>1. m \in Nat \ {0} /\ h \in Nat /\ InRow(c, id, h) = id /\ h \in Rows(c)
  <2>1. h \in Rows(c) /\ Rows(c) \subseteq Nat /\ InRow(c, id, h) = id /\ m \in Nat \ {0}
    BY RowOrder
  <2> QED BY <2>1
<1>2. r \in Rows(c) /\ r \in Nat /\ s \in Nat \ {0} /\ t \in Nat /\ u = r * s + t
  <2>1. r \in Rows(c) /\ r \in Nat /\ s \in Nat \ {0} /\ t \in 0..(s - 1) /\ u = r * s + t
    BY PositionIs
  <2> QED BY <2>1
<1>3. f = h * s
  <2>1. FirstSlice(c, InRow(c, id, h)) = h * c.s.t
    <3> HIDE DEF h
    <3> QED BY <1>1, RowChunk
  <2> HIDE DEF h
  <2> QED BY <1>1, <2>1
<1>4. i = id + (r - h) * m
  <2> HIDE DEF r
  <2> QED BY <1>2, RowOrder
<1>5. PosOf(c, id, u)[1] = i /\ PosOf(c, id, u)[2] = t
  BY DEF PosOf
<1>6. id \in Nat
  BY DEF ChunkIds
<1> HIDE DEF h, m, f, s, r, t, i
<1>7. PICK d \in Int : d = r - h
  BY <1>1, <1>2
<1>8. (id - i) \div m = -d /\ (i - id) \div m = d
  <2>1. d * m \in Int /\ (-d) * m = -(d * m) /\ -d \in Int
    BY <1>1, <1>7, SMT
  <2>2. (d * m) \div m = d /\ ((-d) * m) \div m = -d
    BY <1>1, <2>1, Quotient
  <2>3. i - id = d * m /\ id - i = (-d) * m
    BY <1>4, <1>6, <1>7, <2>1
  <2> QED BY <2>2, <2>3
<1>9. d * s = r * s - h * s /\ (-d) * s = h * s - r * s /\ r * s \in Nat /\ h * s \in Nat
  BY <1>1, <1>2, <1>7, SMT
<1>10. /\ (-d) * s + k - t = f + k - u
       /\ d * s - k + t = u - (f + k)
  BY <1>2, <1>3, <1>9
<1> QED BY <1>5, <1>8, <1>10 DEF m, f, s

-------------------------------------------------------------------------------
\* The slices with a value around a slice.

Earlier(c, id, b, p, u) == {w \in HasValue(c, id, b, p) : w < u}
Later(c, id, b, p, u)   == {w \in HasValue(c, id, b, p) : w > u}

LEMMA BackFinds ==
    ASSUME NEW c \in Inputs, NEW id \in ChunkIds(c.n, c.s),
           NEW b \in 0..(c.nb - 1), NEW p \in Places(c, id)
    PROVE  LET B == Earlier(c, id, b, p, FirstSlice(c, id))
           IN  SearchBack(c, b, p, id) = IF B = {} THEN NotFound ELSE PosOf(c, id, Max(B))
<1> DEFINE h == RowOf(c, id, 0)
           m == ChunksPerSlice(c)
           f == FirstSlice(c, id)
           s == c.s.t
           H == HasValue(c, id, b, p)
           B == Earlier(c, id, b, p, f)
           R(r) == InRow(c, id, r)
           found == {i \in ChunkIds(c.n, c.s) : i < id /\ (id - i) % m = 0 /\ Filled(c, b, p, i) # {}}
<1>1. /\ m \in Nat \ {0} /\ h \in Rows(c) /\ Rows(c) \subseteq Nat /\ R(h) = id
      /\ \A q \in Rows(c), r \in Rows(c) : q < r <=> R(q) < R(r)
      /\ \A r \in Rows(c) : R(r) = id + (r - h) * m
  BY RowOrder DEF RowsInOrder
<1>2. id \in Nat /\ ChunkIds(c.n, c.s) \subseteq Nat
  BY DEF ChunkIds
<1>3. f = h * s /\ s \in Nat \ {0} /\ c.n.t \in Nat \ {0}
  <2>1. FirstSlice(c, R(h)) = h * c.s.t /\ s \in Nat \ {0} /\ c.n.t \in Nat \ {0}
    <3> HIDE DEF h
    <3> QED BY <1>1, RowChunk
  <2> HIDE DEF h, R
  <2> QED BY <1>1, <2>1
<1>4. \A r \in Rows(c) : R(r) \in ChunkIds(c.n, c.s)
  BY RowChunk
<1>5. ASSUME NEW r \in Rows(c), NEW t
      PROVE  t \in Filled(c, b, p, R(r)) <=> t \in 0..(s - 1) /\ r * s + t \in H
  BY FilledIs DEF FilledRow
<1>6. H \in SUBSET (0..(c.n.t - 1)) /\ B = {w \in H : w < f}
  BY DEF HasValue, Earlier
<1>7. SearchBack(c, b, p, id) =
        IF found = {} THEN NotFound ELSE <<Max(found), Max(Filled(c, b, p, Max(found)))>>
  BY DEF SearchBack
<1>8. ASSUME NEW r \in Rows(c), r < h, Filled(c, b, p, R(r)) # {}
      PROVE  R(r) \in found
  <2>1. R(r) < id /\ R(r) \in ChunkIds(c.n, c.s)
    BY <1>1, <1>4, <1>8
  <2>2. (id - R(r)) % m = 0
    <3>1. R(r) = id + (r - h) * m /\ h - r \in Int /\ r \in Nat /\ h \in Nat
      BY <1>1
    <3>2. ((h - r) * m) % m = 0
      BY <1>1, <3>1, Multiple
    <3> HIDE DEF R, h, m
    <3>3. (r - h) * m \in Int /\ (h - r) * m = -((r - h) * m)
      BY <1>1, <3>1, SMT
    <3>4. id - R(r) = (h - r) * m
      BY <1>2, <3>1, <3>3
    <3> QED BY <3>2, <3>4
  <2> QED BY <1>8, <2>1, <2>2
<1>9. ASSUME NEW i \in found
      PROVE  \E r \in Rows(c) : i = R(r) /\ r < h /\ \E t \in 0..(s - 1) : r * s + t \in H
  <2>1. i \in ChunkIds(c.n, c.s) /\ i < id /\ (id - i) % m = 0 /\ Filled(c, b, p, i) # {}
    BY <1>9
  <2>2. PICK j \in Int : id - i = m * j
    <3>1. id - i \in Nat
      <4> HIDE DEF found
      <4> QED BY <1>2, <2>1
    <3>2. id - i = m * ((id - i) \div m) + ((id - i) % m) /\ (id - i) \div m \in Nat
      <4> HIDE DEF m, found
      <4> QED BY <1>1, <3>1, Division
    <3> HIDE DEF m, found
    <3>3. m * ((id - i) \div m) \in Int
      BY <1>1, <3>2, SMT
    <3> QED BY <2>1, <3>2, <3>3
  <2>3. i = InColumn(c, id, -j) /\ -j \in Int
    <3>1. InColumn(c, id, -j) = id + (-j) * m
      BY DEF InColumn
    <3> HIDE DEF m, found
    <3>2. (-j) * m = -(m * j) /\ m * j \in Int
      BY <1>1, SMT
    <3> QED BY <1>2, <2>1, <2>2, <3>1, <3>2
  <2>4. PICK r \in Rows(c) : i = R(r)
    <3> HIDE DEF found
    <3> QED BY <2>1, <2>3, OfPlace
  <2> HIDE DEF R, h, m, found, H
  <2>5. r < h
    BY <1>1, <2>1, <2>4
  <2>6. PICK t : t \in Filled(c, b, p, R(r))
    BY <2>1, <2>4
  <2> QED BY <1>5, <2>4, <2>5, <2>6
<1> HIDE DEF h, m, f, s, H, B, R, found
<1>10. CASE B = {}
  <2>1. found = {}
    <3> SUFFICES ASSUME NEW i \in found PROVE FALSE
      OBVIOUS
    <3>1. PICK r \in Rows(c) : r < h /\ \E t \in 0..(s - 1) : r * s + t \in H
      BY <1>9
    <3>2. PICK t \in 0..(s - 1) : r * s + t \in H
      BY <3>1
    <3>3. r \in Nat /\ h \in Nat /\ t \in 0..(s - 1)
      BY <1>1
    <3>4. r * s + t < h * s
      BY <1>3, <3>1, <3>3, SliceOrder
    <3> QED BY <1>3, <1>6, <1>10, <3>2, <3>4
  <2> QED BY <1>7, <1>10, <2>1 DEF B, f
<1>11. CASE B # {}
  <2>1. PICK w \in B : Max(B) = w /\ \A k \in B : k <= w
    <3>1. Below(c.n.t, B)
      BY <1>3, <1>6 DEF Below
    <3>2. Max(B) \in B /\ \A k \in B : k <= Max(B)
      BY <1>11, <3>1, ExtremesOf
    <3> QED BY <3>2
  <2>2. w \in H /\ w < f /\ w \in 0..(c.n.t - 1)
    BY <1>6, <2>1
  <2> DEFINE r == w \div s
             t == w % s
  <2>3. r \in Rows(c) /\ r \in Nat /\ t \in 0..(s - 1) /\ w = r * s + t
    BY <2>2, PositionIs DEF s
  <2>4. PosOf(c, id, w) = <<R(r), t>>
    BY DEF PosOf, R, s
  <2> HIDE DEF r, t
  <2>5. r < h /\ h \in Nat
    <3>1. h \in Nat
      BY <1>1
    <3>2. r * s + t < h * s
      BY <1>3, <2>2, <2>3
    <3> QED BY <1>3, <2>3, <3>1, <3>2, SliceOrder
  <2>6. t \in Filled(c, b, p, R(r)) /\ R(r) \in found
    <3>1. t \in Filled(c, b, p, R(r))
      BY <1>5, <2>2, <2>3
    <3> QED BY <1>8, <2>3, <2>5, <3>1
  <2>7. ASSUME NEW q \in Rows(c), q < h, NEW x \in 0..(s - 1), q * s + x \in H
        PROVE  q * s + x <= w
    <3>1. q \in Nat /\ h \in Nat
      BY <1>1
    <3>2. q * s + x < h * s
      BY <1>3, <2>7, <3>1, SliceOrder
    <3> QED BY <1>3, <1>6, <2>1, <2>7, <3>2
  <2>8. ASSUME NEW i \in found PROVE i <= R(r)
    <3>1. PICK q \in Rows(c) : i = R(q) /\ q < h /\ \E x \in 0..(s - 1) : q * s + x \in H
      BY <1>9
    <3>2. PICK x \in 0..(s - 1) : q * s + x \in H
      BY <3>1
    <3>3. q * s + x <= w /\ q \in Nat
      BY <1>1, <2>7, <3>1, <3>2
    <3>4. ~ (r < q)
      <4> SUFFICES ASSUME r < q PROVE FALSE
        OBVIOUS
      <4>1. r * s + t < q * s + x /\ r * s \in Nat /\ q * s \in Nat
        BY <1>3, <2>3, <3>3, SliceOrder
      <4> QED BY <2>3, <3>3, <4>1
    <3>5. ~ (R(r) < R(q))
      BY <1>1, <2>3, <3>4
    <3>6. R(r) \in Nat /\ R(q) \in Nat
      BY <1>2, <1>4, <2>3
    <3> QED BY <3>1, <3>5, <3>6
  <2>9. Max(found) = R(r)
    <3>1. found \in SUBSET Int
      BY <1>2 DEF found
    <3> QED BY <2>6, <2>8, <3>1, MaxIs
  <2>10. Max(Filled(c, b, p, R(r))) = t
    <3>1. ASSUME NEW x \in Filled(c, b, p, R(r)) PROVE x \in 0..(s - 1) /\ x <= t
      <4>1. x \in 0..(s - 1) /\ r * s + x \in H
        BY <1>5, <2>3
      <4>2. r * s + x <= r * s + t
        BY <2>3, <2>5, <2>7, <4>1
      <4>3. r * s \in Nat
        BY <1>3, <2>3, SMT
      <4> QED BY <2>3, <4>1, <4>2, <4>3
    <3>2. Filled(c, b, p, R(r)) \in SUBSET Int
      BY <3>1
    <3> QED BY <2>6, <3>1, <3>2, MaxIs
  <2> QED BY <1>7, <1>11, <2>1, <2>4, <2>6, <2>9, <2>10 DEF B, f
<1> QED BY <1>10, <1>11

\* The chunks searched from a chunk on.
LEMMA ColumnFrom ==
    ASSUME NEW c \in Inputs, NEW i0 \in ChunkIds(c.n, c.s)
    PROVE  \A i : i \in Range(Column(c, i0)) <=>
              /\ i \in ChunkIds(c.n, c.s)
              /\ \E k \in Nat : i = i0 + k * ChunksPerSlice(c)
<1> DEFINE m == ChunksPerSlice(c)
           d == Count(c) - i0
           K == Ceil(d, m)
<1>1. m \in Nat \ {0}
  <2>1. 0 \in Int
    OBVIOUS
  <2> QED BY <2>1, ColumnIds
<1>2. ChunkIds(c.n, c.s) = 0..(Count(c) - 1)
  BY DEF ChunkIds, Count
<1>3. Count(c) \in Int
  <2>1. c.n \in Sizes /\ c.s \in Sizes
    BY InputIs
  <2>2. Ceil(c.n.t, c.s.t) \in Nat /\ Ceil(c.n.y, c.s.y) \in Nat /\ Ceil(c.n.x, c.s.x) \in Nat
    BY <2>1, Radices
  <2> QED BY <2>2, SMT DEF Count, count_chunks
<1>4. i0 \in Nat /\ d \in Nat \ {0}
  BY <1>2, <1>3
<1> HIDE DEF m, d
<1>5. K \in Nat \ {0} /\ (K - 1) * m < d /\ d <= K * m
  BY <1>1, <1>4, CeilBounds
<1>6. Column(c, i0) = [k \in 1..K |-> i0 + (k - 1) * m]
  BY DEF Column, m, d
<1> HIDE DEF K
<1>7. \A i : i \in Range(Column(c, i0)) <=> \E k \in 1..K : i = i0 + (k - 1) * m
  BY <1>6 DEF Range
<1>8. ASSUME NEW k \in 0..(K - 1) PROVE i0 + k * m \in ChunkIds(c.n, c.s)
  <2>1. k * m <= (K - 1) * m
    BY <1>1, <1>5, ProductOrder
  <2>2. k * m \in Nat /\ (K - 1) * m \in Int
    BY <1>1, <1>5, SMT
  <2>3. d = Count(c) - i0
    BY DEF d
  <2> QED BY <1>2, <1>3, <1>4, <1>5, <2>1, <2>2, <2>3
<1>9. ASSUME NEW k \in Nat, i0 + k * m \in ChunkIds(c.n, c.s) PROVE k \in 0..(K - 1)
  <2>1. k * m \in Nat /\ K * m \in Nat
    BY <1>1, <1>5, SMT
  <2>2. d = Count(c) - i0
    BY DEF d
  <2>3. k * m < d
    BY <1>2, <1>3, <1>4, <1>9, <2>1, <2>2
  <2>4. ~ (K <= k)
    <3> SUFFICES ASSUME K <= k PROVE FALSE
      OBVIOUS
    <3>1. K * m <= k * m
      BY <1>1, <1>5, ProductOrder
    <3> QED BY <1>4, <1>5, <2>1, <2>3, <3>1
  <2> QED BY <1>5, <2>4
<1>10. ASSUME NEW i
       PROVE  (\E k \in 1..K : i = i0 + (k - 1) * m) <=>
                 /\ i \in ChunkIds(c.n, c.s)
                 /\ \E k \in Nat : i = i0 + k * m
  <2>1. ASSUME NEW k \in 1..K, i = i0 + (k - 1) * m
        PROVE  i \in ChunkIds(c.n, c.s) /\ \E j \in Nat : i = i0 + j * m
    <3>1. PICK j : j = k - 1
      OBVIOUS
    <3>2. j \in 0..(K - 1) /\ j \in Nat /\ i = i0 + j * m
      BY <1>5, <2>1, <3>1
    <3> QED BY <1>8, <3>2
  <2>2. ASSUME NEW k \in Nat, i = i0 + k * m, i \in ChunkIds(c.n, c.s)
        PROVE  \E j \in 1..K : i = i0 + (j - 1) * m
    <3>1. k \in 0..(K - 1)
      BY <1>9, <2>2
    <3>2. k + 1 \in 1..K /\ (k + 1) - 1 = k
      BY <1>5, <3>1
    <3>3. i = i0 + ((k + 1) - 1) * m
      BY <2>2, <3>2
    <3> QED BY <3>2, <3>3
  <2> QED BY <2>1, <2>2
<1> QED BY <1>7, <1>10 DEF m

LEMMA OnFinds ==
    ASSUME NEW c \in Inputs, NEW id \in ChunkIds(c.n, c.s),
           NEW b \in 0..(c.nb - 1), NEW p \in Places(c, id), NEW u \in 0..(c.n.t - 1)
    PROVE  LET A == Later(c, id, b, p, u)
               q == PosOf(c, id, u)
           IN  SearchOn(c, b, p, q[1], q[2] + 1) = IF A = {} THEN NotFound ELSE PosOf(c, id, Min(A))
<1> DEFINE h == RowOf(c, id, 0)
           m == ChunksPerSlice(c)
           s == c.s.t
           H == HasValue(c, id, b, p)
           A == Later(c, id, b, p, u)
           R(r) == InRow(c, id, r)
           r0 == u \div s
           t0 == u % s
           i0 == R(r0)
           hits(i) == {t \in Filled(c, b, p, i) : i = i0 => t >= t0 + 1}
           found == {i \in Range(Column(c, i0)) : hits(i) # {}}
<1>1. /\ m \in Nat \ {0} /\ h \in Rows(c) /\ Rows(c) \subseteq Nat
      /\ \A q \in Rows(c), r \in Rows(c) : q < r <=> R(q) < R(r)
      /\ \A r \in Rows(c) : R(r) = id + (r - h) * m
  BY RowOrder DEF RowsInOrder
<1>2. id \in Nat /\ ChunkIds(c.n, c.s) \subseteq Nat
  BY DEF ChunkIds
<1>3. /\ s \in Nat \ {0} /\ c.n.t \in Nat \ {0} /\ r0 \in Rows(c) /\ r0 \in Nat
      /\ t0 \in 0..(s - 1) /\ u = r0 * s + t0
  BY PositionIs
<1>4. \A r \in Rows(c) : R(r) \in ChunkIds(c.n, c.s)
  BY RowChunk
<1>5. ASSUME NEW r \in Rows(c), NEW t
      PROVE  t \in Filled(c, b, p, R(r)) <=> t \in 0..(s - 1) /\ r * s + t \in H
  BY FilledIs DEF FilledRow
<1>6. H \in SUBSET (0..(c.n.t - 1)) /\ A = {w \in H : w > u}
  BY DEF HasValue, Later
<1>7. SearchOn(c, b, p, i0, t0 + 1) =
        IF found = {} THEN NotFound ELSE <<Min(found), Min(hits(Min(found)))>>
  BY DEF SearchOn
<1>8. PosOf(c, id, u) = <<i0, t0>>
  BY DEF PosOf
<1>9. \A i : hits(i) = {t \in Filled(c, b, p, i) : i = i0 => t >= t0 + 1}
  OBVIOUS
<1>10. i0 = R(r0) /\ i0 \in ChunkIds(c.n, c.s) /\ r0 \in Nat /\ h \in Nat
  <2> HIDE DEF h, r0, R
  <2> QED BY <1>1, <1>3, <1>4
<1>11. \A i : i \in found <=> i \in Range(Column(c, i0)) /\ hits(i) # {}
  OBVIOUS
<1> HIDE DEF h, m, s, H, A, R, r0, t0, i0, hits, found
<1>12. ASSUME NEW r \in Rows(c), NEW x
       PROVE  x \in hits(R(r)) <=> x \in 0..(s - 1) /\ r * s + x \in H /\ (r = r0 => x >= t0 + 1)
  <2>1. R(r) = i0 <=> r = r0
    <3>1. r \in Nat
      BY <1>1
    <3>2. (r < r0 <=> R(r) < R(r0)) /\ (r0 < r <=> R(r0) < R(r))
      BY <1>1, <1>3
    <3>3. R(r) \in Nat
      BY <1>2, <1>4
    <3>4. R(r0) \in Nat
      BY <1>2, <1>10
    <3> QED BY <1>3, <1>10, <3>1, <3>2, <3>3, <3>4
  <2> QED BY <1>5, <1>9, <2>1
<1>13. ASSUME NEW r \in Rows(c), r0 <= r, NEW x \in hits(R(r)) PROVE R(r) \in found
  <2>1. r \in Nat /\ R(r) = id + (r - h) * m /\ i0 = id + (r0 - h) * m
    BY <1>1, <1>3, <1>10
  <2>2. PICK k \in Nat : k = r - r0
    BY <1>3, <1>13, <2>1
  <2>3. R(r) = i0 + k * m
    <3>1. (r - h) * m = (r0 - h) * m + (r - r0) * m /\ (r - h) * m \in Int
          /\ (r0 - h) * m \in Int /\ (r - r0) * m \in Int
      BY <1>1, <1>3, <1>10, <2>1, SMT
    <3>2. k * m = (r - r0) * m
      BY <2>2
    <3> QED BY <1>2, <2>1, <3>1, <3>2
  <2>4. R(r) \in Range(Column(c, i0))
    <3>1. \E kk \in Nat : R(r) = i0 + kk * ChunksPerSlice(c)
      BY <2>3 DEF m
    <3> QED BY <1>4, <1>10, <3>1, ColumnFrom
  <2> QED BY <1>11, <2>4
<1>14. ASSUME NEW i \in found
       PROVE  \E r \in Rows(c) : i = R(r) /\ r0 <= r /\ \E x : x \in hits(R(r))
  <2>1. i \in Range(Column(c, i0)) /\ hits(i) # {}
    BY <1>11
  <2>2. i \in ChunkIds(c.n, c.s) /\ \E k \in Nat : i = i0 + k * ChunksPerSlice(c)
    BY <1>10, <2>1, ColumnFrom
  <2>3. PICK k \in Nat : i = i0 + k * m
    BY <2>2 DEF m
  <2>4. PICK j \in Int : j = (r0 - h) + k
    BY <1>10
  <2>5. i = InColumn(c, id, j)
    <3>1. j * m = (r0 - h) * m + k * m /\ (r0 - h) * m \in Int /\ k * m \in Int /\ j * m \in Int
      BY <1>1, <1>10, <2>4, SMT
    <3>2. i0 = id + (r0 - h) * m
      BY <1>1, <1>3, <1>10
    <3>3. i = id + j * m
      BY <1>2, <2>3, <3>1, <3>2
    <3> QED BY <3>3 DEF InColumn, m
  <2>6. PICK r \in Rows(c) : i = R(r)
    BY <2>2, <2>5, OfPlace DEF R
  <2>7. r0 <= r
    <3>1. r \in Nat /\ i \in Nat /\ i0 \in Nat
      BY <1>1, <1>2, <1>10, <2>2
    <3>2. k * m \in Nat
      BY <1>1, SMT
    <3>3. ~ (R(r) < R(r0))
      BY <1>10, <2>3, <2>6, <3>1, <3>2
    <3>4. ~ (r < r0)
      BY <1>1, <1>3, <3>3
    <3> QED BY <1>3, <3>1, <3>4
  <2> QED BY <2>1, <2>6, <2>7
<1>15. ASSUME NEW r \in Rows(c), r0 <= r, NEW x \in 0..(s - 1), r * s + x \in H
       PROVE  (r = r0 => x >= t0 + 1) <=> r * s + x \in A
  <2>1. r \in Nat /\ r * s \in Nat /\ r0 * s \in Nat
    BY <1>1, <1>3, SMT
  <2>2. r0 < r => r0 * s + t0 < r * s + x
    BY <1>3, <2>1, SliceOrder
  <2>3. r = r0 => (r * s + x > u <=> x >= t0 + 1)
    <3> SUFFICES ASSUME r = r0 PROVE r0 * s + x > u <=> x >= t0 + 1
      OBVIOUS
    <3> QED BY <1>3, <2>1
  <2>4. r * s + x \in A <=> r * s + x > u
    BY <1>6, <1>15
  <2> QED BY <1>3, <1>15, <2>1, <2>2, <2>3, <2>4
<1>16. ASSUME NEW w \in A
       PROVE  /\ w \div s \in Rows(c) /\ w \div s \in Nat /\ w % s \in 0..(s - 1)
              /\ w = (w \div s) * s + (w % s) /\ r0 <= w \div s
              /\ w \in H /\ w \in 0..(c.n.t - 1)
  <2>1. w \in H /\ w > u /\ w \in 0..(c.n.t - 1)
    BY <1>6
  <2> DEFINE r == w \div s
             t == w % s
  <2>2. r \in Rows(c) /\ r \in Nat /\ t \in 0..(s - 1) /\ w = r * s + t
    BY <2>1, PositionIs DEF s
  <2> HIDE DEF r, t
  <2>3. r0 <= r
    <3> SUFFICES ASSUME r < r0 PROVE FALSE
      BY <1>3, <2>2
    <3>1. r * s + t < r0 * s + t0 /\ r * s \in Nat /\ r0 * s \in Nat
      BY <1>3, <2>2, SliceOrder
    <3> QED BY <1>3, <2>1, <2>2, <3>1
  <2> QED BY <2>1, <2>2, <2>3 DEF r, t
<1>17. ASSUME NEW r \in Rows(c), r0 <= r, NEW x
       PROVE  x \in hits(R(r)) <=> x \in 0..(s - 1) /\ r * s + x \in A
  <2>1. x \in hits(R(r)) <=> x \in 0..(s - 1) /\ r * s + x \in H /\ (r = r0 => x >= t0 + 1)
    BY <1>12
  <2>2. r * s + x \in A => r * s + x \in H
    BY <1>6
  <2> QED BY <1>15, <1>17, <2>1, <2>2
<1>18. CASE A = {}
  <2>1. found = {}
    <3> SUFFICES ASSUME NEW i \in found PROVE FALSE
      OBVIOUS
    <3>1. PICK r \in Rows(c) : r0 <= r /\ \E x : x \in hits(R(r))
      BY <1>14
    <3> QED BY <1>17, <1>18, <3>1
  <2> QED BY <1>7, <1>8, <1>18, <2>1 DEF A
<1>19. CASE A # {}
  <2>1. PICK w \in A : Min(A) = w /\ \A k \in A : w <= k
    <3>1. Below(c.n.t, A)
      BY <1>3, <1>6 DEF Below
    <3>2. Min(A) \in A /\ \A k \in A : Min(A) <= k
      BY <1>19, <3>1, ExtremesOf
    <3> QED BY <3>2
  <2> DEFINE r == w \div s
             t == w % s
  <2>2. /\ r \in Rows(c) /\ r \in Nat /\ t \in 0..(s - 1) /\ w = r * s + t /\ r0 <= r
    BY <1>16, <2>1
  <2>3. PosOf(c, id, w) = <<R(r), t>>
    BY DEF PosOf, R, s
  <2> HIDE DEF r, t
  <2>4. t \in hits(R(r)) /\ R(r) \in found
    <3>1. t \in hits(R(r))
      BY <1>17, <2>1, <2>2
    <3> QED BY <1>13, <2>2, <3>1
  <2>5. ASSUME NEW i \in found PROVE R(r) <= i
    <3>1. PICK q \in Rows(c) : i = R(q) /\ r0 <= q /\ \E x : x \in hits(R(q))
      BY <1>14
    <3>2. PICK x \in 0..(s - 1) : q * s + x \in A
      BY <1>17, <3>1
    <3>3. w <= q * s + x /\ q \in Nat
      BY <1>1, <2>1, <3>2
    <3>4. ~ (q < r)
      <4> SUFFICES ASSUME q < r PROVE FALSE
        OBVIOUS
      <4>1. q * s + x < r * s + t /\ r * s \in Nat /\ q * s \in Nat
        BY <1>3, <2>2, <3>3, SliceOrder
      <4> QED BY <2>2, <3>3, <4>1
    <3>5. ~ (R(q) < R(r))
      BY <1>1, <2>2, <3>4
    <3>6. R(r) \in Nat /\ R(q) \in Nat
      BY <1>2, <1>4, <2>2
    <3> QED BY <3>1, <3>5, <3>6
  <2>6. Min(found) = R(r)
    <3>1. ASSUME NEW i \in found PROVE i \in Int
      <4>1. PICK q \in Rows(c) : i = R(q)
        BY <1>14
      <4> QED BY <1>2, <1>4, <4>1
    <3>2. found \in SUBSET Int
      BY <3>1
    <3> QED BY <2>4, <2>5, <3>2, MinIs
  <2>7. Min(hits(R(r))) = t
    <3>1. ASSUME NEW x \in hits(R(r)) PROVE x \in 0..(s - 1) /\ t <= x
      <4>1. x \in 0..(s - 1) /\ r * s + x \in A
        BY <1>17, <2>2
      <4>2. r * s + t <= r * s + x
        BY <2>1, <2>2, <4>1
      <4>3. r * s \in Nat
        BY <1>3, <2>2, SMT
      <4> QED BY <2>2, <4>1, <4>2, <4>3
    <3>2. hits(R(r)) \in SUBSET Int
      BY <3>1
    <3> QED BY <2>4, <3>1, <3>2, MinIs
  <2> QED BY <1>7, <1>8, <1>19, <2>1, <2>3, <2>4, <2>6, <2>7 DEF A
<1> QED BY <1>18, <1>19

-------------------------------------------------------------------------------
\* FillSeries step by step.

OrElse(q, r) == IF q = NotFound THEN r ELSE q

FillStart(c, id, b, p) ==
    IF LookUp(c, b, p, <<id, 0>>) = NaN
    THEN [prev |-> OrElse(SearchBack(c, b, p, id), <<id, 0>>),
          next |-> OrElse(SearchOn(c, b, p, id, 1), <<id, 0>>), out |-> <<>>]
    ELSE [prev |-> <<id, 0>>, next |-> <<id, 0>>, out |-> <<>>]

FillStep(c, method, id, b, p, st, cur) ==
    IF LookUp(c, b, p, <<id, cur>>) = NaN
    THEN [st EXCEPT !.out = Append(@,
            Interpolate(method, LookUp(c, b, p, st.prev), LookUp(c, b, p, st.next),
                ((id - st.prev[1]) \div ChunksPerSlice(c)) * c.s.t + cur - st.prev[2],
                ((st.next[1] - id) \div ChunksPerSlice(c)) * c.s.t - cur + st.next[2]))]
    ELSE [prev |-> <<id, cur>>,
          next |-> OrElse(SearchOn(c, b, p, st.next[1], st.next[2] + 1), <<id, cur + 1>>),
          out  |-> Append(st.out, LookUp(c, b, p, <<id, cur>>))]

FillEquation(c, method, id, b, p, seq, g, s) ==
    IF s = {} THEN FillStart(c, id, b, p)
    ELSE FillStep(c, method, id, b, p, g[s \ {Max(s)}], seq[Max(s)])

FillFold(c, method, id, b, p, seq) ==
    (CHOOSE g : g = [s \in SUBSET (DOMAIN seq) |-> FillEquation(c, method, id, b, p, seq, g, s)])[DOMAIN seq]

LEMMA FillSeriesFold ==
    ASSUME NEW c, NEW method, NEW id, NEW b, NEW p
    PROVE  FillSeries(c, method, id, b, p) = FillFold(c, method, id, b, p, UpTo(c.sizes[id].t)).out
BY DEF FillSeries, FillFold, FillEquation, FillStep, FillStart, OrElse, LookUp, FoldLeft, MapThenFoldSet

HasFillChain(c, method, id, b, p, n) ==
    \E a : /\ a[0] = FillStart(c, id, b, p)
           /\ \A k \in 1..n : a[k] = FillStep(c, method, id, b, p, a[k - 1], k - 1)
           /\ FillFold(c, method, id, b, p, UpTo(n)) = a[n]

FillUpTo(c, method, id, b, p, n, g, k) ==
    /\ g = [s \in SUBSET (1..n) |-> g[s]]
    /\ \A s \in SUBSET (1..k) : g[s] = FillEquation(c, method, id, b, p, UpTo(n), g, s)

LEMMA FillChainExists ==
    ASSUME NEW c, NEW method, NEW id, NEW b, NEW p, NEW n \in Nat
    PROVE  HasFillChain(c, method, id, b, p, n)
<1> DEFINE seq == UpTo(n)
           E(g, s) == FillEquation(c, method, id, b, p, seq, g, s)
           U(g, k) == FillUpTo(c, method, id, b, p, n, g, k)
           Good == {k \in 0..n : \E g : U(g, k)}
           G == CHOOSE g : g = [s \in SUBSET (1..n) |-> E(g, s)]
<1>1. DOMAIN seq = 1..n /\ \A k \in 1..n : seq[k] = k - 1
  BY DEF UpTo
<1>2. \A g, h, s : s \in SUBSET (1..n) /\ s # {} /\ g[s \ {Max(s)}] = h[s \ {Max(s)}] => E(g, s) = E(h, s)
  BY DEF FillEquation
<1>3. \A g, h : E(g, {}) = E(h, {})
  BY DEF FillEquation
<1>4. \A g, k : U(g, k) <=> /\ g = [s \in SUBSET (1..n) |-> g[s]]
                            /\ \A s \in SUBSET (1..k) : g[s] = E(g, s)
  BY DEF FillUpTo
<1> HIDE DEF seq, E, U
<1>5. 0 \in Good
  <2> DEFINE g == [s \in SUBSET (1..n) |-> E(<<>>, s)]
  <2>1. g = [s \in SUBSET (1..n) |-> g[s]] /\ g[{}] = E(g, {})
    <3>1. g[{}] = E(<<>>, {})
      OBVIOUS
    <3>2. g = [s \in SUBSET (1..n) |-> g[s]]
      OBVIOUS
    <3> HIDE DEF g
    <3> QED BY <1>3, <3>1, <3>2
  <2>2. SUBSET (1..0) = {{}}
    OBVIOUS
  <2> HIDE DEF g
  <2>3. \A s \in SUBSET (1..0) : g[s] = E(g, s)
    BY <2>1, <2>2
  <2>4. U(g, 0)
    BY <1>4, <2>1, <2>3
  <2> QED BY <2>4
<1>6. ASSUME NEW k \in 1..n, k - 1 \in Good PROVE k \in Good
  <2>1. PICK g : U(g, k - 1)
    BY <1>6
  <2>2. \A s \in SUBSET (1..(k - 1)) : g[s] = E(g, s)
    BY <1>4, <2>1
  <2> DEFINE h == [s \in SUBSET (1..n) |-> E(g, s)]
  <2>3. h = [s \in SUBSET (1..n) |-> h[s]]
    OBVIOUS
  <2>4. \A s \in SUBSET (1..n) : h[s] = E(g, s)
    OBVIOUS
  <2> HIDE DEF h
  <2>5. ASSUME NEW s \in SUBSET (1..k) PROVE h[s] = E(h, s)
    <3>1. s \in SUBSET (1..n)
      OBVIOUS
    <3>2. CASE s = {}
      BY <1>3, <2>4, <3>1, <3>2
    <3>3. CASE s # {}
      <4> DEFINE r == s \ {Max(s)}
      <4>1. r \in SUBSET (1..(k - 1))
        <5>1. k \in Nat /\ Max(s) \in s /\ \A x \in s : x <= Max(s)
          BY <3>3, LastMember
        <5>2. ASSUME NEW x \in r PROVE x \in 1..(k - 1)
          <6>1. x \in s /\ x # Max(s) /\ x <= Max(s)
            BY <5>1
          <6>2. x \in 1..k /\ Max(s) \in 1..k
            BY <5>1, <6>1
          <6>3. PICK y \in 1..k : y = Max(s)
            BY <6>2
          <6> QED BY <6>1, <6>2, <6>3
        <5> QED BY <5>2
      <4>2. r \in SUBSET (1..n)
        BY <3>1
      <4> HIDE DEF r
      <4>3. h[r] = g[r]
        BY <2>2, <2>4, <4>1, <4>2
      <4>4. E(g, s) = E(h, s)
        BY <1>2, <3>1, <3>3, <4>3 DEF r
      <4> QED BY <2>4, <3>1, <4>4
    <3> QED BY <3>2, <3>3
  <2>6. U(h, k)
    BY <1>4, <2>3, <2>5
  <2>7. k \in 0..n
    OBVIOUS
  <2> QED BY <2>6, <2>7
<1>7. Good = 0..n
  <2>1. Good \in SUBSET (0..n)
    OBVIOUS
  <2> HIDE DEF Good
  <2> QED BY <1>5, <1>6, <2>1, Upward
<1>8. PICK g : U(g, n)
  <2>1. n \in Good
    <3> HIDE DEF Good
    <3> QED BY <1>7
  <2> QED BY <2>1
<1>9. g = [s \in SUBSET (1..n) |-> E(g, s)]
  BY <1>4, <1>8
<1>10. G = [s \in SUBSET (1..n) |-> E(G, s)]
  BY <1>9
<1>11. FillFold(c, method, id, b, p, seq) = G[1..n]
  <2>1. FillFold(c, method, id, b, p, seq) =
          (CHOOSE gg : gg = [s \in SUBSET (DOMAIN seq) |-> FillEquation(c, method, id, b, p, seq, gg, s)])[DOMAIN seq]
    BY DEF FillFold
  <2> QED BY <1>1, <2>1 DEF E
<1> HIDE DEF G
<1> DEFINE a == [k \in 0..n |-> G[1..k]]
<1>12. a[0] = FillStart(c, id, b, p)
  <2>1. 1..0 = {} /\ {} \in SUBSET (1..n)
    OBVIOUS
  <2>2. G[{}] = E(G, {})
    BY <1>10, <2>1
  <2>3. E(G, {}) = FillStart(c, id, b, p)
    BY DEF E, FillEquation
  <2>4. a[0] = G[1..0]
    OBVIOUS
  <2> HIDE DEF a
  <2> QED BY <2>1, <2>2, <2>3, <2>4
<1>13. ASSUME NEW k \in 1..n PROVE a[k] = FillStep(c, method, id, b, p, a[k - 1], k - 1)
  <2>1. 1..k \in SUBSET (1..n) /\ 1..k # {} /\ Max(1..k) = k /\ (1..k) \ {k} = 1..(k - 1)
    BY LastOf
  <2>2. PICK i : i = 1..k
    OBVIOUS
  <2>3. G[i] = FillStep(c, method, id, b, p, G[i \ {Max(i)}], seq[Max(i)])
    BY <1>10, <2>1, <2>2 DEF E, FillEquation
  <2>4. a[k] = G[1..k] /\ a[k - 1] = G[1..(k - 1)]
    OBVIOUS
  <2>5. seq[k] = k - 1
    BY <1>1
  <2> HIDE DEF a
  <2> QED BY <2>1, <2>2, <2>3, <2>4, <2>5
<1>14. a[n] = G[1..n]
  OBVIOUS
<1> HIDE DEF a
<1> QED BY <1>11, <1>12, <1>13, <1>14 DEF HasFillChain, seq

-------------------------------------------------------------------------------
\* Interpolation.

Linear(a, b, d, e) == (a * e + b * d) \div (d + e) = a + (((b - a) * d) \div (d + e))

LEMMA LinearIs ==
    ASSUME NEW a \in Int, NEW b \in Int, NEW d \in Nat \ {0}, NEW e \in Nat \ {0}
    PROVE  Linear(a, b, d, e)
<1>1. PICK w \in Nat \ {0} : w = d + e
  OBVIOUS
<1>2. PICK x \in Int : x = (b - a) * d
  BY SMT
<1>3. a * e + b * d = a * w + x
  BY <1>1, <1>2, SMT
<1>4. (a * w + x) \div w = a + (x \div w)
  BY DivShift
<1> QED BY <1>1, <1>2, <1>3, <1>4 DEF Linear

\* A gap is filled with what the values around it determine.
GapBetween(S, t, v0, v1, d0, d1) ==
    LET B == Before(S, t)
        A == After(S, t)
    IN  /\ IF B = {} THEN v0 = NaN
           ELSE v0 = S[Max(B)] /\ v0 \in Int /\ d0 = t - Max(B) /\ d0 \in Nat \ {0}
        /\ IF A = {} THEN v1 = NaN
           ELSE v1 = S[Min(A)] /\ v1 \in Int /\ d1 = Min(A) - t /\ d1 \in Nat \ {0}

NeighboursExist(S, t) ==
    /\ Before(S, t) \subseteq Int /\ After(S, t) \subseteq Int
    /\ Before(S, t) # {} => Max(Before(S, t)) \in Before(S, t)
    /\ After(S, t) # {} => Min(After(S, t)) \in After(S, t)

LEMMA InterpolateIs ==
    ASSUME NEW method, NEW S, NEW t \in Int, S[t] = NaN, NEW v0, NEW v1, NEW d0, NEW d1,
           GapBetween(S, t, v0, v1, d0, d1), NeighboursExist(S, t)
    PROVE  Interpolate(method, v0, v1, d0, d1) = FilledValue(method, S, t)
<1> DEFINE B == Before(S, t)
           A == After(S, t)
           u == Max(B)
           v == Min(A)
<1>1. FilledValue(method, S, t) =
        IF method = "locf" THEN IF B = {} THEN NaN ELSE S[u]
        ELSE IF method = "nocb" THEN IF A = {} THEN NaN ELSE S[v]
        ELSE IF B = {} THEN IF A = {} THEN NaN ELSE S[v]
        ELSE IF A = {} THEN S[u]
        ELSE IF method = "linear" THEN S[u] + ((S[v] - S[u]) * (t - u)) \div (v - u)
        ELSE IF t - u <= v - t THEN S[u] ELSE S[v]
  BY DEF FilledValue
<1>2. /\ IF B = {} THEN v0 = NaN
         ELSE v0 = S[u] /\ v0 \in Int /\ d0 = t - u /\ d0 \in Nat \ {0}
      /\ IF A = {} THEN v1 = NaN
         ELSE v1 = S[v] /\ v1 \in Int /\ d1 = v - t /\ d1 \in Nat \ {0}
  BY DEF GapBetween
<1>3. (B # {} => u \in Int) /\ (A # {} => v \in Int)
  BY DEF NeighboursExist
<1>4. NaN \notin Int
  BY CubesAssumption
<1> HIDE DEF A, B, u, v
<1>5. CASE B = {}
  BY <1>1, <1>2, <1>5 DEF Interpolate
<1>6. CASE A = {} /\ B # {}
  BY <1>1, <1>2, <1>4, <1>6 DEF Interpolate
<1>7. CASE A # {} /\ B # {}
  <2>1. v0 = S[u] /\ v1 = S[v] /\ v0 \in Int /\ v1 \in Int /\ v0 # NaN /\ v1 # NaN
        /\ d0 = t - u /\ d1 = v - t /\ d0 \in Nat \ {0} /\ d1 \in Nat \ {0} /\ u \in Int /\ v \in Int
    BY <1>2, <1>3, <1>4, <1>7
  <2>2. v - u = d0 + d1
    BY <2>1
  <2>3. (v0 * d1 + v1 * d0) \div (d0 + d1) = v0 + (((v1 - v0) * d0) \div (d0 + d1))
    <3>1. Linear(v0, v1, d0, d1)
      BY <2>1, LinearIs
    <3> QED BY <3>1 DEF Linear
  <2>4. FilledValue(method, S, t) =
        IF method = "locf" THEN v0
        ELSE IF method = "nocb" THEN v1
        ELSE IF method = "linear" THEN v0 + ((v1 - v0) * d0) \div (d0 + d1)
        ELSE IF d0 <= d1 THEN v0 ELSE v1
    BY <1>1, <1>7, <2>1, <2>2
  <2>5. Interpolate(method, v0, v1, d0, d1) =
        IF method = "locf" THEN v0
        ELSE IF method = "nocb" THEN v1
        ELSE IF method = "linear" THEN (v0 * d1 + v1 * d0) \div (d0 + d1)
        ELSE IF d0 <= d1 THEN v0 ELSE v1
    BY <2>1 DEF Interpolate
  <2> QED BY <2>3, <2>4, <2>5
<1> QED BY <1>5, <1>6, <1>7

-------------------------------------------------------------------------------
\* What FillSeries keeps: the value before and the value from the slice on.

From(c, id, b, p, u) == {w \in HasValue(c, id, b, p) : w >= u}

\* The series of a cell, and with its gaps filled the slices of a chunk.
Whole(c, id, b, p) == [u \in 0..(c.n.t - 1) |-> At(c, id, b, p, u)]

AllFilled(c, method, id, b, p) ==
    [j \in 1..SlicesOf(c, id) |-> FilledValue(method, Whole(c, id, b, p), FirstSlice(c, id) + (j - 1))]

FillPrev(c, id, b, p, k, q) ==
    LET B == Earlier(c, id, b, p, FirstSlice(c, id) + k)
    IN  \/ k = 0 /\ LookUp(c, b, p, <<id, 0>>) # NaN
        \/ B = {} /\ LookUp(c, b, p, q) = NaN
        \/ B # {} /\ q = PosOf(c, id, Max(B))

FillNext(c, id, b, p, k, q) ==
    LET A == From(c, id, b, p, FirstSlice(c, id) + k)
    IN  \/ A = {} /\ \E e \in 0..k : /\ q = <<id, e>>
                                     /\ e < SlicesOf(c, id) => LookUp(c, b, p, <<id, e>>) = NaN
        \/ A # {} /\ q = PosOf(c, id, Min(A))

FillHolds(c, method, id, b, p, k, st) ==
    /\ st = [prev |-> st.prev, next |-> st.next, out |-> st.out]
    /\ FillPrev(c, id, b, p, k, st.prev) /\ FillNext(c, id, b, p, k, st.next)
    /\ st.out = [j \in 1..k |-> AllFilled(c, method, id, b, p)[j]]

LEMMA AppendNext ==
    ASSUME NEW k \in Nat, NEW e, NEW out, out = [j \in 1..k |-> e[j]]
    PROVE  Append(out, e[k + 1]) = [j \in 1..(k + 1) |-> e[j]]
<1> DEFINE S == {e[j] : j \in 1..(k + 1)}
<1>1. e[k + 1] \in S /\ out \in [1..k -> S]
  <2>1. k + 1 \in 1..(k + 1) /\ \A j \in 1..k : j \in 1..(k + 1)
    OBVIOUS
  <2> QED BY <2>1
<1> HIDE DEF S
<1>2. out \in Seq(S) /\ Len(out) = k
  BY <1>1, FiniteSeq
<1>3. PICK r : r = Append(out, e[k + 1])
  OBVIOUS
<1>4. r \in Seq(S) /\ Len(r) = k + 1 /\ \A j \in 1..k : r[j] = out[j]
  BY <1>1, <1>2, <1>3, AppendProperties
<1>5. r[k + 1] = e[k + 1]
  <2>1. Append(out, e[k + 1])[Len(out) + 1] = e[k + 1]
    BY <1>1, <1>2, AppendProperties
  <2> QED BY <1>2, <1>3, <2>1
<1>6. \A j \in 1..k : r[j] = e[j]
  BY <1>4
<1>7. ASSUME NEW j \in 1..(k + 1) PROVE r[j] = e[j]
  <2>1. CASE j = k + 1
    BY <1>5, <2>1
  <2>2. CASE j # k + 1
    <3>1. j \in 1..k
      BY <2>2
    <3> QED BY <1>6, <3>1
  <2> QED BY <2>1, <2>2
<1>8. r = [j \in 1..(k + 1) |-> r[j]]
  BY <1>4, LenProperties
<1> QED BY <1>3, <1>7, <1>8

\* A slice of the chunk.
OwnSlice(c, id, b, p, k, u) ==
    /\ u \in 0..(c.n.t - 1) /\ PosOf(c, id, u) = <<id, k>>
    /\ LookUp(c, b, p, <<id, k>>) = At(c, id, b, p, u)

LEMMA OwnSliceIs ==
    ASSUME NEW c \in Inputs, NEW id \in ChunkIds(c.n, c.s), NEW k \in 0..(SlicesOf(c, id) - 1),
           NEW b \in 0..(c.nb - 1), NEW p \in Places(c, id),
           NEW u, u = FirstSlice(c, id) + k
    PROVE  OwnSlice(c, id, b, p, k, u)
<1>1. u \in 0..(c.n.t - 1) /\ PosOf(c, id, u) = <<id, k>>
  BY OwnPosition
<1>2. LookUp(c, b, p, PosOf(c, id, u)) = At(c, id, b, p, u)
  BY <1>1, LookUpIs
<1> QED BY <1>1, <1>2 DEF OwnSlice

LEMMA Positioned ==
    ASSUME NEW c \in Inputs, NEW id \in ChunkIds(c.n, c.s), NEW u \in 0..(c.n.t - 1)
    PROVE  PosOf(c, id, u) # NotFound
<1>1. PosOf(c, id, u)[1] \in ChunkIds(c.n, c.s)
  BY PositionIs
<1>2. PosOf(c, id, u)[1] # -1
  BY <1>1 DEF ChunkIds
<1>3. NotFound[1] = -1
  BY DEF NotFound
<1> QED BY <1>2, <1>3

LEMMA Valued ==
    ASSUME NEW c \in Inputs, NEW id \in ChunkIds(c.n, c.s),
           NEW b \in 0..(c.nb - 1), NEW p \in Places(c, id)
    PROVE  \A u \in HasValue(c, id, b, p) : /\ u \in 0..(c.n.t - 1) /\ At(c, id, b, p, u) \in Int
                                            /\ LookUp(c, b, p, PosOf(c, id, u)) = At(c, id, b, p, u)
<1> SUFFICES ASSUME NEW u \in HasValue(c, id, b, p)
             PROVE  /\ u \in 0..(c.n.t - 1) /\ At(c, id, b, p, u) \in Int
                    /\ LookUp(c, b, p, PosOf(c, id, u)) = At(c, id, b, p, u)
  OBVIOUS
<1>1. u \in 0..(c.n.t - 1) /\ At(c, id, b, p, u) # NaN
  BY DEF HasValue
<1>2. At(c, id, b, p, u) \in Number
  BY <1>1, AtNumber
<1> QED BY <1>1, <1>2, LookUpIs DEF Number

LEMMA HasValueBelow ==
    ASSUME NEW c \in Inputs, NEW id, NEW b, NEW p, NEW S \in SUBSET HasValue(c, id, b, p)
    PROVE  Below(c.n.t, S)
<1>1. c.n \in Sizes /\ c.s \in Sizes
  BY InputIs
<1>2. c.n.t \in Nat
  BY <1>1, Radices
<1> QED BY <1>2 DEF Below, HasValue

LEMMA GapFilled ==
    ASSUME NEW c \in Inputs, NEW id \in ChunkIds(c.n, c.s), NEW k \in 0..(SlicesOf(c, id) - 1),
           NEW b \in 0..(c.nb - 1), NEW p \in Places(c, id), NEW method, NEW st,
           FillHolds(c, method, id, b, p, k, st), LookUp(c, b, p, <<id, k>>) = NaN
    PROVE  Interpolate(method, LookUp(c, b, p, st.prev), LookUp(c, b, p, st.next),
                ((id - st.prev[1]) \div ChunksPerSlice(c)) * c.s.t + k - st.prev[2],
                ((st.next[1] - id) \div ChunksPerSlice(c)) * c.s.t - k + st.next[2])
            = AllFilled(c, method, id, b, p)[k + 1]
<1> DEFINE f == FirstSlice(c, id)
           z == SlicesOf(c, id)
           S == Whole(c, id, b, p)
           v0 == LookUp(c, b, p, st.prev)
           v1 == LookUp(c, b, p, st.next)
           d0 == ((id - st.prev[1]) \div ChunksPerSlice(c)) * c.s.t + k - st.prev[2]
           d1 == ((st.next[1] - id) \div ChunksPerSlice(c)) * c.s.t - k + st.next[2]
<1>1. PICK u : u = f + k
  OBVIOUS
<1>2. u \in 0..(c.n.t - 1) /\ At(c, id, b, p, u) = NaN /\ S[u] = NaN
  <2>1. OwnSlice(c, id, b, p, k, u)
    BY <1>1, OwnSliceIs
  <2> QED BY <2>1 DEF OwnSlice, Whole
<1>3. u \notin HasValue(c, id, b, p) /\ u \in Int
  BY <1>2 DEF HasValue
<1> DEFINE B == Earlier(c, id, b, p, u)
           A == Later(c, id, b, p, u)
<1>4. Before(S, u) = B /\ After(S, u) = A
  BY DEF Before, After, Whole, Earlier, Later, HasValue
<1>5. /\ \A w \in HasValue(c, id, b, p) : /\ w \in 0..(c.n.t - 1) /\ At(c, id, b, p, w) \in Int
                                         /\ LookUp(c, b, p, PosOf(c, id, w)) = At(c, id, b, p, w)
      /\ B \subseteq HasValue(c, id, b, p) /\ A \subseteq HasValue(c, id, b, p)
      /\ (\A w \in B : w < u) /\ (\A w \in A : w > u)
  BY Valued DEF Earlier, Later
<1>6. /\ B # {} => Max(B) \in B
      /\ A # {} => Min(A) \in A
  <2>1. Below(c.n.t, B) /\ Below(c.n.t, A)
    BY <1>5, HasValueBelow
  <2> HIDE DEF A, B
  <2> QED BY <2>1, ExtremesOf
<1>7. FillPrev(c, id, b, p, k, st.prev) /\ FillNext(c, id, b, p, k, st.next)
  BY DEF FillHolds
<1>8. k \in Nat /\ k < z /\ f \in Nat
  <2>1. f \in Nat
    BY OwnPosition
  <2>2. z \in Int
    BY OwnPosition, RowChunk, RowOrder
  <2> QED BY <2>1, <2>2
<1>9. From(c, id, b, p, u) = A
  <2>1. \A w \in HasValue(c, id, b, p) : w >= u <=> w > u
    BY <1>3, <1>5
  <2> QED BY <2>1 DEF From, Later
<1>10. IF B = {} THEN v0 = NaN
       ELSE v0 = S[Max(B)] /\ v0 \in Int /\ d0 = u - Max(B) /\ d0 \in Nat \ {0}
  <2>1. \/ B = {} /\ v0 = NaN
        \/ B # {} /\ st.prev = PosOf(c, id, Max(B))
    <3>1. \/ k = 0 /\ LookUp(c, b, p, <<id, 0>>) # NaN
          \/ B = {} /\ v0 = NaN
          \/ B # {} /\ st.prev = PosOf(c, id, Max(B))
      BY <1>1, <1>7 DEF FillPrev
    <3> HIDE DEF B, v0
    <3> QED BY <3>1
  <2>2. ASSUME B # {}
        PROVE  v0 = S[Max(B)] /\ v0 \in Int /\ d0 = u - Max(B) /\ d0 \in Nat \ {0}
    <3>1. PICK w : w = Max(B)
      OBVIOUS
    <3>2. st.prev = PosOf(c, id, w) /\ w \in HasValue(c, id, b, p) /\ w < u /\ w \in 0..(c.n.t - 1)
      BY <1>5, <1>6, <2>1, <2>2, <3>1
    <3>3. d0 = f + k - w
      <4>1. ((id - PosOf(c, id, w)[1]) \div ChunksPerSlice(c)) * c.s.t + k - PosOf(c, id, w)[2] = f + k - w
        BY <1>8, <3>2, Distance
      <4> QED BY <3>2, <4>1
    <3>4. v0 = At(c, id, b, p, w) /\ v0 \in Int /\ S[w] = At(c, id, b, p, w)
      BY <1>5, <3>2 DEF Whole
    <3>5. d0 = u - w /\ d0 \in Nat \ {0}
      <4> HIDE DEF d0, f
      <4>1. d0 = u - w
        BY <1>1, <1>8, <3>2, <3>3
      <4> QED BY <1>3, <3>2, <4>1
    <3> HIDE DEF d0, v0, S
    <3> QED BY <3>1, <3>4, <3>5
  <2> HIDE DEF d0, v0, S, B
  <2> QED BY <2>1, <2>2
<1>11. IF A = {} THEN v1 = NaN
       ELSE v1 = S[Min(A)] /\ v1 \in Int /\ d1 = Min(A) - u /\ d1 \in Nat \ {0}
  <2>1. \/ A = {} /\ \E e \in 0..k : /\ st.next = <<id, e>>
                                     /\ e < z => LookUp(c, b, p, <<id, e>>) = NaN
        \/ A # {} /\ st.next = PosOf(c, id, Min(A))
    BY <1>1, <1>7, <1>9 DEF FillNext
  <2>2. ASSUME A # {}
        PROVE  v1 = S[Min(A)] /\ v1 \in Int /\ d1 = Min(A) - u /\ d1 \in Nat \ {0}
    <3>1. PICK w : w = Min(A)
      OBVIOUS
    <3>2. st.next = PosOf(c, id, w) /\ w \in HasValue(c, id, b, p) /\ w > u /\ w \in 0..(c.n.t - 1)
      BY <1>5, <1>6, <2>1, <2>2, <3>1
    <3>3. d1 = w - (f + k)
      <4>1. ((PosOf(c, id, w)[1] - id) \div ChunksPerSlice(c)) * c.s.t - k + PosOf(c, id, w)[2] = w - (f + k)
        BY <1>8, <3>2, Distance
      <4> QED BY <3>2, <4>1
    <3>4. v1 = At(c, id, b, p, w) /\ v1 \in Int /\ S[w] = At(c, id, b, p, w)
      BY <1>5, <3>2 DEF Whole
    <3>5. d1 = w - u /\ d1 \in Nat \ {0}
      <4> HIDE DEF d1, f
      <4>1. d1 = w - u
        BY <1>1, <3>3
      <4> QED BY <1>3, <3>2, <4>1
    <3> HIDE DEF d1, v1, S
    <3> QED BY <3>1, <3>4, <3>5
  <2>3. ASSUME A = {} PROVE v1 = NaN
    <3>1. PICK e \in 0..k : st.next = <<id, e>> /\ (e < z => LookUp(c, b, p, <<id, e>>) = NaN)
      BY <2>1, <2>3
    <3>2. e < z
      <4>1. z \in Int
        BY OwnPosition, RowChunk, RowOrder
      <4> QED BY <1>8, <3>1, <4>1
    <3> QED BY <3>1, <3>2
  <2> HIDE DEF d1, v1, S, A
  <2> QED BY <2>2, <2>3
<1>12. GapBetween(S, u, v0, v1, d0, d1)
  <2> HIDE DEF d0, d1, v0, v1, S, A, B
  <2> QED BY <1>4, <1>10, <1>11 DEF GapBetween
<1>13. Interpolate(method, v0, v1, d0, d1) = FilledValue(method, S, u)
  <2>1. B \subseteq Int /\ A \subseteq Int
    BY <1>5
  <2> HIDE DEF d0, d1, v0, v1, S, A, B
  <2>2. NeighboursExist(S, u)
    BY <1>4, <1>6, <2>1 DEF NeighboursExist
  <2> QED BY <1>2, <1>3, <1>12, <2>2, InterpolateIs
<1>14. AllFilled(c, method, id, b, p)[k + 1] = FilledValue(method, S, f + ((k + 1) - 1))
  <2>1. k + 1 \in 1..z
    <3>1. z \in Int
      BY OwnPosition, RowChunk, RowOrder
    <3> QED BY <1>8, <3>1
  <2> QED BY <2>1 DEF AllFilled
<1>15. f + ((k + 1) - 1) = u
  <2>1. (k + 1) - 1 = k
    BY <1>8
  <2> QED BY <1>1, <2>1
<1> HIDE DEF d0, d1, v0, v1, S
<1> QED BY <1>13, <1>14, <1>15 DEF d0, d1, v0, v1

LEMMA FillStarts ==
    ASSUME NEW c \in Inputs, NEW id \in ChunkIds(c.n, c.s),
           NEW b \in 0..(c.nb - 1), NEW p \in Places(c, id), NEW method
    PROVE  FillHolds(c, method, id, b, p, 0, FillStart(c, id, b, p))
<1> DEFINE f == FirstSlice(c, id)
           st == FillStart(c, id, b, p)
           H == HasValue(c, id, b, p)
<1>1. 0 \in 0..(SlicesOf(c, id) - 1) /\ f \in Nat
  <2>1. RowOf(c, id, 0) \in Rows(c) /\ InRow(c, id, RowOf(c, id, 0)) = id
    BY RowOrder
  <2>2. c.s.t \in Nat \ {0} /\ SlicesOf(c, InRow(c, id, RowOf(c, id, 0))) \in 1..c.s.t
    BY <2>1, RowChunk
  <2>3. SlicesOf(c, id) \in 1..c.s.t
    BY <2>1, <2>2
  <2>4. 0 \in 0..(SlicesOf(c, id) - 1)
    BY <2>2, <2>3
  <2> QED BY <2>4, OwnPosition
<1>2. OwnSlice(c, id, b, p, 0, f)
  <2>1. f = FirstSlice(c, id) + 0
    BY <1>1
  <2> QED BY <1>1, <2>1, OwnSliceIs
<1>3. /\ f \in 0..(c.n.t - 1) /\ PosOf(c, id, f) = <<id, 0>>
      /\ LookUp(c, b, p, <<id, 0>>) = At(c, id, b, p, f)
  BY <1>2 DEF OwnSlice
<1>4. st = [prev |-> st.prev, next |-> st.next, out |-> st.out] /\ st.out = <<>>
  BY DEF FillStart
<1>5. st.out = [j \in 1..0 |-> AllFilled(c, method, id, b, p)[j]]
  <2>1. 1..0 = {}
    OBVIOUS
  <2> QED BY <1>4, <2>1
<1>6. PICK g : g = f + 0
  OBVIOUS
<1>7. g = f
  BY <1>1, <1>6
<1>8. CASE LookUp(c, b, p, <<id, 0>>) = NaN
  <2> DEFINE B == Earlier(c, id, b, p, f)
             A == Later(c, id, b, p, f)
  <2>1. f \notin H /\ f \in Int
    BY <1>1, <1>3, <1>8 DEF HasValue
  <2>2. st.prev = OrElse(SearchBack(c, b, p, id), <<id, 0>>)
        /\ st.next = OrElse(SearchOn(c, b, p, id, 1), <<id, 0>>)
    BY <1>8 DEF FillStart
  <2>3. SearchBack(c, b, p, id) = IF B = {} THEN NotFound ELSE PosOf(c, id, Max(B))
    BY BackFinds
  <2>4. SearchOn(c, b, p, id, 1) = IF A = {} THEN NotFound ELSE PosOf(c, id, Min(A))
    <3>1. SearchOn(c, b, p, PosOf(c, id, f)[1], PosOf(c, id, f)[2] + 1) =
            IF A = {} THEN NotFound ELSE PosOf(c, id, Min(A))
      BY <1>3, OnFinds
    <3>2. PosOf(c, id, f)[1] = id /\ PosOf(c, id, f)[2] + 1 = 1
      BY <1>3
    <3> QED BY <3>1, <3>2
  <2>5. (B # {} => PosOf(c, id, Max(B)) # NotFound) /\ (A # {} => PosOf(c, id, Min(A)) # NotFound)
    <3>1. Below(c.n.t, B) /\ Below(c.n.t, A)
      BY HasValueBelow DEF Earlier, Later
    <3>2. (B # {} => Max(B) \in B) /\ (A # {} => Min(A) \in A)
      BY <3>1, ExtremesOf
    <3> QED BY <3>1, <3>2, Positioned DEF Below
  <2>6. From(c, id, b, p, f) = A
    <3>1. \A w \in H : w \in Int
      BY Valued
    <3>2. \A w \in H : w >= f <=> w > f
      BY <2>1, <3>1
    <3> QED BY <3>2 DEF From, Later
  <2> HIDE DEF B, A, st
  <2>7. FillPrev(c, id, b, p, 0, st.prev)
    <3>1. \/ B = {} /\ LookUp(c, b, p, st.prev) = NaN
          \/ B # {} /\ st.prev = PosOf(c, id, Max(B))
      BY <1>8, <2>2, <2>3, <2>5 DEF OrElse
    <3>2. B = Earlier(c, id, b, p, FirstSlice(c, id) + 0)
      BY <1>6, <1>7 DEF B
    <3> QED BY <3>1, <3>2 DEF FillPrev
  <2>8. FillNext(c, id, b, p, 0, st.next)
    <3>1. \/ A = {} /\ st.next = <<id, 0>>
          \/ A # {} /\ st.next = PosOf(c, id, Min(A))
      BY <2>2, <2>4, <2>5 DEF OrElse
    <3>2. A = From(c, id, b, p, FirstSlice(c, id) + 0)
      BY <1>6, <1>7, <2>6
    <3>3. 0 \in 0..0
      OBVIOUS
    <3> QED BY <1>8, <3>1, <3>2, <3>3 DEF FillNext
  <2> QED BY <1>4, <1>5, <2>7, <2>8 DEF FillHolds, st
<1>9. CASE LookUp(c, b, p, <<id, 0>>) # NaN
  <2>1. FillPrev(c, id, b, p, 0, st.prev)
    BY <1>9 DEF FillPrev
  <2>2. st.next = <<id, 0>>
    BY <1>9 DEF FillStart
  <2> DEFINE A == From(c, id, b, p, f)
  <2>3. f \in A /\ A \in SUBSET Int /\ \A w \in A : f <= w
    <3>1. \A w \in H : w \in Int
      BY Valued
    <3>2. f \in H
      BY <1>3, <1>9 DEF HasValue
    <3> QED BY <1>1, <3>1, <3>2 DEF From
  <2>4. Min(A) = f
    <3> HIDE DEF A, f
    <3> QED BY <2>3, MinIs
  <2>5. FillNext(c, id, b, p, 0, st.next)
    <3>1. A # {} /\ st.next = PosOf(c, id, Min(A))
      BY <1>3, <2>2, <2>3, <2>4
    <3>2. A = From(c, id, b, p, FirstSlice(c, id) + 0)
      BY <1>6, <1>7
    <3> HIDE DEF A, st
    <3> QED BY <3>1, <3>2 DEF FillNext
  <2> QED BY <1>4, <1>5, <2>1, <2>5 DEF FillHolds
<1> QED BY <1>8, <1>9

LEMMA FillSteps ==
    ASSUME NEW c \in Inputs, NEW id \in ChunkIds(c.n, c.s), NEW k \in 0..(SlicesOf(c, id) - 1),
           NEW b \in 0..(c.nb - 1), NEW p \in Places(c, id), NEW method, NEW st,
           FillHolds(c, method, id, b, p, k, st)
    PROVE  FillHolds(c, method, id, b, p, k + 1, FillStep(c, method, id, b, p, st, k))
<1> DEFINE f == FirstSlice(c, id)
           H == HasValue(c, id, b, p)
           x == FillStep(c, method, id, b, p, st, k)
           E == AllFilled(c, method, id, b, p)
<1>1. SlicesOf(c, id) \in Nat /\ k \in Nat /\ k < SlicesOf(c, id) /\ f \in Nat
  <2>1. SlicesOf(c, id) \in Int
    <3>1. RowOf(c, id, 0) \in Rows(c) /\ InRow(c, id, RowOf(c, id, 0)) = id
      BY RowOrder
    <3>2. c.s.t \in Nat \ {0} /\ SlicesOf(c, InRow(c, id, RowOf(c, id, 0))) \in 1..c.s.t
      BY <3>1, RowChunk
    <3> QED BY <3>1, <3>2
  <2>2. f \in Nat
    BY OwnPosition
  <2> QED BY <2>1, <2>2
<1>2. PICK u : u = f + k
  OBVIOUS
<1>3. PICK v : v = f + (k + 1)
  OBVIOUS
<1>4. v = u + 1 /\ u \in Int
  BY <1>1, <1>2, <1>3
<1>5. /\ u \in 0..(c.n.t - 1) /\ PosOf(c, id, u) = <<id, k>>
      /\ LookUp(c, b, p, <<id, k>>) = At(c, id, b, p, u)
  <2>1. OwnSlice(c, id, b, p, k, u)
    BY <1>2, OwnSliceIs
  <2> QED BY <2>1 DEF OwnSlice
<1>6. /\ st = [prev |-> st.prev, next |-> st.next, out |-> st.out]
      /\ FillPrev(c, id, b, p, k, st.prev) /\ FillNext(c, id, b, p, k, st.next)
      /\ st.out = [j \in 1..k |-> E[j]]
  BY DEF FillHolds
<1>7. Append(st.out, E[k + 1]) = [j \in 1..(k + 1) |-> E[j]]
  <2> HIDE DEF E
  <2> QED BY <1>1, <1>6, AppendNext
<1>8. \A w \in H : w \in Int
  BY Valued
<1>9. CASE LookUp(c, b, p, <<id, k>>) = NaN
  <2>1. x = [st EXCEPT !.out = Append(@, E[k + 1])]
    BY <1>9, GapFilled DEF FillStep
  <2>2. x = [prev |-> st.prev, next |-> st.next, out |-> [j \in 1..(k + 1) |-> E[j]]]
    <3> HIDE DEF x, E
    <3>1. x = [prev |-> st.prev, next |-> st.next, out |-> Append(st.out, E[k + 1])]
      BY <1>6, <2>1
    <3> QED BY <1>7, <3>1
  <2>3. u \notin H
    BY <1>5, <1>9 DEF HasValue
  <2>4. Earlier(c, id, b, p, v) = Earlier(c, id, b, p, u) /\ From(c, id, b, p, v) = From(c, id, b, p, u)
    <3>1. \A w \in H : (w < v <=> w < u) /\ (w >= v <=> w >= u)
      <4> HIDE DEF H
      <4> QED BY <1>4, <1>8, <2>3
    <3> QED BY <3>1 DEF Earlier, From
  <2>5. FillPrev(c, id, b, p, k + 1, st.prev)
    <3> DEFINE B == Earlier(c, id, b, p, u)
    <3>1. \/ k = 0 /\ LookUp(c, b, p, <<id, 0>>) # NaN
          \/ B = {} /\ LookUp(c, b, p, st.prev) = NaN
          \/ B # {} /\ st.prev = PosOf(c, id, Max(B))
      BY <1>2, <1>6 DEF FillPrev
    <3>2. B = Earlier(c, id, b, p, FirstSlice(c, id) + (k + 1))
      BY <1>3, <2>4
    <3> HIDE DEF B
    <3> QED BY <1>9, <3>1, <3>2 DEF FillPrev
  <2>6. FillNext(c, id, b, p, k + 1, st.next)
    <3> DEFINE A == From(c, id, b, p, u)
    <3>1. \/ A = {} /\ \E e \in 0..k : /\ st.next = <<id, e>>
                                       /\ e < SlicesOf(c, id) => LookUp(c, b, p, <<id, e>>) = NaN
          \/ A # {} /\ st.next = PosOf(c, id, Min(A))
      BY <1>2, <1>6 DEF FillNext
    <3>2. A = From(c, id, b, p, FirstSlice(c, id) + (k + 1))
      BY <1>3, <2>4
    <3>3. \A e \in 0..k : e \in 0..(k + 1)
      BY <1>1
    <3> HIDE DEF A
    <3> QED BY <3>1, <3>2, <3>3 DEF FillNext
  <2> HIDE DEF x, E
  <2> QED BY <2>2, <2>5, <2>6 DEF FillHolds, E, x
<1>10. CASE LookUp(c, b, p, <<id, k>>) # NaN
  <2>1. u \in H
    BY <1>5, <1>10 DEF HasValue
  <2>2. E[k + 1] = LookUp(c, b, p, <<id, k>>)
    <3>1. k + 1 \in 1..SlicesOf(c, id)
      BY <1>1
    <3>2. E[k + 1] = FilledValue(method, Whole(c, id, b, p), f + ((k + 1) - 1))
      BY <3>1 DEF AllFilled
    <3>3. f + ((k + 1) - 1) = u
      <4>1. (k + 1) - 1 = k
        BY <1>1
      <4> QED BY <1>2, <4>1
    <3>4. Whole(c, id, b, p)[u] = At(c, id, b, p, u)
      BY <1>5 DEF Whole
    <3>5. FilledValue(method, Whole(c, id, b, p), u) = At(c, id, b, p, u)
      BY <1>5, <1>10, <3>4 DEF FilledValue
    <3> HIDE DEF E, f
    <3> QED BY <1>5, <3>2, <3>3, <3>5
  <2> DEFINE L == Later(c, id, b, p, u)
             A == From(c, id, b, p, u)
             B == Earlier(c, id, b, p, v)
  <2>3. /\ x = [prev |-> <<id, k>>,
                next |-> OrElse(SearchOn(c, b, p, st.next[1], st.next[2] + 1), <<id, k + 1>>),
                out |-> [j \in 1..(k + 1) |-> E[j]]]
    <3>1. x = [prev |-> <<id, k>>,
               next |-> OrElse(SearchOn(c, b, p, st.next[1], st.next[2] + 1), <<id, k + 1>>),
               out |-> Append(st.out, LookUp(c, b, p, <<id, k>>))]
      BY <1>10 DEF FillStep
    <3> HIDE DEF x, E
    <3> QED BY <1>7, <2>2, <3>1
  <2>4. st.next = PosOf(c, id, u)
    <3>1. u \in A /\ A \in SUBSET Int /\ \A w \in A : u <= w
      <4>1. A = {w \in H : w >= u} /\ u >= u
        BY <1>4 DEF From
      <4> HIDE DEF A, H
      <4> QED BY <1>4, <1>8, <2>1, <4>1
    <3>2. Min(A) = u
      <4> HIDE DEF A
      <4> QED BY <3>1, MinIs
    <3>3. A # {} => st.next = PosOf(c, id, Min(A))
      BY <1>2, <1>6 DEF FillNext
    <3> QED BY <3>1, <3>2, <3>3
  <2>5. SearchOn(c, b, p, st.next[1], st.next[2] + 1) = IF L = {} THEN NotFound ELSE PosOf(c, id, Min(L))
    <3>1. SearchOn(c, b, p, PosOf(c, id, u)[1], PosOf(c, id, u)[2] + 1) =
            IF L = {} THEN NotFound ELSE PosOf(c, id, Min(L))
      BY <1>5, OnFinds
    <3> QED BY <2>4, <3>1
  <2>6. L # {} => PosOf(c, id, Min(L)) # NotFound
    <3>1. Below(c.n.t, L)
      <4>1. L \in SUBSET HasValue(c, id, b, p)
        BY DEF Later
      <4> HIDE DEF L
      <4> QED BY <4>1, HasValueBelow
    <3>2. L # {} => Min(L) \in L
      BY <3>1, ExtremesOf
    <3> QED BY <3>1, <3>2, Positioned DEF Below
  <2>7. L = From(c, id, b, p, v)
    <3>1. \A w \in H : w > u <=> w >= v
      <4> HIDE DEF H
      <4> QED BY <1>4, <1>8
    <3> QED BY <3>1 DEF Later, From
  <2>8. FillPrev(c, id, b, p, k + 1, <<id, k>>)
    <3>1. u \in B /\ B \in SUBSET Int /\ \A w \in B : w <= u
      <4>1. u < v /\ \A w \in H : w < v => w <= u
        <5> HIDE DEF H
        <5> QED BY <1>4, <1>8
      <4> QED BY <1>8, <2>1, <4>1 DEF Earlier
    <3>2. Max(B) = u
      <4> HIDE DEF B
      <4> QED BY <3>1, MaxIs
    <3>3. B # {} /\ <<id, k>> = PosOf(c, id, Max(B))
      BY <1>5, <3>1, <3>2
    <3>4. B = Earlier(c, id, b, p, FirstSlice(c, id) + (k + 1))
      BY <1>3
    <3> HIDE DEF B
    <3> QED BY <3>3, <3>4 DEF FillPrev
  <2>9. FillNext(c, id, b, p, k + 1, x.next)
    <3>1. x.next = IF L = {} THEN <<id, k + 1>> ELSE PosOf(c, id, Min(L))
      <4> HIDE DEF x, L
      <4> QED BY <2>3, <2>5, <2>6 DEF OrElse
    <3>2. L = {} /\ k + 1 < SlicesOf(c, id) => LookUp(c, b, p, <<id, k + 1>>) = NaN
      <4> SUFFICES ASSUME L = {}, k + 1 < SlicesOf(c, id)
                   PROVE  LookUp(c, b, p, <<id, k + 1>>) = NaN
        OBVIOUS
      <4>1. PICK i : i = k + 1
        OBVIOUS
      <4>2. i \in 0..(SlicesOf(c, id) - 1)
        BY <1>1, <4>1
      <4>3. OwnSlice(c, id, b, p, i, v)
        <5>1. v = FirstSlice(c, id) + i
          BY <1>3, <4>1
        <5> QED BY <4>2, <5>1, OwnSliceIs
      <4>4. v \in 0..(c.n.t - 1) /\ LookUp(c, b, p, <<id, i>>) = At(c, id, b, p, v)
        BY <4>3 DEF OwnSlice
      <4>5. v \notin H
        <5>1. v > u
          BY <1>4
        <5> QED BY <5>1 DEF Later
      <4> QED BY <4>1, <4>4, <4>5 DEF HasValue
    <3>3. L = From(c, id, b, p, FirstSlice(c, id) + (k + 1))
      BY <1>3, <2>7
    <3>4. k + 1 \in 0..(k + 1)
      BY <1>1
    <3> HIDE DEF L, x
    <3> QED BY <3>1, <3>2, <3>3, <3>4 DEF FillNext
  <2>10. x.prev = <<id, k>> /\ x.out = [j \in 1..(k + 1) |-> E[j]]
         /\ x = [prev |-> x.prev, next |-> x.next, out |-> x.out]
    <3> HIDE DEF x, E
    <3> QED BY <2>3
  <2> HIDE DEF x, E
  <2> QED BY <2>8, <2>9, <2>10 DEF FillHolds, E, x
<1> QED BY <1>9, <1>10

LEMMA FillSeriesIs ==
    ASSUME NEW c \in Inputs, NEW id \in ChunkIds(c.n, c.s),
           NEW b \in 0..(c.nb - 1), NEW p \in Places(c, id), NEW method
    PROVE  FillSeries(c, method, id, b, p) = AllFilled(c, method, id, b, p)
<1> DEFINE n == SlicesOf(c, id)
           E == AllFilled(c, method, id, b, p)
<1>1. n \in Nat /\ c.sizes[id].t = n
  <2>1. RowOf(c, id, 0) \in Rows(c) /\ InRow(c, id, RowOf(c, id, 0)) = id
    BY RowOrder
  <2>2. c.s.t \in Nat \ {0} /\ SlicesOf(c, InRow(c, id, RowOf(c, id, 0))) \in 1..c.s.t
    BY <2>1, RowChunk
  <2>3. c.sizes[id] = chunk_size(c.n, c.s, id)
    BY InputIs
  <2> QED BY <2>1, <2>2, <2>3 DEF SlicesOf
<1>2. HasFillChain(c, method, id, b, p, n)
  <2> HIDE DEF n
  <2> QED BY <1>1, FillChainExists
<1>3. PICK a : /\ a[0] = FillStart(c, id, b, p)
               /\ \A k \in 1..n : a[k] = FillStep(c, method, id, b, p, a[k - 1], k - 1)
               /\ FillFold(c, method, id, b, p, UpTo(n)) = a[n]
  BY <1>2 DEF HasFillChain
<1> DEFINE G == {k \in 0..n : FillHolds(c, method, id, b, p, k, a[k])}
<1>4. 0 \in G
  <2>1. FillHolds(c, method, id, b, p, 0, a[0])
    BY <1>3, FillStarts
  <2> HIDE DEF n
  <2> QED BY <1>1, <2>1
<1>5. ASSUME NEW k \in 1..n, k - 1 \in G PROVE k \in G
  <2>1. PICK j : j = k - 1
    OBVIOUS
  <2>2. j \in 0..(n - 1) /\ j + 1 = k /\ k \in 0..n
    <3> HIDE DEF n
    <3> QED BY <1>1, <2>1
  <2>3. FillHolds(c, method, id, b, p, j, a[j])
    BY <1>5, <2>1
  <2>4. FillHolds(c, method, id, b, p, j + 1, FillStep(c, method, id, b, p, a[j], j))
    BY <2>2, <2>3, FillSteps
  <2>5. a[k] = FillStep(c, method, id, b, p, a[j], j)
    BY <1>3, <2>1
  <2> HIDE DEF n
  <2> QED BY <2>2, <2>4, <2>5
<1>6. G = 0..n
  <2>1. G \in SUBSET (0..n)
    OBVIOUS
  <2> HIDE DEF G, n
  <2> QED BY <1>1, <1>4, <1>5, <2>1, Upward
<1>7. FillHolds(c, method, id, b, p, n, a[n])
  <2>1. n \in G
    <3> HIDE DEF G, n
    <3> QED BY <1>1, <1>6
  <2> QED BY <2>1
<1>8. a[n].out = [j \in 1..n |-> E[j]]
  <2> HIDE DEF n
  <2> QED BY <1>7 DEF FillHolds
<1>9. [j \in 1..n |-> E[j]] = E
  BY DEF AllFilled
<1>10. FillSeries(c, method, id, b, p) = FillFold(c, method, id, b, p, UpTo(n)).out
  <2>1. FillSeries(c, method, id, b, p) = FillFold(c, method, id, b, p, UpTo(c.sizes[id].t)).out
    BY FillSeriesFold
  <2> HIDE DEF n
  <2> QED BY <1>1, <2>1
<1> QED BY <1>3, <1>8, <1>9, <1>10

LEMMA FillValue ==
    ASSUME NEW c, NEW method, NEW id, NEW out, out = fill_time(c, method, id),
           FullSize(out.size), NEW b \in 0..(out.size.b - 1), NEW t \in 0..(out.size.t - 1),
           NEW p \in 0..(out.size.y * out.size.x - 1), p \in 0..(c.sizes[id].y * c.sizes[id].x - 1),
           b \in 0..(c.nb - 1)
    PROVE  Value(out, b, t, p) = FillSeries(c, method, id, b, p)[t + 1]
<1> DEFINE z == c.sizes[id]
           filled == [e \in 0..(c.nb - 1) |-> [q \in 0..(z.y * z.x - 1) |-> FillSeries(c, method, id, e, q)]]
           F(e, h, q) == filled[e][q][h + 1]
           y == BandSize(c.nb, z)
           k == Index(y, b, t, p)
<1>0. out = [size |-> y, buf |-> [j \in 0..(Volume(y) - 1) |->
                   F(j \div (y.t * y.y * y.x), (j \div (y.y * y.x)) % y.t, j % (y.y * y.x))]]
  BY DEF fill_time, Chunk
<1>1. /\ out.size = y
      /\ out.buf = [j \in 0..(Volume(y) - 1) |->
                   F(j \div (y.t * y.y * y.x), (j \div (y.y * y.x)) % y.t, j % (y.y * y.x))]
  <2> HIDE DEF F, y
  <2> QED BY <1>0
<1>2. Value(out, b, t, p) = out.buf[k]
  <2> HIDE DEF y
  <2> QED BY <1>1 DEF Value, Index
<1>3. /\ k \in 0..(Volume(y) - 1) /\ k \div (y.t * y.y * y.x) = b
      /\ (k \div (y.y * y.x)) % y.t = t /\ k % (y.y * y.x) = p
  <2> HIDE DEF y
  <2>1. /\ FullSize(y) /\ b \in 0..(y.b - 1) /\ t \in 0..(y.t - 1) /\ p \in 0..(y.y * y.x - 1)
    BY <1>1
  <2> QED BY <2>1, IndexIs
<1>4. F(b, t, p) = FillSeries(c, method, id, b, p)[t + 1]
  <2>1. filled[b][p] = FillSeries(c, method, id, b, p)
    OBVIOUS
  <2> HIDE DEF filled
  <2> QED BY <2>1
<1> HIDE DEF k, y, F
<1>5. out.buf[k] = F(b, t, p)
  BY <1>1, <1>3
<1> QED BY <1>2, <1>4, <1>5

LEMMA FillAgrees ==
    ASSUME RInv, read # Nothing, op.kind = "fill_time",
           NEW b \in 0..(read.out.size.b - 1), NEW t \in 0..(read.out.size.t - 1),
           NEW p \in 0..(read.out.size.y * read.out.size.x - 1)
    PROVE  Value(read.out, b, t, p) = FilledValue(op.method, Series(b, OutCell(t, p)), OutCell(t, p).t)
<1> DEFINE id == read.id
           z == cube.sizes[id].t
           f == FirstSlice(cube, id)
<1>1. read.out = fill_time(cube, op.method, id)
  BY WhatIsRead
<1>2. read.out.size = BandSize(cube.nb, cube.sizes[id])
  <2>1. ShapeOf(read.out, BandSize(cube.nb, cube.sizes[id]))
    BY <1>1, FillTimeShape
  <2> QED BY <2>1 DEF ShapeOf
<1>3. cube.nb \in Nat
  <2>1. cube \in Inputs
    BY DEF RInv, Inputs2
  <2> QED BY <2>1, InputIs
<1>4. /\ cube \in Inputs /\ id \in ChunkIds(cube.n, cube.s)
      /\ FullSize(read.out.size) /\ b \in 0..(cube.nb - 1)
      /\ t \in 0..(z - 1) /\ p \in Places(cube, id)
      /\ p \in 0..(cube.sizes[id].y * cube.sizes[id].x - 1)
      /\ OutCell(t, p).t = f + t
      /\ \A i : Series(i, OutCell(t, p)) = [u \in 0..(cube.n.t - 1) |-> At(cube, id, i, p, u)]
  BY <1>2, <1>3, SeriesElement
<1>5. Value(read.out, b, t, p) = FillSeries(cube, op.method, id, b, p)[t + 1]
  BY <1>1, <1>4, FillValue
<1>6. Series(b, OutCell(t, p)) = Whole(cube, id, b, p)
  BY <1>4 DEF Whole
<1>7. FillSeries(cube, op.method, id, b, p) = AllFilled(cube, op.method, id, b, p)
  BY <1>4, FillSeriesIs
<1>8. t + 1 \in 1..SlicesOf(cube, id) /\ t \in Nat
  <2>1. cube.sizes[id] = chunk_size(cube.n, cube.s, id)
    BY <1>4, InputIs
  <2>2. z = SlicesOf(cube, id)
    BY <2>1 DEF SlicesOf
  <2>3. z \in Int
    <3>1. chunk_size(cube.n, cube.s, id).t \in Nat \ {0}
      <4>1. cube.n \in Sizes /\ cube.s \in Sizes
        BY <1>4, InputIs
      <4> QED BY <1>4, <4>1, ChunkSizePositive
    <3> QED BY <2>1, <3>1
  <2> HIDE DEF z
  <2> QED BY <1>4, <2>2, <2>3
<1>9. PICK u : u = f + t
  OBVIOUS
<1>10. AllFilled(cube, op.method, id, b, p)[t + 1] = FilledValue(op.method, Whole(cube, id, b, p), u)
  <2>1. AllFilled(cube, op.method, id, b, p)[t + 1] =
          FilledValue(op.method, Whole(cube, id, b, p), f + ((t + 1) - 1))
    BY <1>8 DEF AllFilled
  <2>2. f + ((t + 1) - 1) = u
    <3>1. (t + 1) - 1 = t
      BY <1>8
    <3> QED BY <1>9, <3>1
  <2> HIDE DEF f
  <2> QED BY <2>1, <2>2
<1>11. OutCell(t, p).t = u
  BY <1>4, <1>9
<1> QED BY <1>5, <1>6, <1>7, <1>10, <1>11

\* Every element of what window_time and fill_time return is determined by the whole series
\* of its cell: a moving window over one band holds the slices before and after it and NaN
\* beyond the cube, though it is put together from several chunks, and a gap is filled from
\* the nearest values before and after it, however many chunks away they lie.
THEOREM SeriesCorrect == Spec => []SeriesAgrees
<1>1. ASSUME RInv PROVE SeriesAgrees
  <2>1. ASSUME read # Nothing, op.kind = "window_time",
               Len(op.bands) = 1, WindowChunks \cap cube.empty = {}
        PROVE  EachElement(LAMBDA b, cell, v :
                LET win == Window(Series(op.bands[1], cell), cell.t, op.l, op.r)
                IN  v = IF op.f = "kernel" THEN kernel_reducer(op, win)
                        ELSE window_reducer(op, win))
    BY <1>1, <2>1, WindowAgrees DEF EachElement
  <2>2. ASSUME read # Nothing, op.kind = "fill_time"
        PROVE  EachElement(LAMBDA b, cell, v : v = FilledValue(op.method, Series(b, cell), cell.t))
    BY <1>1, <2>2, FillAgrees DEF EachElement
  <2> QED BY <2>1, <2>2 DEF SeriesAgrees, EachElement
<1> QED BY <1>1, RInvariance, PTL DEF Spec

-------------------------------------------------------------------------------
\* The accumulators of a reducer, and what a value does to one.

Known == Sums \cup Extremes \cup Spreads

AccOf(r) ==
    [v    : IF r \in Extremes \cup {"median"} THEN Number ELSE Int,
     n    : Nat,
     aux  : IF r \in {"var", "sd"} THEN Int ELSE Number,
     list : Seq(Int)]

LEMMA KnownAre ==
    ASSUME NEW r \in Known
    PROVE  \/ r = "sum" \/ r = "prod" \/ r = "mean"
           \/ r = "min" \/ r = "max" \/ r = "which_min" \/ r = "which_max"
           \/ r = "count" \/ r = "median" \/ r = "var" \/ r = "sd"
  BY DEF Known, Sums, Extremes, Spreads

LEMMA NoNumber == NaN \notin Int
  BY CubesAssumption

LEMMA StartAcc ==
    ASSUME NEW r \in Known
    PROVE  /\ Start(r) \in AccOf(r)
           /\ Start(r).n = 0 /\ Start(r).list = <<>>
           /\ r = "prod" => Start(r).v = 1
           /\ r \in {"sum", "mean", "count", "var", "sd"} => Start(r).v = 0
           /\ r \in Extremes => Start(r).v = NaN /\ Start(r).aux = NaN
           /\ r \in {"var", "sd"} => Start(r).aux = 0
<1>1. <<>> \in Seq(Int) /\ 0 \in Nat
  OBVIOUS
<1>2. \A v, n, aux, list : /\ [v |-> v, n |-> n, aux |-> aux, list |-> list].v = v
                           /\ [v |-> v, n |-> n, aux |-> aux, list |-> list].n = n
                           /\ [v |-> v, n |-> n, aux |-> aux, list |-> list].aux = aux
                           /\ [v |-> v, n |-> n, aux |-> aux, list |-> list].list = list
  OBVIOUS
<1>3. /\ Start(r).v = IF r = "prod" THEN 1 ELSE IF r \in Extremes \cup {"median"} THEN NaN ELSE 0
      /\ Start(r).aux = IF r \in {"var", "sd"} THEN 0 ELSE NaN
      /\ Start(r).n = 0 /\ Start(r).list = <<>>
  BY <1>2 DEF Start
<1>4. Start(r) \in AccOf(r)
  BY <1>1 DEF Start, AccOf, Number, Extremes
<1> QED BY <1>3, <1>4, KnownAre DEF Extremes

\* What a number does to a sum, an extreme value, or to the others.
LEMMA AddSumIs ==
    ASSUME NEW r \in Sums, NEW a \in AccOf(r), NEW x \in Int, NEW date
    PROVE  LET d == Add(r, a, x, date)
           IN  /\ d \in AccOf(r)
               /\ d.v = (IF r = "prod" THEN a.v * x ELSE a.v + x)
               /\ r = "mean" => d.n = a.n + 1
<1>1. Add(r, a, x, date) = AddSum(r, a, x)
  BY NoNumber DEF Add
<1>2. a.v \in Int /\ a.n \in Nat /\ a = [v |-> a.v, n |-> a.n, aux |-> a.aux, list |-> a.list]
      /\ a.aux \in Number /\ a.list \in Seq(Int)
  BY DEF AccOf, Sums, Extremes
<1> DEFINE v == IF r = "prod" THEN a.v * x ELSE a.v + x
           n == IF r = "mean" THEN a.n + 1 ELSE a.n
<1>3. AddSum(r, a, x) = [a EXCEPT !.v = v, !.n = n]
  BY DEF AddSum
<1>4. v \in Int /\ n \in Nat
  BY <1>2
<1>5. r \notin Extremes \cup {"median"} /\ r \notin {"var", "sd"}
  BY DEF Sums, Extremes
<1>6. r = "mean" => n = a.n + 1
  OBVIOUS
<1> HIDE DEF v, n
<1>7. AddSum(r, a, x) \in AccOf(r) /\ AddSum(r, a, x).v = v /\ AddSum(r, a, x).n = n
  BY <1>2, <1>3, <1>4, <1>5 DEF AccOf
<1> QED BY <1>1, <1>6, <1>7 DEF v

Better(r, x, y) == IF r \in {"min", "which_min"} THEN x < y ELSE x > y

LEMMA AddExtremeIs ==
    ASSUME NEW r \in Extremes, NEW a \in AccOf(r), NEW x \in Int, NEW date \in Int
    PROVE  LET d == Add(r, a, x, date)
           IN  /\ d \in AccOf(r)
               /\ r \in {"min", "max"} =>
                    d.v = (IF a.v = NaN \/ Better(r, x, a.v) THEN x ELSE a.v)
               /\ r \in Dated =>
                    IF a.aux = NaN \/ Better(r, x, a.aux) THEN d.aux = x /\ d.v = date
                    ELSE d.aux = a.aux /\ d.v = a.v
<1>1. Add(r, a, x, date) = AddExtreme(r, a, x, date)
  BY NoNumber DEF Add, Sums, Extremes
<1>2. a.v \in Number /\ a.n \in Nat /\ a = [v |-> a.v, n |-> a.n, aux |-> a.aux, list |-> a.list]
      /\ a.aux \in Number /\ a.list \in Seq(Int)
  BY DEF AccOf, Extremes
<1>3. CASE r \in {"min", "max"}
  <2>1. AddExtreme(r, a, x, date) =
            IF a.v = NaN \/ Better(r, x, a.v) THEN [a EXCEPT !.v = x] ELSE a
    BY <1>3 DEF AddExtreme, Better, Dated
  <2>2. [a EXCEPT !.v = x].v = x /\ [a EXCEPT !.v = x] \in AccOf(r)
    BY <1>2, <1>3 DEF AccOf, Number, Extremes
  <2>3. r \notin Dated
    BY <1>3 DEF Dated
  <2> QED BY <1>1, <2>1, <2>2, <2>3
<1>4. CASE r \in Dated
  <2>1. AddExtreme(r, a, x, date) =
            IF a.aux = NaN \/ Better(r, x, a.aux) THEN [a EXCEPT !.aux = x, !.v = date] ELSE a
    BY <1>4 DEF AddExtreme, Better, Dated
  <2>2. /\ [a EXCEPT !.aux = x, !.v = date].v = date /\ [a EXCEPT !.aux = x, !.v = date].aux = x
        /\ [a EXCEPT !.aux = x, !.v = date] \in AccOf(r)
    BY <1>2, <1>4 DEF AccOf, Number, Extremes, Dated
  <2>3. r \notin {"min", "max"}
    BY <1>4 DEF Dated
  <2> QED BY <1>1, <2>1, <2>2, <2>3
<1> QED BY <1>3, <1>4 DEF Extremes, Dated

LEMMA AddSpreadIs ==
    ASSUME NEW r \in Spreads, NEW a \in AccOf(r), NEW x \in Int, NEW date
    PROVE  LET d == Add(r, a, x, date)
           IN  /\ d \in AccOf(r)
               /\ r = "count" => d.v = a.v + 1
               /\ r = "median" => d.list = Append(a.list, x)
               /\ r \in {"var", "sd"} =>
                    /\ d.n = a.n + 1 /\ d.aux = a.aux + (x - a.aux) \div (a.n + 1)
                    /\ d.v = a.v + (x - a.aux) * (x - d.aux)
<1>1. Add(r, a, x, date) = AddSpread(r, a, x)
  BY NoNumber DEF Add, Sums, Extremes, Spreads
<1>2. a.n \in Nat /\ a = [v |-> a.v, n |-> a.n, aux |-> a.aux, list |-> a.list] /\ a.list \in Seq(Int)
  BY DEF AccOf
<1>3. CASE r = "count"
  <2>1. a.v \in Int /\ AddSpread(r, a, x) = [a EXCEPT !.v = @ + 1]
    BY <1>3 DEF AddSpread, AccOf, Extremes
  <2>2. [a EXCEPT !.v = @ + 1].v = a.v + 1 /\ [a EXCEPT !.v = @ + 1] \in AccOf(r)
    BY <1>2, <1>3, <2>1 DEF AccOf, Extremes
  <2> QED BY <1>1, <1>3, <2>1, <2>2
<1>4. CASE r = "median"
  <2>1. AddSpread(r, a, x) = [a EXCEPT !.list = Append(@, x)]
    BY <1>4 DEF AddSpread
  <2>2. Append(a.list, x) \in Seq(Int)
    BY <1>2
  <2>3. [a EXCEPT !.list = Append(@, x)].list = Append(a.list, x)
        /\ [a EXCEPT !.list = Append(@, x)] \in AccOf(r)
    BY <1>2, <2>2 DEF AccOf
  <2> QED BY <1>1, <1>4, <2>1, <2>3
<1>5. CASE r \in {"var", "sd"}
  <2> DEFINE mean == a.aux + (x - a.aux) \div (a.n + 1)
             v == a.v + (x - a.aux) * (x - mean)
             d == [a EXCEPT !.n = @ + 1, !.aux = mean, !.v = @ + (x - a.aux) * (x - mean)]
  <2>1. a.v \in Int /\ a.aux \in Int
    BY <1>5 DEF AccOf, Extremes
  <2>2. AddSpread(r, a, x) = d
    BY <1>5 DEF AddSpread
  <2>3. mean \in Int
    BY <1>2, <2>1
  <2>4. v \in Int
    <3> HIDE DEF mean
    <3> QED BY <2>1, <2>3
  <2> HIDE DEF mean
  <2>5. d = [a EXCEPT !.n = a.n + 1, !.aux = mean, !.v = v]
    OBVIOUS
  <2> HIDE DEF v, d
  <2>6. r \notin Extremes \cup {"median"}
    BY <1>5 DEF Extremes
  <2>7. d \in AccOf(r) /\ d.n = a.n + 1 /\ d.aux = mean /\ d.v = v
    <3>1. AccOf(r) = [v : Int, n : Nat, aux : Int, list : Seq(Int)]
      BY <1>5, <2>6 DEF AccOf
    <3>2. a \in [v : Int, n : Nat, aux : Int, list : Seq(Int)] /\ a.n + 1 \in Nat
      BY <3>1
    <3> QED BY <2>3, <2>4, <2>5, <3>1, <3>2
  <2>8. r # "count" /\ r # "median"
    BY <1>5
  <2> QED BY <1>1, <2>2, <2>7, <2>8 DEF mean, v
<1> QED BY <1>3, <1>4, <1>5 DEF Spreads

\* A gap changes nothing.
LEMMA AddType ==
    ASSUME NEW r \in Known, NEW a \in AccOf(r), NEW x \in Number, NEW date \in Int
    PROVE  Add(r, a, x, date) \in AccOf(r)
<1>1. CASE x = NaN
  BY <1>1 DEF Add
<1>2. CASE x \in Int
  BY <1>2, AddSumIs, AddExtremeIs, AddSpreadIs DEF Known
<1> QED BY <1>1, <1>2 DEF Number

\* Pairs of numbers, or gaps, and dates.
Pairs(n, pairs) ==
    /\ n \in Nat /\ DOMAIN pairs = 1..n
    /\ \A k \in 1..n : pairs[k][1] \in Number /\ pairs[k][2] \in Int

AddEquation(r, a, pairs, g, s) ==
    IF s = {} THEN a ELSE Add(r, g[s \ {Max(s)}], pairs[Max(s)][1], pairs[Max(s)][2])

HasAddChain(r, a, n, pairs) ==
    \E u : /\ Through(n, a, u)
           /\ \A k \in 1..n : u[k] = Add(r, u[k - 1], pairs[k][1], pairs[k][2])
           /\ AddAll(r, a, pairs) = u[n]

LEMMA AddFold ==
    ASSUME NEW r \in Known, NEW a \in AccOf(r), NEW n, NEW pairs, Pairs(n, pairs)
    PROVE  HasAddChain(r, a, n, pairs)
<1> USE DEF HasAddChain, Pairs
<1> DEFINE St == AccOf(r)
           F == [q \in St \X (1..n) |-> Add(r, q[1], pairs[q[2]][1], pairs[q[2]][2])]
           G == CHOOSE g : g = [s \in SUBSET (1..n) |-> AddEquation(r, a, pairs, g, s)]
<1>1. ASSUME NEW x \in St, NEW k \in 1..n
      PROVE  /\ F[<<x, k>>] = Add(r, x, pairs[k][1], pairs[k][2])
             /\ Add(r, x, pairs[k][1], pairs[k][2]) \in St
  <2>1. F[<<x, k>>] = Add(r, x, pairs[k][1], pairs[k][2])
    OBVIOUS
  <2> QED BY <2>1, AddType
<1>2. PICK f \in [SUBSET (1..n) -> St] : f = [s \in SUBSET (1..n) |-> SeqEquation(F, a, f, s)]
  <2>1. \A x \in St, k \in 1..n : F[<<x, k>>] \in St
    BY <1>1
  <2> HIDE DEF St, F
  <2>2. a \in St
    BY DEF St
  <2>3. SeqFoldable(n, St, F, a)
    BY <2>1, <2>2 DEF SeqFoldable
  <2>4. HasSeqFold(n, St, F, a)
    BY <2>3, SeqFoldExists
  <2> QED BY <2>4 DEF HasSeqFold
<1>3. \A s \in SUBSET (1..n) : SeqEquation(F, a, f, s) = AddEquation(r, a, pairs, f, s)
  <2> SUFFICES ASSUME NEW s \in SUBSET (1..n), s # {}
               PROVE  F[<<f[s \ {Max(s)}], Max(s)>>] = Add(r, f[s \ {Max(s)}], pairs[Max(s)][1], pairs[Max(s)][2])
    BY DEF SeqEquation, AddEquation
  <2>1. Max(s) \in 1..n /\ f[s \ {Max(s)}] \in St
    BY <1>2, LastMember
  <2> QED BY <1>1, <2>1
<1>4. f = [s \in SUBSET (1..n) |-> AddEquation(r, a, pairs, f, s)]
  BY <1>2, <1>3
<1>5. G = [s \in SUBSET (1..n) |-> AddEquation(r, a, pairs, G, s)]
  BY <1>4
<1>6. AddAll(r, a, pairs) = G[1..n]
  BY DEF AddAll, FoldLeft, MapThenFoldSet, AddEquation
<1> HIDE DEF G
<1> DEFINE u == [k \in 0..n |-> G[1..k]]
<1>7. u[0] = a
  <2>1. 1..0 = {} /\ {} \in SUBSET (1..n)
    OBVIOUS
  <2> QED BY <1>5, <2>1 DEF AddEquation
<1>8. ASSUME NEW k \in 1..n PROVE u[k] = Add(r, u[k - 1], pairs[k][1], pairs[k][2])
  <2>1. 1..k \in SUBSET (1..n) /\ 1..k # {} /\ Max(1..k) = k /\ (1..k) \ {k} = 1..(k - 1)
    BY LastOf
  <2>2. PICK i : i = 1..k
    OBVIOUS
  <2>3. G[i] = Add(r, G[i \ {Max(i)}], pairs[Max(i)][1], pairs[Max(i)][2])
    BY <1>5, <2>1, <2>2 DEF AddEquation
  <2>4. u[k] = G[1..k] /\ u[k - 1] = G[1..(k - 1)]
    OBVIOUS
  <2> HIDE DEF u
  <2> QED BY <2>1, <2>2, <2>3, <2>4
<1>9. u[n] = G[1..n]
  OBVIOUS
<1>10. u = [k \in 0..n |-> u[k]]
  OBVIOUS
<1> HIDE DEF u
<1> QED BY <1>6, <1>7, <1>8, <1>9, <1>10 DEF Through

\* What an accumulator goes through has its type.
LEMMA AddAllType ==
    ASSUME NEW r \in Known, NEW a \in AccOf(r), NEW n, NEW pairs, Pairs(n, pairs)
    PROVE  AddAll(r, a, pairs) \in AccOf(r)
<1>1. PICK u : /\ Through(n, a, u)
               /\ \A k \in 1..n : u[k] = Add(r, u[k - 1], pairs[k][1], pairs[k][2])
               /\ AddAll(r, a, pairs) = u[n]
  BY AddFold DEF HasAddChain
<1> DEFINE B == {k \in 0..n : u[k] \in AccOf(r)}
<1>2. n \in Nat
  BY DEF Pairs
<1>3. 0 \in B
  BY <1>1, <1>2 DEF Through
<1>4. ASSUME NEW k \in 1..n, k - 1 \in B PROVE k \in B
  <2>1. pairs[k][1] \in Number /\ pairs[k][2] \in Int
    BY DEF Pairs
  <2>2. u[k - 1] \in AccOf(r)
    BY <1>4
  <2>3. Add(r, u[k - 1], pairs[k][1], pairs[k][2]) \in AccOf(r)
    BY <2>1, <2>2, AddType, Zenon
  <2>4. u[k] \in AccOf(r) /\ k \in 0..n
    BY <1>1, <1>2, <2>3
  <2> QED BY <2>4
<1>5. B = 0..n
  <2>1. B \in SUBSET (0..n)
    OBVIOUS
  <2> HIDE DEF B
  <2> QED BY <1>2, <1>3, <1>4, <2>1, Upward
<1> QED BY <1>1, <1>2, <1>5

\* The pairs of every place p in P go into its accumulator, part after part.
Merged(r, P, accs, part) == [p \in P |-> AddAll(r, accs[p], part[p])]

Parts(P, n, parts) == n \in Nat /\ \A k \in 1..n, p \in P : \E m : Pairs(m, parts[k][p])

LEMMA MergedType ==
    ASSUME NEW r \in Known, NEW P, NEW n, NEW parts, Parts(P, n, parts), NEW k \in 1..n,
           NEW accs \in [P -> AccOf(r)]
    PROVE  Merged(r, P, accs, parts[k]) \in [P -> AccOf(r)]
<1>1. ASSUME NEW p \in P PROVE AddAll(r, accs[p], parts[k][p]) \in AccOf(r)
  <2>1. PICK m : Pairs(m, parts[k][p])
    BY DEF Parts
  <2> QED BY <2>1, AddAllType
<1> QED BY <1>1 DEF Merged

HasMergeChain(r, P, n, parts, base, value) ==
    \E u : /\ Through(n, base, u)
           /\ \A k \in 1..n : u[k] = Merged(r, P, u[k - 1], parts[k])
           /\ value = u[n]

\* The folds of the three reductions.
TimeAll(c, r, bi, base, seq) ==
    FoldLeft(LAMBDA a, i : CombineTime(r, a, ChunkOf(c, i), bi, chunk_limits(c.n, c.s, i).low.t),
             base, seq)

TimeEquation(c, r, bi, base, seq, g, s) ==
    IF s = {} THEN base ELSE CombineTime(r, g[s \ {Max(s)}], ChunkOf(c, seq[Max(s)]), bi, chunk_limits(c.n, c.s, seq[Max(s)]).low.t)

LEMMA TimeFold ==
    ASSUME NEW c, NEW r \in Known, NEW bi, NEW P, NEW n, NEW parts, Parts(P, n, parts),
           NEW base \in [P -> AccOf(r)], NEW seq, DOMAIN seq = 1..n,
           \A k \in 1..n, x \in [P -> AccOf(r)] :
                CombineTime(r, x, ChunkOf(c, seq[k]), bi, chunk_limits(c.n, c.s, seq[k]).low.t) = Merged(r, P, x, parts[k])
    PROVE  HasMergeChain(r, P, n, parts, base, TimeAll(c, r, bi, base, seq))
<1> DEFINE St == [P -> AccOf(r)]
           F == [q \in St \X (1..n) |-> CombineTime(r, q[1], ChunkOf(c, seq[q[2]]), bi, chunk_limits(c.n, c.s, seq[q[2]]).low.t)]
           G == CHOOSE g : g = [s \in SUBSET (1..n) |-> TimeEquation(c, r, bi, base, seq, g, s)]
<1> n \in Nat
  BY DEF Parts
<1>1. ASSUME NEW x \in St, NEW k \in 1..n
      PROVE  /\ F[<<x, k>>] = CombineTime(r, x, ChunkOf(c, seq[k]), bi, chunk_limits(c.n, c.s, seq[k]).low.t)
             /\ CombineTime(r, x, ChunkOf(c, seq[k]), bi, chunk_limits(c.n, c.s, seq[k]).low.t) \in St
  <2>1. F[<<x, k>>] = CombineTime(r, x, ChunkOf(c, seq[k]), bi, chunk_limits(c.n, c.s, seq[k]).low.t)
    OBVIOUS
  <2> QED BY <2>1, MergedType
<1>2. PICK f \in [SUBSET (1..n) -> St] : f = [s \in SUBSET (1..n) |-> SeqEquation(F, base, f, s)]
  <2>1. \A x \in St, k \in 1..n : F[<<x, k>>] \in St
    BY <1>1
  <2> HIDE DEF St, F
  <2>2. base \in St
    BY DEF St
  <2>3. SeqFoldable(n, St, F, base)
    BY <2>1, <2>2 DEF SeqFoldable
  <2>4. HasSeqFold(n, St, F, base)
    BY <2>3, SeqFoldExists
  <2> QED BY <2>4 DEF HasSeqFold
<1>3. \A s \in SUBSET (1..n) : SeqEquation(F, base, f, s) = TimeEquation(c, r, bi, base, seq, f, s)
  <2> SUFFICES ASSUME NEW s \in SUBSET (1..n), s # {}
               PROVE  F[<<f[s \ {Max(s)}], Max(s)>>] = CombineTime(r, f[s \ {Max(s)}], ChunkOf(c, seq[Max(s)]), bi, chunk_limits(c.n, c.s, seq[Max(s)]).low.t)
    BY DEF SeqEquation, TimeEquation
  <2>1. Max(s) \in 1..n /\ f[s \ {Max(s)}] \in St
    BY <1>2, LastMember
  <2> QED BY <1>1, <2>1
<1>4. f = [s \in SUBSET (1..n) |-> TimeEquation(c, r, bi, base, seq, f, s)]
  BY <1>2, <1>3
<1>5. G = [s \in SUBSET (1..n) |-> TimeEquation(c, r, bi, base, seq, G, s)]
  BY <1>4
<1>6. TimeAll(c, r, bi, base, seq) = G[1..n]
  BY DEF TimeAll, FoldLeft, MapThenFoldSet, TimeEquation
<1> HIDE DEF G
<1> DEFINE u == [k \in 0..n |-> G[1..k]]
<1>7. u[0] = base
  <2>1. 1..0 = {} /\ {} \in SUBSET (1..n)
    OBVIOUS
  <2> QED BY <1>5, <2>1 DEF TimeEquation
<1>8. ASSUME NEW k \in 1..n PROVE u[k] = CombineTime(r, u[k - 1], ChunkOf(c, seq[k]), bi, chunk_limits(c.n, c.s, seq[k]).low.t)
  <2>1. 1..k \in SUBSET (1..n) /\ 1..k # {} /\ Max(1..k) = k /\ (1..k) \ {k} = 1..(k - 1)
    BY LastOf
  <2>2. PICK i : i = 1..k
    OBVIOUS
  <2>3. G[i] = CombineTime(r, G[i \ {Max(i)}], ChunkOf(c, seq[Max(i)]), bi, chunk_limits(c.n, c.s, seq[Max(i)]).low.t)
    BY <1>5, <2>1, <2>2 DEF TimeEquation
  <2>4. u[k] = G[1..k] /\ u[k - 1] = G[1..(k - 1)]
    OBVIOUS
  <2> HIDE DEF u
  <2> QED BY <2>1, <2>2, <2>3, <2>4
<1>9. u[n] = G[1..n]
  OBVIOUS
<1>10. u = [k \in 0..n |-> u[k]]
  OBVIOUS
<1> HIDE DEF u
<1>11. ASSUME NEW k \in 1..n, u[k - 1] \in St
       PROVE  u[k] = Merged(r, P, u[k - 1], parts[k]) /\ u[k] \in St
  <2>1. u[k] = Merged(r, P, u[k - 1], parts[k])
    BY <1>8, <1>11
  <2> QED BY <1>11, <2>1, MergedType
<1>12. {k \in 0..n : u[k] \in St} = 0..n
  <2> DEFINE B == {k \in 0..n : u[k] \in St}
  <2>1. 0 \in B /\ B \in SUBSET (0..n) /\ \A k \in 1..n : k - 1 \in B => k \in B
    BY <1>7, <1>11
  <2> HIDE DEF B
  <2>2. B = 0..n
    BY <2>1, Upward
  <2> QED BY <2>2 DEF B
<1>13. \A k \in 1..n : u[k] = Merged(r, P, u[k - 1], parts[k])
  <2> SUFFICES ASSUME NEW k \in 1..n PROVE u[k] = Merged(r, P, u[k - 1], parts[k])
    OBVIOUS
  <2>1. k - 1 \in 0..n
    OBVIOUS
  <2>2. u[k - 1] \in St
    BY <1>12, <2>1
  <2> QED BY <1>11, <2>2
<1> QED BY <1>6, <1>7, <1>9, <1>10, <1>13 DEF Through, HasMergeChain

BandsAll(c, r, nxy, base, seq) ==
    FoldLeft(LAMBDA a, i : CombineBands(r, a, ChunkOf(c, i), nxy), base, seq)

BandsEquation(c, r, nxy, base, seq, g, s) ==
    IF s = {} THEN base ELSE CombineBands(r, g[s \ {Max(s)}], ChunkOf(c, seq[Max(s)]), nxy)

LEMMA BandsFold ==
    ASSUME NEW c, NEW r \in Known, NEW nxy, NEW P, NEW n, NEW parts, Parts(P, n, parts),
           NEW base \in [P -> AccOf(r)], NEW seq, DOMAIN seq = 1..n,
           \A k \in 1..n, x \in [P -> AccOf(r)] :
                CombineBands(r, x, ChunkOf(c, seq[k]), nxy) = Merged(r, P, x, parts[k])
    PROVE  HasMergeChain(r, P, n, parts, base, BandsAll(c, r, nxy, base, seq))
<1> DEFINE St == [P -> AccOf(r)]
           F == [q \in St \X (1..n) |-> CombineBands(r, q[1], ChunkOf(c, seq[q[2]]), nxy)]
           G == CHOOSE g : g = [s \in SUBSET (1..n) |-> BandsEquation(c, r, nxy, base, seq, g, s)]
<1> n \in Nat
  BY DEF Parts
<1>1. ASSUME NEW x \in St, NEW k \in 1..n
      PROVE  /\ F[<<x, k>>] = CombineBands(r, x, ChunkOf(c, seq[k]), nxy)
             /\ CombineBands(r, x, ChunkOf(c, seq[k]), nxy) \in St
  <2>1. F[<<x, k>>] = CombineBands(r, x, ChunkOf(c, seq[k]), nxy)
    OBVIOUS
  <2> QED BY <2>1, MergedType
<1>2. PICK f \in [SUBSET (1..n) -> St] : f = [s \in SUBSET (1..n) |-> SeqEquation(F, base, f, s)]
  <2>1. \A x \in St, k \in 1..n : F[<<x, k>>] \in St
    BY <1>1
  <2> HIDE DEF St, F
  <2>2. base \in St
    BY DEF St
  <2>3. SeqFoldable(n, St, F, base)
    BY <2>1, <2>2 DEF SeqFoldable
  <2>4. HasSeqFold(n, St, F, base)
    BY <2>3, SeqFoldExists
  <2> QED BY <2>4 DEF HasSeqFold
<1>3. \A s \in SUBSET (1..n) : SeqEquation(F, base, f, s) = BandsEquation(c, r, nxy, base, seq, f, s)
  <2> SUFFICES ASSUME NEW s \in SUBSET (1..n), s # {}
               PROVE  F[<<f[s \ {Max(s)}], Max(s)>>] = CombineBands(r, f[s \ {Max(s)}], ChunkOf(c, seq[Max(s)]), nxy)
    BY DEF SeqEquation, BandsEquation
  <2>1. Max(s) \in 1..n /\ f[s \ {Max(s)}] \in St
    BY <1>2, LastMember
  <2> QED BY <1>1, <2>1
<1>4. f = [s \in SUBSET (1..n) |-> BandsEquation(c, r, nxy, base, seq, f, s)]
  BY <1>2, <1>3
<1>5. G = [s \in SUBSET (1..n) |-> BandsEquation(c, r, nxy, base, seq, G, s)]
  BY <1>4
<1>6. BandsAll(c, r, nxy, base, seq) = G[1..n]
  BY DEF BandsAll, FoldLeft, MapThenFoldSet, BandsEquation
<1> HIDE DEF G
<1> DEFINE u == [k \in 0..n |-> G[1..k]]
<1>7. u[0] = base
  <2>1. 1..0 = {} /\ {} \in SUBSET (1..n)
    OBVIOUS
  <2> QED BY <1>5, <2>1 DEF BandsEquation
<1>8. ASSUME NEW k \in 1..n PROVE u[k] = CombineBands(r, u[k - 1], ChunkOf(c, seq[k]), nxy)
  <2>1. 1..k \in SUBSET (1..n) /\ 1..k # {} /\ Max(1..k) = k /\ (1..k) \ {k} = 1..(k - 1)
    BY LastOf
  <2>2. PICK i : i = 1..k
    OBVIOUS
  <2>3. G[i] = CombineBands(r, G[i \ {Max(i)}], ChunkOf(c, seq[Max(i)]), nxy)
    BY <1>5, <2>1, <2>2 DEF BandsEquation
  <2>4. u[k] = G[1..k] /\ u[k - 1] = G[1..(k - 1)]
    OBVIOUS
  <2> HIDE DEF u
  <2> QED BY <2>1, <2>2, <2>3, <2>4
<1>9. u[n] = G[1..n]
  OBVIOUS
<1>10. u = [k \in 0..n |-> u[k]]
  OBVIOUS
<1> HIDE DEF u
<1>11. ASSUME NEW k \in 1..n, u[k - 1] \in St
       PROVE  u[k] = Merged(r, P, u[k - 1], parts[k]) /\ u[k] \in St
  <2>1. u[k] = Merged(r, P, u[k - 1], parts[k])
    BY <1>8, <1>11
  <2> QED BY <1>11, <2>1, MergedType
<1>12. {k \in 0..n : u[k] \in St} = 0..n
  <2> DEFINE B == {k \in 0..n : u[k] \in St}
  <2>1. 0 \in B /\ B \in SUBSET (0..n) /\ \A k \in 1..n : k - 1 \in B => k \in B
    BY <1>7, <1>11
  <2> HIDE DEF B
  <2>2. B = 0..n
    BY <2>1, Upward
  <2> QED BY <2>2 DEF B
<1>13. \A k \in 1..n : u[k] = Merged(r, P, u[k - 1], parts[k])
  <2> SUFFICES ASSUME NEW k \in 1..n PROVE u[k] = Merged(r, P, u[k - 1], parts[k])
    OBVIOUS
  <2>1. k - 1 \in 0..n
    OBVIOUS
  <2>2. u[k - 1] \in St
    BY <1>12, <2>1
  <2> QED BY <1>11, <2>2
<1> QED BY <1>6, <1>7, <1>9, <1>10, <1>13 DEF Through, HasMergeChain

SpaceAll(c, r, bi, base, seq) ==
    FoldLeft(LAMBDA a, i : CombineSpace(r, a, ChunkOf(c, i), bi), base, seq)

SpaceEquation(c, r, bi, base, seq, g, s) ==
    IF s = {} THEN base ELSE CombineSpace(r, g[s \ {Max(s)}], ChunkOf(c, seq[Max(s)]), bi)

LEMMA SpaceFold ==
    ASSUME NEW c, NEW r \in Known, NEW bi, NEW P, NEW n, NEW parts, Parts(P, n, parts),
           NEW base \in [P -> AccOf(r)], NEW seq, DOMAIN seq = 1..n,
           \A k \in 1..n, x \in [P -> AccOf(r)] :
                CombineSpace(r, x, ChunkOf(c, seq[k]), bi) = Merged(r, P, x, parts[k])
    PROVE  HasMergeChain(r, P, n, parts, base, SpaceAll(c, r, bi, base, seq))
<1> DEFINE St == [P -> AccOf(r)]
           F == [q \in St \X (1..n) |-> CombineSpace(r, q[1], ChunkOf(c, seq[q[2]]), bi)]
           G == CHOOSE g : g = [s \in SUBSET (1..n) |-> SpaceEquation(c, r, bi, base, seq, g, s)]
<1> n \in Nat
  BY DEF Parts
<1>1. ASSUME NEW x \in St, NEW k \in 1..n
      PROVE  /\ F[<<x, k>>] = CombineSpace(r, x, ChunkOf(c, seq[k]), bi)
             /\ CombineSpace(r, x, ChunkOf(c, seq[k]), bi) \in St
  <2>1. F[<<x, k>>] = CombineSpace(r, x, ChunkOf(c, seq[k]), bi)
    OBVIOUS
  <2> QED BY <2>1, MergedType
<1>2. PICK f \in [SUBSET (1..n) -> St] : f = [s \in SUBSET (1..n) |-> SeqEquation(F, base, f, s)]
  <2>1. \A x \in St, k \in 1..n : F[<<x, k>>] \in St
    BY <1>1
  <2> HIDE DEF St, F
  <2>2. base \in St
    BY DEF St
  <2>3. SeqFoldable(n, St, F, base)
    BY <2>1, <2>2 DEF SeqFoldable
  <2>4. HasSeqFold(n, St, F, base)
    BY <2>3, SeqFoldExists
  <2> QED BY <2>4 DEF HasSeqFold
<1>3. \A s \in SUBSET (1..n) : SeqEquation(F, base, f, s) = SpaceEquation(c, r, bi, base, seq, f, s)
  <2> SUFFICES ASSUME NEW s \in SUBSET (1..n), s # {}
               PROVE  F[<<f[s \ {Max(s)}], Max(s)>>] = CombineSpace(r, f[s \ {Max(s)}], ChunkOf(c, seq[Max(s)]), bi)
    BY DEF SeqEquation, SpaceEquation
  <2>1. Max(s) \in 1..n /\ f[s \ {Max(s)}] \in St
    BY <1>2, LastMember
  <2> QED BY <1>1, <2>1
<1>4. f = [s \in SUBSET (1..n) |-> SpaceEquation(c, r, bi, base, seq, f, s)]
  BY <1>2, <1>3
<1>5. G = [s \in SUBSET (1..n) |-> SpaceEquation(c, r, bi, base, seq, G, s)]
  BY <1>4
<1>6. SpaceAll(c, r, bi, base, seq) = G[1..n]
  BY DEF SpaceAll, FoldLeft, MapThenFoldSet, SpaceEquation
<1> HIDE DEF G
<1> DEFINE u == [k \in 0..n |-> G[1..k]]
<1>7. u[0] = base
  <2>1. 1..0 = {} /\ {} \in SUBSET (1..n)
    OBVIOUS
  <2> QED BY <1>5, <2>1 DEF SpaceEquation
<1>8. ASSUME NEW k \in 1..n PROVE u[k] = CombineSpace(r, u[k - 1], ChunkOf(c, seq[k]), bi)
  <2>1. 1..k \in SUBSET (1..n) /\ 1..k # {} /\ Max(1..k) = k /\ (1..k) \ {k} = 1..(k - 1)
    BY LastOf
  <2>2. PICK i : i = 1..k
    OBVIOUS
  <2>3. G[i] = CombineSpace(r, G[i \ {Max(i)}], ChunkOf(c, seq[Max(i)]), bi)
    BY <1>5, <2>1, <2>2 DEF SpaceEquation
  <2>4. u[k] = G[1..k] /\ u[k - 1] = G[1..(k - 1)]
    OBVIOUS
  <2> HIDE DEF u
  <2> QED BY <2>1, <2>2, <2>3, <2>4
<1>9. u[n] = G[1..n]
  OBVIOUS
<1>10. u = [k \in 0..n |-> u[k]]
  OBVIOUS
<1> HIDE DEF u
<1>11. ASSUME NEW k \in 1..n, u[k - 1] \in St
       PROVE  u[k] = Merged(r, P, u[k - 1], parts[k]) /\ u[k] \in St
  <2>1. u[k] = Merged(r, P, u[k - 1], parts[k])
    BY <1>8, <1>11
  <2> QED BY <1>11, <2>1, MergedType
<1>12. {k \in 0..n : u[k] \in St} = 0..n
  <2> DEFINE B == {k \in 0..n : u[k] \in St}
  <2>1. 0 \in B /\ B \in SUBSET (0..n) /\ \A k \in 1..n : k - 1 \in B => k \in B
    BY <1>7, <1>11
  <2> HIDE DEF B
  <2>2. B = 0..n
    BY <2>1, Upward
  <2> QED BY <2>2 DEF B
<1>13. \A k \in 1..n : u[k] = Merged(r, P, u[k - 1], parts[k])
  <2> SUFFICES ASSUME NEW k \in 1..n PROVE u[k] = Merged(r, P, u[k - 1], parts[k])
    OBVIOUS
  <2>1. k - 1 \in 0..n
    OBVIOUS
  <2>2. u[k - 1] \in St
    BY <1>12, <2>1
  <2> QED BY <1>11, <2>2
<1> QED BY <1>6, <1>7, <1>9, <1>10, <1>13 DEF Through, HasMergeChain

-------------------------------------------------------------------------------
\* Sums and products over sets of cells, in whatever order these are taken (OrderFreeExists).

\* Cells and their values.
Summable(K, f) == IsFiniteSet(K) /\ \A k \in K : f[k] \in Int

PickOf(s) == CHOOSE x \in s : TRUE

\* Sums of the values.
Total(V, f) == MapThenSumSet(LAMBDA k : f[k], V)

TotalEquation(f, g, s) == IF s = {} THEN 0 ELSE f[PickOf(s)] + g[s \ {PickOf(s)}]

TotalBy(f, K, T) ==
    /\ T \in [SUBSET K -> Int] /\ T[{}] = 0
    /\ \A s \in SUBSET K : \A k \in s : T[s] = f[k] + T[s \ {k}]

LEMMA TotalExists ==
    ASSUME NEW K, NEW f, Summable(K, f)
    PROVE  \E T : TotalBy(f, K, T)
<1> DEFINE F == [q \in Int \X K |-> f[q[2]] + q[1]]
           Ch == [s \in SUBSET K |-> PickOf(s)]
<1>1. ASSUME NEW x \in Int, NEW k \in K
      PROVE  F[<<x, k>>] = f[k] + x /\ F[<<x, k>>] \in Int
  <2>1. F[<<x, k>>] = f[k] + x
    OBVIOUS
  <2>2. f[k] + x \in Int
    BY DEF Summable
  <2> QED BY <2>1, <2>2
<1>2. \A s \in SUBSET K : s # {} => Ch[s] \in s
  BY DEF PickOf
<1> HIDE DEF F, Ch
<1>3. ASSUME NEW x \in Int, NEW k \in K, NEW l \in K
      PROVE  F[<<F[<<x, k>>], l>>] = F[<<F[<<x, l>>], k>>]
  <2>1. F[<<F[<<x, k>>], l>>] = f[l] + F[<<x, k>>] /\ F[<<F[<<x, l>>], k>>] = f[k] + F[<<x, l>>]
    BY <1>1
  <2>2. f[l] + (f[k] + x) = f[k] + (f[l] + x)
    <3>1. f[k] \in Int /\ f[l] \in Int
      BY DEF Summable
    <3> QED BY <3>1
  <2> QED BY <1>1, <2>1, <2>2
<1>4. Foldable(K, Int, Ch, F, 0) /\ Exchanging(K, Int, F)
  BY <1>1, <1>2, <1>3 DEF Foldable, Exchanging, Summable
<1>5. PICK T : OrderFree(K, Int, F, 0, T)
  BY <1>4, OrderFreeExists
<1>6. ASSUME NEW s \in SUBSET K, NEW k \in s PROVE T[s] = f[k] + T[s \ {k}]
  <2>1. T[s] = F[<<T[s \ {k}], k>>] /\ T[s \ {k}] \in Int
    BY <1>5 DEF OrderFree
  <2> QED BY <1>1, <2>1
<1> QED BY <1>5, <1>6 DEF OrderFree, TotalBy

LEMMA TotalIs ==
    ASSUME NEW K, NEW f, Summable(K, f), NEW T, TotalBy(f, K, T), NEW V \in SUBSET K
    PROVE  Total(V, f) = T[V]
<1> DEFINE g == [s \in SUBSET V |-> T[s]]
           h == CHOOSE g1 : g1 = [s \in SUBSET V |-> TotalEquation(f, g1, s)]
           W == {s \in SUBSET V : h[s] # T[s]}
<1>1. Total(V, f) = h[V]
  BY DEF Total, MapThenSumSet, FoldSet, MapThenFoldSet, TotalEquation, PickOf
<1>2. IsFiniteSet(V)
  BY FS_Subset DEF Summable
<1>3. ASSUME NEW s \in SUBSET V, s # {}
      PROVE  PickOf(s) \in s /\ s \ {PickOf(s)} \in SUBSET V /\ T[s] = f[PickOf(s)] + T[s \ {PickOf(s)}]
  <2>1. PickOf(s) \in s
    BY <1>3 DEF PickOf
  <2> QED BY <2>1 DEF TotalBy
<1>4. T[{}] = 0
  BY DEF TotalBy
<1>5. \A s \in SUBSET V : g[s] = TotalEquation(f, g, s)
  BY <1>3, <1>4 DEF TotalEquation
<1>6. g = [s \in SUBSET V |-> TotalEquation(f, g, s)]
  BY <1>5
<1> HIDE DEF g
<1>7. h = [s \in SUBSET V |-> TotalEquation(f, h, s)]
  BY <1>6
<1> HIDE DEF h
<1>8. SUFFICES ASSUME W # {} PROVE FALSE
  BY <1>1
<1>9. PICK w \in W : \A x \in w : w \ {x} \notin W
  <2>1. W \in SUBSET SUBSET V
    OBVIOUS
  <2> HIDE DEF W
  <2> QED BY <1>2, <1>8, <2>1, SmallestSet
<1>10. w \in SUBSET V /\ h[w] # T[w] /\ h[w] = TotalEquation(f, h, w)
  BY <1>7
<1>11. CASE w = {}
  BY <1>4, <1>10, <1>11 DEF TotalEquation
<1>12. CASE w # {}
  <2>1. PickOf(w) \in w /\ w \ {PickOf(w)} \in SUBSET V /\ T[w] = f[PickOf(w)] + T[w \ {PickOf(w)}]
    BY <1>3, <1>10, <1>12
  <2>2. h[w \ {PickOf(w)}] = T[w \ {PickOf(w)}]
    BY <1>9, <2>1
  <2>3. h[w] = f[PickOf(w)] + h[w \ {PickOf(w)}]
    BY <1>10, <1>12 DEF TotalEquation
  <2> QED BY <1>10, <2>1, <2>2, <2>3
<1> QED BY <1>11, <1>12

LEMMA TotalStep ==
    ASSUME NEW K, NEW f, Summable(K, f), NEW V \in SUBSET K
    PROVE  /\ Total(V, f) \in Int /\ (V = {} => Total(V, f) = 0)
           /\ \A k \in K \ V : Total(V \cup {k}, f) = f[k] + Total(V, f)
<1>1. PICK T : TotalBy(f, K, T)
  BY TotalExists
<1>2. \A s \in SUBSET K : Total(s, f) = T[s]
  BY <1>1, TotalIs
<1>3. ASSUME NEW k \in K \ V PROVE Total(V \cup {k}, f) = f[k] + Total(V, f)
  <2>1. (V \cup {k}) \ {k} = V /\ V \cup {k} \in SUBSET K /\ k \in V \cup {k}
    OBVIOUS
  <2>2. PICK s : s = V \cup {k}
    OBVIOUS
  <2>3. T[s] = f[k] + T[s \ {k}]
    BY <1>1, <2>1, <2>2 DEF TotalBy
  <2> QED BY <1>2, <2>1, <2>2, <2>3
<1>4. Total(V, f) \in Int /\ (V = {} => Total(V, f) = 0)
  <2>1. T[V] \in Int /\ (V = {} => T[V] = 0)
    BY <1>1 DEF TotalBy
  <2> QED BY <1>2, <2>1
<1> QED BY <1>3, <1>4

\* Products.
Product(V, f) == FoldSet(LAMBDA k, a : a * f[k], 1, V)

ProductEquation(f, g, s) == IF s = {} THEN 1 ELSE g[s \ {PickOf(s)}] * f[PickOf(s)]

ProductBy(f, K, T) ==
    /\ T \in [SUBSET K -> Int] /\ T[{}] = 1
    /\ \A s \in SUBSET K : \A k \in s : T[s] = T[s \ {k}] * f[k]

LEMMA ProductExists ==
    ASSUME NEW K, NEW f, Summable(K, f)
    PROVE  \E T : ProductBy(f, K, T)
<1> DEFINE F == [q \in Int \X K |-> q[1] * f[q[2]]]
           Ch == [s \in SUBSET K |-> PickOf(s)]
<1>1. ASSUME NEW x \in Int, NEW k \in K
      PROVE  F[<<x, k>>] = x * f[k] /\ F[<<x, k>>] \in Int
  <2>1. F[<<x, k>>] = x * f[k]
    OBVIOUS
  <2>2. x * f[k] \in Int
    BY DEF Summable
  <2> QED BY <2>1, <2>2
<1>2. \A s \in SUBSET K : s # {} => Ch[s] \in s
  BY DEF PickOf
<1> HIDE DEF F, Ch
<1>3. ASSUME NEW x \in Int, NEW k \in K, NEW l \in K
      PROVE  F[<<F[<<x, k>>], l>>] = F[<<F[<<x, l>>], k>>]
  <2>1. F[<<F[<<x, k>>], l>>] = F[<<x, k>>] * f[l] /\ F[<<F[<<x, l>>], k>>] = F[<<x, l>>] * f[k]
    BY <1>1
  <2>2. (x * f[k]) * f[l] = (x * f[l]) * f[k]
    <3>1. f[k] \in Int /\ f[l] \in Int
      BY DEF Summable
    <3> QED BY <3>1
  <2> QED BY <1>1, <2>1, <2>2
<1>4. Foldable(K, Int, Ch, F, 1) /\ Exchanging(K, Int, F)
  BY <1>1, <1>2, <1>3 DEF Foldable, Exchanging, Summable
<1>5. PICK T : OrderFree(K, Int, F, 1, T)
  BY <1>4, OrderFreeExists
<1>6. ASSUME NEW s \in SUBSET K, NEW k \in s PROVE T[s] = T[s \ {k}] * f[k]
  <2>1. T[s] = F[<<T[s \ {k}], k>>] /\ T[s \ {k}] \in Int
    BY <1>5 DEF OrderFree
  <2> QED BY <1>1, <2>1
<1> QED BY <1>5, <1>6 DEF OrderFree, ProductBy

LEMMA ProductIs ==
    ASSUME NEW K, NEW f, Summable(K, f), NEW T, ProductBy(f, K, T), NEW V \in SUBSET K
    PROVE  Product(V, f) = T[V]
<1> DEFINE g == [s \in SUBSET V |-> T[s]]
           h == CHOOSE g1 : g1 = [s \in SUBSET V |-> ProductEquation(f, g1, s)]
           W == {s \in SUBSET V : h[s] # T[s]}
<1>1. Product(V, f) = h[V]
  BY DEF Product, MapThenSumSet, FoldSet, MapThenFoldSet, ProductEquation, PickOf
<1>2. IsFiniteSet(V)
  BY FS_Subset DEF Summable
<1>3. ASSUME NEW s \in SUBSET V, s # {}
      PROVE  PickOf(s) \in s /\ s \ {PickOf(s)} \in SUBSET V /\ T[s] = T[s \ {PickOf(s)}] * f[PickOf(s)]
  <2>1. PickOf(s) \in s
    BY <1>3 DEF PickOf
  <2> QED BY <2>1 DEF ProductBy
<1>4. T[{}] = 1
  BY DEF ProductBy
<1>5. \A s \in SUBSET V : g[s] = ProductEquation(f, g, s)
  BY <1>3, <1>4 DEF ProductEquation
<1>6. g = [s \in SUBSET V |-> ProductEquation(f, g, s)]
  BY <1>5
<1> HIDE DEF g
<1>7. h = [s \in SUBSET V |-> ProductEquation(f, h, s)]
  BY <1>6
<1> HIDE DEF h
<1>8. SUFFICES ASSUME W # {} PROVE FALSE
  BY <1>1
<1>9. PICK w \in W : \A x \in w : w \ {x} \notin W
  <2>1. W \in SUBSET SUBSET V
    OBVIOUS
  <2> HIDE DEF W
  <2> QED BY <1>2, <1>8, <2>1, SmallestSet
<1>10. w \in SUBSET V /\ h[w] # T[w] /\ h[w] = ProductEquation(f, h, w)
  BY <1>7
<1>11. CASE w = {}
  BY <1>4, <1>10, <1>11 DEF ProductEquation
<1>12. CASE w # {}
  <2>1. PickOf(w) \in w /\ w \ {PickOf(w)} \in SUBSET V /\ T[w] = T[w \ {PickOf(w)}] * f[PickOf(w)]
    BY <1>3, <1>10, <1>12
  <2>2. h[w \ {PickOf(w)}] = T[w \ {PickOf(w)}]
    BY <1>9, <2>1
  <2>3. h[w] = h[w \ {PickOf(w)}] * f[PickOf(w)]
    BY <1>10, <1>12 DEF ProductEquation
  <2> QED BY <1>10, <2>1, <2>2, <2>3
<1> QED BY <1>11, <1>12

LEMMA ProductStep ==
    ASSUME NEW K, NEW f, Summable(K, f), NEW V \in SUBSET K
    PROVE  /\ Product(V, f) \in Int /\ (V = {} => Product(V, f) = 1)
           /\ \A k \in K \ V : Product(V \cup {k}, f) = Product(V, f) * f[k]
<1>1. PICK T : ProductBy(f, K, T)
  BY ProductExists
<1>2. \A s \in SUBSET K : Product(s, f) = T[s]
  BY <1>1, ProductIs
<1>3. ASSUME NEW k \in K \ V PROVE Product(V \cup {k}, f) = Product(V, f) * f[k]
  <2>1. (V \cup {k}) \ {k} = V /\ V \cup {k} \in SUBSET K /\ k \in V \cup {k}
    OBVIOUS
  <2>2. PICK s : s = V \cup {k}
    OBVIOUS
  <2>3. T[s] = T[s \ {k}] * f[k]
    BY <1>1, <2>1, <2>2 DEF ProductBy
  <2> QED BY <1>2, <2>1, <2>2, <2>3
<1>4. Product(V, f) \in Int /\ (V = {} => Product(V, f) = 1)
  <2>1. T[V] \in Int /\ (V = {} => T[V] = 1)
    BY <1>1 DEF ProductBy
  <2> QED BY <1>2, <2>1
<1> QED BY <1>3, <1>4

\* Sums of squared distances from m.
Deviation(V, f, m) == MapThenSumSet(LAMBDA k : (f[k] - m) * (f[k] - m), V)

DeviationEquation(f, m, g, s) == IF s = {} THEN 0 ELSE (f[PickOf(s)] - m) * (f[PickOf(s)] - m) + g[s \ {PickOf(s)}]

DeviationBy(f, m, K, T) ==
    /\ T \in [SUBSET K -> Int] /\ T[{}] = 0
    /\ \A s \in SUBSET K : \A k \in s : T[s] = (f[k] - m) * (f[k] - m) + T[s \ {k}]

LEMMA DeviationExists ==
    ASSUME NEW K, NEW f, Summable(K, f), NEW m \in Int
    PROVE  \E T : DeviationBy(f, m, K, T)
<1> DEFINE F == [q \in Int \X K |-> (f[q[2]] - m) * (f[q[2]] - m) + q[1]]
           Ch == [s \in SUBSET K |-> PickOf(s)]
<1>1. ASSUME NEW x \in Int, NEW k \in K
      PROVE  F[<<x, k>>] = (f[k] - m) * (f[k] - m) + x /\ F[<<x, k>>] \in Int
  <2>1. F[<<x, k>>] = (f[k] - m) * (f[k] - m) + x
    OBVIOUS
  <2>2. (f[k] - m) * (f[k] - m) + x \in Int
    BY DEF Summable
  <2> QED BY <2>1, <2>2
<1>2. \A s \in SUBSET K : s # {} => Ch[s] \in s
  BY DEF PickOf
<1> HIDE DEF F, Ch
<1>3. ASSUME NEW x \in Int, NEW k \in K, NEW l \in K
      PROVE  F[<<F[<<x, k>>], l>>] = F[<<F[<<x, l>>], k>>]
  <2>1. F[<<F[<<x, k>>], l>>] = (f[l] - m) * (f[l] - m) + F[<<x, k>>] /\ F[<<F[<<x, l>>], k>>] = (f[k] - m) * (f[k] - m) + F[<<x, l>>]
    BY <1>1
  <2>2. (f[l] - m) * (f[l] - m) + ((f[k] - m) * (f[k] - m) + x) = (f[k] - m) * (f[k] - m) + ((f[l] - m) * (f[l] - m) + x)
    <3>1. PICK i \in Int, j \in Int : i = (f[k] - m) * (f[k] - m) /\ j = (f[l] - m) * (f[l] - m)
      BY DEF Summable
    <3>2. i + (j + x) = j + (i + x)
      OBVIOUS
    <3> QED BY <3>1, <3>2
  <2> QED BY <1>1, <2>1, <2>2
<1>4. Foldable(K, Int, Ch, F, 0) /\ Exchanging(K, Int, F)
  BY <1>1, <1>2, <1>3 DEF Foldable, Exchanging, Summable
<1>5. PICK T : OrderFree(K, Int, F, 0, T)
  BY <1>4, OrderFreeExists
<1>6. ASSUME NEW s \in SUBSET K, NEW k \in s PROVE T[s] = (f[k] - m) * (f[k] - m) + T[s \ {k}]
  <2>1. T[s] = F[<<T[s \ {k}], k>>] /\ T[s \ {k}] \in Int
    BY <1>5 DEF OrderFree
  <2> QED BY <1>1, <2>1
<1> QED BY <1>5, <1>6 DEF OrderFree, DeviationBy

LEMMA DeviationIs ==
    ASSUME NEW K, NEW f, Summable(K, f), NEW m \in Int, NEW T, DeviationBy(f, m, K, T), NEW V \in SUBSET K
    PROVE  Deviation(V, f, m) = T[V]
<1> DEFINE g == [s \in SUBSET V |-> T[s]]
           h == CHOOSE g1 : g1 = [s \in SUBSET V |-> DeviationEquation(f, m, g1, s)]
           W == {s \in SUBSET V : h[s] # T[s]}
<1>1. Deviation(V, f, m) = h[V]
  BY DEF Deviation, MapThenSumSet, FoldSet, MapThenFoldSet, DeviationEquation, PickOf
<1>2. IsFiniteSet(V)
  BY FS_Subset DEF Summable
<1>3. ASSUME NEW s \in SUBSET V, s # {}
      PROVE  PickOf(s) \in s /\ s \ {PickOf(s)} \in SUBSET V /\ T[s] = (f[PickOf(s)] - m) * (f[PickOf(s)] - m) + T[s \ {PickOf(s)}]
  <2>1. PickOf(s) \in s
    BY <1>3 DEF PickOf
  <2> QED BY <2>1 DEF DeviationBy
<1>4. T[{}] = 0
  BY DEF DeviationBy
<1>5. \A s \in SUBSET V : g[s] = DeviationEquation(f, m, g, s)
  BY <1>3, <1>4 DEF DeviationEquation
<1>6. g = [s \in SUBSET V |-> DeviationEquation(f, m, g, s)]
  BY <1>5
<1> HIDE DEF g
<1>7. h = [s \in SUBSET V |-> DeviationEquation(f, m, h, s)]
  BY <1>6
<1> HIDE DEF h
<1>8. SUFFICES ASSUME W # {} PROVE FALSE
  BY <1>1
<1>9. PICK w \in W : \A x \in w : w \ {x} \notin W
  <2>1. W \in SUBSET SUBSET V
    OBVIOUS
  <2> HIDE DEF W
  <2> QED BY <1>2, <1>8, <2>1, SmallestSet
<1>10. w \in SUBSET V /\ h[w] # T[w] /\ h[w] = DeviationEquation(f, m, h, w)
  BY <1>7
<1>11. CASE w = {}
  BY <1>4, <1>10, <1>11 DEF DeviationEquation
<1>12. CASE w # {}
  <2>1. PickOf(w) \in w /\ w \ {PickOf(w)} \in SUBSET V /\ T[w] = (f[PickOf(w)] - m) * (f[PickOf(w)] - m) + T[w \ {PickOf(w)}]
    BY <1>3, <1>10, <1>12
  <2>2. h[w \ {PickOf(w)}] = T[w \ {PickOf(w)}]
    BY <1>9, <2>1
  <2>3. h[w] = (f[PickOf(w)] - m) * (f[PickOf(w)] - m) + h[w \ {PickOf(w)}]
    BY <1>10, <1>12 DEF DeviationEquation
  <2> QED BY <1>10, <2>1, <2>2, <2>3
<1> QED BY <1>11, <1>12

LEMMA DeviationStep ==
    ASSUME NEW K, NEW f, Summable(K, f), NEW m \in Int, NEW V \in SUBSET K
    PROVE  /\ Deviation(V, f, m) \in Int /\ (V = {} => Deviation(V, f, m) = 0)
           /\ \A k \in K \ V : Deviation(V \cup {k}, f, m) = (f[k] - m) * (f[k] - m) + Deviation(V, f, m)
<1>1. PICK T : DeviationBy(f, m, K, T)
  BY DeviationExists
<1>2. \A s \in SUBSET K : Deviation(s, f, m) = T[s]
  BY <1>1, DeviationIs
<1>3. ASSUME NEW k \in K \ V PROVE Deviation(V \cup {k}, f, m) = (f[k] - m) * (f[k] - m) + Deviation(V, f, m)
  <2>1. (V \cup {k}) \ {k} = V /\ V \cup {k} \in SUBSET K /\ k \in V \cup {k}
    OBVIOUS
  <2>2. PICK s : s = V \cup {k}
    OBVIOUS
  <2>3. T[s] = (f[k] - m) * (f[k] - m) + T[s \ {k}]
    BY <1>1, <2>1, <2>2 DEF DeviationBy
  <2> QED BY <1>2, <2>1, <2>2, <2>3
<1>4. Deviation(V, f, m) \in Int /\ (V = {} => Deviation(V, f, m) = 0)
  <2>1. T[V] \in Int /\ (V = {} => T[V] = 0)
    BY <1>1 DEF DeviationBy
  <2> QED BY <1>2, <2>1
<1> QED BY <1>3, <1>4

LEMMA DeviationShift ==
    ASSUME NEW K, NEW f, Summable(K, f), NEW m \in Int, NEW l \in Int, NEW V \in SUBSET K
    PROVE  Deviation(V, f, l) = Deviation(V, f, m) + 2 * ((m - l) * (Total(V, f) - Cardinality(V) * m))
                                    + Cardinality(V) * ((m - l) * (m - l))
<1> DEFINE Good(s) == Deviation(s, f, l) = Deviation(s, f, m)
                            + 2 * ((m - l) * (Total(s, f) - Cardinality(s) * m))
                            + Cardinality(s) * ((m - l) * (m - l))
           W == {s \in SUBSET V : ~ Good(s)}
<1>1. IsFiniteSet(V) /\ \A s \in SUBSET V : IsFiniteSet(s) /\ s \in SUBSET K
  BY FS_Subset DEF Summable
<1>2. SUFFICES ASSUME W # {} PROVE FALSE
  OBVIOUS
<1>3. PICK w \in W : \A x \in w : w \ {x} \notin W
  <2>1. W \in SUBSET SUBSET V
    OBVIOUS
  <2> HIDE DEF W
  <2> QED BY <1>1, <1>2, <2>1, SmallestSet
<1>4. w \in SUBSET V /\ ~ Good(w)
  OBVIOUS
<1>5. CASE w = {}
  <2>1. /\ Deviation(w, f, l) = 0 /\ Deviation(w, f, m) = 0 /\ Total(w, f) = 0 /\ Cardinality(w) = 0
    <3>1. {} \in SUBSET K
      OBVIOUS
    <3>2. Deviation({}, f, l) = 0
      BY <3>1, DeviationStep
    <3>3. Deviation({}, f, m) = 0
      BY <3>1, DeviationStep
    <3>4. Total({}, f) = 0
      BY <3>1, TotalStep
    <3>5. Cardinality({}) = 0
      BY FS_EmptySet
    <3> QED BY <1>5, <3>2, <3>3, <3>4, <3>5
  <2>2. 0 = 0 + 2 * ((m - l) * (0 - 0 * m)) + 0 * ((m - l) * (m - l))
    <3>1. PICK d \in Int : d = (m - l) * (m - l)
      OBVIOUS
    <3>2. (m - l) * (0 - 0 * m) = 0
      OBVIOUS
    <3> QED BY <3>1, <3>2
  <2>3. Good(w)
    BY <2>1, <2>2
  <2> QED BY <1>4, <2>3
<1>6. CASE w # {}
  <2>1. PICK k \in w : TRUE
    BY <1>6
  <2> DEFINE r == w \ {k}
  <2>2. r \in SUBSET V /\ r \in SUBSET K /\ k \in K \ r /\ r \cup {k} = w /\ Good(r)
    BY <1>1, <1>3, <1>4, <2>1
  <2>3. PICK n : n = Cardinality(r) /\ n \in Nat /\ Cardinality(w) = n + 1
    <3>1. IsFiniteSet(w) /\ Cardinality(w) \in Nat /\ Cardinality(r) \in Nat
      BY <1>1, <1>4, <2>2, FS_CardinalityType
    <3>2. Cardinality(r) = Cardinality(w) - 1
      BY <2>1, <3>1, FS_RemoveElement
    <3> HIDE DEF r
    <3> QED BY <3>1, <3>2
  <2> HIDE DEF r
  <2>4. PICK S \in Int, A \in Int, B \in Int, x \in Int :
            S = Total(r, f) /\ A = Deviation(r, f, m) /\ B = Deviation(r, f, l) /\ x = f[k]
    BY <2>2, DeviationStep, TotalStep DEF Summable
  <2>5. B = A + 2 * ((m - l) * (S - n * m)) + n * ((m - l) * (m - l))
    BY <2>2, <2>3, <2>4
  <2>6. /\ Total(w, f) = x + S
        /\ Deviation(w, f, m) = (x - m) * (x - m) + A
        /\ Deviation(w, f, l) = (x - l) * (x - l) + B
    BY <2>2, <2>4, DeviationStep, TotalStep
  <2>7. (x - l) * (x - l) + B = ((x - m) * (x - m) + A)
              + 2 * ((m - l) * ((x + S) - (n + 1) * m)) + (n + 1) * ((m - l) * (m - l))
    BY <2>3, <2>5, SMT
  <2>8. Good(w)
    BY <2>3, <2>6, <2>7
  <2> QED BY <1>4, <2>8
<1> QED BY <1>5, <1>6

-------------------------------------------------------------------------------
\* What an accumulator holds after the cells in V.

BestIs(r, V, f, x) ==
    IF V = {} THEN x = NaN
    ELSE x \in Int /\ (\E k \in V : x = f[k]) /\ \A k \in V : ~ Better(r, f[k], x)

FirstIs(V, f, x, t) ==
    V # {} => (\E k \in V : f[k] = x /\ k.t = t) /\ \A k \in V : f[k] = x => t <= k.t

\* A list has the values of the cells in V, in the order q.
Arranged(f, V, list, q) ==
    /\ q \in Bijection(1..Cardinality(V), V)
    /\ list \in Seq(Int) /\ Len(list) = Cardinality(V)
    /\ \A j \in 1..Cardinality(V) : list[j] = f[q[j]]

SpreadIs(V, f, a) ==
    /\ a.n = Cardinality(V) /\ Total(V, f) = a.n * a.aux /\ (a.n = 0 => a.aux = 0)
    /\ a.v = Deviation(V, f, a.aux)

AccIs(r, f, V, a) ==
    /\ a \in AccOf(r)
    /\ r = "count" => a.v = Cardinality(V)
    /\ r \in {"sum", "mean"} => a.v = Total(V, f)
    /\ r = "mean" => a.n = Cardinality(V)
    /\ r = "prod" => a.v = Product(V, f)
    /\ r \in {"min", "max"} => BestIs(r, V, f, a.v)
    /\ r \in Dated => BestIs(r, V, f, a.aux) /\ FirstIs(V, f, a.aux, a.v) /\ (V = {} => a.v = NaN)
    /\ r = "median" => \E q : Arranged(f, V, a.list, q)
    /\ r \in {"var", "sd"} => SpreadIs(V, f, a)

\* Where an accumulator holds dates, k comes after the cells in V.
Ordered(r, V, k, date) == r \in Dated => date = k.t /\ \A j \in V : j.t \in Int /\ j.t <= k.t

LEMMA AccStart ==
    ASSUME NEW r \in Known, NEW K, NEW f, Summable(K, f)
    PROVE  AccIs(r, f, {}, Start(r))
<1>1. {} \in SUBSET K /\ Cardinality({}) = 0 /\ 1..0 = {} /\ 0 \in Int
  BY FS_EmptySet
<1>2. Total({}, f) = 0 /\ Product({}, f) = 1 /\ Deviation({}, f, 0) = 0
  BY <1>1, TotalStep, ProductStep, DeviationStep
<1>3. \E q : Arranged(f, {}, <<>>, q)
  <2> DEFINE q == [j \in {} |-> j]
  <2>1. q \in Bijection({}, {})
    BY DEF Bijection, Injection, IsInjective, Surjection
  <2>2. Arranged(f, {}, <<>>, q)
    BY <1>1, <2>1 DEF Arranged
  <2> QED BY <2>2
<1>4. /\ Start(r) \in AccOf(r) /\ Start(r).n = 0 /\ Start(r).list = <<>>
      /\ r = "prod" => Start(r).v = 1
      /\ r \in {"sum", "mean", "count", "var", "sd"} => Start(r).v = 0
      /\ r \in Extremes => Start(r).v = NaN /\ Start(r).aux = NaN
      /\ r \in {"var", "sd"} => Start(r).aux = 0
  BY StartAcc
<1>5. r \in {"var", "sd"} => SpreadIs({}, f, Start(r))
  BY <1>1, <1>2, <1>4 DEF SpreadIs
<1>6. {"min", "max"} \subseteq Extremes /\ Dated \subseteq Extremes
  BY DEF Extremes, Dated
<1> QED BY <1>1, <1>2, <1>3, <1>4, <1>5, <1>6 DEF AccIs, BestIs, FirstIs

LEMMA BestStep ==
    ASSUME NEW r \in Extremes, NEW K, NEW f, Summable(K, f), NEW V \in SUBSET K, NEW k \in K \ V,
           NEW x, BestIs(r, V, f, x)
    PROVE  BestIs(r, V \cup {k}, f, IF x = NaN \/ Better(r, f[k], x) THEN f[k] ELSE x)
<1>1. f[k] \in Int /\ f[k] # NaN /\ \A j \in V : f[j] \in Int
  BY NoNumber DEF Summable
<1>2. CASE V = {}
  BY <1>1, <1>2 DEF BestIs, Better
<1>3. CASE V # {}
  <2>1. x \in Int /\ x # NaN /\ (\E j \in V : x = f[j]) /\ \A j \in V : ~ Better(r, f[j], x)
    BY <1>3, NoNumber DEF BestIs
  <2>2. CASE Better(r, f[k], x)
    <3>1. \A j \in V : ~ Better(r, f[j], f[k])
      BY <1>1, <2>1, <2>2 DEF Better
    <3>2. ~ Better(r, f[k], f[k])
      BY <1>1 DEF Better
    <3> QED BY <1>1, <2>2, <3>1, <3>2 DEF BestIs
  <2>3. CASE ~ Better(r, f[k], x)
    BY <2>1, <2>3 DEF BestIs
  <2> QED BY <2>2, <2>3
<1> QED BY <1>2, <1>3

LEMMA FirstStep ==
    ASSUME NEW r \in Dated, NEW K, NEW f, Summable(K, f), NEW V \in SUBSET K, NEW k \in K \ V,
           NEW x, BestIs(r, V, f, x), NEW t, FirstIs(V, f, x, t), NEW date \in Int, Ordered(r, V, k, date)
    PROVE  IF x = NaN \/ Better(r, f[k], x) THEN FirstIs(V \cup {k}, f, f[k], date)
           ELSE FirstIs(V \cup {k}, f, x, t)
<1>1. f[k] \in Int /\ f[k] # NaN /\ \A j \in V : f[j] \in Int
  BY NoNumber DEF Summable
<1>2. date = k.t /\ \A j \in V : j.t \in Int /\ j.t <= k.t
  BY DEF Ordered
<1>3. CASE V = {}
  BY <1>1, <1>2, <1>3 DEF FirstIs, BestIs
<1>4. CASE V # {}
  <2>1. x \in Int /\ x # NaN /\ (\E j \in V : x = f[j]) /\ \A j \in V : ~ Better(r, f[j], x)
    BY <1>4, NoNumber DEF BestIs
  <2>2. (\E j \in V : f[j] = x /\ j.t = t) /\ \A j \in V : f[j] = x => t <= j.t
    BY <1>4 DEF FirstIs
  <2>3. CASE Better(r, f[k], x)
    <3>1. \A j \in V : f[j] # f[k]
      BY <1>1, <2>1, <2>3 DEF Better
    <3> QED BY <1>2, <2>3, <3>1 DEF FirstIs
  <2>4. CASE ~ Better(r, f[k], x)
    <3>1. t <= k.t
      BY <1>2, <2>2
    <3> QED BY <2>1, <2>2, <2>4, <3>1 DEF FirstIs
  <2> QED BY <2>3, <2>4
<1> QED BY <1>3, <1>4

LEMMA ArrangedStep ==
    ASSUME NEW f, NEW r, IsFiniteSet(r), NEW list, NEW q, Arranged(f, r, list, q), NEW m, m \notin r,
           f[m] \in Int
    PROVE  \E p : Arranged(f, r \cup {m}, Append(list, f[m]), p)
<1> DEFINE n == Cardinality(r)
           p == [j \in 1..(n + 1) |-> IF j = n + 1 THEN m ELSE q[j]]
           l == Append(list, f[m])
<1>1. n \in Nat /\ Cardinality(r \cup {m}) = n + 1
  BY FS_CardinalityType, FS_AddElement
<1>2. /\ q \in [1..n -> r] /\ \A i, j \in 1..n : q[i] = q[j] => i = j
      /\ \A x \in r : \E j \in 1..n : q[j] = x
      /\ list \in Seq(Int) /\ Len(list) = n
      /\ \A j \in 1..n : list[j] = f[q[j]]
  BY DEF Arranged, Bijection, Injection, IsInjective, Surjection
<1> HIDE DEF n
<1>3. 1..(n + 1) = (1..n) \cup {n + 1} /\ n + 1 \notin 1..n
  BY <1>1
<1>4. p[n + 1] = m /\ \A j \in 1..n : p[j] = q[j]
  BY <1>3
<1>5. p \in [1..(n + 1) -> r \cup {m}]
  BY <1>2, <1>3
<1> HIDE DEF p
<1>6. \A i, j \in 1..(n + 1) : p[i] = p[j] => i = j
  <2> SUFFICES ASSUME NEW i \in 1..(n + 1), NEW j \in 1..(n + 1), p[i] = p[j] PROVE i = j
    OBVIOUS
  <2>1. CASE i \in 1..n /\ j \in 1..n
    BY <1>2, <1>4, <2>1
  <2>2. CASE i = n + 1 /\ j \in 1..n
    BY <1>2, <1>4, <2>2
  <2>3. CASE i \in 1..n /\ j = n + 1
    BY <1>2, <1>4, <2>3
  <2>4. CASE i = n + 1 /\ j = n + 1
    BY <2>4
  <2> QED BY <1>3, <2>1, <2>2, <2>3, <2>4
<1>7. \A x \in r \cup {m} : \E j \in 1..(n + 1) : p[j] = x
  BY <1>2, <1>3, <1>4
<1>8. p \in Bijection(1..(n + 1), r \cup {m})
  BY <1>5, <1>6, <1>7 DEF Bijection, Injection, IsInjective, Surjection
<1>9. l \in Seq(Int) /\ Len(l) = n + 1 /\ l[n + 1] = f[m] /\ \A j \in 1..n : l[j] = list[j]
  BY <1>1, <1>2
<1> HIDE DEF l
<1>10. \A j \in 1..(n + 1) : l[j] = f[p[j]]
  BY <1>2, <1>3, <1>4, <1>9
<1>11. Arranged(f, r \cup {m}, l, p)
  BY <1>1, <1>8, <1>9, <1>10 DEF Arranged
<1> QED BY <1>11 DEF l

\* Welford's algorithm, as long as the means are whole.
LEMMA SpreadStep ==
    ASSUME NEW K, NEW f, Summable(K, f), WholeMeans(K, f), NEW V \in SUBSET K, NEW k \in K \ V,
           NEW a, a.n \in Nat, a.aux \in Int, a.v \in Int, SpreadIs(V, f, a), NEW d,
           d.n = a.n + 1, d.aux = a.aux + (f[k] - a.aux) \div (a.n + 1),
           d.v = a.v + (f[k] - a.aux) * (f[k] - d.aux)
    PROVE  SpreadIs(V \cup {k}, f, d)
<1>1. PICK x \in Int, m \in Int, n \in Nat, S \in Int :
          /\ x = f[k] /\ m = a.aux /\ n = a.n /\ n = Cardinality(V) /\ S = Total(V, f) /\ S = n * m
  BY TotalStep DEF SpreadIs, Summable
<1>2. Cardinality(V \cup {k}) = n + 1
  <2>1. IsFiniteSet(V)
    BY FS_Subset DEF Summable
  <2> QED BY <1>1, <2>1, FS_AddElement
<1>3. Total(V \cup {k}, f) = x + S
  <2>1. Total(V \cup {k}, f) = f[k] + Total(V, f)
    BY TotalStep
  <2> QED BY <1>1, <2>1
<1>4. (x + S) % (n + 1) = 0
  <2>1. PICK s : s = V \cup {k}
    OBVIOUS
  <2>2. s \in SUBSET K /\ s # {} /\ Cardinality(s) = n + 1 /\ Total(s, f) = x + S
    BY <1>2, <1>3, <2>1
  <2>3. \A u \in SUBSET K : u # {} => Total(u, f) % Cardinality(u) = 0
    BY DEF WholeMeans, Total
  <2> QED BY <2>2, <2>3
<1>5. PICK q \in Int : x + S = q * (n + 1)
  <2>1. PICK y \in Int, e \in Nat \ {0} : y = x + S /\ e = n + 1
    BY <1>1
  <2>2. \E z \in Int : y = z * e
    BY <1>4, <2>1, ExactQuotient
  <2> QED BY <2>1, <2>2
<1>6. x - m = (q - m) * (n + 1) /\ x - q = (q - m) * n
  <2>1. x + n * m = q * (n + 1)
    BY <1>1, <1>5
  <2> QED BY <2>1, NewMean
<1>7. (x - m) \div (n + 1) = q - m
  <2>1. n + 1 \in Nat \ {0} /\ q - m \in Int
    BY <1>1
  <2> QED BY <1>6, <2>1, Quotient
<1>8. d.aux = q /\ d.n = n + 1 /\ d.v = a.v + (x - m) * (x - q)
  <2>1. d.aux = m + (q - m)
    BY <1>1, <1>7
  <2>2. d.aux = q
    BY <2>1
  <2> QED BY <1>1, <2>2
<1>9. PICK A \in Int, B \in Int : A = Deviation(V, f, m) /\ B = Deviation(V, f, q) /\ A = a.v
  BY <1>1, DeviationStep DEF SpreadIs
<1>10. B = A + 2 * ((m - q) * (S - n * m)) + n * ((m - q) * (m - q))
  <2>1. Deviation(V, f, q) = Deviation(V, f, m) + 2 * ((m - q) * (Total(V, f) - Cardinality(V) * m))
                                 + Cardinality(V) * ((m - q) * (m - q))
    BY DeviationShift
  <2> QED BY <1>1, <1>9, <2>1
<1>11. Deviation(V \cup {k}, f, q) = (x - q) * (x - q) + B
  BY <1>1, <1>9, DeviationStep
<1>12. (x - q) * (x - q) + B = A + (x - m) * (x - q)
  <2>1. PICK e \in Int : e = q - m
    OBVIOUS
  <2>2. x - m = e * (n + 1) /\ x - q = e * n
    BY <1>6, <2>1
  <2>3. S - n * m = 0 /\ m - q = 0 - e
    BY <1>1, <2>1
  <2>4. (m - q) * (m - q) = e * e
    <3>1. (0 - e) * (0 - e) = e * e
      OBVIOUS
    <3> QED BY <2>3, <3>1
  <2>5. B = A + n * (e * e)
    <3>1. (m - q) * (S - n * m) = 0
      BY <2>3
    <3>2. PICK h \in Int : h = n * (e * e)
      OBVIOUS
    <3>3. B = A + 2 * 0 + h
      BY <1>10, <2>4, <3>1, <3>2
    <3> QED BY <1>9, <3>2, <3>3
  <2>6. (e * n) * (e * n) + (A + n * (e * e)) = A + (e * (n + 1)) * (e * n)
    BY NewSquares
  <2> QED BY <2>2, <2>5, <2>6
<1>13. Total(V \cup {k}, f) = (n + 1) * q
  BY <1>1, <1>3, <1>5, SMT
<1>14. Deviation(V \cup {k}, f, q) = d.v
  BY <1>8, <1>9, <1>11, <1>12
<1> QED BY <1>1, <1>2, <1>8, <1>13, <1>14 DEF SpreadIs

LEMMA AccStep ==
    ASSUME NEW r \in Known, NEW K, NEW f, Summable(K, f), NEW V \in SUBSET K, NEW k \in K \ V,
           NEW a, AccIs(r, f, V, a), NEW date \in Int, Ordered(r, V, k, date),
           r \in {"var", "sd"} => WholeMeans(K, f)
    PROVE  AccIs(r, f, V \cup {k}, Add(r, a, f[k], date))
<1> DEFINE d == Add(r, a, f[k], date)
           U == V \cup {k}
<1> SUFFICES AccIs(r, f, U, d)
  OBVIOUS
<1>1. f[k] \in Int /\ a \in AccOf(r) /\ IsFiniteSet(V)
  BY FS_Subset DEF Summable, AccIs
<1>2. Cardinality(U) = Cardinality(V) + 1
  BY <1>1, FS_AddElement
<1>3. U # {}
  OBVIOUS
<1>4. CASE r \in Sums
  <2>1. /\ d \in AccOf(r) /\ d.v = (IF r = "prod" THEN a.v * f[k] ELSE a.v + f[k])
        /\ r = "mean" => d.n = a.n + 1
    BY <1>1, <1>4, AddSumIs
  <2>2. r \notin Dated /\ r \notin {"min", "max"} /\ r # "median" /\ r \notin {"var", "sd"} /\ r # "count"
    BY <1>4 DEF Sums, Dated
  <2>3. CASE r = "prod"
    <3>1. d.v = Product(U, f)
      BY <2>1, <2>3, ProductStep DEF AccIs
    <3> HIDE DEF d, U
    <3> QED BY <2>1, <2>2, <2>3, <3>1 DEF AccIs
  <2>4. CASE r # "prod"
    <3>1. r \in {"sum", "mean"}
      BY <1>4, <2>4 DEF Sums
    <3>2. Total(U, f) = f[k] + Total(V, f) /\ Total(V, f) \in Int /\ a.v = Total(V, f)
      BY <3>1, TotalStep DEF AccIs
    <3>3. d.v = Total(U, f)
      BY <1>1, <2>1, <2>4, <3>2
    <3>4. r = "mean" => d.n = Cardinality(U)
      BY <1>2, <2>1 DEF AccIs
    <3> HIDE DEF d, U
    <3> QED BY <2>1, <2>2, <2>4, <3>3, <3>4 DEF AccIs
  <2> QED BY <2>3, <2>4
<1>5. CASE r \in Extremes
  <2>1. /\ d \in AccOf(r)
        /\ r \in {"min", "max"} => d.v = (IF a.v = NaN \/ Better(r, f[k], a.v) THEN f[k] ELSE a.v)
        /\ r \in Dated =>
              IF a.aux = NaN \/ Better(r, f[k], a.aux) THEN d.aux = f[k] /\ d.v = date
              ELSE d.aux = a.aux /\ d.v = a.v
    BY <1>1, <1>5, AddExtremeIs
  <2>2. r \notin {"sum", "mean"} /\ r # "prod" /\ r # "median" /\ r \notin {"var", "sd"} /\ r # "count"
    BY <1>5 DEF Extremes
  <2>3. CASE r \in {"min", "max"}
    <3>1. BestIs(r, V, f, a.v) /\ r \notin Dated
      BY <2>3 DEF AccIs, Dated
    <3>2. BestIs(r, U, f, d.v)
      BY <1>5, <2>1, <2>3, <3>1, BestStep
    <3> HIDE DEF d, U
    <3> QED BY <2>1, <2>2, <3>1, <3>2 DEF AccIs
  <2>4. CASE r \in Dated
    <3>1. BestIs(r, V, f, a.aux) /\ FirstIs(V, f, a.aux, a.v) /\ r \notin {"min", "max"}
      BY <2>4 DEF AccIs, Dated
    <3>2. BestIs(r, U, f, d.aux)
      BY <1>5, <2>1, <2>4, <3>1, BestStep
    <3>3. FirstIs(U, f, d.aux, d.v)
      BY <2>1, <2>4, <3>1, FirstStep
    <3> HIDE DEF d, U
    <3> QED BY <1>3, <2>1, <2>2, <3>1, <3>2, <3>3 DEF AccIs
  <2> QED BY <1>5, <2>3, <2>4 DEF Extremes, Dated
<1>6. CASE r \in Spreads
  <2>1. /\ d \in AccOf(r)
        /\ r = "count" => d.v = a.v + 1
        /\ r = "median" => d.list = Append(a.list, f[k])
        /\ r \in {"var", "sd"} =>
              /\ d.n = a.n + 1 /\ d.aux = a.aux + (f[k] - a.aux) \div (a.n + 1)
              /\ d.v = a.v + (f[k] - a.aux) * (f[k] - d.aux)
    BY <1>1, <1>6, AddSpreadIs
  <2>2. r \notin Dated /\ r \notin {"min", "max"} /\ r \notin {"sum", "mean"} /\ r # "prod"
    BY <1>6 DEF Spreads, Dated
  <2>3. r = "count" => d.v = Cardinality(U)
    BY <1>2, <2>1 DEF AccIs
  <2>4. r = "median" => \E q : Arranged(f, U, d.list, q)
    <3> SUFFICES ASSUME r = "median" PROVE \E q : Arranged(f, U, d.list, q)
      OBVIOUS
    <3>1. PICK q : Arranged(f, V, a.list, q)
      BY DEF AccIs
    <3>2. \E p : Arranged(f, V \cup {k}, Append(a.list, f[k]), p)
      BY <1>1, <3>1, ArrangedStep
    <3> QED BY <2>1, <3>2
  <2>5. r \in {"var", "sd"} => SpreadIs(U, f, d)
    <3> SUFFICES ASSUME r \in {"var", "sd"} PROVE SpreadIs(U, f, d)
      OBVIOUS
    <3>1. a.n \in Nat /\ a.aux \in Int /\ a.v \in Int
      BY <1>1 DEF AccOf, Extremes
    <3>2. SpreadIs(V, f, a) /\ WholeMeans(K, f)
      BY DEF AccIs
    <3> HIDE DEF d
    <3> QED BY <2>1, <3>1, <3>2, SpreadStep
  <2> HIDE DEF d, U
  <2> QED BY <2>1, <2>2, <2>3, <2>4, <2>5 DEF AccIs
<1> QED BY <1>4, <1>5, <1>6 DEF Known

-------------------------------------------------------------------------------
\* What is read from an accumulator in the end.

\* The value that j cells at least do not exceed.
Ranked(K, f, j) == Min({v \in {f[k] : k \in K} : Cardinality({k \in K : f[k] <= v}) >= j})

LEMMA SortedIsRanked ==
    ASSUME NEW K, NEW f, Summable(K, f), NEW list, NEW q, Arranged(f, K, list, q),
           NEW j \in 1..Cardinality(K)
    PROVE  Sorted(list, j) = Ranked(K, f, j) /\ Ranked(K, f, j) \in Int
<1> DEFINE n == Cardinality(K)
           vals == {f[k] : k \in K}
<1>1. n \in Nat /\ IsFiniteSet(K) /\ IsFiniteSet(1..n) /\ \A k \in K : f[k] \in Int
  BY FS_CardinalityType, FS_Interval DEF Summable
<1>2. /\ q \in Bijection(1..n, K) /\ q \in [1..n -> K] /\ \A k \in K : \E i \in 1..n : q[i] = k
      /\ DOMAIN list = 1..n /\ \A i \in 1..n : list[i] = f[q[i]]
  BY DEF Arranged, Bijection, Injection, IsInjective, Surjection
<1> HIDE DEF n
<1>3. Range(list) = vals
  BY <1>2 DEF Range
<1>4. ASSUME NEW v \in vals
      PROVE  Cardinality({i \in DOMAIN list : list[i] <= v}) = Cardinality({k \in K : f[k] <= v})
  <2> DEFINE J == {i \in 1..n : list[i] <= v}
             I == {k \in K : f[k] <= v}
  <2>1. \A i \in 1..n : i \in J <=> q[i] \in I
    BY <1>2
  <2>2. J \in SUBSET (1..n) /\ I \in SUBSET K /\ J = {i \in DOMAIN list : list[i] <= v}
    BY <1>2
  <2> HIDE DEF I, J
  <2>3. PICK A : A = 1..n
    OBVIOUS
  <2>4. /\ q \in Bijection(A, K) /\ IsFiniteSet(A) /\ J \in SUBSET A /\ I \in SUBSET K
        /\ \A i \in A : i \in J <=> q[i] \in I
    BY <1>1, <1>2, <2>1, <2>2, <2>3
  <2>5. Cardinality(J) = Cardinality(I)
    BY <2>4, SameNumber
  <2> QED BY <2>2, <2>5 DEF I
<1> HIDE DEF vals
<1>5. {v \in Range(list) : Cardinality({i \in DOMAIN list : list[i] <= v}) >= j}
        = {v \in vals : Cardinality({k \in K : f[k] <= v}) >= j}
  BY <1>3, <1>4
<1>6. Sorted(list, j) = Ranked(K, f, j)
  BY <1>5 DEF Sorted, Ranked, vals
<1>7. Ranked(K, f, j) \in Int
  <2> DEFINE H == {v \in vals : Cardinality({k \in K : f[k] <= v}) >= j}
  <2>1. vals \in SUBSET Int /\ IsFiniteSet(vals) /\ vals # {}
    <3>1. IsFiniteSet({f[k] : k \in K})
      <4> DEFINE g == [k \in K |-> f[k]]
                 T == {f[k] : k \in K}
      <4>1. g \in Surjection(K, T)
        BY DEF Surjection
      <4> HIDE DEF g, T
      <4>2. IsFiniteSet(T)
        BY <1>1, <4>1, FS_Surjection
      <4> QED BY <4>2 DEF T
    <3>2. K # {}
      BY <1>1, FS_EmptySet DEF n
    <3> QED BY <1>1, <3>1, <3>2 DEF vals
  <2>2. PICK hi \in vals : \A y \in vals : y <= hi
    BY <2>1, FiniteExtremes
  <2>3. {k \in K : f[k] <= hi} = K
    BY <2>2 DEF vals
  <2>4. hi \in H
    <3>1. PICK i : i = {k \in K : f[k] <= hi}
      OBVIOUS
    <3>2. i = K
      BY <2>3, <3>1, Zenon
    <3>3. Cardinality(i) >= j
      <4>1. PICK m \in Nat : m = n /\ m = Cardinality(K)
        BY <1>1 DEF n
      <4>2. j \in 1..m
        BY <4>1
      <4> QED BY <3>2, <4>1, <4>2
    <3> QED BY <3>1, <3>3
  <2>5. H \in SUBSET Int /\ IsFiniteSet(H) /\ H # {}
    BY <2>1, <2>4, FS_Subset
  <2> HIDE DEF H
  <2>6. PICK lo \in H : \A y \in H : lo <= y
    BY <2>5, FiniteExtremes
  <2>7. Min(H) = lo /\ lo \in Int
    BY <2>5, <2>6, MinIs
  <2> QED BY <2>7 DEF Ranked, H, vals
<1> QED BY <1>6, <1>7

LEMMA MedianIs ==
    ASSUME NEW K, NEW f, Summable(K, f), NEW list, NEW q, Arranged(f, K, list, q)
    PROVE  IF K = {} THEN Median(list) = NaN
           ELSE Median(list) = (Ranked(K, f, (Cardinality(K) + 1) \div 2)
                                   + Ranked(K, f, Cardinality(K) \div 2 + 1)) \div 2
<1>1. PICK n \in Nat : n = Cardinality(K) /\ (K = {} <=> n = 0) /\ list \in Seq(Int) /\ Len(list) = n
  BY FS_CardinalityType, FS_EmptySet DEF Summable, Arranged
<1>2. CASE n = 0
  BY <1>1, <1>2 DEF Median
<1>3. CASE n # 0 /\ n % 2 = 1
  <2>1. PICK h \in Nat : h = n \div 2 /\ (n + 1) \div 2 = h + 1 /\ h + 1 \in 1..n
    BY <1>3
  <2>2. list # <<>>
    BY <1>1, <1>3
  <2>3. PICK x \in Int : x = Sorted(list, h + 1) /\ x = Ranked(K, f, h + 1)
    BY <1>1, <2>1, SortedIsRanked
  <2>4. Median(list) = x
    BY <1>1, <1>3, <2>1, <2>2, <2>3 DEF Median
  <2>5. (x + x) \div 2 = x
    OBVIOUS
  <2> QED BY <1>1, <1>3, <2>1, <2>3, <2>4, <2>5
<1>4. CASE n # 0 /\ n % 2 # 1
  <2>1. PICK h \in Nat : h = n \div 2 /\ (n + 1) \div 2 = h /\ h + 1 \in 1..n /\ h \in 1..n
    BY <1>4
  <2>2. list # <<>>
    BY <1>1, <1>4
  <2>3. PICK x \in Int, y \in Int : /\ x = Sorted(list, h + 1) /\ x = Ranked(K, f, h + 1)
                                    /\ y = Sorted(list, h) /\ y = Ranked(K, f, h)
    <3>1. PICK e : e = h + 1
      OBVIOUS
    <3>2. e \in 1..Cardinality(K) /\ h \in 1..Cardinality(K)
      BY <1>1, <2>1, <3>1
    <3>3. Sorted(list, e) = Ranked(K, f, e) /\ Ranked(K, f, e) \in Int
      BY <3>2, SortedIsRanked, Zenon
    <3>4. Sorted(list, h) = Ranked(K, f, h) /\ Ranked(K, f, h) \in Int
      BY <3>2, SortedIsRanked, Zenon
    <3> QED BY <3>1, <3>3, <3>4
  <2>4. Median(list) = (x + y) \div 2
    BY <1>1, <1>4, <2>1, <2>2, <2>3 DEF Median
  <2>5. x + y = y + x
    OBVIOUS
  <2> QED BY <1>1, <1>4, <2>1, <2>3, <2>4, <2>5
<1> QED BY <1>2, <1>3, <1>4

LEMMA BestIsExtreme ==
    ASSUME NEW r \in Extremes, NEW K, NEW f, Summable(K, f), NEW x, BestIs(r, K, f, x), K # {}
    PROVE  x = IF r \in {"min", "which_min"} THEN Min({f[k] : k \in K}) ELSE Max({f[k] : k \in K})
<1> DEFINE vals == {f[k] : k \in K}
<1>1. x \in Int /\ x \in vals /\ vals \in SUBSET Int /\ \A k \in K : ~ Better(r, f[k], x)
  BY DEF BestIs, Summable
<1>2. CASE r \in {"min", "which_min"}
  <2>1. \A y \in vals : x <= y
    BY <1>1, <1>2 DEF Better
  <2> HIDE DEF vals
  <2>2. Min(vals) = x
    BY <1>1, <2>1, MinIs
  <2> QED BY <1>2, <2>2 DEF vals
<1>3. CASE r \notin {"min", "which_min"}
  <2>1. \A y \in vals : y <= x
    BY <1>1, <1>3 DEF Better
  <2> HIDE DEF vals
  <2>2. Max(vals) = x
    BY <1>1, <2>1, MaxIs
  <2> QED BY <1>3, <2>2 DEF vals
<1> QED BY <1>2, <1>3

LEMMA FirstIsLeast ==
    ASSUME NEW K, NEW f, NEW x, NEW t, FirstIs(K, f, x, t), K # {}, \A k \in K : k.t \in Int
    PROVE  t = Min({k.t : k \in {k \in K : f[k] = x}})
<1> DEFINE S == {k.t : k \in {k \in K : f[k] = x}}
<1>1. t \in S /\ S \in SUBSET Int /\ \A y \in S : t <= y
  BY DEF FirstIs
<1> HIDE DEF S
<1>2. Min(S) = t
  BY <1>1, MinIs
<1> QED BY <1>2 DEF S

LEMMA Finished ==
    ASSUME NEW r \in Known, NEW K, NEW f, Summable(K, f), NEW a, AccIs(r, f, K, a),
           \A k \in K : k.t \in Int
    PROVE  Finish(r, a) = Reduced(r, K, f)
<1>1. PICK n \in Nat : n = Cardinality(K) /\ (K = {} <=> n = 0)
  BY FS_CardinalityType, FS_EmptySet DEF Summable
<1>2. CASE r = "count"
  BY <1>2 DEF AccIs, Finish, Reduced
<1>3. CASE r = "sum"
  BY <1>3 DEF AccIs, Finish, Reduced, Total
<1>4. CASE r = "prod"
  BY <1>4 DEF AccIs, Finish, Reduced, Product
<1>5. CASE r = "mean"
  <2>1. a.v = Total(K, f) /\ a.n = n
    BY <1>1, <1>5 DEF AccIs
  <2>2. Finish(r, a) = IF n > 0 THEN Total(K, f) \div n ELSE NaN
    BY <1>5, <2>1 DEF Finish
  <2>3. Reduced(r, K, f) = IF K = {} THEN NaN ELSE Total(K, f) \div n
    BY <1>1, <1>5 DEF Reduced, Total
  <2> QED BY <1>1, <2>2, <2>3
<1>6. CASE r \in {"min", "max"}
  <2>1. BestIs(r, K, f, a.v) /\ r \in Extremes /\ Finish(r, a) = a.v
    BY <1>6 DEF AccIs, Extremes, Finish
  <2>2. CASE K = {}
    <3>1. a.v = NaN
      BY <2>1, <2>2 DEF BestIs
    <3>2. Reduced(r, K, f) = NaN
      BY <1>6, <2>2, Zenon DEF Reduced
    <3> QED BY <2>1, <3>1, <3>2
  <2>3. CASE K # {}
    <3>1. a.v = IF r \in {"min", "which_min"} THEN Min({f[k] : k \in K}) ELSE Max({f[k] : k \in K})
      <4>1. PICK x : x = a.v
        OBVIOUS
      <4>2. BestIs(r, K, f, x) /\ r \in Extremes
        BY <2>1, <4>1
      <4>3. x = IF r \in {"min", "which_min"} THEN Min({f[k] : k \in K}) ELSE Max({f[k] : k \in K})
        BY <2>3, <4>2, BestIsExtreme, Zenon
      <4> QED BY <4>1, <4>3
    <3>2. Reduced(r, K, f) = IF r = "min" THEN Min({f[k] : k \in K}) ELSE Max({f[k] : k \in K})
      BY <1>6, <2>3 DEF Reduced
    <3> QED BY <1>6, <2>1, <3>1, <3>2
  <2> QED BY <2>2, <2>3
<1>7. CASE r \in {"which_min", "which_max"}
  <2>1. /\ BestIs(r, K, f, a.aux) /\ FirstIs(K, f, a.aux, a.v) /\ (K = {} => a.v = NaN)
        /\ r \in Extremes /\ Finish(r, a) = a.v
    BY <1>7 DEF AccIs, Extremes, Dated, Finish
  <2>2. CASE K = {}
    <3>2. Reduced(r, K, f) = NaN
      BY <1>7, <2>2, Zenon DEF Reduced
    <3> QED BY <2>1, <2>2, <3>2
  <2>3. CASE K # {}
    <3>1. a.aux = IF r \in {"min", "which_min"} THEN Min({f[k] : k \in K}) ELSE Max({f[k] : k \in K})
      <4>1. PICK x : x = a.aux
        OBVIOUS
      <4>2. BestIs(r, K, f, x) /\ r \in Extremes
        BY <2>1, <4>1
      <4>3. x = IF r \in {"min", "which_min"} THEN Min({f[k] : k \in K}) ELSE Max({f[k] : k \in K})
        BY <2>3, <4>2, BestIsExtreme, Zenon
      <4> QED BY <4>1, <4>3
    <3>2. a.v = Min({k.t : k \in {k \in K : f[k] = a.aux}})
      BY <2>1, <2>3, FirstIsLeast
    <3> DEFINE best == IF r = "which_min" THEN Min({f[k] : k \in K}) ELSE Max({f[k] : k \in K})
    <3>3. Reduced(r, K, f) = Min({k.t : k \in {k \in K : f[k] = best}})
      BY <1>7, <2>3 DEF Reduced
    <3>4. a.aux = best
      BY <1>7, <3>1
    <3> QED BY <2>1, <3>2, <3>3, <3>4
  <2> QED BY <2>2, <2>3
<1>8. CASE r = "median"
  <2>1. PICK q : Arranged(f, K, a.list, q)
    BY <1>8 DEF AccIs
  <2>2. Finish(r, a) = Median(a.list)
    BY <1>8 DEF Finish
  <2>3. Reduced(r, K, f) =
          IF K = {} THEN NaN
          ELSE (Ranked(K, f, (Cardinality(K) + 1) \div 2) + Ranked(K, f, Cardinality(K) \div 2 + 1)) \div 2
    BY <1>8 DEF Reduced, Ranked
  <2> QED BY <2>1, <2>2, <2>3, MedianIs
<1>9. CASE r \in {"var", "sd"}
  <2>1. a.n = n /\ Total(K, f) = n * a.aux /\ a.v = Deviation(K, f, a.aux)
    BY <1>1, <1>9 DEF AccIs, SpreadIs
  <2>2. Finish(r, a) = IF n > 1 THEN a.v \div (n - 1) ELSE NaN
    BY <1>9, <2>1 DEF Finish
  <2>3. Reduced(r, K, f) = IF n < 2 THEN NaN ELSE Deviation(K, f, Total(K, f) \div n) \div (n - 1)
    <3>1. Reduced(r, K, f) = IF Cardinality(K) < 2 THEN NaN
                             ELSE Deviation(K, f, Total(K, f) \div Cardinality(K)) \div (Cardinality(K) - 1)
      BY <1>9, Zenon DEF Reduced, Deviation, Total
    <3> QED BY <1>1, <3>1
  <2>4. n # 0 => Total(K, f) \div n = a.aux
    <3>1. PICK x \in Int : x = a.aux
      BY <1>9 DEF AccIs, AccOf
    <3>2. n * x = x * n
      OBVIOUS
    <3> QED BY <2>1, <3>1, <3>2, Quotient
  <2> QED BY <2>1, <2>2, <2>3, <2>4
<1> QED BY <1>2, <1>3, <1>4, <1>5, <1>6, <1>7, <1>8, <1>9, KnownAre

-------------------------------------------------------------------------------
\* An accumulator on its way through the cells S that it is for: W is what it has seen.

Having(d, W) == {k \in W : d[k] # NaN}

ValuesOf(d, S) == [k \in Having(d, S) |-> d[k]]

Readable(d, S) == IsFiniteSet(S) /\ \A k \in S : d[k] \in Number /\ k.t \in Int

Exact(r, d, S) == r \in {"var", "sd"} => WholeMeans(Having(d, S), ValuesOf(d, S))

AccAt(r, d, S, W, a) == AccIs(r, ValuesOf(d, S), Having(d, W), a)

LEMMA ReadableValued ==
    ASSUME NEW d, NEW S, Readable(d, S)
    PROVE  Summable(Having(d, S), ValuesOf(d, S))
<1>1. IsFiniteSet(Having(d, S))
  BY FS_Subset DEF Readable, Having
<1>2. \A k \in Having(d, S) : ValuesOf(d, S)[k] \in Int
  BY DEF Readable, Having, ValuesOf, Number
<1> QED BY <1>1, <1>2 DEF Summable

LEMMA AtStep ==
    ASSUME NEW r \in Known, NEW d, NEW S, Readable(d, S), Exact(r, d, S), NEW W \in SUBSET S,
           NEW k \in S \ W, NEW a, AccAt(r, d, S, W, a), NEW date \in Int,
           r \in Dated => date = k.t /\ \A j \in W : j.t <= k.t
    PROVE  AccAt(r, d, S, W \cup {k}, Add(r, a, d[k], date))
<1>1. CASE d[k] = NaN
  <2>1. Having(d, W \cup {k}) = Having(d, W)
    BY <1>1 DEF Having
  <2>2. Add(r, a, d[k], date) = a
    BY <1>1 DEF Add
  <2> QED BY <2>1, <2>2 DEF AccAt
<1>2. CASE d[k] # NaN
  <2> DEFINE K == Having(d, S)
             f == ValuesOf(d, S)
             V == Having(d, W)
  <2>1. Summable(K, f)
    BY ReadableValued
  <2>2. V \in SUBSET K /\ k \in K \ V /\ f[k] = d[k] /\ Having(d, W \cup {k}) = V \cup {k}
    BY <1>2 DEF Having, ValuesOf
  <2>3. Ordered(r, V, k, date)
    <3>1. \A j \in V : j \in W /\ j.t \in Int
      BY DEF Having, Readable
    <3> HIDE DEF V
    <3> QED BY <3>1 DEF Ordered
  <2>4. AccIs(r, f, V, a) /\ (r \in {"var", "sd"} => WholeMeans(K, f))
    BY DEF AccAt, Exact
  <2> HIDE DEF K, f, V
  <2>5. AccIs(r, f, V \cup {k}, Add(r, a, f[k], date))
    BY <2>1, <2>2, <2>3, <2>4, AccStep
  <2> QED BY <2>2, <2>5 DEF AccAt, f
<1> QED BY <1>1, <1>2

\* The pairs are the values of the cells g, which the accumulator has not seen.
Listed(r, d, S, W, m, pairs, g) ==
    /\ Pairs(m, pairs)
    /\ \A j \in 1..m : g[j] \in S \ W /\ pairs[j][1] = d[g[j]]
    /\ \A i, j \in 1..m : g[i] = g[j] => i = j
    /\ r \in Dated => \A j \in 1..m : /\ pairs[j][2] = g[j].t
                                      /\ \A k \in W : k.t <= g[j].t
                                      /\ \A i \in 1..(j - 1) : g[i].t <= g[j].t

Seen(W, g, j) == W \cup {g[i] : i \in 1..j}

LEMMA AtPairs ==
    ASSUME NEW r \in Known, NEW d, NEW S, Readable(d, S), Exact(r, d, S), NEW W \in SUBSET S,
           NEW a, AccAt(r, d, S, W, a), NEW m, NEW pairs, NEW g, Listed(r, d, S, W, m, pairs, g)
    PROVE  AccAt(r, d, S, Seen(W, g, m), AddAll(r, a, pairs))
<1>1. m \in Nat /\ Pairs(m, pairs) /\ a \in AccOf(r)
  BY DEF Listed, Pairs, AccAt, AccIs
<1>2. PICK u : /\ Through(m, a, u)
               /\ \A k \in 1..m : u[k] = Add(r, u[k - 1], pairs[k][1], pairs[k][2])
               /\ AddAll(r, a, pairs) = u[m]
  BY <1>1, AddFold DEF HasAddChain
<1> DEFINE G == {j \in 0..m : AccAt(r, d, S, Seen(W, g, j), u[j])}
<1>3. 0 \in G
  <2>1. Seen(W, g, 0) = W
    BY DEF Seen
  <2>2. u[0] = a
    BY <1>2 DEF Through
  <2> QED BY <1>1, <2>1, <2>2
<1>4. ASSUME NEW k \in 1..m, k - 1 \in G PROVE k \in G
  <2>1. AccAt(r, d, S, Seen(W, g, k - 1), u[k - 1])
    BY <1>4
  <2>2. g[k] \in S \ W /\ pairs[k][1] = d[g[k]] /\ pairs[k][2] \in Int
    BY DEF Listed, Pairs
  <2>3. \A i \in 1..(k - 1) : i \in 1..m /\ g[i] \in S /\ g[i] # g[k]
    BY <1>1 DEF Listed
  <2>4. Seen(W, g, k - 1) \in SUBSET S /\ g[k] \in S \ Seen(W, g, k - 1)
    BY <2>2, <2>3 DEF Seen
  <2>5. Seen(W, g, k - 1) \cup {g[k]} = Seen(W, g, k)
    <3>1. 1..k = (1..(k - 1)) \cup {k}
      BY <1>1
    <3> QED BY <3>1 DEF Seen
  <2>6. r \in Dated => pairs[k][2] = g[k].t /\ \A j \in Seen(W, g, k - 1) : j.t <= g[k].t
    BY <1>1 DEF Listed, Seen
  <2>7. AccAt(r, d, S, Seen(W, g, k - 1) \cup {g[k]}, Add(r, u[k - 1], d[g[k]], pairs[k][2]))
    BY <2>1, <2>2, <2>4, <2>6, AtStep
  <2>8. AccAt(r, d, S, Seen(W, g, k), u[k])
    BY <1>2, <2>2, <2>5, <2>7
  <2> QED BY <2>8
<1>5. G = 0..m
  <2>1. G \in SUBSET (0..m)
    OBVIOUS
  <2> HIDE DEF G
  <2> QED BY <1>1, <1>3, <1>4, <2>1, Upward
<1>6. m \in G
  BY <1>1, <1>5
<1> QED BY <1>2, <1>6

\* The pairs of a chunk take the accumulator from W to V; cells without a value do not count.
Covered(r, d, S, W, V, pairs) ==
    \E m, g : Listed(r, d, S, W, m, pairs, g) /\ Having(d, V) = Having(d, Seen(W, g, m))

LEMMA AtPart ==
    ASSUME NEW r \in Known, NEW d, NEW S, Readable(d, S), Exact(r, d, S), NEW W \in SUBSET S, NEW V,
           NEW a, AccAt(r, d, S, W, a), NEW pairs, Covered(r, d, S, W, V, pairs)
    PROVE  AccAt(r, d, S, V, AddAll(r, a, pairs))
<1>1. PICK m, g : Listed(r, d, S, W, m, pairs, g) /\ Having(d, V) = Having(d, Seen(W, g, m))
  BY DEF Covered
<1>2. AccAt(r, d, S, Seen(W, g, m), AddAll(r, a, pairs))
  BY <1>1, AtPairs
<1> QED BY <1>1, <1>2 DEF AccAt

\* W leads from nothing to all cells, a chunk of pairs at a time.
Staged(r, d, S, p, n, parts, W) ==
    /\ W[0] = {} /\ W[n] = S /\ \A k \in 0..n : W[k] \in SUBSET S
    /\ \A k \in 1..n : Covered(r, d, S, W[k - 1], W[k], parts[k][p])

LEMMA AtEnd ==
    ASSUME NEW r \in Known, NEW d, NEW S, Readable(d, S), Exact(r, d, S),
           NEW P, NEW n \in Nat, NEW parts, NEW base, NEW value, HasMergeChain(r, P, n, parts, base, value),
           NEW p \in P, base[p] = Start(r), NEW W, Staged(r, d, S, p, n, parts, W)
    PROVE  Finish(r, value[p]) = Reduced(r, Having(d, S), ValuesOf(d, S))
<1>0. /\ W[0] = {} /\ W[n] = S /\ \A k \in 0..n : W[k] \in SUBSET S
      /\ \A k \in 1..n : Covered(r, d, S, W[k - 1], W[k], parts[k][p])
  BY DEF Staged
<1>1. PICK u : /\ Through(n, base, u)
               /\ \A k \in 1..n : u[k] = Merged(r, P, u[k - 1], parts[k])
               /\ value = u[n]
  BY DEF HasMergeChain
<1>2. Summable(Having(d, S), ValuesOf(d, S)) /\ \A k \in Having(d, S) : k.t \in Int
  BY ReadableValued DEF Readable, Having
<1> DEFINE G == {k \in 0..n : AccAt(r, d, S, W[k], u[k][p])}
<1>3. 0 \in G
  <2>1. Having(d, {}) = {}
    BY DEF Having
  <2>2. u[0] = base
    BY <1>1 DEF Through
  <2>3. AccIs(r, ValuesOf(d, S), {}, Start(r))
    BY <1>2, AccStart
  <2>4. AccAt(r, d, S, {}, Start(r))
    BY <2>1, <2>3 DEF AccAt
  <2>5. AccAt(r, d, S, W[0], u[0][p])
    BY <1>0, <2>2, <2>4
  <2> QED BY <2>5
<1>4. ASSUME NEW k \in 1..n, k - 1 \in G PROVE k \in G
  <2>1. AccAt(r, d, S, W[k - 1], u[k - 1][p]) /\ W[k - 1] \in SUBSET S
    BY <1>0, <1>4
  <2>2. Covered(r, d, S, W[k - 1], W[k], parts[k][p])
    BY <1>0
  <2>3. AccAt(r, d, S, W[k], AddAll(r, u[k - 1][p], parts[k][p]))
    BY <2>1, <2>2, AtPart
  <2>4. u[k][p] = AddAll(r, u[k - 1][p], parts[k][p])
    BY <1>1 DEF Merged
  <2> QED BY <2>3, <2>4
<1>5. G = 0..n
  <2>1. G \in SUBSET (0..n)
    OBVIOUS
  <2> HIDE DEF G
  <2> QED BY <1>3, <1>4, <2>1, Upward
<1>6. AccAt(r, d, S, S, value[p])
  <2>1. n \in G
    BY <1>5
  <2> QED BY <1>0, <1>1, <2>1
<1> QED BY <1>2, <1>6, Finished DEF AccAt

-------------------------------------------------------------------------------
\* Reducing over time: the slices of one pixel, chunk after chunk.

\* The cell of the pixel of element p of chunk id in slice u, and the cells of the slices U.
TimeCell(c, id, p, u) ==
    [ElementCell(c.n, c.s, id, ElementOf(chunk_size(c.n, c.s, id), 0, p)) EXCEPT !.t = u]

TimeCells(c, id, p, U) == {TimeCell(c, id, p, u) : u \in U}

AllSlices(c) == 0..(c.n.t - 1)

\* The slices of the first k chunks.
FirstSlices(c, k) == {u \in AllSlices(c) : u < k * c.s.t}

LEMMA TimeCellIs ==
    ASSUME NEW c \in Inputs, NEW id \in ChunkIds(c.n, c.s), NEW p \in Places(c, id)
    PROVE  LET a == chunk_limits(c.n, c.s, id)
               z == chunk_size(c.n, c.s, id)
           IN  /\ \A u : TimeCell(c, id, p, u) = [t |-> u, y |-> a.high.y - (p \div z.x), x |-> a.low.x + (p % z.x)]
               /\ \A u : TimeCell(c, id, p, u).t = u
               /\ \A u \in AllSlices(c) : TimeCell(c, id, p, u) \in Cells(c.n)
               /\ \A b, u : At(c, id, b, p, u) = c.data[b][TimeCell(c, id, p, u)]
<1> DEFINE z == chunk_size(c.n, c.s, id)
           e == ElementOf(z, 0, p)
           k == ElementCell(c.n, c.s, id, e)
           a == chunk_limits(c.n, c.s, id)
<1>1. c.n \in Sizes /\ c.s \in Sizes
  BY InputIs
<1>2. e \in Elements(c.n, c.s, id)
  <2>1. 0 \in 0..(z.t - 1)
    BY <1>1, ChunkSizePositive
  <2> QED BY <1>1, <2>1, ElementInside DEF Places
<1>3. k \in Cells(c.n) /\ k = [t |-> a.low.t + e.t, y |-> a.high.y - e.row, x |-> a.low.x + e.col]
  BY <1>1, <1>2, ElementLimits
<1>4. e.row = p \div z.x /\ e.col = p % z.x
  BY DEF ElementOf
<1>5. \A u : TimeCell(c, id, p, u) = [k EXCEPT !.t = u]
  BY DEF TimeCell
<1> HIDE DEF e, k, a, z
<1>6. \A u : [k EXCEPT !.t = u] = [t |-> u, y |-> a.high.y - (p \div z.x), x |-> a.low.x + (p % z.x)]
  BY <1>3, <1>4
<1>7. \A u \in AllSlices(c) : [k EXCEPT !.t = u] \in Cells(c.n)
  BY <1>3 DEF Cells, AllSlices
<1>8. \A b, u : At(c, id, b, p, u) = c.data[b][TimeCell(c, id, p, u)]
  BY DEF At, TimeCell
<1> QED BY <1>5, <1>6, <1>7, <1>8 DEF a, z

\* A chunk of the reduced cube has the place of the chunk of the input with the same id.
LEMMA TimeRow ==
    ASSUME NEW c \in Inputs, NEW id \in ChunkIds(TimeShape(c).n, TimeShape(c).s)
    PROVE  LET a == chunk_limits(c.n, c.s, id)
               b == chunk_limits(TimeShape(c).n, TimeShape(c).s, id)
           IN  /\ id \in ChunkIds(c.n, c.s) /\ \A j \in Int : RowOf(c, id, j) = j
               /\ chunk_size(c.n, c.s, id).y = chunk_size(TimeShape(c).n, TimeShape(c).s, id).y
               /\ chunk_size(c.n, c.s, id).x = chunk_size(TimeShape(c).n, TimeShape(c).s, id).x
               /\ a.high.y = b.high.y /\ a.low.x = b.low.x
               /\ chunk_size(TimeShape(c).n, TimeShape(c).s, id).t = 1
<1> DEFINE a == chunk_limits(c.n, c.s, id)
           b == chunk_limits(TimeShape(c).n, TimeShape(c).s, id)
<1>1. c.n \in Sizes /\ c.s \in Sizes
  BY InputIs
<1>2. c.n.t \in Nat \ {0} /\ c.s.t \in Nat \ {0} /\ Ceil(c.n.t, c.s.t) \in Nat \ {0}
  BY <1>1, Radices
<1>3. 0 \in 0..(Ceil(c.n.t, c.s.t) - 1)
  BY <1>2
<1>4. /\ ChunksPerSlice(c) \in Nat \ {0} /\ id \in 0..(ChunksPerSlice(c) - 1)
      /\ id + 0 * ChunksPerSlice(c) \in ChunkIds(c.n, c.s)
  BY <1>3, TimeColumn
<1>5. id + 0 * ChunksPerSlice(c) = id
  BY <1>4
<1>6. /\ id \in ChunkIds(c.n, c.s) /\ a.low.t = Low(c.n.t, c.s.t, 0)
      /\ a.low.y = b.low.y /\ a.high.y = b.high.y /\ a.low.x = b.low.x /\ a.high.x = b.high.x
      /\ b.low.t = 0 /\ b.high.t = 0
  BY <1>3, <1>4, <1>5, TimeColumn
<1> HIDE DEF a, b
<1>7. /\ chunk_size(c.n, c.s, id) = SizeOf(a) /\ chunk_size(TimeShape(c).n, TimeShape(c).s, id) = SizeOf(b)
  BY DEF chunk_size, a, b
<1>8. /\ SizeOf(a).y = SizeOf(b).y /\ SizeOf(a).x = SizeOf(b).x /\ SizeOf(b).t = 1
  BY <1>6 DEF SizeOf
<1>9. \A j \in Int : RowOf(c, id, j) = j
  <2>1. Low(c.n.t, c.s.t, 0) = 0
    BY <1>2, <1>3, LimitsInside
  <2>2. 0 \in Int
    OBVIOUS
  <2>3. InColumn(c, id, 0) = id
    BY <1>4, <1>5 DEF InColumn
  <2>4. RowOf(c, id, 0) \in Rows(c) /\ \A j \in Int : RowOf(c, id, j) = RowOf(c, id, 0) + j
    BY <1>6, <2>2, ColumnIds
  <2>5. FirstSlice(c, id) = RowOf(c, id, 0) * c.s.t
    BY <1>6, <2>2, <2>3, <2>4, ColumnSizes
  <2>6. FirstSlice(c, id) = 0
    BY <1>6, <2>1 DEF FirstSlice, a
  <2>7. PICK x \in Nat : x = RowOf(c, id, 0)
    BY <1>2, <2>4 DEF Rows
  <2>8. x = 0
    <3>1. x * c.s.t = 0
      BY <2>5, <2>6, <2>7
    <3>2. PICK s \in Nat \ {0} : s = c.s.t
      BY <1>2
    <3>3. x * s = 0
      BY <3>1, <3>2
    <3>4. x >= 1 => 1 * s <= x * s
      BY <3>2, ProductOrder
    <3> QED BY <3>2, <3>3, <3>4
  <2> QED BY <2>4, <2>7, <2>8
<1> QED BY <1>6, <1>7, <1>8, <1>9 DEF a, b

\* The pairs of the k-th chunk of a place.
TimePairs(c, id, bi, p, k, pairs, dated) ==
    LET i == InColumn(c, id, k - 1)
    IN  /\ DOMAIN pairs = 1..ChunkOf(c, i).size.t
        /\ \A j \in DOMAIN pairs : /\ pairs[j][1] = Value(ChunkOf(c, i), bi, j - 1, p)
                                   /\ pairs[j][2] \in Int
                                   /\ dated => pairs[j][2] = FirstSlice(c, i) + j - 1

LEMMA TimeCovered ==
    ASSUME NEW c \in Inputs, NEW id \in ChunkIds(TimeShape(c).n, TimeShape(c).s), NEW p \in Places(c, id),
           NEW r \in Known, NEW bi \in 0..(c.nb - 1), NEW k \in 1..Ceil(c.n.t, c.s.t),
           NEW pairs, TimePairs(c, id, bi, p, k, pairs, r \in Dated)
    PROVE  /\ Covered(r, c.data[bi], TimeCells(c, id, p, AllSlices(c)),
                      TimeCells(c, id, p, FirstSlices(c, k - 1)), TimeCells(c, id, p, FirstSlices(c, k)), pairs)
           /\ \E m : Pairs(m, pairs)
<1> DEFINE d == c.data[bi]
           i == InColumn(c, id, k - 1)
           x == ChunkOf(c, i)
           lo == FirstSlice(c, i)
           z == SlicesOf(c, i)
           n == c.n.t
           s == c.s.t
           F(u) == TimeCell(c, id, p, u)
           S == TimeCells(c, id, p, AllSlices(c))
           W == TimeCells(c, id, p, FirstSlices(c, k - 1))
           V == TimeCells(c, id, p, FirstSlices(c, k))
<1>1. c.n \in Sizes /\ c.s \in Sizes /\ id \in ChunkIds(c.n, c.s)
  BY InputIs, TimeRow
<1>2. n \in Nat \ {0} /\ s \in Nat \ {0} /\ Ceil(n, s) \in Nat \ {0}
  BY <1>1, Radices
<1>3. k \in Nat /\ k - 1 \in Int /\ RowOf(c, id, k - 1) = k - 1 /\ RowOf(c, id, k - 1) \in Rows(c)
  <2>1. k \in Nat /\ k - 1 \in Int /\ k - 1 \in Rows(c)
    BY <1>2 DEF Rows
  <2> QED BY <2>1, TimeRow
<1>4. /\ lo = (k - 1) * s /\ lo \in 0..(n - 1) /\ z \in 1..s /\ z = Smaller(s, n - lo)
  BY <1>1, <1>3, ColumnSizes
<1>5. /\ i \in c.empty => x.size.t = 0
      /\ i \notin c.empty => x.size.t = z
      /\ \A t \in 0..(z - 1) :
            IF i \in c.empty THEN At(c, id, bi, p, lo + t) = NaN
            ELSE Value(x, bi, t, p) = At(c, id, bi, p, lo + t)
  BY <1>1, <1>3, ColumnValue DEF Places
<1>6. /\ \A u : F(u).t = u
      /\ \A u \in 0..(n - 1) : F(u) \in Cells(c.n) /\ d[F(u)] \in Number
      /\ \A u : At(c, id, bi, p, u) = d[F(u)]
  <2>1. d \in [Cells(c.n) -> Number]
    BY InputData
  <2> QED BY <1>1, <2>1, TimeCellIs DEF AllSlices
<1>7. /\ DOMAIN pairs = 1..x.size.t
      /\ \A j \in DOMAIN pairs : /\ pairs[j][1] = Value(x, bi, j - 1, p) /\ pairs[j][2] \in Int
                                 /\ r \in Dated => pairs[j][2] = lo + j - 1
  BY DEF TimePairs
<1>8. S = {F(u) : u \in 0..(n - 1)}
  BY DEF TimeCells, AllSlices
<1>9. W = {F(u) : u \in 0..(lo - 1)}
  <2>1. FirstSlices(c, k - 1) = 0..(lo - 1)
    <3> HIDE DEF lo
    <3> QED BY <1>2, <1>4 DEF FirstSlices, AllSlices
  <2> QED BY <2>1 DEF TimeCells
<1>10. V = {F(u) : u \in 0..(lo + z - 1)}
  <2>1. k * s = lo + s
    <3>1. PICK h \in Int : h = k - 1 /\ k = h + 1
      BY <1>3
    <3>2. (h + 1) * s = h * s + s
      BY <1>2
    <3> QED BY <1>4, <3>1, <3>2
  <2>2. FirstSlices(c, k) = 0..(lo + z - 1)
    <3> HIDE DEF lo, z
    <3> QED BY <1>2, <1>4, <2>1 DEF FirstSlices, AllSlices, Smaller
  <2> QED BY <2>2 DEF TimeCells
<1> HIDE DEF d, i, x, lo, z, n, s, F, S, W, V
<1>11. ASSUME NEW t \in 0..(z - 1) PROVE lo + t \in 0..(n - 1)
  BY <1>2, <1>4 DEF Smaller
<1>12. CASE i \in c.empty
  <2> DEFINE g == [j \in {} |-> j]
  <2>1. x.size.t = 0 /\ DOMAIN pairs = 1..0
    BY <1>5, <1>7, <1>12
  <2>2. Pairs(0, pairs)
    BY <2>1 DEF Pairs
  <2>3. Listed(r, d, S, W, 0, pairs, g)
    BY <2>2 DEF Listed
  <2>4. Seen(W, g, 0) = W
    BY DEF Seen
  <2>5. Having(d, V) = Having(d, W)
    <3>1. \A u \in 0..(lo + z - 1) : u \notin 0..(lo - 1) => d[F(u)] = NaN
      <4> SUFFICES ASSUME NEW u \in 0..(lo + z - 1), u \notin 0..(lo - 1) PROVE d[F(u)] = NaN
        OBVIOUS
      <4>1. PICK t \in 0..(z - 1) : u = lo + t
        <5>1. u - lo \in 0..(z - 1) /\ u = lo + (u - lo)
          BY <1>2, <1>4
        <5> QED BY <5>1
      <4> QED BY <1>5, <1>6, <1>12, <4>1
    <3>2. 0..(lo - 1) \subseteq 0..(lo + z - 1)
      BY <1>2, <1>4
    <3> QED BY <1>9, <1>10, <3>1, <3>2 DEF Having
  <2> HIDE DEF g
  <2> QED BY <2>2, <2>3, <2>4, <2>5 DEF Covered, d, S, W, V
<1>13. CASE i \notin c.empty
  <2> DEFINE g == [j \in 1..z |-> F(lo + j - 1)]
  <2>1. DOMAIN pairs = 1..z /\ z \in Nat
    BY <1>2, <1>4, <1>5, <1>7, <1>13
  <2>2. ASSUME NEW j \in 1..z
        PROVE  /\ j - 1 \in 0..(z - 1) /\ lo + (j - 1) = lo + j - 1 /\ lo + j - 1 \in 0..(n - 1)
               /\ g[j] = F(lo + j - 1) /\ g[j].t = lo + j - 1
               /\ pairs[j][1] = d[g[j]] /\ pairs[j][1] \in Number /\ pairs[j][2] \in Int
    <3>1. j - 1 \in 0..(z - 1) /\ lo + (j - 1) = lo + j - 1
      BY <1>2, <1>4
    <3>2. lo + j - 1 \in 0..(n - 1)
      BY <1>11, <3>1
    <3>3. g[j] = F(lo + j - 1) /\ g[j].t = lo + j - 1
      BY <1>6
    <3>4. pairs[j][1] = At(c, id, bi, p, lo + (j - 1))
      BY <1>5, <1>7, <1>13, <2>1, <3>1
    <3> HIDE DEF g
    <3> QED BY <1>6, <1>7, <2>1, <3>1, <3>2, <3>3, <3>4
  <2> HIDE DEF g
  <2>3. Pairs(z, pairs)
    BY <2>1, <2>2 DEF Pairs
  <2>4. ASSUME NEW j \in 1..z PROVE g[j] \in S \ W
    <3>1. g[j] \in S
      BY <1>8, <2>2
    <3>2. g[j] \notin W
      <4> SUFFICES ASSUME NEW u \in 0..(lo - 1), g[j] = F(u) PROVE FALSE
        BY <1>9
      <4>1. u = lo + j - 1
        BY <1>6, <2>2
      <4> QED BY <1>2, <1>4, <4>1
    <3> QED BY <3>1, <3>2
  <2>5. \A h, j \in 1..z : g[h] = g[j] => h = j
    <3> SUFFICES ASSUME NEW h \in 1..z, NEW j \in 1..z, g[h] = g[j] PROVE h = j
      OBVIOUS
    <3>1. lo + h - 1 = lo + j - 1
      BY <2>2
    <3> QED BY <1>2, <1>4, <3>1
  <2>6. ASSUME r \in Dated, NEW j \in 1..z
        PROVE  /\ pairs[j][2] = g[j].t /\ \A w \in W : w.t <= g[j].t
               /\ \A h \in 1..(j - 1) : g[h].t <= g[j].t
    <3>1. pairs[j][2] = g[j].t
      BY <1>7, <2>1, <2>2, <2>6
    <3>2. \A w \in W : w.t <= g[j].t
      <4> SUFFICES ASSUME NEW u \in 0..(lo - 1) PROVE F(u).t <= g[j].t
        BY <1>9
      <4>1. F(u).t = u /\ g[j].t = lo + j - 1
        BY <1>6, <2>2
      <4> QED BY <1>2, <1>4, <4>1
    <3>3. \A h \in 1..(j - 1) : g[h].t <= g[j].t
      <4> SUFFICES ASSUME NEW h \in 1..(j - 1) PROVE g[h].t <= g[j].t
        OBVIOUS
      <4>1. h \in 1..z /\ h <= j
        BY <2>1
      <4>2. g[h].t = lo + h - 1 /\ g[j].t = lo + j - 1
        BY <2>2, <4>1
      <4> QED BY <1>4, <4>1, <4>2
    <3> QED BY <3>1, <3>2, <3>3
  <2>7. Listed(r, d, S, W, z, pairs, g)
    BY <2>2, <2>3, <2>4, <2>5, <2>6 DEF Listed
  <2>8. V = Seen(W, g, z)
    <3>1. \A u \in 0..(lo + z - 1) : u \in 0..(lo - 1) \/ \E j \in 1..z : u = lo + j - 1
      <4> SUFFICES ASSUME NEW u \in 0..(lo + z - 1), u \notin 0..(lo - 1) PROVE \E j \in 1..z : u = lo + j - 1
        OBVIOUS
      <4>1. u - lo + 1 \in 1..z /\ u = lo + (u - lo + 1) - 1
        BY <1>2, <1>4
      <4> QED BY <4>1
    <3>2. \A u \in 0..(lo - 1) : u \in 0..(lo + z - 1)
      BY <1>2, <1>4
    <3>3. \A j \in 1..z : lo + j - 1 \in 0..(lo + z - 1)
      BY <1>2, <1>4
    <3> QED BY <1>9, <1>10, <2>2, <3>1, <3>2, <3>3 DEF Seen
  <2> QED BY <2>3, <2>7, <2>8 DEF Covered, d, S, W, V
<1> QED BY <1>12, <1>13

AllTimePairs(c, id, bi, p, r, q, parts) ==
    \A k \in 1..Ceil(c.n.t, c.s.t) : TimePairs(c, id, bi, p, k, parts[k][q], r \in Dated)

MergedOverTime(c, id, bi, p, r, q, value) ==
    \E P, parts, base : /\ HasMergeChain(r, P, Ceil(c.n.t, c.s.t), parts, base, value)
                        /\ q \in P /\ base[q] = Start(r) /\ AllTimePairs(c, id, bi, p, r, q, parts)

\* The accumulators of the pixel of element p end with what its slices reduce to.
LEMMA TimeEnd ==
    ASSUME NEW c \in Inputs, NEW id \in ChunkIds(TimeShape(c).n, TimeShape(c).s), NEW p \in Places(c, id),
           NEW r \in Known, NEW bi \in 0..(c.nb - 1),
           NEW q, NEW value, MergedOverTime(c, id, bi, p, r, q, value),
           Exact(r, c.data[bi], TimeCells(c, id, p, AllSlices(c)))
    PROVE  Finish(r, value[q]) = Reduced(r, Having(c.data[bi], TimeCells(c, id, p, AllSlices(c))),
                                            ValuesOf(c.data[bi], TimeCells(c, id, p, AllSlices(c))))
<1> DEFINE d == c.data[bi]
           S == TimeCells(c, id, p, AllSlices(c))
           n == Ceil(c.n.t, c.s.t)
           W == [k \in 0..n |-> TimeCells(c, id, p, FirstSlices(c, k))]
<1>0. PICK P, parts, base : /\ HasMergeChain(r, P, Ceil(c.n.t, c.s.t), parts, base, value)
                           /\ q \in P /\ base[q] = Start(r) /\ AllTimePairs(c, id, bi, p, r, q, parts)
  BY DEF MergedOverTime
<1>1. c.n \in Sizes /\ c.s \in Sizes /\ id \in ChunkIds(c.n, c.s)
  BY InputIs, TimeRow
<1>2. c.n.t \in Nat \ {0} /\ c.s.t \in Nat \ {0} /\ n \in Nat \ {0} /\ c.n.t <= n * c.s.t
  BY <1>1, Radices, CeilBounds
<1>3. Readable(d, S)
  <2>1. IsFiniteSet(S)
    <3> DEFINE g == [u \in AllSlices(c) |-> TimeCell(c, id, p, u)]
    <3>1. g \in Surjection(AllSlices(c), S)
      BY DEF Surjection, TimeCells
    <3>2. IsFiniteSet(AllSlices(c))
      <4>1. c.n.t - 1 \in Int /\ 0 \in Int
        BY <1>2
      <4>2. IsFiniteSet(0..(c.n.t - 1))
        BY <4>1, FS_Interval
      <4> QED BY <4>2 DEF AllSlices
    <3> HIDE DEF g, S
    <3> QED BY <3>1, <3>2, FS_Surjection
  <2>2. d \in [Cells(c.n) -> Number]
    BY InputData
  <2>3. \A u \in AllSlices(c) : TimeCell(c, id, p, u) \in Cells(c.n) /\ TimeCell(c, id, p, u).t \in Int
    BY <1>1, TimeCellIs DEF AllSlices
  <2>4. \A k \in S : d[k] \in Number /\ k.t \in Int
    BY <2>2, <2>3 DEF TimeCells
  <2> QED BY <2>1, <2>4 DEF Readable
<1>4. W[0] = {} /\ W[n] = S /\ \A k \in 0..n : W[k] \in SUBSET S
  <2>1. FirstSlices(c, 0) = {} /\ FirstSlices(c, n) = AllSlices(c)
    <3> HIDE DEF n
    <3> QED BY <1>2 DEF FirstSlices, AllSlices
  <2>2. 0 \in 0..n /\ n \in 0..n
    <3> HIDE DEF n
    <3> QED BY <1>2
  <2>3. W[0] = TimeCells(c, id, p, {}) /\ W[n] = TimeCells(c, id, p, AllSlices(c))
    <3> HIDE DEF n
    <3> QED BY <2>1, <2>2
  <2>4. \A k \in 0..n : W[k] = TimeCells(c, id, p, FirstSlices(c, k)) /\ FirstSlices(c, k) \subseteq AllSlices(c)
    BY DEF FirstSlices
  <2> HIDE DEF W, n
  <2> QED BY <2>3, <2>4 DEF TimeCells
<1>5. \A k \in 1..n : Covered(r, d, S, W[k - 1], W[k], parts[k][q])
  <2> SUFFICES ASSUME NEW k \in 1..n PROVE Covered(r, d, S, W[k - 1], W[k], parts[k][q])
    OBVIOUS
  <2>1. TimePairs(c, id, bi, p, k, parts[k][q], r \in Dated)
    BY <1>0 DEF AllTimePairs
  <2>2. Covered(r, d, S, TimeCells(c, id, p, FirstSlices(c, k - 1)), TimeCells(c, id, p, FirstSlices(c, k)), parts[k][q])
    BY <2>1, TimeCovered
  <2>3. k \in 0..n /\ k - 1 \in 0..n
    <3> HIDE DEF n
    <3> QED BY <1>2
  <2>4. W[k - 1] = TimeCells(c, id, p, FirstSlices(c, k - 1)) /\ W[k] = TimeCells(c, id, p, FirstSlices(c, k))
    BY <2>3
  <2> HIDE DEF W
  <2> QED BY <2>2, <2>4
<1> HIDE DEF d, S, W, n
<1>5a. Staged(r, d, S, q, n, parts, W)
  BY <1>4, <1>5 DEF Staged
<1>6. Exact(r, d, S) /\ HasMergeChain(r, P, n, parts, base, value) /\ q \in P /\ base[q] = Start(r)
  BY <1>0 DEF d, S, n
<1>7. n \in Nat
  BY <1>2
<1>8. Finish(r, value[q]) = Reduced(r, Having(d, S), ValuesOf(d, S))
  BY <1>3, <1>5a, <1>6, <1>7, AtEnd
<1> QED BY <1>8 DEF d, S

\* The accumulators of a chunk of reduce_time.
TimePlaces(c, id) ==
    0..(chunk_size(TimeShape(c).n, TimeShape(c).s, id).y * chunk_size(TimeShape(c).n, TimeShape(c).s, id).x - 1)

TimeAccs(c, r, bi, id) == TimeAll(c, r, bi, [p \in TimePlaces(c, id) |-> Start(r)], Column(c, id))

TimePart(c, bi, i, p) ==
    [j \in 1..ChunkOf(c, i).size.t |-> <<Value(ChunkOf(c, i), bi, j - 1, p), FirstSlice(c, i) + j - 1>>]

LEMMA TimeAccsEnd ==
    ASSUME NEW c \in Inputs, NEW id \in ChunkIds(TimeShape(c).n, TimeShape(c).s), NEW p \in Places(c, id),
           NEW r \in Known, NEW bi \in 0..(c.nb - 1),
           Exact(r, c.data[bi], TimeCells(c, id, p, AllSlices(c)))
    PROVE  Finish(r, TimeAccs(c, r, bi, id)[p]) =
              Reduced(r, Having(c.data[bi], TimeCells(c, id, p, AllSlices(c))),
                         ValuesOf(c.data[bi], TimeCells(c, id, p, AllSlices(c))))
<1> DEFINE n == Ceil(c.n.t, c.s.t)
           P == TimePlaces(c, id)
           parts == [k \in 1..n |-> [q \in P |-> TimePart(c, bi, InColumn(c, id, k - 1), q)]]
           base == [q \in P |-> Start(r)]
           seq == Column(c, id)
           value == TimeAccs(c, r, bi, id)
<1>1. c.n \in Sizes /\ c.s \in Sizes /\ id \in ChunkIds(c.n, c.s) /\ P = Places(c, id)
  BY InputIs, TimeRow DEF TimePlaces, Places
<1>2. c.n.t \in Nat \ {0} /\ c.s.t \in Nat \ {0} /\ n \in Nat \ {0}
  BY <1>1, Radices
<1>3. ASSUME NEW k \in 1..n, NEW q \in P
      PROVE  TimePairs(c, id, bi, q, k, parts[k][q], r \in Dated) /\ parts[k][q] = TimePart(c, bi, InColumn(c, id, k - 1), q)
  <2> DEFINE i == InColumn(c, id, k - 1)
  <2>1. parts[k][q] = TimePart(c, bi, i, q)
    OBVIOUS
  <2>2. k - 1 \in Int /\ RowOf(c, id, k - 1) \in Rows(c)
    <3>1. k - 1 \in Int /\ k - 1 \in Rows(c)
      <4> HIDE DEF n
      <4>1. k - 1 \in 0..(n - 1)
        BY <1>2
      <4> QED BY <4>1 DEF Rows, n
    <3> QED BY <3>1, TimeRow
  <2>3. FirstSlice(c, i) \in 0..(c.n.t - 1) /\ SlicesOf(c, i) \in 1..c.s.t
    BY <1>1, <2>2, ColumnSizes
  <2>4. /\ i \in c.empty => ChunkOf(c, i).size.t = 0
        /\ i \notin c.empty => ChunkOf(c, i).size.t = SlicesOf(c, i)
    BY <1>1, <2>2, ColumnValue DEF Places
  <2> HIDE DEF i, parts, n, P
  <2>5. ChunkOf(c, i).size.t \in Nat
    BY <1>2, <2>3, <2>4
  <2>6. DOMAIN parts[k][q] = 1..ChunkOf(c, i).size.t
    BY <2>1 DEF TimePart
  <2>7. ASSUME NEW j \in 1..ChunkOf(c, i).size.t
        PROVE  /\ parts[k][q][j][1] = Value(ChunkOf(c, i), bi, j - 1, q)
               /\ parts[k][q][j][2] = FirstSlice(c, i) + j - 1
               /\ parts[k][q][j][2] \in Int
    <3>1. parts[k][q][j] = <<Value(ChunkOf(c, i), bi, j - 1, q), FirstSlice(c, i) + j - 1>>
      BY <2>1 DEF TimePart
    <3> QED BY <2>3, <2>5, <3>1
  <2> QED BY <2>1, <2>6, <2>7 DEF TimePairs, i
<1>4. Parts(P, n, parts)
  <2>1. ASSUME NEW k \in 1..n, NEW q \in P PROVE \E m : Pairs(m, parts[k][q])
    <3>1. TimePairs(c, id, bi, q, k, parts[k][q], r \in Dated) /\ q \in Places(c, id)
      BY <1>1, <1>3
    <3> HIDE DEF parts
    <3> QED BY <3>1, TimeCovered
  <2> HIDE DEF parts, P, n
  <2> QED BY <1>2, <2>1 DEF Parts
<1>5. /\ DOMAIN seq = 1..n
      /\ \A k \in 1..n : seq[k] = InColumn(c, id, k - 1)
  <2>1. 0 \in 0..(n - 1)
    <3> HIDE DEF n
    <3> QED BY <1>2
  <2>2. DOMAIN seq = 1..n
    BY <2>1, ColumnIs
  <2>3. ASSUME NEW k \in 1..n PROVE seq[k] = InColumn(c, id, k - 1)
    <3>1. PICK j \in 0..(n - 1) : j = k - 1 /\ j + 1 = k
      <4> HIDE DEF n
      <4> QED BY <1>2
    <3>2. seq[j + 1] = id + j * ChunksPerSlice(c)
      BY ColumnIs
    <3> QED BY <3>1, <3>2 DEF InColumn
  <2> QED BY <2>2, <2>3
<1>6. base \in [P -> AccOf(r)]
  BY StartAcc
<1>7. ASSUME NEW k \in 1..n, NEW x \in [P -> AccOf(r)]
      PROVE  CombineTime(r, x, ChunkOf(c, seq[k]), bi, chunk_limits(c.n, c.s, seq[k]).low.t) = Merged(r, P, x, parts[k])
  <2>1. PICK i : i = seq[k]
    OBVIOUS
  <2>2. \A q \in P : parts[k][q] = TimePart(c, bi, i, q)
    BY <1>3, <1>5, <2>1
  <2>3. DOMAIN x = P /\ FirstSlice(c, i) = chunk_limits(c.n, c.s, i).low.t
    BY DEF FirstSlice
  <2> HIDE DEF P, parts, seq, n
  <2>4. CombineTime(r, x, ChunkOf(c, i), bi, chunk_limits(c.n, c.s, i).low.t)
          = [q \in P |-> AddAll(r, x[q], TimePart(c, bi, i, q))]
    BY <2>3 DEF CombineTime, TimePart
  <2>5. Merged(r, P, x, parts[k]) = [q \in P |-> AddAll(r, x[q], TimePart(c, bi, i, q))]
    BY <2>2 DEF Merged
  <2> QED BY <2>1, <2>4, <2>5
<1>8. HasMergeChain(r, P, n, parts, base, value)
  <2> HIDE DEF P, parts, seq, n, base
  <2>1. HasMergeChain(r, P, n, parts, base, TimeAll(c, r, bi, base, seq))
    BY <1>4, <1>5, <1>6, <1>7, TimeFold
  <2> QED BY <2>1 DEF TimeAccs, base, seq, P
<1>9. p \in P /\ base[p] = Start(r)
  BY <1>1
<1>10. AllTimePairs(c, id, bi, p, r, p, parts)
  BY <1>3, <1>9 DEF AllTimePairs
<1> HIDE DEF P, parts, base, value, seq, n
<1>11. MergedOverTime(c, id, bi, p, r, p, value)
  BY <1>8, <1>9, <1>10 DEF MergedOverTime, n
<1>12. Finish(r, value[p]) = Reduced(r, Having(c.data[bi], TimeCells(c, id, p, AllSlices(c))),
                                        ValuesOf(c.data[bi], TimeCells(c, id, p, AllSlices(c))))
  BY <1>11, TimeEnd
<1> QED BY <1>12 DEF value

\* The accumulators of a chunk of reduce, band by band.
BandAccs(c, r, id) ==
    BandsAll(c, r, chunk_size(TimeShape(c).n, TimeShape(c).s, id).y * chunk_size(TimeShape(c).n, TimeShape(c).s, id).x,
             [q \in 0..(c.nb * (chunk_size(TimeShape(c).n, TimeShape(c).s, id).y
                                * chunk_size(TimeShape(c).n, TimeShape(c).s, id).x) - 1) |-> Start(r)],
             Column(c, id))

BandPart(c, i, m, q) ==
    [j \in 1..ChunkOf(c, i).size.t |-> <<Value(ChunkOf(c, i), q \div m, j - 1, q % m), j - 1>>]

LEMMA BandAccsEnd ==
    ASSUME NEW c \in Inputs, NEW id \in ChunkIds(TimeShape(c).n, TimeShape(c).s), NEW p \in Places(c, id),
           NEW r \in Known, r \notin Dated, NEW bi \in 0..(c.nb - 1),
           NEW m, m = chunk_size(TimeShape(c).n, TimeShape(c).s, id).y * chunk_size(TimeShape(c).n, TimeShape(c).s, id).x,
           Exact(r, c.data[bi], TimeCells(c, id, p, AllSlices(c)))
    PROVE  FinishBands(r, BandAccs(c, r, id))[bi * m + p] =
              Reduced(r, Having(c.data[bi], TimeCells(c, id, p, AllSlices(c))),
                         ValuesOf(c.data[bi], TimeCells(c, id, p, AllSlices(c))))
<1> DEFINE n == Ceil(c.n.t, c.s.t)
           P == 0..(c.nb * m - 1)
           parts == [k \in 1..n |-> [q \in P |-> BandPart(c, InColumn(c, id, k - 1), m, q)]]
           base == [q \in P |-> Start(r)]
           seq == Column(c, id)
           value == BandAccs(c, r, id)
<1>1. /\ c.n \in Sizes /\ c.s \in Sizes /\ c.nb \in Nat \ {0} /\ id \in ChunkIds(c.n, c.s)
      /\ Places(c, id) = 0..(m - 1)
  BY InputIs, TimeRow DEF Places
<1>2. c.n.t \in Nat \ {0} /\ c.s.t \in Nat \ {0} /\ n \in Nat \ {0}
  BY <1>1, Radices
<1>3. m \in Nat \ {0}
  <2>1. TimeShape(c).n \in Sizes /\ TimeShape(c).s \in Sizes
    BY ShapesAre
  <2>2. PICK y \in Nat \ {0}, x \in Nat \ {0} :
            y = chunk_size(TimeShape(c).n, TimeShape(c).s, id).y /\ x = chunk_size(TimeShape(c).n, TimeShape(c).s, id).x
    BY <2>1, ChunkSizePositive
  <2>3. m = y * x /\ y * x \in Nat \ {0}
    BY <2>2, SMT
  <2> QED BY <2>3
<1>4. ASSUME NEW q \in P PROVE q \div m \in 0..(c.nb - 1) /\ q % m \in Places(c, id)
  <2>1. m * c.nb = c.nb * m
    BY <1>1, <1>3
  <2>2. q \in 0..(m * c.nb - 1)
    BY <2>1
  <2>3. q % m \in 0..(m - 1) /\ q \div m \in 0..(c.nb - 1)
    BY <1>1, <1>3, <2>2, TwoDigitsOf
  <2> QED BY <1>1, <2>3
<1>5. bi * m + p \in P /\ (bi * m + p) \div m = bi /\ (bi * m + p) % m = p
  <2>1. p \in 0..(m - 1)
    BY <1>1
  <2>2. m * bi + p \in 0..(m * c.nb - 1) /\ (m * bi + p) \div m = bi /\ (m * bi + p) % m = p
    <3>1. PICK N \in Nat \ {0}, M \in Nat \ {0} : N = c.nb /\ M = m
      BY <1>1, <1>3
    <3>2. PICK B \in 0..(N - 1), L \in 0..(M - 1) : B = bi /\ L = p
      BY <2>1, <3>1
    <3>3. M * B + L \in 0..(M * N - 1) /\ (M * B + L) \div M = B /\ (M * B + L) % M = L
      BY TwoDigits
    <3> QED BY <3>1, <3>2, <3>3
  <2>3. m * bi = bi * m /\ m * c.nb = c.nb * m
    BY <1>1, <1>3
  <2> QED BY <2>2, <2>3
<1>6. ASSUME NEW k \in 1..n, NEW q \in P
      PROVE  /\ TimePairs(c, id, q \div m, q % m, k, parts[k][q], r \in Dated)
             /\ parts[k][q] = BandPart(c, InColumn(c, id, k - 1), m, q)
  <2> DEFINE i == InColumn(c, id, k - 1)
  <2>1. parts[k][q] = BandPart(c, i, m, q)
    OBVIOUS
  <2>2. k - 1 \in Int /\ RowOf(c, id, k - 1) \in Rows(c)
    <3>1. k - 1 \in Int /\ k - 1 \in Rows(c)
      <4> HIDE DEF n
      <4>1. k - 1 \in 0..(n - 1)
        BY <1>2
      <4> QED BY <4>1 DEF Rows, n
    <3> QED BY <3>1, TimeRow
  <2>3. SlicesOf(c, i) \in 1..c.s.t
    BY <1>1, <2>2, ColumnSizes
  <2>4. /\ i \in c.empty => ChunkOf(c, i).size.t = 0
        /\ i \notin c.empty => ChunkOf(c, i).size.t = SlicesOf(c, i)
    <3>1. q \div m \in 0..(c.nb - 1) /\ q % m \in Places(c, id)
      BY <1>4
    <3> QED BY <1>1, <2>2, <3>1, ColumnValue DEF Places
  <2> HIDE DEF i, parts, n, P
  <2>5. ChunkOf(c, i).size.t \in Nat
    BY <1>2, <2>3, <2>4
  <2>6. DOMAIN parts[k][q] = 1..ChunkOf(c, i).size.t
    BY <2>1 DEF BandPart
  <2>7. ASSUME NEW j \in 1..ChunkOf(c, i).size.t
        PROVE  /\ parts[k][q][j][1] = Value(ChunkOf(c, i), q \div m, j - 1, q % m)
               /\ parts[k][q][j][2] \in Int
    <3>1. parts[k][q][j] = <<Value(ChunkOf(c, i), q \div m, j - 1, q % m), j - 1>>
      BY <2>1 DEF BandPart
    <3> QED BY <2>5, <3>1
  <2> QED BY <2>1, <2>6, <2>7 DEF TimePairs, i
<1>7. Parts(P, n, parts)
  <2>1. ASSUME NEW k \in 1..n, NEW q \in P PROVE \E h : Pairs(h, parts[k][q])
    <3>1. PICK B \in 0..(c.nb - 1), L \in Places(c, id) : B = q \div m /\ L = q % m
      BY <1>4
    <3>2. TimePairs(c, id, B, L, k, parts[k][q], r \in Dated)
      BY <1>6, <3>1
    <3> HIDE DEF parts
    <3> QED BY <3>2, TimeCovered
  <2> HIDE DEF parts, P, n
  <2> QED BY <1>2, <2>1 DEF Parts
<1>8. /\ DOMAIN seq = 1..n
      /\ \A k \in 1..n : seq[k] = InColumn(c, id, k - 1)
  <2>1. 0 \in 0..(n - 1)
    <3> HIDE DEF n
    <3> QED BY <1>2
  <2>2. DOMAIN seq = 1..n
    BY <2>1, ColumnIs
  <2>3. ASSUME NEW k \in 1..n PROVE seq[k] = InColumn(c, id, k - 1)
    <3>1. PICK j \in 0..(n - 1) : j = k - 1 /\ j + 1 = k
      <4> HIDE DEF n
      <4> QED BY <1>2
    <3>2. seq[j + 1] = id + j * ChunksPerSlice(c)
      BY ColumnIs
    <3> QED BY <3>1, <3>2 DEF InColumn
  <2> QED BY <2>2, <2>3
<1>9. base \in [P -> AccOf(r)]
  BY StartAcc
<1>10. ASSUME NEW k \in 1..n, NEW x \in [P -> AccOf(r)]
       PROVE  CombineBands(r, x, ChunkOf(c, seq[k]), m) = Merged(r, P, x, parts[k])
  <2>1. PICK i : i = seq[k]
    OBVIOUS
  <2>2. \A q \in P : parts[k][q] = BandPart(c, i, m, q)
    BY <1>6, <1>8, <2>1
  <2>3. DOMAIN x = P
    OBVIOUS
  <2> HIDE DEF P, parts, seq, n
  <2>4. CombineBands(r, x, ChunkOf(c, i), m) = [q \in P |-> AddAll(r, x[q], BandPart(c, i, m, q))]
    BY <2>3 DEF CombineBands, BandPart
  <2>5. Merged(r, P, x, parts[k]) = [q \in P |-> AddAll(r, x[q], BandPart(c, i, m, q))]
    BY <2>2 DEF Merged
  <2> QED BY <2>1, <2>4, <2>5
<1>11. HasMergeChain(r, P, n, parts, base, value)
  <2>1. value = BandsAll(c, r, m, base, seq)
    BY DEF BandAccs
  <2> HIDE DEF P, parts, seq, n, base, value
  <2>2. HasMergeChain(r, P, n, parts, base, BandsAll(c, r, m, base, seq))
    BY <1>7, <1>8, <1>9, <1>10, BandsFold
  <2> QED BY <2>1, <2>2
<1>12. DOMAIN value = P
  <2> HIDE DEF P, parts, n, base, value
  <2>1. PICK u : (\A k \in 1..n : u[k] = Merged(r, P, u[k - 1], parts[k])) /\ value = u[n]
    BY <1>11 DEF HasMergeChain
  <2>2. n \in 1..n
    BY <1>2
  <2> QED BY <2>1, <2>2 DEF Merged
<1>13. PICK q \in P : q = bi * m + p /\ q \div m = bi /\ q % m = p
  BY <1>5
<1>14. AllTimePairs(c, id, bi, p, r, q, parts)
  BY <1>6, <1>13 DEF AllTimePairs
<1>15. base[q] = Start(r)
  OBVIOUS
<1> HIDE DEF P, parts, base, value, seq, n
<1>16. MergedOverTime(c, id, bi, p, r, q, value)
  BY <1>11, <1>13, <1>14, <1>15 DEF MergedOverTime, n
<1>17. Finish(r, value[q]) = Reduced(r, Having(c.data[bi], TimeCells(c, id, p, AllSlices(c))),
                                        ValuesOf(c.data[bi], TimeCells(c, id, p, AllSlices(c))))
  BY <1>16, TimeEnd
<1>18. FinishBands(r, value)[q] = Finish(r, value[q])
  BY <1>12 DEF FinishBands
<1> QED BY <1>13, <1>17, <1>18 DEF value

\* What the buffers of the two reductions hold.
LEMMA ReduceTimeValue ==
    ASSUME NEW c, NEW rb, NEW id, c.n.t # 1, NEW out, out = reduce_time(c, rb, id), Len(rb) \in Nat,
           FullSize(out.size), NEW b \in 0..(out.size.b - 1), NEW t \in 0..(out.size.t - 1),
           NEW p \in 0..(out.size.y * out.size.x - 1)
    PROVE  Value(out, b, t, p) = Finish(rb[b + 1].r, TimeAccs(c, rb[b + 1].r, rb[b + 1].b, id)[p])
<1> DEFINE z == chunk_size(TimeShape(c).n, TimeShape(c).s, id)
           accs == [e \in 0..(Len(rb) - 1) |-> TimeAccs(c, rb[e + 1].r, rb[e + 1].b, id)]
           y == [b |-> Len(rb), t |-> 1, y |-> z.y, x |-> z.x]
           k == Index(y, b, t, p)
           F(e, h, q) == Finish(rb[e + 1].r, accs[e][q])
<1>0. out = [size |-> y, buf |-> [j \in 0..(Volume(y) - 1) |->
                   F(j \div (y.t * y.y * y.x), (j \div (y.y * y.x)) % y.t, j % (y.y * y.x))]]
  BY DEF reduce_time, Chunk, TimeAccs, TimeAll, TimePlaces
<1>1. /\ out.size = y
      /\ out.buf = [j \in 0..(Volume(y) - 1) |->
                   F(j \div (y.t * y.y * y.x), (j \div (y.y * y.x)) % y.t, j % (y.y * y.x))]
  <2> HIDE DEF F, y
  <2> QED BY <1>0
<1>2. Value(out, b, t, p) = out.buf[k]
  <2> HIDE DEF y
  <2> QED BY <1>1 DEF Value, Index
<1>3. /\ k \in 0..(Volume(y) - 1) /\ k \div (y.t * y.y * y.x) = b
      /\ (k \div (y.y * y.x)) % y.t = t /\ k % (y.y * y.x) = p
  <2> HIDE DEF y
  <2>1. /\ FullSize(y) /\ b \in 0..(y.b - 1) /\ t \in 0..(y.t - 1) /\ p \in 0..(y.y * y.x - 1)
    BY <1>1
  <2> QED BY <2>1, IndexIs
<1>4. b \in 0..(Len(rb) - 1)
  <2>1. y.b = Len(rb)
    OBVIOUS
  <2> HIDE DEF y
  <2> QED BY <1>1, <2>1
<1>5. F(b, t, p) = Finish(rb[b + 1].r, TimeAccs(c, rb[b + 1].r, rb[b + 1].b, id)[p])
  BY <1>4
<1> HIDE DEF k, y, F
<1>6. out.buf[k] = F(b, t, p)
  BY <1>1, <1>3
<1> QED BY <1>2, <1>5, <1>6

LEMMA ReduceValue ==
    ASSUME NEW c, NEW r, NEW id, c.n.t # 1, NEW out, out = reduce(c, r, id),
           FullSize(out.size), NEW b \in 0..(out.size.b - 1), NEW t \in 0..(out.size.t - 1),
           NEW p \in 0..(out.size.y * out.size.x - 1)
    PROVE  Value(out, b, t, p) = FinishBands(r, BandAccs(c, r, id))[b * (out.size.y * out.size.x) + p]
<1> DEFINE z == chunk_size(TimeShape(c).n, TimeShape(c).s, id)
           m == z.y * z.x
           accs == FinishBands(r, BandAccs(c, r, id))
           y == [b |-> c.nb, t |-> 1, y |-> z.y, x |-> z.x]
           k == Index(y, b, t, p)
           F(e, h, q) == accs[e * m + q]
<1>0. out = [size |-> y, buf |-> [j \in 0..(Volume(y) - 1) |->
                   F(j \div (y.t * y.y * y.x), (j \div (y.y * y.x)) % y.t, j % (y.y * y.x))]]
  BY DEF reduce, Chunk, BandAccs, BandsAll
<1>1. /\ out.size = y
      /\ out.buf = [j \in 0..(Volume(y) - 1) |->
                   F(j \div (y.t * y.y * y.x), (j \div (y.y * y.x)) % y.t, j % (y.y * y.x))]
  <2> HIDE DEF F, y
  <2> QED BY <1>0
<1>2. Value(out, b, t, p) = out.buf[k]
  <2> HIDE DEF y
  <2> QED BY <1>1 DEF Value, Index
<1>3. /\ k \in 0..(Volume(y) - 1) /\ k \div (y.t * y.y * y.x) = b
      /\ (k \div (y.y * y.x)) % y.t = t /\ k % (y.y * y.x) = p
  <2> HIDE DEF y
  <2>1. /\ FullSize(y) /\ b \in 0..(y.b - 1) /\ t \in 0..(y.t - 1) /\ p \in 0..(y.y * y.x - 1)
    BY <1>1
  <2> QED BY <2>1, IndexIs
<1>4. F(b, t, p) = accs[b * (out.size.y * out.size.x) + p]
  <2>1. y.y = z.y /\ y.x = z.x
    OBVIOUS
  <2> HIDE DEF y, accs, z
  <2> QED BY <1>1, <2>1
<1> HIDE DEF k, y, F
<1>6. out.buf[k] = F(b, t, p)
  BY <1>1, <1>3
<1> QED BY <1>2, <1>4, <1>6

\* The value v is what the values of the cells S reduce to.
ReducedTo(rb, S, v) ==
    Exact(rb.r, cube.data[rb.b], S)
        => v = Reduced(rb.r, Having(cube.data[rb.b], S), ValuesOf(cube.data[rb.b], S))

\* The reducers of an operation.
LEMMA ReducersGiven ==
    ASSUME Inputs2, op.kind \in {"reduce_time", "reduce_space"}
    PROVE  /\ Len(op.reducer_bands) \in Nat /\ ReducerBands = op.reducer_bands
           /\ \A k \in 1..Len(op.reducer_bands) :
                /\ ReducerBands[k].r \in Known /\ ReducerBands[k].b \in 0..(cube.nb - 1)
                /\ op.kind = "reduce_space" => ReducerBands[k].r \notin Dated
<1>1. ReducerBands = op.reducer_bands /\ op.uses \subseteq 0..(cube.nb - 1)
  BY DEF ReducerBands, Inputs2
<1>2. CASE op.kind = "reduce_time"
  <2>1. op.reducer_bands \in Seq([r : Known, b : op.uses])
    BY <1>2, OperationsAssumption DEF Inputs2, Known
  <2>2. \A k \in 1..Len(op.reducer_bands) : op.reducer_bands[k] \in [r : Known, b : op.uses]
    BY <2>1, ElementOfSeq
  <2> QED BY <1>1, <1>2, <2>1, <2>2
<1>3. CASE op.kind = "reduce_space"
  <2>1. op.reducer_bands \in Seq([r : Known \ Dated, b : op.uses])
    BY <1>3, OperationsAssumption DEF Inputs2, Known
  <2>2. \A k \in 1..Len(op.reducer_bands) : op.reducer_bands[k] \in [r : Known \ Dated, b : op.uses]
    BY <2>1, ElementOfSeq
  <2> QED BY <1>1, <1>3, <2>1, <2>2
<1> QED BY <1>2, <1>3

\* The cells of a pixel are the sources of the cell it is reduced to.
LEMMA TimeSources ==
    ASSUME RInv, read # Nothing, op.kind \in {"reduce_time", "reduce"},
           NEW t, NEW p \in Places(cube, read.id),
           read.out.size.x = chunk_size(TimeShape(cube).n, TimeShape(cube).s, read.id).x
    PROVE  Sources(OutCell(t, p)) = TimeCells(cube, read.id, p, AllSlices(cube))
<1> DEFINE id == read.id
           n == TimeShape(cube).n
           s == TimeShape(cube).s
           a == chunk_limits(cube.n, cube.s, id)
           b == chunk_limits(n, s, id)
           z == chunk_size(cube.n, cube.s, id)
           cell == OutCell(t, p)
           Y == a.high.y - (p \div z.x)
           X == a.low.x + (p % z.x)
<1>1. OutShape = TimeShape(cube) /\ id \in ChunkIds(n, s) /\ cube \in Inputs
  BY DEF RInv, Returned, Inputs2, OutShape
<1>2. id \in ChunkIds(cube.n, cube.s) /\ z.x = chunk_size(n, s, id).x /\ a.high.y = b.high.y /\ a.low.x = b.low.x
  BY <1>1, TimeRow
<1>3. a.high.y \in Int /\ p \div z.x \in Int
  <2>1. cube.n \in Sizes /\ cube.s \in Sizes
    BY <1>1, InputIs
  <2>2. /\ a.low.y \in 0..(cube.n.y - 1) /\ a.high.y \in a.low.y..(cube.n.y - 1)
    BY <1>2, <2>1, ChunkLimits
  <2>3. z.x \in Nat \ {0}
    BY <1>2, <2>1, ChunkSizePositive
  <2>4. p \in Nat
    BY DEF Places
  <2> HIDE DEF a, z
  <2> QED BY <2>2, <2>3, <2>4, Division
<1>4. cell.y = Y /\ cell.x = X
  <2> DEFINE e == Place(read.out, t, p)
  <2>1. cell = [t |-> b.low.t + e.t, y |-> (b.high.y + 1) - 1 - e.row, x |-> b.low.x + e.col]
    BY <1>1, ElementCellIs DEF OutCell
  <2>2. e.row = p \div z.x /\ e.col = p % z.x
    BY <1>2 DEF Place
  <2> HIDE DEF e, b, a, z, cell
  <2>3. cell.y = (b.high.y + 1) - 1 - e.row /\ cell.x = b.low.x + e.col
    BY <2>1
  <2>4. (b.high.y + 1) - 1 - e.row = a.high.y - e.row
    BY <1>2, <1>3, <2>2
  <2> QED BY <1>2, <2>2, <2>3, <2>4
<1>5. Sources(cell) = {k \in Cells(cube.n) : k.y = cell.y /\ k.x = cell.x}
  BY DEF Sources
<1>6. /\ \A u : TimeCell(cube, id, p, u) = [t |-> u, y |-> Y, x |-> X]
      /\ \A u \in AllSlices(cube) : TimeCell(cube, id, p, u) \in Cells(cube.n)
  BY <1>1, <1>2, TimeCellIs
<1> HIDE DEF Y, X, cell
<1>7. ASSUME NEW k \in Cells(cube.n), k.y = Y, k.x = X PROVE k \in TimeCells(cube, id, p, AllSlices(cube))
  <2>1. k.t \in AllSlices(cube) /\ k = [t |-> k.t, y |-> Y, x |-> X]
    BY <1>7 DEF Cells, AllSlices
  <2> QED BY <1>6, <2>1 DEF TimeCells
<1>8. ASSUME NEW u \in AllSlices(cube) PROVE TimeCell(cube, id, p, u) \in Sources(cell)
  <2>1. PICK k \in Cells(cube.n) : k = TimeCell(cube, id, p, u)
    BY <1>6
  <2>2. k = [t |-> u, y |-> Y, x |-> X]
    BY <1>6, <2>1
  <2>3. k.y = Y /\ k.x = X
    BY <2>2
  <2> QED BY <1>4, <1>5, <2>1, <2>3
<1>9. TimeCells(cube, id, p, AllSlices(cube)) \subseteq Sources(cell)
  BY <1>8 DEF TimeCells
<1>10. Sources(cell) \subseteq TimeCells(cube, id, p, AllSlices(cube))
  BY <1>4, <1>5, <1>7
<1> QED BY <1>9, <1>10 DEF cell

LEMMA TimeAgrees ==
    ASSUME RInv, read # Nothing, op.kind \in {"reduce_time", "reduce"}, cube.n.t # 1,
           NEW b \in 0..(read.out.size.b - 1), NEW t \in 0..(read.out.size.t - 1),
           NEW p \in 0..(read.out.size.y * read.out.size.x - 1)
    PROVE  ReducedTo(ReducerBands[b + 1], Sources(OutCell(t, p)), Value(read.out, b, t, p))
<1> DEFINE id == read.id
           z == chunk_size(TimeShape(cube).n, TimeShape(cube).s, id)
           S == TimeCells(cube, id, p, AllSlices(cube))
<1>1. /\ id \in ChunkIds(TimeShape(cube).n, TimeShape(cube).s)
      /\ cube \in Inputs /\ Inputs2
  BY DEF RInv, Returned, Inputs2, OutShape
<1>2. /\ cube.nb \in Nat \ {0} /\ id \in ChunkIds(cube.n, cube.s)
      /\ chunk_size(cube.n, cube.s, id).y = z.y /\ chunk_size(cube.n, cube.s, id).x = z.x
  BY <1>1, InputIs, TimeRow
<1>3. z.y \in Nat \ {0} /\ z.x \in Nat \ {0}
  <2>1. TimeShape(cube).n \in Sizes /\ TimeShape(cube).s \in Sizes
    BY <1>1, ShapesAre
  <2> QED BY <1>1, <2>1, ChunkSizePositive
<1> DEFINE nb == IF op.kind = "reduce" THEN cube.nb ELSE Len(op.reducer_bands)
<1>4. nb \in Nat
  BY <1>1, <1>2, ReducersGiven
<1>5. read.out.size = [b |-> nb, t |-> 1, y |-> z.y, x |-> z.x]
  <2>1. CASE op.kind = "reduce_time"
    <3>1. read.out = reduce_time(cube, op.reducer_bands, id)
      BY <2>1, WhatIsRead
    <3>2. ShapeOf(read.out, [b |-> Len(op.reducer_bands), t |-> 1, y |-> z.y, x |-> z.x])
      BY <3>1, ReduceTimeShape
    <3> QED BY <2>1, <3>2 DEF ShapeOf
  <2>2. CASE op.kind = "reduce"
    <3>1. read.out = reduce(cube, op.reducer, id)
      BY <2>2, WhatIsRead
    <3>2. ShapeOf(read.out, [b |-> cube.nb, t |-> 1, y |-> z.y, x |-> z.x])
      BY <3>1, ReduceShape
    <3> QED BY <2>2, <3>2 DEF ShapeOf
  <2> QED BY <2>1, <2>2
<1> HIDE DEF z, nb
<1>6. /\ FullSize(read.out.size) /\ b \in 0..(nb - 1) /\ p \in Places(cube, id)
      /\ read.out.size.y = z.y /\ read.out.size.x = z.x
  BY <1>2, <1>3, <1>4, <1>5 DEF FullSize, Places
<1>7. Sources(OutCell(t, p)) = S
  BY <1>1, <1>6, TimeSources DEF z
<1>8. CASE op.kind = "reduce_time"
  <2>1. read.out = reduce_time(cube, op.reducer_bands, id) /\ Len(op.reducer_bands) \in Nat
    BY <1>1, <1>8, WhatIsRead, ReducersGiven
  <2> DEFINE rb == ReducerBands[b + 1]
  <2>2. b + 1 \in 1..Len(op.reducer_bands)
    BY <1>4, <1>6, <1>8 DEF nb
  <2>3. rb.r \in Known /\ rb.b \in 0..(cube.nb - 1) /\ rb = op.reducer_bands[b + 1]
    BY <1>1, <1>8, <2>2, ReducersGiven
  <2>4. Value(read.out, b, t, p) = Finish(rb.r, TimeAccs(cube, rb.r, rb.b, id)[p])
    BY <1>6, <2>1, <2>3, ReduceTimeValue
  <2> HIDE DEF rb
  <2>5. PICK r \in Known, bi \in 0..(cube.nb - 1) : r = rb.r /\ bi = rb.b
    BY <2>3
  <2>6. ASSUME Exact(r, cube.data[bi], S)
        PROVE  Finish(r, TimeAccs(cube, r, bi, id)[p]) = Reduced(r, Having(cube.data[bi], S), ValuesOf(cube.data[bi], S))
    BY <1>1, <1>6, <2>6, TimeAccsEnd
  <2> HIDE DEF S
  <2>7. ReducedTo(rb, S, Value(read.out, b, t, p))
    BY <2>4, <2>5, <2>6 DEF ReducedTo
  <2> QED BY <1>7, <2>7 DEF rb
<1>9. CASE op.kind = "reduce"
  <2>1. read.out = reduce(cube, op.reducer, id)
    BY <1>9, WhatIsRead
  <2> DEFINE rb == ReducerBands[b + 1]
             m == z.y * z.x
  <2>2. b \in 0..(cube.nb - 1) /\ b + 1 \in 1..cube.nb /\ (b + 1) - 1 = b
    BY <1>2, <1>6, <1>9 DEF nb
  <2>3. rb.r = op.reducer /\ rb.b = b
    BY <1>9, <2>2 DEF ReducerBands
  <2>4. op.reducer \in Known /\ op.reducer \notin Dated
    BY <1>1, <1>9, OperationsAssumption DEF Inputs2, Known
  <2>5. Value(read.out, b, t, p) = FinishBands(op.reducer, BandAccs(cube, op.reducer, id))[b * m + p]
    BY <1>6, <2>1, ReduceValue
  <2>6. PICK r \in Known : r = op.reducer /\ r \notin Dated
    BY <2>4
  <2>7. ASSUME Exact(r, cube.data[b], S)
        PROVE  FinishBands(r, BandAccs(cube, r, id))[b * m + p]
                  = Reduced(r, Having(cube.data[b], S), ValuesOf(cube.data[b], S))
    BY <1>1, <1>6, <2>2, <2>6, <2>7, BandAccsEnd DEF z
  <2> HIDE DEF S, rb, m
  <2>8. ReducedTo(rb, S, Value(read.out, b, t, p))
    BY <2>3, <2>5, <2>6, <2>7 DEF ReducedTo
  <2> QED BY <1>7, <2>8 DEF rb
<1> QED BY <1>8, <1>9

-------------------------------------------------------------------------------
\* Reducing over space: the cells of one slice, chunk after chunk of a row.

\* The k-th chunk of row id, and the first slice and the slices of the row.
InSlice(c, id, k) == id * ChunksPerSlice(c) + k - 1

SpaceFirst(c, id) == chunk_limits(SpaceShape(c).n, SpaceShape(c).s, id).low.t

SpaceSlices(c, id) == chunk_size(SpaceShape(c).n, SpaceShape(c).s, id).t

\* The cells of slice t of a row, and those in its first k chunks.
SpaceCells(c, id, t) == {e \in Cells(c.n) : e.t = SpaceFirst(c, id) + t}

FirstFound(c, id, t, k) ==
    {e \in SpaceCells(c, id, t) : find_chunk_that_contains(c.n, c.s, e) < id * ChunksPerSlice(c) + k}

LEMMA SpaceRow ==
    ASSUME NEW c \in Inputs, NEW id \in ChunkIds(SpaceShape(c).n, SpaceShape(c).s)
    PROVE  /\ ChunksPerSlice(c) \in Nat \ {0} /\ id \in 0..(Ceil(c.n.t, c.s.t) - 1)
           /\ SpaceFirst(c, id) = Low(c.n.t, c.s.t, id)
           /\ SpaceFirst(c, id) \in 0..(c.n.t - 1) /\ SpaceSlices(c, id) \in Nat \ {0}
           /\ SpaceFirst(c, id) + SpaceSlices(c, id) - 1 = High(c.n.t, c.s.t, id)
           /\ SpaceFirst(c, id) + SpaceSlices(c, id) - 1 \in 0..(c.n.t - 1)
           /\ \A k \in 1..ChunksPerSlice(c) :
                /\ InSlice(c, id, k) \in ChunkIds(c.n, c.s)
                /\ chunk_limits(c.n, c.s, InSlice(c, id, k)).low.t = SpaceFirst(c, id)
                /\ chunk_size(c.n, c.s, InSlice(c, id, k)).t = SpaceSlices(c, id)
<1> DEFINE n == SpaceShape(c).n
           s == SpaceShape(c).s
           M == ChunksPerSlice(c)
           T == Ceil(c.n.t, c.s.t)
           X == Ceil(c.n.x, c.s.x)
           Y == Ceil(c.n.y, c.s.y)
           b == chunk_limits(n, s, id)
<1>1. /\ c.n \in Sizes /\ c.s \in Sizes /\ n \in Sizes /\ s \in Sizes
      /\ n.t = c.n.t /\ n.y = 1 /\ n.x = 1 /\ s.t = c.s.t /\ s.y = 1 /\ s.x = 1
  BY InputIs, ShapesAre
<1>2. /\ X \in Nat \ {0} /\ Y \in Nat \ {0} /\ T \in Nat \ {0}
      /\ c.n.t \in Nat \ {0} /\ c.s.t \in Nat \ {0}
  BY <1>1, Radices
<1>3. M \in Nat \ {0} /\ M = Y * X /\ M = X * Y
  <2> HIDE DEF X, Y
  <2>1. M = Y * X
    BY DEF ChunksPerSlice, X, Y
  <2> QED BY <1>2, <2>1, SMT
<1>4. Ceil(n.t, s.t) = T /\ Ceil(n.y, s.y) = 1 /\ Ceil(n.x, s.x) = 1
  <2>1. 1 \in Nat \ {0}
    OBVIOUS
  <2> QED BY <1>1, <2>1, OneChunk
<1>5. id \in 0..(T - 1)
  <2> HIDE DEF T, n, s
  <2> QED BY <1>2, <1>4 DEF ChunkIds, count_chunks, n, s
<1>6. b.low.t = Low(c.n.t, c.s.t, id) /\ b.high.t = High(c.n.t, c.s.t, id)
  <2>1. chunk_coords_from_id(n, s, id).t = (id \div (Ceil(n.x, s.x) * Ceil(n.y, s.y))) % Ceil(n.t, s.t)
    BY DEF chunk_coords_from_id
  <2>2. (id \div (1 * 1)) % T = id
    <3> HIDE DEF T
    <3>1. id \div 1 = id
      BY <1>5, Quotient
    <3>2. id % T = id
      BY <1>2, <1>5
    <3> QED BY <3>1, <3>2
  <2>3. chunk_coords_from_id(n, s, id).t = id
    BY <1>4, <2>1, <2>2
  <2>4. /\ b.low.t = Low(n.t, s.t, chunk_coords_from_id(n, s, id).t)
        /\ b.high.t = High(n.t, s.t, chunk_coords_from_id(n, s, id).t)
    BY DEF chunk_limits, limits_of_coords
  <2> QED BY <1>1, <2>3, <2>4
<1>7. SpaceFirst(c, id) = b.low.t /\ SpaceSlices(c, id) = b.high.t - b.low.t + 1
  BY DEF SpaceFirst, SpaceSlices, chunk_size, SizeOf
<1>8. b.low.t \in 0..(c.n.t - 1) /\ b.high.t \in b.low.t..(c.n.t - 1)
  BY <1>2, <1>5, <1>6, LimitsInside
<1> HIDE DEF b, n, s
<1>9. ASSUME NEW k \in 1..M
      PROVE  /\ InSlice(c, id, k) \in ChunkIds(c.n, c.s)
             /\ chunk_limits(c.n, c.s, InSlice(c, id, k)).low.t = b.low.t
             /\ chunk_size(c.n, c.s, InSlice(c, id, k)).t = b.high.t - b.low.t + 1
  <2> DEFINE i == InSlice(c, id, k)
             a == chunk_limits(c.n, c.s, i)
  <2>1. PICK m \in Nat \ {0}, t \in Nat \ {0} : m = M /\ t = T
    BY <1>2, <1>3
  <2>2. PICK h \in 0..(m - 1), j \in 0..(t - 1) : h = k - 1 /\ j = id
    <3>1. k - 1 \in 0..(M - 1)
      BY <1>3
    <3> QED BY <1>5, <2>1, <3>1
  <2>3. m * j + h \in 0..(m * t - 1) /\ (m * j + h) \div m = j
    BY TwoDigits
  <2>4. i = m * j + h
    <3>1. i = j * m + k - 1
      BY <2>1, <2>2 DEF InSlice
    <3>2. j * m = m * j /\ m * j \in Int
      BY <2>1, <2>2
    <3> HIDE DEF i
    <3> QED BY <2>2, <3>1, <3>2
  <2>5. i \in ChunkIds(c.n, c.s)
    <3>1. count_chunks(c.n, c.s) = m * t
      BY <1>3, <2>1 DEF count_chunks
    <3> HIDE DEF i
    <3> QED BY <2>3, <2>4, <3>1 DEF ChunkIds
  <2>6. chunk_coords_from_id(c.n, c.s, i).t = id
    <3>1. chunk_coords_from_id(c.n, c.s, i).t = (i \div (X * Y)) % T
      BY DEF chunk_coords_from_id
    <3>2. i \div (X * Y) = id
      BY <1>3, <2>1, <2>2, <2>3, <2>4
    <3>3. id % T = id
      <4> HIDE DEF T
      <4> QED BY <1>2, <1>5
    <3> QED BY <3>1, <3>2, <3>3
  <2>7. a.low.t = Low(c.n.t, c.s.t, id) /\ a.high.t = High(c.n.t, c.s.t, id)
    <3>1. /\ a.low.t = Low(c.n.t, c.s.t, chunk_coords_from_id(c.n, c.s, i).t)
          /\ a.high.t = High(c.n.t, c.s.t, chunk_coords_from_id(c.n, c.s, i).t)
      BY DEF chunk_limits, limits_of_coords
    <3> QED BY <2>6, <3>1
  <2>8. chunk_size(c.n, c.s, i).t = a.high.t - a.low.t + 1
    BY DEF chunk_size, SizeOf
  <2> HIDE DEF a, i
  <2> QED BY <1>6, <2>5, <2>7, <2>8 DEF a, i
<1>10. /\ b.high.t - b.low.t + 1 \in Nat \ {0} /\ b.low.t + (b.high.t - b.low.t + 1) - 1 = b.high.t
       /\ b.high.t \in 0..(c.n.t - 1)
  BY <1>2, <1>8
<1> HIDE DEF M, T
<1> QED BY <1>3, <1>5, <1>6, <1>7, <1>8, <1>9, <1>10 DEF M, T

\* The chunk of a cell is one of its row.
LEMMA FoundInRow ==
    ASSUME NEW c \in Inputs, NEW id \in ChunkIds(SpaceShape(c).n, SpaceShape(c).s),
           NEW t \in 0..(SpaceSlices(c, id) - 1), NEW e \in SpaceCells(c, id, t)
    PROVE  /\ find_chunk_that_contains(c.n, c.s, e) \in Int
           /\ id * ChunksPerSlice(c) <= find_chunk_that_contains(c.n, c.s, e)
           /\ find_chunk_that_contains(c.n, c.s, e) < id * ChunksPerSlice(c) + ChunksPerSlice(c)
<1> DEFINE M == ChunksPerSlice(c)
           X == Ceil(c.n.x, c.s.x)
           Y == Ceil(c.n.y, c.s.y)
           f == find_chunk_that_contains(c.n, c.s, e)
<1>1. c.n \in Sizes /\ c.s \in Sizes /\ e \in Cells(c.n) /\ e.t = SpaceFirst(c, id) + t
  BY InputIs DEF SpaceCells
<1>2. X \in Nat \ {0} /\ Y \in Nat \ {0} /\ c.n.t \in Nat \ {0} /\ c.s.t \in Nat \ {0}
  BY <1>1, Radices
<1>3. /\ id \in 0..(Ceil(c.n.t, c.s.t) - 1) /\ M \in Nat \ {0} /\ SpaceSlices(c, id) \in Nat \ {0}
      /\ SpaceFirst(c, id) = Low(c.n.t, c.s.t, id) /\ SpaceFirst(c, id) \in 0..(c.n.t - 1)
      /\ SpaceFirst(c, id) + SpaceSlices(c, id) - 1 = High(c.n.t, c.s.t, id)
  BY SpaceRow
<1>4. e.t \div c.s.t = id
  <2>1. e.t \in Low(c.n.t, c.s.t, id)..High(c.n.t, c.s.t, id)
    BY <1>1, <1>2, <1>3
  <2> QED BY <1>2, <1>3, <2>1, CellUnique
<1>5. e.x \div c.s.x \in 0..(X - 1) /\ e.y \div c.s.y \in 0..(Y - 1)
  <2>1. [x |-> e.x \div c.s.x, y |-> e.y \div c.s.y, t |-> e.t \div c.s.t] \in Coords(c.n, c.s)
    BY <1>1, FoundCoords
  <2> QED BY <2>1 DEF Coords
<1>6. PICK x \in 0..(X - 1), y \in 0..(Y - 1) : x = e.x \div c.s.x /\ y = e.y \div c.s.y
  BY <1>5
<1>7. f = x + X * y + X * Y * id
  BY <1>4, <1>6 DEF find_chunk_that_contains
<1>8. M = Y * X
  BY DEF ChunksPerSlice
<1> HIDE DEF X, Y, f, M
<1>9. X * y + x \in 0..(X * Y - 1)
  BY <1>2, TwoDigits
<1>10. PICK h \in Int, k \in Int : h = X * y + x /\ k = id * M
  <2>1. X * y + x \in Int
    BY <1>2, <1>6
  <2>2. id * M \in Int
    BY <1>3
  <2> QED BY <2>1, <2>2
<1>11. f = h + k /\ X * Y = M
  <2>1. X * Y = M
    BY <1>2, <1>8
  <2>2. x + X * y = X * y + x
    BY <1>2, <1>6
  <2>3. M * id = id * M
    BY <1>3
  <2> QED BY <1>7, <1>10, <2>1, <2>2, <2>3
<1>12. f \in Int /\ id * M <= f /\ f < id * M + M
  BY <1>3, <1>9, <1>10, <1>11
<1> QED BY <1>12 DEF f, M

\* The cell of the j-th value of slice t in the k-th chunk of a row, and how many there are.
SpaceCell(c, id, t, k, j) ==
    ElementCell(c.n, c.s, InSlice(c, id, k),
                ElementOf(chunk_size(c.n, c.s, InSlice(c, id, k)), t, j - 1))

SpaceCount(c, id, k) ==
    chunk_size(c.n, c.s, InSlice(c, id, k)).y * chunk_size(c.n, c.s, InSlice(c, id, k)).x

LEMMA SpaceCellsAre ==
    ASSUME NEW c \in Inputs, NEW id \in ChunkIds(SpaceShape(c).n, SpaceShape(c).s),
           NEW t \in 0..(SpaceSlices(c, id) - 1), NEW k \in 1..ChunksPerSlice(c)
    PROVE  /\ SpaceCount(c, id, k) \in Nat
           /\ FirstFound(c, id, t, k - 1) \subseteq FirstFound(c, id, t, k)
           /\ FirstFound(c, id, t, k) \subseteq SpaceCells(c, id, t)
           /\ \A j \in 1..SpaceCount(c, id, k) :
                /\ SpaceCell(c, id, t, k, j) \in FirstFound(c, id, t, k)
                /\ SpaceCell(c, id, t, k, j) \notin FirstFound(c, id, t, k - 1)
           /\ \A h, j \in 1..SpaceCount(c, id, k) :
                SpaceCell(c, id, t, k, h) = SpaceCell(c, id, t, k, j) => h = j
           /\ \A e \in FirstFound(c, id, t, k) \ FirstFound(c, id, t, k - 1) :
                \E j \in 1..SpaceCount(c, id, k) : e = SpaceCell(c, id, t, k, j)
<1> DEFINE n == c.n
           s == c.s
           i == InSlice(c, id, k)
           z == chunk_size(n, s, i)
           a == chunk_limits(n, s, i)
           m == SpaceCount(c, id, k)
           lo == id * ChunksPerSlice(c)
           F(e) == find_chunk_that_contains(n, s, e)
           G(j) == SpaceCell(c, id, t, k, j)
           El(j) == ElementOf(z, t, j - 1)
           S == SpaceCells(c, id, t)
           W == FirstFound(c, id, t, k - 1)
           V == FirstFound(c, id, t, k)
<1>1. n \in Sizes /\ s \in Sizes
  BY InputIs
<1>2. /\ i \in ChunkIds(n, s) /\ a.low.t = SpaceFirst(c, id) /\ z.t = SpaceSlices(c, id)
      /\ ChunksPerSlice(c) \in Nat /\ id \in Nat /\ lo \in Int /\ i = lo + k - 1
  <2>1. /\ i \in ChunkIds(n, s) /\ a.low.t = SpaceFirst(c, id) /\ z.t = SpaceSlices(c, id)
        /\ ChunksPerSlice(c) \in Nat /\ id \in Nat
    BY SpaceRow
  <2>2. lo \in Int
    BY <2>1
  <2> QED BY <2>1, <2>2 DEF InSlice
<1>3. z.y \in Nat \ {0} /\ z.x \in Nat \ {0} /\ m = z.y * z.x /\ m \in Nat
  <2>1. z.y \in Nat \ {0} /\ z.x \in Nat \ {0} /\ m = z.y * z.x
    BY <1>1, <1>2, ChunkSizePositive DEF SpaceCount
  <2> HIDE DEF m, z
  <2>2. z.y * z.x \in Nat
    BY <2>1
  <2> QED BY <2>1, <2>2
<1>4. ASSUME NEW j \in 1..m
      PROVE  El(j) \in Elements(n, s, i) /\ G(j) = ElementCell(n, s, i, El(j)) /\ j - 1 \in 0..(m - 1)
  <2>1. j - 1 \in 0..(m - 1)
    <3> HIDE DEF m
    <3> QED BY <1>3
  <2>2. j - 1 \in 0..(z.y * z.x - 1) /\ t \in 0..(z.t - 1)
    BY <1>2, <1>3, <2>1
  <2>3. El(j) \in Elements(n, s, i)
    BY <1>1, <1>2, <2>2, ElementInside
  <2> QED BY <2>1, <2>3 DEF SpaceCell
<1>5. W = {e \in S : F(e) < lo + (k - 1)} /\ V = {e \in S : F(e) < lo + k}
  BY DEF FirstFound
<1>6. \A e \in S : e \in Cells(n) /\ e.t = SpaceFirst(c, id) + t /\ F(e) \in Int
  BY FoundInRow DEF SpaceCells
<1>7. ASSUME NEW j \in 1..m PROVE G(j) \in S /\ F(G(j)) = i
  <2>1. G(j) \in Cells(n) /\ G(j) = [t |-> a.low.t + El(j).t, y |-> a.high.y - El(j).row, x |-> a.low.x + El(j).col]
    BY <1>1, <1>2, <1>4, ElementLimits
  <2>2. El(j).t = t
    BY DEF ElementOf
  <2>3. G(j).t = SpaceFirst(c, id) + t
    BY <1>2, <2>1, <2>2
  <2>4. F(G(j)) = i
    BY <1>1, <1>2, <1>4, OnlyChunk
  <2> QED BY <2>1, <2>3, <2>4 DEF SpaceCells
<1>8. \A j \in 1..m : G(j) \in V /\ G(j) \notin W
  <2> HIDE DEF G, F, i, lo, m, V, W, S
  <2> QED BY <1>2, <1>5, <1>7
<1>9. \A h, j \in 1..m : G(h) = G(j) => h = j
  <2> SUFFICES ASSUME NEW h \in 1..m, NEW j \in 1..m, G(h) = G(j) PROVE h = j
    OBVIOUS
  <2>1. /\ G(h) = [t |-> a.low.t + El(h).t, y |-> a.high.y - El(h).row, x |-> a.low.x + El(h).col]
        /\ G(j) = [t |-> a.low.t + El(j).t, y |-> a.high.y - El(j).row, x |-> a.low.x + El(j).col]
    BY <1>1, <1>2, <1>4, ElementLimits
  <2>2. /\ El(h).row = (h - 1) \div z.x /\ El(h).col = (h - 1) % z.x
        /\ El(j).row = (j - 1) \div z.x /\ El(j).col = (j - 1) % z.x
    BY DEF ElementOf
  <2>3. a.high.y \in Int /\ a.low.x \in Int
    <3>1. a.high.y \in a.low.y..(n.y - 1) /\ a.low.x \in 0..(n.x - 1)
      BY <1>1, <1>2, ChunkLimits
    <3> QED BY <3>1
  <2> HIDE DEF G, El, a, z
  <2>4. a.high.y - El(h).row = a.high.y - El(j).row /\ a.low.x + El(h).col = a.low.x + El(j).col
    <3>1. G(h).y = a.high.y - El(h).row /\ G(h).x = a.low.x + El(h).col
      BY <2>1
    <3>2. G(j).y = a.high.y - El(j).row /\ G(j).x = a.low.x + El(j).col
      <4>1. PICK e : e = G(j)
        OBVIOUS
      <4>2. e = [t |-> a.low.t + El(j).t, y |-> a.high.y - El(j).row, x |-> a.low.x + El(j).col]
        BY <2>1, <4>1
      <4> QED BY <4>1, <4>2
    <3>3. G(h).y = G(j).y /\ G(h).x = G(j).x
      OBVIOUS
    <3> QED BY <3>1, <3>2, <3>3
  <2>5. PICK X \in Nat \ {0}, u \in Nat, v \in Nat : X = z.x /\ u = h - 1 /\ v = j - 1
    BY <1>3, <1>4
  <2>6. /\ u \div X \in Nat /\ u % X \in Nat /\ u = X * (u \div X) + (u % X)
        /\ v \div X \in Nat /\ v % X \in Nat /\ v = X * (v \div X) + (v % X)
    <3>1. u \div X \in Nat /\ u % X \in 0..(X - 1) /\ u = X * (u \div X) + (u % X)
      BY Division
    <3>2. v \div X \in Nat /\ v % X \in 0..(X - 1) /\ v = X * (v \div X) + (v % X)
      BY Division
    <3> QED BY <3>1, <3>2
  <2>7. u \div X = v \div X /\ u % X = v % X
    <3>1. PICK q1 \in Nat, q2 \in Nat, r1 \in Nat, r2 \in Nat :
              q1 = u \div X /\ q2 = v \div X /\ r1 = u % X /\ r2 = v % X
      BY <2>6
    <3>2. El(h).row = q1 /\ El(h).col = r1 /\ El(j).row = q2 /\ El(j).col = r2
      BY <2>2, <2>5, <3>1
    <3>3. a.high.y - q1 = a.high.y - q2 /\ a.low.x + r1 = a.low.x + r2
      BY <2>4, <3>2
    <3>4. q1 = q2 /\ r1 = r2
      BY <2>3, <3>3
    <3> QED BY <3>1, <3>4
  <2>8. u = v
    BY <2>6, <2>7
  <2> QED BY <1>3, <2>5, <2>8
<1>10. ASSUME NEW e \in V \ W PROVE \E j \in 1..m : e = G(j)
  <2>1. e \in S /\ F(e) = i
    <3> HIDE DEF F, i, lo, V, W, S
    <3> QED BY <1>2, <1>5, <1>6
  <2> DEFINE q == QueriedElement(n, s, e)
  <2>2. q \in Elements(n, s, i) /\ ElementCell(n, s, i, q) = e
    BY <1>1, <1>6, <2>1, QueriedCell
  <2> HIDE DEF q
  <2>3. q \in [t : 0..(z.t - 1), row : 0..(z.y - 1), col : 0..(z.x - 1)]
    BY <2>2 DEF Elements
  <2>4. q.t = t
    <3>1. e = [t |-> a.low.t + q.t, y |-> a.high.y - q.row, x |-> a.low.x + q.col] /\ q.t \in Nat
      BY <1>1, <1>2, <2>2, ElementLimits
    <3>2. e.t = SpaceFirst(c, id) + q.t
      BY <1>2, <3>1
    <3>3. SpaceFirst(c, id) \in Int
      <4>1. SpaceFirst(c, id) \in 0..(c.n.t - 1)
        BY SpaceRow
      <4> QED BY <4>1
    <3> QED BY <1>6, <2>1, <3>1, <3>2, <3>3
  <2>5. PICK X \in Nat \ {0}, Y \in Nat \ {0} : X = z.x /\ Y = z.y
    BY <1>3
  <2>6. PICK u \in 0..(X - 1), v \in 0..(Y - 1) : u = q.col /\ v = q.row
    BY <2>3, <2>5
  <2>7. X * v + u \in 0..(X * Y - 1) /\ (X * v + u) \div X = v /\ (X * v + u) % X = u
    BY TwoDigits
  <2>8. X * Y = m
    <3> HIDE DEF m
    <3> QED BY <1>3, <2>5
  <2>9. PICK h \in 0..(m - 1) : h = X * v + u
    BY <2>7, <2>8
  <2>10. h + 1 \in 1..m /\ (h + 1) - 1 = h
    <3> HIDE DEF m
    <3> QED BY <1>3, <2>9
  <2>11. El(h + 1) = [t |-> t, row |-> v, col |-> u]
    BY <2>5, <2>7, <2>9, <2>10 DEF ElementOf
  <2>12. q = [t |-> t, row |-> v, col |-> u]
    BY <2>3, <2>4, <2>6
  <2>13. G(h + 1) = e
    BY <1>4, <2>2, <2>10, <2>11, <2>12
  <2> QED BY <2>10, <2>13
<1>11. W \subseteq V /\ V \subseteq S
  <2> HIDE DEF F, lo, V, W, S
  <2> QED BY <1>2, <1>5, <1>6
<1> QED BY <1>3, <1>8, <1>9, <1>10, <1>11

\* What CombineSpace adds to the accumulator of slice t.
SpacePart(c, bi, i, t) ==
    LET x == ChunkOf(c, i)
    IN  [j \in 1..(IF t >= x.size.t THEN 0 ELSE x.size.y * x.size.x) |-> <<Value(x, bi, t, j - 1), t>>]

LEMMA SpaceCovered ==
    ASSUME NEW c \in Inputs, NEW id \in ChunkIds(SpaceShape(c).n, SpaceShape(c).s),
           NEW t \in 0..(SpaceSlices(c, id) - 1), NEW k \in 1..ChunksPerSlice(c),
           NEW r \in Known, r \notin Dated, NEW bi \in 0..(c.nb - 1)
    PROVE  /\ Covered(r, c.data[bi], SpaceCells(c, id, t),
                      FirstFound(c, id, t, k - 1), FirstFound(c, id, t, k),
                      SpacePart(c, bi, InSlice(c, id, k), t))
           /\ \E m : Pairs(m, SpacePart(c, bi, InSlice(c, id, k), t))
<1> DEFINE d == c.data[bi]
           i == InSlice(c, id, k)
           x == ChunkOf(c, i)
           z == chunk_size(c.n, c.s, i)
           m == SpaceCount(c, id, k)
           pairs == SpacePart(c, bi, i, t)
           G(j) == SpaceCell(c, id, t, k, j)
           S == SpaceCells(c, id, t)
           W == FirstFound(c, id, t, k - 1)
           V == FirstFound(c, id, t, k)
<1>1. c.n \in Sizes /\ c.s \in Sizes /\ c.empty \subseteq ChunkIds(c.n, c.s)
  BY InputIs
<1>2. i \in ChunkIds(c.n, c.s) /\ z.t = SpaceSlices(c, id) /\ SpaceSlices(c, id) \in Nat \ {0}
  BY SpaceRow
<1>3. /\ m \in Nat /\ W \subseteq V /\ V \subseteq S
      /\ \A j \in 1..m : G(j) \in V /\ G(j) \notin W
      /\ \A h, j \in 1..m : G(h) = G(j) => h = j
      /\ \A e \in V \ W : \E j \in 1..m : e = G(j)
  BY SpaceCellsAre
<1>4. m = z.y * z.x
  BY DEF SpaceCount
<1>5. \A j \in 1..m : G(j) = ElementCell(c.n, c.s, i, ElementOf(z, t, j - 1)) /\ j - 1 \in 0..(z.y * z.x - 1)
  <2> SUFFICES ASSUME NEW j \in 1..m PROVE G(j) = ElementCell(c.n, c.s, i, ElementOf(z, t, j - 1)) /\ j - 1 \in 0..(z.y * z.x - 1)
    OBVIOUS
  <2>1. G(j) = ElementCell(c.n, c.s, i, ElementOf(z, t, j - 1))
    BY DEF SpaceCell
  <2>2. j - 1 \in 0..(m - 1)
    <3> HIDE DEF m
    <3> QED BY <1>3
  <2> QED BY <1>4, <2>1, <2>2
<1>6. t \in 0..(z.t - 1) /\ t \in Int /\ z.t \in Int
  BY <1>2
<1>7. DOMAIN pairs = 1..(IF t >= x.size.t THEN 0 ELSE x.size.y * x.size.x)
  BY DEF SpacePart
<1>8. CASE i \in c.empty
  <2> DEFINE g == [j \in {} |-> j]
  <2>1. x.size.t = 0 /\ \A j \in 1..m : d[G(j)] = NaN
    BY <1>5, <1>6, <1>8, NoChunk
  <2>2. DOMAIN pairs = 1..0
    <3> HIDE DEF pairs, x, z
    <3>1. t >= 0
      BY <1>6
    <3> QED BY <1>7, <2>1, <3>1
  <2> HIDE DEF pairs
  <2>3. Pairs(0, pairs)
    BY <2>2 DEF Pairs
  <2>4. Listed(r, d, S, W, 0, pairs, g)
    BY <2>3 DEF Listed
  <2>5. Seen(W, g, 0) = W
    BY DEF Seen
  <2>6. Having(d, V) = Having(d, W)
    <3> HIDE DEF V, W, d, G, m
    <3> QED BY <1>3, <2>1 DEF Having
  <2> HIDE DEF g, d, S, W, V
  <2> QED BY <2>3, <2>4, <2>5, <2>6 DEF Covered, d, S, W, V, pairs
<1>9. CASE i \notin c.empty
  <2> DEFINE g == [j \in 1..m |-> G(j)]
  <2>1. /\ x.size.t = z.t /\ x.size.y = z.y /\ x.size.x = z.x
        /\ \A p \in 0..(z.y * z.x - 1) : Value(x, bi, t, p) = d[ElementCell(c.n, c.s, i, ElementOf(z, t, p))]
    BY <1>2, <1>6, <1>9, FullChunk
  <2>2. DOMAIN pairs = 1..m
    <3> HIDE DEF pairs, x, z, m
    <3>1. ~ (t >= z.t)
      BY <1>6
    <3> QED BY <1>4, <1>7, <2>1, <3>1
  <2>3. d \in [Cells(c.n) -> Number]
    BY InputData
  <2>4. ASSUME NEW j \in 1..m
        PROVE  pairs[j][1] = d[g[j]] /\ pairs[j][1] \in Number /\ pairs[j][2] \in Int
    <3>1. pairs[j] = <<Value(x, bi, t, j - 1), t>>
      BY <2>2 DEF SpacePart
    <3>2. Value(x, bi, t, j - 1) = d[G(j)]
      BY <1>5, <2>1
    <3>3. G(j) \in Cells(c.n)
      BY <1>3 DEF SpaceCells
    <3> HIDE DEF pairs, x, d, G
    <3> QED BY <1>6, <2>3, <3>1, <3>2, <3>3
  <2>5. \A j \in 1..m : g[j] = G(j)
    OBVIOUS
  <2> HIDE DEF pairs, g, G, d, S, W, V, m, x
  <2>6. Pairs(m, pairs)
    BY <1>3, <2>2, <2>4 DEF Pairs
  <2>7. Listed(r, d, S, W, m, pairs, g)
    <3>1. \A j \in 1..m : g[j] \in S \ W
      BY <1>3, <2>5
    <3>2. \A h, j \in 1..m : g[h] = g[j] => h = j
      BY <1>3, <2>5
    <3> QED BY <2>4, <2>6, <3>1, <3>2 DEF Listed
  <2>8. V = Seen(W, g, m)
    BY <1>3, <2>5 DEF Seen
  <2> QED BY <2>6, <2>7, <2>8 DEF Covered, d, S, W, V, pairs
<1> QED BY <1>8, <1>9

LEMMA AddNothing ==
    ASSUME NEW r \in Known, NEW a \in AccOf(r), NEW pairs, DOMAIN pairs = 1..0
    PROVE  AddAll(r, a, pairs) = a
<1>1. Pairs(0, pairs)
  BY DEF Pairs
<1>2. HasAddChain(r, a, 0, pairs)
  BY <1>1, AddFold
<1> QED BY <1>2 DEF HasAddChain, Through

LEMMA SpaceReadable ==
    ASSUME NEW c \in Inputs, NEW id, NEW t, NEW bi \in 0..(c.nb - 1)
    PROVE  Readable(c.data[bi], SpaceCells(c, id, t))
<1> DEFINE S == SpaceCells(c, id, t)
           A == 0..(c.n.t - 1)
           B == 0..(c.n.y - 1)
           C == 0..(c.n.x - 1)
           D == (A \X B) \X C
           g == [q \in D |-> [t |-> q[1][1], y |-> q[1][2], x |-> q[2]]]
<1>1. c.n \in Sizes /\ c.data[bi] \in [Cells(c.n) -> Number]
  BY InputIs, InputData
<1>2. IsFiniteSet(D)
  <2>1. c.n.t - 1 \in Int /\ c.n.y - 1 \in Int /\ c.n.x - 1 \in Int /\ 0 \in Int
    <3>1. c.n.t \in Nat \ {0} /\ c.n.y \in Nat \ {0} /\ c.n.x \in Nat \ {0}
      BY <1>1 DEF Sizes
    <3> QED BY <3>1
  <2>2. IsFiniteSet(A) /\ IsFiniteSet(B) /\ IsFiniteSet(C)
    BY <2>1, FS_Interval
  <2> HIDE DEF A, B, C
  <2>3. IsFiniteSet(A \X B)
    BY <2>2, FS_Product
  <2> QED BY <2>2, <2>3, FS_Product
<1>3. IsFiniteSet(Cells(c.n))
  <2> DEFINE Q == Cells(c.n)
  <2>1. \A q \in D : g[q] \in Q
    BY DEF Cells
  <2>2. \A k \in Q : \E q \in D : g[q] = k
    <3> SUFFICES ASSUME NEW k \in Q PROVE \E q \in D : g[q] = k
      OBVIOUS
    <3>1. k.t \in A /\ k.y \in B /\ k.x \in C /\ k = [t |-> k.t, y |-> k.y, x |-> k.x]
      BY DEF Cells
    <3>2. <<<<k.t, k.y>>, k.x>> \in D
      BY <3>1
    <3>3. g[<<<<k.t, k.y>>, k.x>>] = k
      BY <3>1, <3>2
    <3> QED BY <3>2, <3>3
  <2>3. g \in [D -> Q]
    BY <2>1
  <2> HIDE DEF g, D, Q
  <2>4. g \in Surjection(D, Q)
    BY <2>2, <2>3 DEF Surjection
  <2> QED BY <1>2, <2>4, FS_Surjection DEF Q
<1>4. S \subseteq Cells(c.n)
  BY DEF SpaceCells
<1>5. IsFiniteSet(S)
  BY <1>3, <1>4, FS_Subset
<1>6. \A k \in S : c.data[bi][k] \in Number /\ k.t \in Int
  <2>1. \A k \in Cells(c.n) : k.t \in Int
    BY DEF Cells
  <2> QED BY <1>1, <1>4, <2>1
<1> QED BY <1>5, <1>6 DEF Readable

\* The accumulators of a chunk of reduce_space.
SpaceIds(c, id) == [k \in 1..ChunksPerSlice(c) |-> InSlice(c, id, k)]

SpaceAccs(c, r, bi, id) ==
    SpaceAll(c, r, bi, [t \in 0..(SpaceSlices(c, id) - 1) |-> Start(r)], SpaceIds(c, id))

LEMMA SpaceStages ==
    ASSUME NEW c \in Inputs, NEW id \in ChunkIds(SpaceShape(c).n, SpaceShape(c).s),
           NEW t \in 0..(SpaceSlices(c, id) - 1), NEW r \in Known, r \notin Dated, NEW bi \in 0..(c.nb - 1),
           NEW parts, \A k \in 1..ChunksPerSlice(c) : parts[k][t] = SpacePart(c, bi, InSlice(c, id, k), t)
    PROVE  \E W : Staged(r, c.data[bi], SpaceCells(c, id, t), t, ChunksPerSlice(c), parts, W)
<1> DEFINE M == ChunksPerSlice(c)
           S == SpaceCells(c, id, t)
           W == [k \in 0..M |-> FirstFound(c, id, t, k)]
<1>1. M \in Nat \ {0} /\ id \in 0..(Ceil(c.n.t, c.s.t) - 1)
  BY SpaceRow
<1>2. \A e \in S : /\ find_chunk_that_contains(c.n, c.s, e) \in Int
                   /\ id * M <= find_chunk_that_contains(c.n, c.s, e)
                   /\ find_chunk_that_contains(c.n, c.s, e) < id * M + M
  BY FoundInRow
<1>3. id * M \in Int
  <2> HIDE DEF M
  <2> QED BY <1>1
<1>4. FirstFound(c, id, t, 0) = {} /\ FirstFound(c, id, t, M) = S
  <2>1. FirstFound(c, id, t, 0) = {e \in S : find_chunk_that_contains(c.n, c.s, e) < id * M + 0}
    BY DEF FirstFound
  <2>2. FirstFound(c, id, t, M) = {e \in S : find_chunk_that_contains(c.n, c.s, e) < id * M + M}
    BY DEF FirstFound
  <2> HIDE DEF M, S
  <2> QED BY <1>2, <1>3, <2>1, <2>2
<1>5. 0 \in 0..M /\ M \in 0..M
  <2> HIDE DEF M
  <2> QED BY <1>1
<1>6. \A k \in 0..M : W[k] = FirstFound(c, id, t, k) /\ W[k] \in SUBSET S
  BY DEF FirstFound
<1>7. \A k \in 1..M : Covered(r, c.data[bi], S, W[k - 1], W[k], parts[k][t])
  <2> SUFFICES ASSUME NEW k \in 1..M PROVE Covered(r, c.data[bi], S, W[k - 1], W[k], parts[k][t])
    OBVIOUS
  <2>1. Covered(r, c.data[bi], S, FirstFound(c, id, t, k - 1), FirstFound(c, id, t, k), SpacePart(c, bi, InSlice(c, id, k), t))
    BY SpaceCovered
  <2>2. k - 1 \in 0..M /\ k \in 0..M
    <3> HIDE DEF M
    <3> QED BY <1>1
  <2>3. W[k - 1] = FirstFound(c, id, t, k - 1) /\ W[k] = FirstFound(c, id, t, k)
    BY <1>6, <2>2
  <2>4. parts[k][t] = SpacePart(c, bi, InSlice(c, id, k), t)
    OBVIOUS
  <2> HIDE DEF W, S
  <2> QED BY <2>1, <2>3, <2>4
<1>8. W[0] = {} /\ W[M] = S
  BY <1>4, <1>5, <1>6
<1> HIDE DEF W
<1>9. Staged(r, c.data[bi], S, t, M, parts, W)
  BY <1>6, <1>7, <1>8 DEF Staged
<1> QED BY <1>9

LEMMA SpaceAccsEnd ==
    ASSUME NEW c \in Inputs, NEW id \in ChunkIds(SpaceShape(c).n, SpaceShape(c).s),
           NEW t \in 0..(SpaceSlices(c, id) - 1), NEW r \in Known, r \notin Dated, NEW bi \in 0..(c.nb - 1),
           Exact(r, c.data[bi], SpaceCells(c, id, t))
    PROVE  FinishSpace(r, SpaceAccs(c, r, bi, id))[t] =
              Reduced(r, Having(c.data[bi], SpaceCells(c, id, t)),
                         ValuesOf(c.data[bi], SpaceCells(c, id, t)))
<1> DEFINE M == ChunksPerSlice(c)
           P == 0..(SpaceSlices(c, id) - 1)
           parts == [k \in 1..M |-> [u \in P |-> SpacePart(c, bi, InSlice(c, id, k), u)]]
           base == [u \in P |-> Start(r)]
           seq == SpaceIds(c, id)
           value == SpaceAccs(c, r, bi, id)
           d == c.data[bi]
           S == SpaceCells(c, id, t)
<1>1. M \in Nat
  BY SpaceRow
<1>2. \A k \in 1..M, u \in P : parts[k][u] = SpacePart(c, bi, InSlice(c, id, k), u)
  OBVIOUS
<1>3. Parts(P, M, parts)
  <2>1. ASSUME NEW k \in 1..M, NEW u \in P PROVE \E m : Pairs(m, parts[k][u])
    <3>1. \E m : Pairs(m, SpacePart(c, bi, InSlice(c, id, k), u))
      BY SpaceCovered
    <3> QED BY <1>2, <3>1
  <2> HIDE DEF parts, P, M
  <2> QED BY <1>1, <2>1 DEF Parts
<1>4. DOMAIN seq = 1..M /\ \A k \in 1..M : seq[k] = InSlice(c, id, k)
  BY DEF SpaceIds
<1>5. base \in [P -> AccOf(r)]
  BY StartAcc
<1>6. ASSUME NEW k \in 1..M, NEW x \in [P -> AccOf(r)]
      PROVE  CombineSpace(r, x, ChunkOf(c, seq[k]), bi) = Merged(r, P, x, parts[k])
  <2>1. PICK i : i = seq[k]
    OBVIOUS
  <2>2. \A u \in P : parts[k][u] = SpacePart(c, bi, i, u)
    BY <1>2, <1>4, <2>1
  <2> DEFINE z == ChunkOf(c, i)
             One(u) == IF u >= z.size.t THEN x[u]
                       ELSE AddAll(r, x[u], [j \in 1..(z.size.y * z.size.x) |-> <<Value(z, bi, u, j - 1), u>>])
  <2>3. DOMAIN x = P
    OBVIOUS
  <2>4. CombineSpace(r, x, z, bi) = [u \in P |-> One(u)]
    BY <2>3 DEF CombineSpace
  <2>5. Merged(r, P, x, parts[k]) = [u \in P |-> AddAll(r, x[u], SpacePart(c, bi, i, u))]
    <3> HIDE DEF P, parts
    <3> QED BY <2>2 DEF Merged
  <2>6. ASSUME NEW u \in P PROVE One(u) = AddAll(r, x[u], SpacePart(c, bi, i, u))
    <3>0. x[u] \in AccOf(r)
      OBVIOUS
    <3>1. CASE u >= z.size.t
      <4>1. DOMAIN SpacePart(c, bi, i, u) = 1..0
        BY <3>1 DEF SpacePart
      <4>2. AddAll(r, x[u], SpacePart(c, bi, i, u)) = x[u]
        BY <3>0, <4>1, AddNothing
      <4> QED BY <3>1, <4>2
    <3>2. CASE ~ (u >= z.size.t)
      <4>1. SpacePart(c, bi, i, u) = [j \in 1..(z.size.y * z.size.x) |-> <<Value(z, bi, u, j - 1), u>>]
        BY <3>2 DEF SpacePart
      <4> HIDE DEF z
      <4> QED BY <3>2, <4>1
    <3> QED BY <3>1, <3>2
  <2> HIDE DEF One, P, parts, seq
  <2>7. [u \in P |-> One(u)] = [u \in P |-> AddAll(r, x[u], SpacePart(c, bi, i, u))]
    BY <2>6
  <2> QED BY <2>1, <2>4, <2>5, <2>7
<1>7. HasMergeChain(r, P, M, parts, base, value)
  <2> HIDE DEF P, parts, seq, M, base
  <2>1. HasMergeChain(r, P, M, parts, base, SpaceAll(c, r, bi, base, seq))
    BY <1>3, <1>4, <1>5, <1>6, SpaceFold
  <2> QED BY <2>1 DEF SpaceAccs, base, seq, P
<1>8. t \in P /\ base[t] = Start(r)
  OBVIOUS
<1>9. PICK W : Staged(r, d, S, t, M, parts, W)
  <2>1. \A k \in 1..M : parts[k][t] = SpacePart(c, bi, InSlice(c, id, k), t)
    BY <1>2, <1>8
  <2> HIDE DEF parts
  <2> QED BY <2>1, SpaceStages
<1>10. Readable(d, S) /\ Exact(r, d, S)
  BY SpaceReadable
<1> HIDE DEF P, parts, base, value, seq, M, d, S
<1>11. Finish(r, value[t]) = Reduced(r, Having(d, S), ValuesOf(d, S))
  BY <1>1, <1>7, <1>8, <1>9, <1>10, AtEnd
<1>12. DOMAIN value = P
  <2>1. PICK u : /\ Through(M, base, u) /\ \A k \in 1..M : u[k] = Merged(r, P, u[k - 1], parts[k])
                 /\ value = u[M]
    BY <1>7 DEF HasMergeChain
  <2>2. M \in 1..M
    <3>1. M \in Nat \ {0}
      BY SpaceRow DEF M
    <3> QED BY <3>1
  <2> QED BY <2>1, <2>2 DEF Merged
<1>13. FinishSpace(r, value)[t] = Finish(r, value[t])
  BY <1>8, <1>12 DEF FinishSpace
<1> QED BY <1>11, <1>13 DEF value, d, S

LEMMA ReduceSpaceValue ==
    ASSUME NEW c, NEW rb, NEW id, ~ (c.n.y = 1 /\ c.n.x = 1), NEW out, out = reduce_space(c, rb, id),
           Len(rb) \in Nat, FullSize(out.size), NEW b \in 0..(out.size.b - 1),
           NEW t \in 0..(out.size.t - 1), NEW p \in 0..(out.size.y * out.size.x - 1)
    PROVE  Value(out, b, t, p) = FinishSpace(rb[b + 1].r, SpaceAccs(c, rb[b + 1].r, rb[b + 1].b, id))[t]
<1> DEFINE z == chunk_size(SpaceShape(c).n, SpaceShape(c).s, id)
           accs == [e \in 0..(Len(rb) - 1) |-> FinishSpace(rb[e + 1].r, SpaceAccs(c, rb[e + 1].r, rb[e + 1].b, id))]
           y == [b |-> Len(rb), t |-> z.t, y |-> 1, x |-> 1]
           k == Index(y, b, t, p)
           F(e, h, q) == accs[e][h]
<1>0. out = [size |-> y, buf |-> [j \in 0..(Volume(y) - 1) |->
                   F(j \div (y.t * y.y * y.x), (j \div (y.y * y.x)) % y.t, j % (y.y * y.x))]]
  BY DEF reduce_space, Chunk, SpaceAccs, SpaceAll, SpaceIds, SpaceSlices, InSlice
<1>1. /\ out.size = y
      /\ out.buf = [j \in 0..(Volume(y) - 1) |->
                   F(j \div (y.t * y.y * y.x), (j \div (y.y * y.x)) % y.t, j % (y.y * y.x))]
  <2> HIDE DEF F, y
  <2> QED BY <1>0
<1>2. Value(out, b, t, p) = out.buf[k]
  <2> HIDE DEF y
  <2> QED BY <1>1 DEF Value, Index
<1>3. /\ k \in 0..(Volume(y) - 1) /\ k \div (y.t * y.y * y.x) = b
      /\ (k \div (y.y * y.x)) % y.t = t /\ k % (y.y * y.x) = p
  <2> HIDE DEF y
  <2>1. /\ FullSize(y) /\ b \in 0..(y.b - 1) /\ t \in 0..(y.t - 1) /\ p \in 0..(y.y * y.x - 1)
    BY <1>1
  <2> QED BY <2>1, IndexIs
<1>4. b \in 0..(Len(rb) - 1)
  <2>1. y.b = Len(rb)
    OBVIOUS
  <2> HIDE DEF y
  <2> QED BY <1>1, <2>1
<1>5. F(b, t, p) = FinishSpace(rb[b + 1].r, SpaceAccs(c, rb[b + 1].r, rb[b + 1].b, id))[t]
  BY <1>4
<1> HIDE DEF k, y, F
<1>6. out.buf[k] = F(b, t, p)
  BY <1>1, <1>3
<1> QED BY <1>2, <1>5, <1>6

LEMMA SpaceAgrees ==
    ASSUME RInv, read # Nothing, op.kind = "reduce_space", ~ (cube.n.y = 1 /\ cube.n.x = 1),
           NEW b \in 0..(read.out.size.b - 1), NEW t \in 0..(read.out.size.t - 1),
           NEW p \in 0..(read.out.size.y * read.out.size.x - 1)
    PROVE  ReducedTo(ReducerBands[b + 1], Sources(OutCell(t, p)), Value(read.out, b, t, p))
<1> DEFINE id == read.id
           n == SpaceShape(cube).n
           s == SpaceShape(cube).s
           z == chunk_size(n, s, id)
           S == SpaceCells(cube, id, t)
           rb == ReducerBands[b + 1]
<1>1. OutShape = SpaceShape(cube) /\ id \in ChunkIds(n, s) /\ cube \in Inputs /\ Inputs2
  BY DEF RInv, Returned, Inputs2, OutShape
<1>2. Len(op.reducer_bands) \in Nat /\ read.out = reduce_space(cube, op.reducer_bands, id)
  BY <1>1, WhatIsRead, ReducersGiven
<1>3. read.out.size = [b |-> Len(op.reducer_bands), t |-> z.t, y |-> 1, x |-> 1]
  <2>1. ShapeOf(read.out, [b |-> Len(op.reducer_bands), t |-> z.t, y |-> 1, x |-> 1])
    BY <1>2, ReduceSpaceShape
  <2> HIDE DEF z
  <2> QED BY <2>1 DEF ShapeOf
<1>4. z.t \in Nat \ {0} /\ z.t = SpaceSlices(cube, id)
  BY <1>1, SpaceRow DEF SpaceSlices
<1> HIDE DEF z
<1>5. FullSize(read.out.size) /\ t \in 0..(SpaceSlices(cube, id) - 1) /\ b + 1 \in 1..Len(op.reducer_bands)
  BY <1>2, <1>3, <1>4 DEF FullSize
<1>6. Sources(OutCell(t, p)) = S
  <2> DEFINE e == Place(read.out, t, p)
             a == chunk_limits(n, s, id)
  <2>1. OutCell(t, p) = [t |-> a.low.t + e.t, y |-> (a.high.y + 1) - 1 - e.row, x |-> a.low.x + e.col]
    BY <1>1, ElementCellIs DEF OutCell
  <2>2. e.t = t
    BY DEF Place
  <2>3. OutCell(t, p).t = SpaceFirst(cube, id) + t
    <3>1. SpaceFirst(cube, id) = a.low.t
      BY DEF SpaceFirst
    <3> HIDE DEF a, e
    <3> QED BY <2>1, <2>2, <3>1
  <2>4. Sources(OutCell(t, p)) = {k \in Cells(cube.n) : k.t = OutCell(t, p).t}
    BY DEF Sources
  <2> QED BY <2>3, <2>4 DEF SpaceCells
<1>7. rb.r \in Known /\ rb.r \notin Dated /\ rb.b \in 0..(cube.nb - 1) /\ rb = op.reducer_bands[b + 1]
  BY <1>1, <1>5, ReducersGiven
<1>8. Value(read.out, b, t, p) = FinishSpace(rb.r, SpaceAccs(cube, rb.r, rb.b, id))[t]
  BY <1>2, <1>5, <1>7, ReduceSpaceValue
<1> HIDE DEF rb
<1>9. PICK r \in Known, bi \in 0..(cube.nb - 1) : r = rb.r /\ bi = rb.b /\ r \notin Dated
  BY <1>7
<1>10. ASSUME Exact(r, cube.data[bi], S)
       PROVE  FinishSpace(r, SpaceAccs(cube, r, bi, id))[t] = Reduced(r, Having(cube.data[bi], S), ValuesOf(cube.data[bi], S))
  BY <1>1, <1>5, <1>9, <1>10, SpaceAccsEnd
<1> HIDE DEF S
<1>11. ReducedTo(rb, S, Value(read.out, b, t, p))
  BY <1>8, <1>9, <1>10 DEF ReducedTo
<1> QED BY <1>6, <1>11 DEF rb

\* Every element of what the three reductions return is what the values of exactly the
\* input cells behind it reduce to: the accumulators get each of these values once and in
\* order, chunk after chunk, whatever the size of the chunks and whichever are empty.
THEOREM ReduceCorrect == Spec => []ReduceAgrees
<1>1. ASSUME RInv, read # Nothing, op.kind \in {"reduce_time", "reduce", "reduce_space"}, OutShape.n # cube.n,
             NEW b \in 0..(read.out.size.b - 1), NEW t \in 0..(read.out.size.t - 1),
             NEW p \in 0..(read.out.size.y * read.out.size.x - 1)
      PROVE  ReducedTo(ReducerBands[b + 1], Sources(OutCell(t, p)), Value(read.out, b, t, p))
  <2>1. cube.n \in [t : Nat \ {0}, y : Nat \ {0}, x : Nat \ {0}]
    BY <1>1, InputIs DEF RInv, Inputs2, Sizes
  <2>2. CASE op.kind \in {"reduce_time", "reduce"}
    <3>1. OutShape.n = [cube.n EXCEPT !.t = 1]
      BY <2>2 DEF OutShape, TimeShape
    <3>2. cube.n.t # 1
      BY <1>1, <2>1, <3>1
    <3> QED BY <1>1, <2>2, <3>2, TimeAgrees
  <2>3. CASE op.kind = "reduce_space"
    <3>1. OutShape.n = [t |-> cube.n.t, y |-> 1, x |-> 1]
      BY <2>3 DEF OutShape, SpaceShape
    <3>2. ~ (cube.n.y = 1 /\ cube.n.x = 1)
      BY <1>1, <2>1, <3>1
    <3> QED BY <1>1, <2>3, <3>2, SpaceAgrees
  <2> QED BY <1>1, <2>2, <2>3
<1>2. ASSUME RInv PROVE ReduceAgrees
  BY <1>1, <1>2, Zenon DEF ReduceAgrees, EachElement, ReducedTo, Exact, Having, ValuesOf
<1> QED BY <1>2, RInvariance, PTL DEF Spec

================================================================================
