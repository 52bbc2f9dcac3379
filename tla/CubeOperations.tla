----------------------------- MODULE CubeOperations -----------------------------
(***************************************************************************)
(* read_chunk of the operations on data cubes: reducers over time and over  *)
(* space, moving windows, filling of gaps, expressions, filters, joined and *)
(* selected bands.  A chunk is what chunk_data is, a size and a flat buffer *)
(* in the order band, time, y, x; a chunk without data has size 0.  The     *)
(* input is any cube: what its cells hold and which of its chunks come back *)
(* empty (image_collection_cube returns an empty chunk when no image lies   *)
(* in it) is chosen in Init.                                                *)
(***************************************************************************)
EXTENDS ChunkGeometry, Reducers

CONSTANTS Cubes,      \* input cubes: sizes n and s, bands nb, cells data[band][cell], empty chunks
          Operations, \* records with a kind, the bands it uses and the arguments of that kind
          Unspecified \* the result of sorting values among which are NaNs

\* A cube has sizes, chunk sizes and bands of numbers and gaps, and a chunk that comes back empty
\* holds no value.
ASSUME CubesAssumption ==
    /\ NaN \notin Int
    /\ \A c \in Cubes :
        /\ c.n \in Sizes /\ c.s \in Sizes /\ c.nb \in Nat \ {0}
        /\ c.data \in [0..(c.nb - 1) -> [Cells(c.n) -> Int \cup {NaN}]]
        /\ c.empty \subseteq ChunkIds(c.n, c.s)
        /\ \A id \in c.empty, b \in 0..(c.nb - 1) : \A e \in Elements(c.n, c.s, id) :
                c.data[b][ElementCell(c.n, c.s, id, e)] = NaN

\* Operations name the bands they use, and only reducers over time give dates.
ASSUME OperationsAssumption ==
    \A o \in Operations :
        /\ o.kind = "reduce_time" =>
                o.reducer_bands \in Seq([r : Sums \cup Extremes \cup Spreads, b : o.uses])
        /\ o.kind = "reduce_space" =>
                o.reducer_bands \in Seq([r : (Sums \cup Extremes \cup Spreads) \ Dated, b : o.uses])
        /\ o.kind = "reduce" => o.reducer \in (Sums \cup Extremes \cup Spreads) \ Dated
        /\ o.kind = "apply_pixel" =>
                /\ o.exprs \in Seq([bands : SUBSET o.uses, vars : SUBSET (1..3)])
                /\ o.keep \in BOOLEAN
        /\ o.kind = "filter_pixel" => o.band \in o.uses
        /\ o.kind = "select_bands" => o.bands \in Seq(o.uses)
        /\ o.kind = "window_time" => o.bands \in Seq(o.uses) /\ o.l \in Nat /\ o.r \in Nat
        /\ o.kind = "stream" => o.operators \subseteq {"stream", "apply", "reduce", "pipe"}

VARIABLES cube,   \* the input
          other,  \* the second input of join_bands
          op,
          read    \* the chunk read last: id and result

vars == <<cube, other, op, read>>

-------------------------------------------------------------------------------
\* chunk_data

Volume(z) == z.b * z.t * z.y * z.x

Chunk(z, F(_, _, _)) ==
    [size |-> z,
     buf  |-> [k \in 0..(Volume(z) - 1) |->
                 F(k \div (z.t * z.y * z.x), (k \div (z.y * z.x)) % z.t, k % (z.y * z.x))]]

\* Element p = row * x + col of band b and slice t.
Value(c, b, t, p) ==
    c.buf[b * c.size.t * c.size.y * c.size.x + t * c.size.y * c.size.x + p]

NoSize(nb) == [b |-> nb, t |-> 0, y |-> 0, x |-> 0]

EmptyChunk == Chunk(NoSize(0), LAMBDA b, t, p : NaN)

BandSize(nb, z) == [b |-> nb, t |-> z.t, y |-> z.y, x |-> z.x]

\* What read_chunk of a cube returns, chunk by chunk, with the sizes chunks should have.
ChunkWith(c, id, z) ==
    IF id \in c.empty THEN EmptyChunk
    ELSE Chunk(BandSize(c.nb, z),
               LAMBDA b, t, p : c.data[b][ElementCell(c.n, c.s, id,
                                   [t |-> t, row |-> p \div z.x, col |-> p % z.x])])

WithChunks(c) ==
    [n |-> c.n, s |-> c.s, nb |-> c.nb, data |-> c.data, empty |-> c.empty,
     sizes  |-> [id \in ChunkIds(c.n, c.s) |-> chunk_size(c.n, c.s, id)],
     chunks |-> [id \in ChunkIds(c.n, c.s) |-> ChunkWith(c, id, chunk_size(c.n, c.s, id))]]

ChunkOf(c, id) == c.chunks[id]

ChunksPerSlice(c) == Ceil(c.n.y, c.s.y) * Ceil(c.n.x, c.s.x)

Count(c) == count_chunks(c.n, c.s)

\* Input chunks of the same place, from id on: i += count_chunks_x * count_chunks_y
Column(c, id) ==
    [k \in 1..Ceil(Count(c) - id, ChunksPerSlice(c)) |-> id + (k - 1) * ChunksPerSlice(c)]

\* 0, ..., m - 1
UpTo(m) == [k \in 1..m |-> k - 1]

-------------------------------------------------------------------------------
\* Reducers over time.  The output has one slice and the spatial chunks of the input.

TimeShape(c) == [n |-> [c.n EXCEPT !.t = 1], s |-> [c.s EXCEPT !.t = 1]]

\* Mutant: the values of a chunk replace what earlier chunks contributed.
CombineTimeRestart(r, accs, x, bi, first) ==
    [p \in DOMAIN accs |->
        AddAll(r, IF x.size.t = 0 THEN accs[p] ELSE Start(r),
               [k \in 1..x.size.t |-> <<Value(x, bi, k - 1, p), first + k - 1>>])]

\* combine: every slice t of chunk x, whose first slice is first, goes into accumulator p.
CombineTime(r, accs, x, bi, first) ==
    [p \in DOMAIN accs |->
        AddAll(r, accs[p], [k \in 1..x.size.t |-> <<Value(x, bi, k - 1, p), first + k - 1>>])]

reduce_time(c, reducer_bands, id) ==
    LET z == chunk_size(TimeShape(c).n, TimeShape(c).s, id)
        accs(rb) == FoldLeft(LAMBDA a, i : CombineTime(rb.r, a, ChunkOf(c, i), rb.b,
                                                       chunk_limits(c.n, c.s, i).low.t),
                             [p \in 0..(z.y * z.x - 1) |-> Start(rb.r)], Column(c, id))
        out == [b \in 0..(Len(reducer_bands) - 1) |-> accs(reducer_bands[b + 1])]
    IN  IF c.n.t = 1 THEN ChunkOf(c, id)
        ELSE Chunk([b |-> Len(reducer_bands), t |-> 1, y |-> z.y, x |-> z.x],
                   LAMBDA b, t, p : Finish(reducer_bands[b + 1].r, out[b][p]))

\* reduce_cube: one reducer for all bands; accumulators are numbered band by band.
CombineBands(r, accs, x, nxy) ==
    [q \in DOMAIN accs |->
        AddAll(r, accs[q], [k \in 1..x.size.t |-> <<Value(x, q \div nxy, k - 1, q % nxy), k - 1>>])]

FinishBands(r, accs) == [q \in DOMAIN accs |-> Finish(r, accs[q])]

reduce(c, r, id) ==
    LET z    == chunk_size(TimeShape(c).n, TimeShape(c).s, id)
        nxy  == z.y * z.x
        buf  == FinishBands(r, FoldLeft(LAMBDA a, i : CombineBands(r, a, ChunkOf(c, i), nxy),
                                        [q \in 0..(c.nb * nxy - 1) |-> Start(r)], Column(c, id)))
    IN  IF c.n.t = 1 THEN ChunkOf(c, id)
        ELSE Chunk([b |-> c.nb, t |-> 1, y |-> z.y, x |-> z.x],
                   LAMBDA b, t, p : buf[b * nxy + p])

-------------------------------------------------------------------------------
\* Reducers over space.  The output has one cell per slice, and one chunk per row of
\* input chunks in time.

SpaceShape(c) == [n |-> [t |-> c.n.t, y |-> 1, x |-> 1], s |-> [t |-> c.s.t, y |-> 1, x |-> 1]]

CombineSpace(r, accs, x, bi) ==
    [t \in DOMAIN accs |->
        IF t >= x.size.t THEN accs[t]
        ELSE AddAll(r, accs[t], [k \in 1..(x.size.y * x.size.x) |-> <<Value(x, bi, t, k - 1), t>>])]

FinishSpace(r, accs) == [t \in DOMAIN accs |-> Finish(r, accs[t])]

reduce_space(c, reducer_bands, id) ==
    LET z       == chunk_size(SpaceShape(c).n, SpaceShape(c).s, id)
        ids     == [k \in 1..ChunksPerSlice(c) |-> id * ChunksPerSlice(c) + k - 1]
        accs(rb) == FinishSpace(rb.r,
                        FoldLeft(LAMBDA a, i : CombineSpace(rb.r, a, ChunkOf(c, i), rb.b),
                                 [t \in 0..(z.t - 1) |-> Start(rb.r)], ids))
        out == [b \in 0..(Len(reducer_bands) - 1) |-> accs(reducer_bands[b + 1])]
    IN  IF c.n.y = 1 /\ c.n.x = 1 THEN ChunkOf(c, id)
        ELSE Chunk([b |-> Len(reducer_bands), t |-> z.t, y |-> 1, x |-> 1],
                   LAMBDA b, t, p : out[b][t])

-------------------------------------------------------------------------------
\* Moving windows over time: w has a function f (with a kernel), the bands it is applied to
\* and the numbers l and r of slices before and after.

\* Smallest and largest double with respect to the values of an instance.
DblMax == 100000
DblMin == 1

window_reducer(w, win) ==
    LET vals == SelectSeq(win, LAMBDA v : v # NaN)
        n    == Len(vals)
        sum  == FoldLeft(LAMBDA a, v : a + v, 0, vals)
    IN  CASE w.f = "sum"    -> sum
          [] w.f = "count"  -> n
          [] w.f = "mean"   -> IF n = 0 THEN NaN ELSE sum \div n
          [] w.f = "prod"   -> FoldLeft(LAMBDA a, v : a * v, 1, vals)
          [] w.f = "min"    -> FoldLeft(LAMBDA a, v : IF v < a THEN v ELSE a, DblMax, vals)
          [] w.f = "max"    -> FoldLeft(LAMBDA a, v : IF v > a THEN v ELSE a, DblMin, vals)
          [] w.f = "median" -> IF n < Len(win) THEN Unspecified ELSE Median(win)

kernel_reducer(w, win) ==
    IF \E j \in DOMAIN win : win[j] = NaN THEN NaN
    ELSE FoldLeft(LAMBDA a, j : a + win[j] * w.kernel[j], 0, [j \in DOMAIN win |-> j])

\* cur_ts holds a series of len values per band; at idx the values v of one slice are put.
PutSlice(st, len, v, step) ==
    IF st.idx \notin 0..(len - 1) THEN st
    ELSE [cur_ts |-> [k \in DOMAIN st.cur_ts |->
                        IF k % len = st.idx THEN v[k \div len] ELSE st.cur_ts[k]],
          idx    |-> st.idx + step]

\* For the chunk itself the index moves on with every band.
PutOwnSlice(st, len, v) ==
    IF st.idx \notin 0..(len - 1) THEN st
    ELSE [cur_ts |-> [k \in DOMAIN st.cur_ts |->
                        IF \E b \in DOMAIN v : k = b * len + st.idx + b
                        THEN v[CHOOSE b \in DOMAIN v : k = b * len + st.idx + b]
                        ELSE st.cur_ts[k]],
          idx    |-> st.idx + Cardinality(DOMAIN v)]

\* Slices of chunk i at element p; a chunk outside of the cube counts as a full one of NaNs.
Slices(c, w, i, p) ==
    LET bands == 0..(Len(w.bands) - 1)
        x     == ChunkOf(c, i)
    IN  IF i \notin ChunkIds(c.n, c.s) THEN [k \in 1..c.s.t |-> [b \in bands |-> NaN]]
        ELSE [k \in 1..x.size.t |-> [b \in bands |-> Value(x, w.bands[b + 1], k - 1, p)]]

ChunksBefore(c, w) == Ceil(w.l, c.s.t)
ChunksAfter(c, w)  == Ceil(w.r, c.s.t)

\* The series of one pixel with the slices of adjacent chunks: first backwards from the
\* chunk, then the chunk and what follows it.
WindowSeries(c, w, id, p) ==
    LET m      == ChunksPerSlice(c)
        len    == w.l + c.sizes[id].t + w.r
        before == FlattenSeq([i \in 1..ChunksBefore(c, w) |-> Reverse(Slices(c, w, id - i * m, p))])
        after  == FlattenSeq([i \in 1..ChunksAfter(c, w) |-> Slices(c, w, id + i * m, p)])
        blank  == [cur_ts |-> [k \in 0..(Len(w.bands) * len - 1) |-> NaN], idx |-> w.l - 1]
        left   == FoldLeft(LAMBDA st, v : PutSlice(st, len, v, -1), blank, before)
        own    == FoldLeft(LAMBDA st, v : PutOwnSlice(st, len, v),
                           [left EXCEPT !.idx = w.l], Slices(c, w, id, p))
    IN  FoldLeft(LAMBDA st, v : PutSlice(st, len, v, 1), own, after).cur_ts

\* Every band is given the window of the first.
window_time(c, w, id) ==
    LET z      == c.sizes[id]
        series == [p \in 0..(z.y * z.x - 1) |-> WindowSeries(c, w, id, p)]
        win(t, p) == [j \in 1..(w.l + 1 + w.r) |-> series[p][t + j - 1]]
    IN  Chunk(BandSize(Len(w.bands), z),
              LAMBDA b, t, p : IF w.f = "kernel" THEN kernel_reducer(w, win(t, p))
                               ELSE window_reducer(w, win(t, p)))

-------------------------------------------------------------------------------
\* Gaps in time.  Positions are pairs of a chunk and a slice in it; NotFound is none.

NotFound == <<-1, -1>>

\* Slices of chunk i that have a value; a chunk without data has none.
Filled(c, b, p, i) ==
    LET x == ChunkOf(c, i)
    IN  {t \in 0..(x.size.t - 1) : Value(x, b, t, p) # NaN}

\* The last value in the chunks before id.
SearchBack(c, b, p, id) ==
    LET m     == ChunksPerSlice(c)
        found == {i \in ChunkIds(c.n, c.s) :
                    i < id /\ (id - i) % m = 0 /\ Filled(c, b, p, i) # {}}
    IN  IF found = {} THEN NotFound ELSE <<Max(found), Max(Filled(c, b, p, Max(found)))>>

\* Mutant: later chunks are searched from the slice the search began at.
SearchOnSameSlice(c, b, p, i0, t0) ==
    LET hits(i) == {t \in Filled(c, b, p, i) : t >= t0}
        found   == {i \in Range(Column(c, i0)) : hits(i) # {}}
    IN  IF found = {} THEN NotFound ELSE <<Min(found), Min(hits(Min(found)))>>

\* The first value from slice t0 of chunk i0 on.
SearchOn(c, b, p, i0, t0) ==
    LET hits(i) == {t \in Filled(c, b, p, i) : i = i0 => t >= t0}
        found   == {i \in Range(Column(c, i0)) : hits(i) # {}}
    IN  IF found = {} THEN NotFound ELSE <<Min(found), Min(hits(Min(found)))>>

Interpolate(method, v0, v1, d0, d1) ==
    IF method = "locf" THEN v0
    ELSE IF method = "nocb" THEN v1
    ELSE IF v0 = NaN THEN v1
    ELSE IF v1 = NaN THEN v0
    ELSE IF method = "linear" THEN (v0 * d1 + v1 * d0) \div (d0 + d1)
    ELSE IF d0 <= d1 THEN v0 ELSE v1

\* One pixel of one band: prev and next are moved along with the slice cur.
FillSeries(c, method, id, b, p) ==
    LET z    == c.sizes[id]
        m    == ChunksPerSlice(c)
        v(q) == LET x == ChunkOf(c, q[1])
                IN  IF x.size.t = 0 THEN NaN ELSE Value(x, b, q[2], p)
        orElse(q, r) == IF q = NotFound THEN r ELSE q
        start == IF v(<<id, 0>>) = NaN
                 THEN [prev |-> orElse(SearchBack(c, b, p, id), <<id, 0>>),
                       next |-> orElse(SearchOn(c, b, p, id, 1), <<id, 0>>), out |-> <<>>]
                 ELSE [prev |-> <<id, 0>>, next |-> <<id, 0>>, out |-> <<>>]
        step(st, cur) ==
            IF v(<<id, cur>>) = NaN
            THEN [st EXCEPT !.out = Append(@,
                    Interpolate(method, v(st.prev), v(st.next),
                        ((id - st.prev[1]) \div m) * c.s.t + cur - st.prev[2],
                        ((st.next[1] - id) \div m) * c.s.t - cur + st.next[2]))]
            ELSE [prev |-> <<id, cur>>,
                  next |-> orElse(SearchOn(c, b, p, st.next[1], st.next[2] + 1), <<id, cur + 1>>),
                  out  |-> Append(st.out, v(<<id, cur>>))]
    IN  FoldLeft(step, start, UpTo(z.t)).out

fill_time(c, method, id) ==
    LET z   == c.sizes[id]
        out == [b \in 0..(c.nb - 1) |->
                    [p \in 0..(z.y * z.x - 1) |-> FillSeries(c, method, id, b, p)]]
    IN  Chunk(BandSize(c.nb, z), LAMBDA b, t, p : out[b][p][t + 1])

-------------------------------------------------------------------------------
\* Pixels and bands.

\* tinyexpr: the value of an expression is determined by the bands and variables it uses.
te_eval(e, values, variables) ==
    [bands |-> [b \in e.bands |-> values[b]], variables |-> [i \in e.vars |-> variables[i]]]

\* Predicates compare a band with a limit; comparisons with NaN are false.
Holds(pred, values) == values[pred.band] # NaN /\ values[pred.band] > pred.limit

\* Where element p of slice t of a chunk stands in it.
Place(x, t, p) == [t |-> t, row |-> p \div x.size.x, col |-> p % x.size.x]

\* The bands of the input come first if they are kept.
apply_pixel(c, exprs, keep_bands, id) ==
    LET x    == ChunkOf(c, id)
        kept == IF keep_bands THEN c.nb ELSE 0
    IN  Chunk(BandSize(kept + Len(exprs), x.size),
              LAMBDA b, t, p :
                IF b < kept THEN Value(x, b, t, p)
                ELSE te_eval(exprs[b - kept + 1], [i \in 0..(c.nb - 1) |-> Value(x, i, t, p)],
                             PixelVariables(c.n, c.s, id, Place(x, t, p))))

filter_pixel(c, pred, id) ==
    LET x == ChunkOf(c, id)
    IN  Chunk(BandSize(c.nb, x.size),
              LAMBDA b, t, p :
                IF Holds(pred, [i \in 0..(c.nb - 1) |-> Value(x, i, t, p)])
                THEN Value(x, b, t, p) ELSE NaN)

select_bands(c, bands, id) ==
    LET x == ChunkOf(c, id)
    IN  Chunk(BandSize(Len(bands), x.size), LAMBDA b, t, p : Value(x, bands[b + 1], t, p))

\* Mutant: the second cube is copied one element early.
JoinEarly(A, B, id) ==
    LET z  == BandSize(A.nb + B.nb, A.sizes[id])
        a  == ChunkOf(A, id)
        b  == ChunkOf(B, id)
    IN  [size |-> z,
         buf  |-> [k \in 0..(Volume(z) - 1) |->
                    IF k + 1 < Volume(a.size) THEN a.buf[k]
                    ELSE IF k + 1 - Volume(a.size) < Volume(b.size) THEN b.buf[k + 1 - Volume(a.size)]
                    ELSE NaN]]

\* Mutant: the chunk is as large as any other, also at the boundary.
JoinFullChunk(A, B, id) ==
    LET z  == BandSize(A.nb + B.nb, A.s)
        a  == ChunkOf(A, id)
        b  == ChunkOf(B, id)
    IN  [size |-> z,
         buf  |-> [k \in 0..(Volume(z) - 1) |->
                    IF k < Volume(a.size) THEN a.buf[k]
                    ELSE IF k - Volume(a.size) < Volume(b.size) THEN b.buf[k - Volume(a.size)]
                    ELSE NaN]]

\* join_bands_cube: the two buffers one after the other.
join_bands(A, B, id) ==
    LET z  == BandSize(A.nb + B.nb, A.sizes[id])
        a  == ChunkOf(A, id)
        b  == ChunkOf(B, id)
    IN  [size |-> z,
         buf  |-> [k \in 0..(Volume(z) - 1) |->
                    IF k < Volume(a.size) THEN a.buf[k]
                    ELSE IF k - Volume(a.size) < Volume(b.size) THEN b.buf[k - Volume(a.size)]
                    ELSE NaN]]

-------------------------------------------------------------------------------
Nothing == [id |-> -1, out |-> EmptyChunk]

\* Size and chunk size of the result.
OutShape ==
    CASE op.kind \in {"reduce_time", "reduce"} -> TimeShape(cube)
      [] op.kind = "reduce_space"              -> SpaceShape(cube)
      [] OTHER                                 -> [n |-> cube.n, s |-> cube.s]

\* The constructors refuse bands the input has not and cubes of different shapes.
OperationsInit ==
    /\ cube \in {WithChunks(c) : c \in Cubes}
    /\ op \in Operations
    /\ op.uses \subseteq 0..(cube.nb - 1)
    /\ other \in IF op.kind = "join_bands" THEN {WithChunks(c) : c \in {d \in Cubes : d.n = cube.n /\ d.s = cube.s}}
                 ELSE {cube}
    /\ read = Nothing

\* A read keeps no state, so one read per behaviour is enough.
Reads(kind, F(_)) ==
    /\ op.kind = kind /\ read = Nothing
    /\ \E id \in ChunkIds(OutShape.n, OutShape.s) : read' = [id |-> id, out |-> F(id)]
    /\ UNCHANGED <<cube, other, op>>

ReadReduceTime  == Reads("reduce_time",  LAMBDA id : reduce_time(cube, op.reducer_bands, id))
ReadReduce      == Reads("reduce",       LAMBDA id : reduce(cube, op.reducer, id))
ReadReduceSpace == Reads("reduce_space", LAMBDA id : reduce_space(cube, op.reducer_bands, id))
ReadWindowTime  == Reads("window_time",  LAMBDA id : window_time(cube, op, id))
ReadFillTime    == Reads("fill_time",    LAMBDA id : fill_time(cube, op.method, id))
ReadApplyPixel  == Reads("apply_pixel",  LAMBDA id : apply_pixel(cube, op.exprs, op.keep, id))
ReadFilterPixel == Reads("filter_pixel", LAMBDA id : filter_pixel(cube, op, id))
ReadSelectBands == Reads("select_bands", LAMBDA id : select_bands(cube, op.bands, id))
ReadJoinBands   == Reads("join_bands",   LAMBDA id : join_bands(cube, other, id))

OperationsNext ==
    \/ ReadReduceTime \/ ReadReduce \/ ReadReduceSpace
    \/ ReadWindowTime \/ ReadFillTime
    \/ ReadApplyPixel \/ ReadFilterPixel \/ ReadSelectBands \/ ReadJoinBands

-------------------------------------------------------------------------------
(***************************************************************************)
(* What the operations promise, cell by cell and without chunks.            *)
(***************************************************************************)

\* Cells K, each with a value f[k], reduced to one value.
Reduced(r, K, f) ==
    LET n       == Cardinality(K)
        sum     == MapThenSumSet(LAMBDA k : f[k], K)
        mean    == sum \div n
        vals    == {f[k] : k \in K}
        rank(j) == Min({v \in vals : Cardinality({k \in K : f[k] <= v}) >= j})
        first(v) == Min({k.t : k \in {k \in K : f[k] = v}})
    IN  CASE r = "count" -> n
          [] r = "sum"   -> sum
          [] r = "prod"  -> FoldSet(LAMBDA k, a : a * f[k], 1, K)
          [] r \in {"var", "sd"} ->
                IF n < 2 THEN NaN
                ELSE MapThenSumSet(LAMBDA k : (f[k] - mean) * (f[k] - mean), K) \div (n - 1)
          [] OTHER ->
                IF K = {} THEN NaN
                ELSE CASE r = "mean"      -> mean
                       [] r = "min"       -> Min(vals)
                       [] r = "max"       -> Max(vals)
                       [] r = "which_min" -> first(Min(vals))
                       [] r = "which_max" -> first(Max(vals))
                       [] r = "median"    -> (rank((n + 1) \div 2) + rank(n \div 2 + 1)) \div 2

\* The mean of any of the cells is a whole number: the divisions of var and sd, which are of
\* doubles in the code, are then exact.
WholeMeans(K, f) ==
    \A V \in SUBSET K : V # {} => MapThenSumSet(LAMBDA k : f[k], V) % Cardinality(V) = 0

\* The reducers of the output bands, with the input bands they are applied to.
ReducerBands ==
    IF op.kind = "reduce" THEN [b \in 1..cube.nb |-> [r |-> op.reducer, b |-> b - 1]]
    ELSE op.reducer_bands

\* The input cells an output cell is made of.
Sources(cell) ==
    {k \in Cells(cube.n) : IF op.kind = "reduce_space" THEN k.t = cell.t
                           ELSE k.y = cell.y /\ k.x = cell.x}

Before(S, t) == {u \in DOMAIN S : u < t /\ S[u] # NaN}
After(S, t)  == {u \in DOMAIN S : u > t /\ S[u] # NaN}

\* S[t] in a series S, or what a gap at t is filled with.
FilledValue(method, S, t) ==
    LET u == Max(Before(S, t))
        v == Min(After(S, t))
    IN  IF S[t] # NaN THEN S[t]
        ELSE IF method = "locf" THEN IF Before(S, t) = {} THEN NaN ELSE S[u]
        ELSE IF method = "nocb" THEN IF After(S, t) = {} THEN NaN ELSE S[v]
        ELSE IF Before(S, t) = {} THEN IF After(S, t) = {} THEN NaN ELSE S[v]
        ELSE IF After(S, t) = {} THEN S[u]
        ELSE IF method = "linear" THEN S[u] + ((S[v] - S[u]) * (t - u)) \div (v - u)
        ELSE IF t - u <= v - t THEN S[u] ELSE S[v]

Series(b, cell) == [t \in 0..(cube.n.t - 1) |-> cube.data[b][[cell EXCEPT !.t = t]]]

\* Slices l before to r after t; there is nothing outside of the cube.
Window(S, t, l, r) ==
    [j \in 1..(l + 1 + r) |-> IF t - l + j - 1 \in DOMAIN S THEN S[t - l + j - 1] ELSE NaN]

OutCell(t, p) == ElementCell(OutShape.n, OutShape.s, read.id, Place(read.out, t, p))

\* P holds of the value of every element: band, output cell and value.
EachElement(P(_, _, _)) ==
    \A b \in 0..(read.out.size.b - 1), t \in 0..(read.out.size.t - 1),
       p \in 0..(read.out.size.y * read.out.size.x - 1) :
        P(b, OutCell(t, p), Value(read.out, b, t, p))

\* Chunks read by a window operation.
WindowChunks ==
    {i \in ChunkIds(cube.n, cube.s) :
        /\ (i - read.id) % ChunksPerSlice(cube) = 0
        /\ i >= read.id - ChunksBefore(cube, op) * ChunksPerSlice(cube)
        /\ i <= read.id + ChunksAfter(cube, op) * ChunksPerSlice(cube)}

-------------------------------------------------------------------------------
\* A chunk read from an operation has the size of that chunk of the output cube, or no
\* data at all where expressions, filters and selections meet an input chunk without data
\* and where a reducer hands an input of one slice or cell through.
TypeOK ==
    read # Nothing =>
        LET z == chunk_size(OutShape.n, OutShape.s, read.id)
        IN  /\ DOMAIN read.out.buf = 0..(Volume(read.out.size) - 1)
            /\ \/ read.out.size = BandSize(read.out.size.b, z)
               \/ /\ read.id \in cube.empty
                  /\ op.kind \notin {"window_time", "fill_time", "join_bands"}
                  /\ Volume(read.out.size) = 0

\* Reducers over time, over space and over all bands give every output cell the reduction
\* of exactly the input cells it stands for, whichever chunks these lie in, how many of
\* their chunks are empty and in which order values are accumulated.  An input that
\* has one slice (or one cell per slice) is handed through instead.  Variances are compared
\* where the means on the way to them are whole.
ReduceAgrees ==
    (read # Nothing /\ op.kind \in {"reduce_time", "reduce", "reduce_space"}
        /\ OutShape.n # cube.n) =>
        EachElement(LAMBDA b, cell, v :
            LET rb == ReducerBands[b + 1]
                K  == {k \in Sources(cell) : cube.data[rb.b][k] # NaN}
                f  == [k \in K |-> cube.data[rb.b][k]]
            IN  (rb.r \in {"var", "sd"} => WholeMeans(K, f)) => v = Reduced(rb.r, K, f))

\* A moving window over one band sees the slices before and after each slice of every
\* pixel and NaN beyond the cube, also when it spans several chunks or the last,
\* smaller one; and fill_time puts into every gap what the nearest earlier and later values
\* of the whole series determine, however far away in other chunks they lie and
\* whichever chunks are empty.  Windows hold this only if no chunk they read is empty:
\* the slices of an empty chunk are skipped, and those of the next one take their place.
SeriesAgrees ==
    /\ (read # Nothing /\ op.kind = "window_time"
            /\ Len(op.bands) = 1 /\ WindowChunks \cap cube.empty = {}) =>
        EachElement(LAMBDA b, cell, v :
            LET win == Window(Series(op.bands[1], cell), cell.t, op.l, op.r)
            IN  v = IF op.f = "kernel" THEN kernel_reducer(op, win)
                    ELSE window_reducer(op, win))
    /\ (read # Nothing /\ op.kind = "fill_time") =>
        EachElement(LAMBDA b, cell, v : v = FilledValue(op.method, Series(b, cell), cell.t))

\* Expressions are evaluated on the values of their own cell and its own position, kept
\* bands come first; a filter blanks all bands of a cell or none; selected and joined
\* bands stand under the index they have in the result.  A joined chunk whose first input
\* is empty is left out: the second is then copied over the bands of the first.
BandsAgree ==
    LET own(i, cell) == cube.data[i][cell]
    IN  /\ (read # Nothing /\ op.kind = "apply_pixel") =>
            EachElement(LAMBDA b, cell, v :
                LET kept == IF op.keep THEN cube.nb ELSE 0
                IN  IF b < kept THEN v = own(b, cell)
                    ELSE /\ v.bands = [i \in op.exprs[b - kept + 1].bands |-> own(i, cell)]
                         /\ v.variables = [i \in op.exprs[b - kept + 1].vars |->
                                <<cell.t, cube.n.y - 1 - cell.y, cell.x>>[i]])
        /\ (read # Nothing /\ op.kind = "filter_pixel") =>
            EachElement(LAMBDA b, cell, v :
                v = IF own(op.band, cell) # NaN /\ own(op.band, cell) > op.limit
                    THEN own(b, cell) ELSE NaN)
        /\ (read # Nothing /\ op.kind = "select_bands") =>
            EachElement(LAMBDA b, cell, v : v = own(op.bands[b + 1], cell))
        /\ (read # Nothing /\ op.kind = "join_bands" /\ read.id \notin cube.empty) =>
            EachElement(LAMBDA b, cell, v :
                v = IF b < cube.nb THEN own(b, cell) ELSE other.data[b - cube.nb][cell])

===============================================================================
