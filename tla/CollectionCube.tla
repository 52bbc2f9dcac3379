------------------------------ MODULE CollectionCube ------------------------------
(***************************************************************************)
(* A cube over an image collection (image_collection_cube.cpp): the chunk   *)
(* is asked of the catalogue by its bounds, every image found is put into   *)
(* the slice of its date, and images of one slice are aggregated pixel by   *)
(* pixel, in the order of their ids.  Warping an image to the bounds of a   *)
(* chunk is external: it yields the values of a file in the cells the file  *)
(* covers, and NaN elsewhere.                                               *)
(*                                                                         *)
(* The collection stays open: it may be filtered or extended after the      *)
(* cube has loaded its bands.                                               *)
(***************************************************************************)
EXTENDS ImageCollection, CubeView, ChunkGeometry

CONSTANTS NaN,
          Lists,        \* arguments of add: files, strict
          Ranges,       \* [from, to, left, right] of the filters
          BandSets,     \* arguments of filter_bands
          Selections,   \* arguments of select_bands
          Unreadable,   \* sets of files that may be gone when a chunk is read
          Views, Durations, Counts, CellSizes,
          Settings,     \* chunk size in time and space, aggregation, mask band, values, invert, range
          MaxOperations \* bound on operations on the collection and on the view

\* aggregation_type
Aggregations == {"none", "min", "max", "mean", "median", "first", "last", "count_images", "count_values"}

\* What a view may be told: a window of even length, dates in their order, of the unit of the
\* duration (view.cpp, read), and a duration, numbers and sizes of chunks that are not 0, by which
\* is divided.  The values of a file are numbers, or NaN, which is none.
ASSUME CubeAssumption ==
    /\ NaN \notin Int
    /\ \A f \in Descriptors : \A b \in FileInfo[f].bands : FileInfo[f].values[b] \in Int \cup {NaN}
    /\ Views \subseteq [win : [left : Int, right : Int], nx : Nat \ {0},
                        t0 : [p : Int, unit : Units], t1 : [p : Int, unit : Units],
                        dt : [interval : Nat \ {0}, unit : Units]]
    /\ \A v \in Views :
        /\ v.win.left < v.win.right /\ (v.win.right - v.win.left) % 2 = 0
        /\ v.t0.p <= v.t1.p /\ v.t0.unit = v.dt.unit /\ v.t1.unit = v.dt.unit
    /\ Durations \subseteq [interval : Nat \ {0}, unit : Units]
    /\ Counts \subseteq Nat \ {0}
    /\ \A x \in CellSizes : x \in Nat \ {0} /\ x % 2 = 0
    /\ \A l \in Lists : l.files \in Seq(Descriptors)
    /\ Ranges \subseteq [from : Int, to : Int, left : Int, right : Int]
    /\ \A s \in Settings : s.st \in Nat \ {0} /\ s.sx \in Nat \ {0} /\ s.agg \in Aggregations

VARIABLES view,   \* the view under construction, NoView before
          cubec,  \* the cube: view, settings and its bands, NoCube before
          chunk,  \* the chunk read last: id, the catalogue it was read from, and the result
          count   \* operations so far

qvars == <<view, cubec, chunk, count>>
allvars == <<cvars, qvars>>

NoView  == View([left |-> 0, right |-> 0], 0, Date(0, "tick"), Date(0, "tick"), Duration(0, "tick"))
NoCube  == [view |-> NoView, bands |-> <<>>]
NoChunk == [id |-> -1, out |-> <<>>]
Thrown  == [id |-> -2, out |-> <<>>]

-------------------------------------------------------------------------------
\* The shape of the cube; a cell is one unit of space wide.
ShapeN(v)    == [t |-> nt(v), y |-> 1, x |-> v.nx]
ShapeS(c)    == [t |-> c.st, y |-> 1, x |-> c.sx]

CellWidth(v) == (v.win.right - v.win.left) \div v.nx

\* bounds_from_chunk on the map.
chunk_extent(v, b) ==
    [t0 |-> map_time(v, b.t0), t1 |-> map_time(v, b.t1),
     left |-> v.win.left + b.left * CellWidth(v), right |-> v.win.left + b.right * CellWidth(v)]

\* Extents and sizes of all chunks.
Chunking(v, n, s) ==
    [n |-> n, s |-> s,
     ext  |-> [id \in ChunkIds(n, s) |-> chunk_extent(v, bounds_from_chunk(n, s, id))],
     size |-> [id \in ChunkIds(n, s) |-> chunk_size(n, s, id)]]

\* A cube: its view, bands, settings s and chunks.
Cube(v, bands, s) ==
    [view |-> v, bands |-> bands, agg |-> s.agg, mask |-> s.mask, maskvalues |-> s.maskvalues,
     invert |-> s.invert, range |-> s.range, st |-> s.st, sx |-> s.sx,
     chunks |-> Chunking(v, ShapeN(v), ShapeS(s))]

\* Mutant: the slice is counted from the start of the cube.
slice_of_view(v, ext, date) == Quot(Minus(Date(date, v.dt.unit), v.t0).interval, v.dt.interval)

\* itime, from the start of the chunk.
slice_of(v, ext, date) == Quot(Minus(Date(date, v.dt.unit), ext.t0).interval, v.dt.interval)

-------------------------------------------------------------------------------
\* GDAL: the value of a band of file f at the cell that begins at x, nearest neighbour.
Pixel(f, b, x) ==
    IF Info(f).left <= x /\ x < Info(f).right THEN Info(f).values[b] ELSE NaN

\* value_mask and range_mask blank all bands of a pixel; NaN is in no range and outside of none.
\* The values of a range are listed; bits are left out.
Masked(c, m) == ~(c.range /\ m = NaN) /\ (c.invert # (m \in c.maskvalues))

-------------------------------------------------------------------------------
\* Aggregation of the images of a slice, per band and pixel.

\* Counts and none take images without data as well.
update(a, st, x) ==
    CASE a = "count_images" -> [st EXCEPT !.v = IF @ = NaN THEN 1 ELSE @ + 1]
      [] a = "count_values" -> [st EXCEPT !.v = (IF @ = NaN THEN 0 ELSE @) + (IF x = NaN THEN 0 ELSE 1)]
      [] a = "none"         -> [st EXCEPT !.v = x]
      [] OTHER ->
            IF x = NaN THEN st
            ELSE CASE a = "median" -> [st EXCEPT !.list = Append(@, x)]
                   [] a = "mean"   -> [st EXCEPT !.v = IF @ = NaN THEN x ELSE @ + x, !.n = @ + 1]
                   [] a = "first"  -> [st EXCEPT !.v = IF @ = NaN THEN x ELSE @]
                   [] a = "last"   -> [st EXCEPT !.v = x]
                   [] a = "min"    -> [st EXCEPT !.v = IF @ = NaN \/ x < @ THEN x ELSE @]
                   [] a = "max"    -> [st EXCEPT !.v = IF @ = NaN \/ x > @ THEN x ELSE @]

\* Element k of the list after std::sort.
Sorted(list, k) ==
    CHOOSE x \in Range(list) :
        /\ Cardinality({j \in DOMAIN list : list[j] < x}) < k
        /\ Cardinality({j \in DOMAIN list : list[j] <= x}) >= k

MedianOf(list) ==
    LET h == Len(list) \div 2
    IN  IF list = <<>> THEN NaN
        ELSE IF Len(list) % 2 = 1 THEN Sorted(list, h + 1)
        ELSE (Sorted(list, h + 1) + Sorted(list, h)) \div 2

finalize(a, st) ==
    CASE a = "median" -> MedianOf(st.list)
      [] a = "mean"   -> IF st.v = NaN THEN NaN ELSE st.v \div st.n
      [] OTHER        -> st.v

\* The values of images, by their ids, aggregated in the order of the ids.
Aggregated(a, value) ==
    finalize(a, MapThenFoldSet(LAMBDA i, st : update(a, st, value[i]), [v |-> NaN, n |-> 0, list |-> <<>>],
                               LAMBDA i : i, Max, DOMAIN value))

-------------------------------------------------------------------------------
\* read_chunk

\* What an image contributes at the cell that begins at x to band b, by the references found.
Contribution(c, rows, i, b, x) ==
    LET of(k)  == {r \in rows : r.image = i /\ r.band = k}
        value  == IF of(b) = {} THEN NaN ELSE Pixel((CHOOSE r \in of(b) : TRUE).file, b, x)
        hidden == /\ c.mask # NoMatch /\ of(c.mask) # {}
                  /\ Masked(c, Pixel((CHOOSE r \in of(c.mask) : TRUE).file, c.mask, x))
    IN  IF hidden THEN NaN ELSE value

\* Images found that have a band of the cube and whose slice lies in the chunk.
ImagesIn(d, c, id) ==
    LET ext  == c.chunks.ext[id]
        rows == find_range_st(d, ext.t0.p, ext.t1.p, ext.left, ext.right)
    IN  {i \in {r.image : r \in {q \in rows : q.band \in Range(c.bands)}} :
            slice_of(c.view, ext, d.images[i].date) \in 0..(c.chunks.size[id].t - 1)}

\* A chunk that no image touches has no data; otherwise it is a function from the index of a
\* band, slice and column.
read_chunk(d, c, id) ==
    LET v     == c.view
        ext   == c.chunks.ext[id]
        z     == c.chunks.size[id]
        rows  == find_range_st(d, ext.t0.p, ext.t1.p, ext.left, ext.right)
        found == ImagesIn(d, c, id)
        of(t) == {i \in found : slice_of(v, ext, d.images[i].date) = t}
        x(k)  == ext.left + k * CellWidth(v)
    IN  IF rows = {} \/ c.bands = <<>> THEN <<>>
        ELSE [e \in (DOMAIN c.bands) \X (0..(z.t - 1)) \X (0..(z.x - 1)) |->
                Aggregated(c.agg, [i \in of(e[2]) |-> Contribution(c, rows, i, c.bands[e[1]], x(e[3]))])]

\* Files that are opened for a chunk.
FilesFor(d, c, id) ==
    {r.file : r \in {q \in d.refs : /\ q.image \in ImagesIn(d, c, id)
                                    /\ q.band \in Range(c.bands) \cup {c.mask}}}

-------------------------------------------------------------------------------
\* Operations.

Idle == adding = NotAdding /\ count < MaxOperations

Step == count' = count + 1

\* The catalogue is worked on before a view is made, and again once a cube is open.  A read
\* leaves nothing behind, so it is the last step of a behaviour.
Catalogue ==
    /\ view = NoView \/ cubec # NoCube
    /\ chunk = NoChunk
    /\ UNCHANGED <<view, cubec, chunk>>

Add ==
    /\ Idle /\ Catalogue /\ Step
    /\ \E l \in Lists : StartAdd(l.files, l.strict)

Continue == AddNext /\ UNCHANGED <<view, cubec, chunk, count>>

FilterBands ==
    /\ Idle /\ Catalogue /\ Step
    /\ \E names \in BandSets \ {{}} : Filter(filter_bands(db, names))

FilterDates ==
    /\ Idle /\ Catalogue /\ Step
    /\ \E r \in Ranges : Filter(filter_datetime_range(db, r.from, r.to))

FilterSpace ==
    /\ Idle /\ Catalogue /\ Step
    /\ \E r \in Ranges : Filter(filter_spatial_range(db, r.left, r.right))

Files ==
    /\ Idle /\ Catalogue /\ Step
    /\ \E n \in FileNames \cup {Temporary} : Write(n) \/ WriteFails(n)

\* A crash loses the cube and what is in memory, also in the middle of add.
Restart ==
    /\ count < MaxOperations /\ Step
    /\ chunk = NoChunk
    /\ \E n \in FileNames : Reopen(n)
    /\ view' = NoView /\ cubec' = NoCube /\ UNCHANGED chunk

MakeView ==
    /\ adding = NotAdding
    /\ view = NoView
    /\ \/ view' \in Views
       \/ /\ ImageIds(db) # {}
          /\ LET e == extent(db)
             IN  view' = default_view([left |-> e.left, right |-> e.right], e.right - e.left, e.first, e.last)
    /\ UNCHANGED <<cvars, cubec, chunk, count>>

ChangeView ==
    /\ Idle /\ Step
    /\ view # NoView /\ cubec = NoCube
    /\ \/ \E n \in Counts : UnitsAgree(view) /\ view' = set_nt(view, n)
       \/ \E d \in Durations : view' = set_dt(view, d)
       \/ \E x \in CellSizes : view' = set_dx(view, x)
       \/ view' = rewritten(view)
    /\ UNCHANGED <<cvars, cubec, chunk>>

OpenCube ==
    /\ adding = NotAdding
    /\ view # NoView /\ cubec = NoCube
    /\ \E s \in Settings :
        cubec' = [Cube(view, get_available_bands(db), s)
                    EXCEPT !.mask = IF @ \in Range(get_available_bands(db)) THEN @ ELSE NoMatch]
    /\ UNCHANGED <<cvars, view, chunk, count>>

\* Unknown bands leave the selection as it is; no bands add those of the collection.
select_bands(c, bs) ==
    CASE bs = <<>> ->
            [c EXCEPT !.bands = @ \o SelectSeq(get_available_bands(db), LAMBDA b : b \notin Range(c.bands))]
      [] bs # <<>> /\ Range(bs) \subseteq Range(c.bands) -> [c EXCEPT !.bands = bs]
      [] OTHER -> c

SelectBands ==
    /\ adding = NotAdding
    /\ cubec # NoCube /\ chunk = NoChunk
    /\ \E bs \in Selections : cubec' = select_bands(cubec, bs)
    /\ UNCHANGED <<cvars, view, chunk, count>>

\* A file that is gone ends the read with an exception.
ReadChunk ==
    /\ adding = NotAdding
    /\ cubec # NoCube /\ chunk = NoChunk
    /\ \E id \in DOMAIN cubec.chunks.ext, gone \in Unreadable :
        chunk' = IF FilesFor(db, cubec, id) \cap gone # {} THEN Thrown
                 ELSE [id |-> id, out |-> read_chunk(db, cubec, id)]
    /\ UNCHANGED <<cvars, view, cubec, count>>

Init ==
    /\ CollectionInit
    /\ view = NoView /\ cubec = NoCube /\ chunk = NoChunk /\ count = 0

Next ==
    \/ Add \/ Continue \/ FilterBands \/ FilterDates \/ FilterSpace \/ Files \/ Restart
    \/ MakeView \/ ChangeView \/ OpenCube \/ SelectBands \/ ReadChunk

Spec == Init /\ [][Next]_allvars

-------------------------------------------------------------------------------
\* The cube on a server: from the view and the file that its JSON names.
RemoteCube == Cube(rewritten(cubec.view), get_available_bands(saved[filename]), cubec)

-------------------------------------------------------------------------------
\* Properties.

\* The catalogue keeps one image per name and one file per image and band, every reference leads
\* to an image and a band that are there, its file belongs to both, and the band was described;
\* the file of a connected collection has all of it.
TypeOK ==
    /\ Cardinality({db.images[i].name : i \in ImageIds(db)}) = Cardinality(ImageIds(db))
    /\ Cardinality({<<r.image, r.band>> : r \in db.refs}) = Cardinality(db.refs)
    /\ \A r \in db.refs :
        /\ r.image \in ImageIds(db) /\ r.band \in db.bands
        /\ Info(r.file).image = db.images[r.image].name
        /\ r.band \in Info(r.file).bands
        /\ db.described[r.band] \in Descriptors
    /\ DOMAIN db.md \subseteq ImageIds(db)
    /\ handle \in FileNames => saved[handle] = db
    /\ chunk \in {NoChunk, Thrown} \/ chunk.id \in DOMAIN cubec.chunks.ext

\* The bounds of chunks fall between the slices: the unit of the cube has a fixed length, or the
\* cube starts at the beginning of a unit, or there is one chunk in time.  Otherwise images
\* between the start of a unit and the border of a chunk in it are lost.
Aligned(v) ==
    \/ v.dt.unit = "tick"
    \/ v.dt.unit = "week" /\ v.t0.p % TicksPerDay = 0
    \/ v.dt.unit # "week" /\ Written(Date(v.t0.p, v.dt.unit)) = v.t0.p

\* Aggregations that do not tell an image without data from no image.
Values(c) == c.agg \notin {"count_images", "count_values", "none"}

\* The extent of an image is that of its first file; a later file may be larger, but what lies
\* outside is not asked for.
WithinExtent(d) ==
    \A r \in d.refs : d.images[r.image].left <= Info(r.file).left /\ Info(r.file).right <= d.images[r.image].right

\* The values of images, by their ids, aggregated.
Aggregate(agg, value) ==
    LET S == DOMAIN value
        below(y) == Cardinality({i \in S : value[i] < y})
        above(y) == Cardinality({i \in S : value[i] > y})
        mid == {y \in Range(value) : 2 * below(y) <= Cardinality(S) /\ 2 * above(y) <= Cardinality(S)}
    IN  IF S = {} THEN NaN
        ELSE CASE agg = "first"  -> value[Min(S)]
               [] agg = "last"   -> value[Max(S)]
               [] agg = "min"    -> Min(Range(value))
               [] agg = "max"    -> Max(Range(value))
               [] agg = "mean"   -> SumFunction(value) \div Cardinality(S)
               [] agg = "median" -> (Min(mid) + Max(mid)) \div 2

\* What the cell of a band, slice and position x should be: the aggregate of the images of the
\* slice that have a value there, whatever the chunks.
Expected(d, c, b, t, x) ==
    LET in(i) == d.images[i].date >= c.view.t0.p /\ cube_time(c.view, d.images[i].date) = t
        value(i) == Contribution(c, d.refs, i, b, x)
    IN  Aggregate(c.agg, [i \in {k \in ImageIds(d) : in(k) /\ value(k) # NaN} |-> value(i)])

\* Element e of a chunk, NaN if the chunk is empty.
At(out, e) == IF out = <<>> THEN NaN ELSE out[e]

\* Reading chunk by chunk loses no image and counts none twice: every cell is the aggregate of
\* all images of its slice, also of those that lie on the border of two chunks.
ReadsAgree ==
    (chunk.id >= 0 /\ Values(cubec) /\ WithinExtent(db) /\ (Aligned(cubec.view) \/ cubec.st >= nt(cubec.view))) =>
        LET b == chunk_limits(cubec.chunks.n, cubec.chunks.s, chunk.id)
            z == cubec.chunks.size[chunk.id]
        IN  \A e \in (DOMAIN cubec.bands) \X (0..(z.t - 1)) \X (0..(z.x - 1)) :
                At(chunk.out, e) = Expected(db, cubec, cubec.bands[e[1]], b.low.t + e[2],
                    cubec.view.win.left + (b.low.x + e[3]) * CellWidth(cubec.view))

\* Two results for the same chunk agree on the bands both cubes have.
SameValues(c1, out1, c2, out2) ==
    \A k \in DOMAIN c1.bands, l \in DOMAIN c2.bands :
        c1.bands[k] = c2.bands[l] =>
            \A e \in {f \in DOMAIN out1 : f[1] = k} \cup
                     {<<k, f[2], f[3]>> : f \in {g \in DOMAIN out2 : g[1] = l}} :
                At(out1, e) = At(out2, <<l, e[2], e[3]>>)

\* Filters that keep everything the cube is about do not change what it reads.
FilterTransparent ==
    chunk.id >= 0 =>
        LET v == cubec.view
            kept == {filter_spatial_range(db, r.left, r.right) :
                        r \in {q \in Ranges : q.left <= v.win.left /\ v.win.right <= q.right}}
                \cup {filter_datetime_range(db, r.from, r.to) :
                        r \in {q \in Ranges : q.from <= v.t0.p /\ map_time(v, nt(v)).p <= q.to}}
                \cup {filter_bands(db, bs) :
                        bs \in {q \in BandSets : q # {} /\ Range(cubec.bands) \cup ({cubec.mask} \ {NoMatch}) \subseteq q}}
        IN  \A d \in kept \ {db} : SameValues(cubec, read_chunk(d, cubec, chunk.id), cubec, chunk.out)

\* A server that builds the cube from its JSON reads the same chunks: what was added or filtered
\* after the collection was written is in its file, and the dates survive being written in their
\* unit.  Not after a write that failed, which leaves the new name behind.
RemoteAgrees ==
    (chunk.id >= 0 /\ filename # Temporary /\ ~unwritten /\ Aligned(cubec.view)) =>
        LET r == RemoteCube
        IN  /\ r.bands = get_available_bands(db)
            /\ DOMAIN r.chunks.ext = DOMAIN cubec.chunks.ext
            /\ (Values(cubec) \/ Range(r.bands) = Range(cubec.bands)) =>
                SameValues(cubec, chunk.out, r, read_chunk(saved[filename], r, chunk.id))

\* A view covers what it is asked to cover, however it was made: the last date is in the last
\* cell, every cell starts in itself, n cells are n cells (the assertion of nt), a longer cell,
\* a cube derived from another or a view read from JSON loses no date, and a wider cell no space;
\* the default view of a collection has all its images.
ViewCells ==
    /\ (view # NoView /\ cubec = NoCube /\ UnitsAgree(view)) =>
        /\ cube_time(view, view.t1.p) = nt(view) - 1
        /\ \A k \in 0..nt(view) : cube_time(view, map_time(view, k).p) = k
        /\ \A n \in Counts : LET w == set_nt(view, n)
                             IN  nt(w) = n /\ cube_time(w, view.t1.p) \in 0..(n - 1)
        /\ \A d \in Durations : LET w == set_dt(view, d)
                                IN  cube_time(w, view.t1.p) = nt(w) - 1 /\ cube_time(w, w.t1.p) = nt(w) - 1
        /\ \A w \in {rewritten(view), derived(view)} :
            nt(w) = nt(view) /\ \A i \in ImageIds(db) :
                db.images[i].date >= view.t0.p => cube_time(w, db.images[i].date) = cube_time(view, db.images[i].date)
        /\ \A x \in CellSizes : LET w == set_dx(view, x)
                                IN  /\ w.win.left <= view.win.left /\ view.win.right <= w.win.right
                                    /\ w.win.right - w.win.left = w.nx * x
    /\ (view = NoView /\ ImageIds(db) # {}) =>
        LET e == extent(db)
            v == default_view([left |-> e.left, right |-> e.right], 1, e.first, e.last)
        IN  \A i \in ImageIds(db) : cube_time(v, db.images[i].date) \in 0..(nt(v) - 1)

=================================================================================
