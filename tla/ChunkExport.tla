------------------------------ MODULE ChunkExport ------------------------------
(***************************************************************************)
(* The four exports of a data cube, as the functions f they hand to the     *)
(* chunk processor: cube::write_netcdf_file ("netcdf"),                     *)
(* cube::write_tif_collection ("tif"), cube::write_chunks_gtiff ("chunks")  *)
(* and reduce_cube / reduce_time_cube::write_gdal_image ("gdal").  Up to    *)
(* nthreads threads are inside f at a time, with different chunks, in any   *)
(* order (ChunkProcessor shows that no chunk is processed twice).           *)
(*                                                                         *)
(* The values are abstract: an element of a chunk buffer holds the cell it  *)
(* stands for, and image says which cell every pixel of the output holds.   *)
(* One band stands for all; packing changes the values only.                *)
(***************************************************************************)
EXTENDS ChunkGeometry, FiniteSets

CONSTANTS Shapes,      \* cubes considered: records of a size n and a chunk size s
          MaxThreads   \* most threads of a chunk processor

ASSUME ExportAssumption ==
    /\ Shapes \subseteq [n : Sizes, s : Sizes]
    /\ MaxThreads \in Nat \ {0}

Formats == {"netcdf", "tif", "chunks", "gdal"}

Nothing == [t |-> -1, y |-> -1, x |-> -1]   \* the fill value

VARIABLES
    shape,     \* the cube that is exported
    format,
    nthreads,
    pos,       \* steps of f that are done, for each chunk
    skipped,   \* steps that wrote nothing: the chunk is empty or the write failed
    image,     \* the cell each pixel of the output holds
    handle     \* "gdal": what the dataset opened for a chunk holds in memory

vars == <<shape, format, nthreads, pos, skipped, image, handle>>

n == shape.n
s == shape.s
Ids == ChunkIds(n, s)

\* f writes a netCDF chunk with one call, the slices of a GeoTIFF one by one,
\* and opens, writes and closes a GDAL image.
StepsOf(id) == CASE format = "netcdf" -> 1
                 [] format = "gdal"   -> 3
                 [] OTHER             -> chunk_size(n, s, id).t

Ended(id) == pos[id] = StepsOf(id)

\* Mutant: a chunk that is done may be taken again.
RunningAgain(id) ==
    pos[id] > 0 \/ Cardinality({c \in Ids : pos[c] > 0 /\ ~Ended(c)}) < nthreads

\* A thread is inside f with the chunk id, or takes it now.
Running(id) ==
    /\ ~Ended(id)
    /\ \/ pos[id] > 0
       \/ Cardinality({c \in Ids : pos[c] > 0 /\ ~Ended(c)}) < nthreads

Step(id) == pos' = [pos EXCEPT ![id] = @ + 1]

-------------------------------------------------------------------------------
\* Where each export writes the first element of (a slice of) a chunk.

\* Mutant: the row is computed from the lower limit.
NetcdfStartLow(id) ==
    LET b == chunk_limits(n, s, id) IN <<b.low.t, n.y - b.low.y - 1, b.low.x>>

NetcdfStart(id) ==
    LET b == chunk_limits(n, s, id) IN <<b.low.t, n.y - b.high.y - 1, b.low.x>>

TifStart(id) ==
    LET b == chunk_limits(n, s, id) IN <<b.low.t, n.y - b.high.y - 1, b.low.x>>

\* Each file has its own affine transformation: the upper left corner of the chunk.
ChunksStart(id) ==
    LET b == bounds_from_chunk(n, s, id) IN <<b.t0, n.y - b.top, b.left>>

\* The row is clamped: the topmost chunks may be smaller than the chunk size.
GdalStart(id) ==
    LET ct   == chunk_coords_from_id(n, s, id)
        yoff == n.y - (ct.y + 1) * s.y
    IN  <<0, IF yoff < 0 THEN 0 ELSE yoff, ct.x * s.x>>

StartOf(id) == CASE format = "netcdf" -> NetcdfStart(id)
                 [] format = "tif"    -> TifStart(id)
                 [] format = "chunks" -> ChunksStart(id)
                 [] format = "gdal"   -> GdalStart(id)

\* The pixel the element e goes to.
PixelOf(id, e) ==
    LET b == StartOf(id) IN <<b[1] + e.t, b[2] + e.row, b[3] + e.col>>

\* im after the elements E of the chunk id were written to it.
Drawn(im, id, E) ==
    [q \in DOMAIN im |->
        IF \E e \in E : PixelOf(id, e) = q
        THEN ElementCell(n, s, id, CHOOSE e \in E : PixelOf(id, e) = q)
        ELSE im[q]]

Slice(id, it) == {e \in Elements(n, s, id) : e.t = it}

-------------------------------------------------------------------------------
\* f finds the chunk empty, or the chunk processor did not call it.
Skip(id) ==
    /\ pos[id] = 0 /\ Running(id)
    /\ pos' = [pos EXCEPT ![id] = StepsOf(id)]
    /\ skipped' = skipped \cup ({id} \X (0..(StepsOf(id) - 1)))
    /\ UNCHANGED <<shape, format, nthreads, image, handle>>

\* nc_put_vara under the mutex of the chunk processor.
PutVara(id) ==
    /\ format = "netcdf" /\ Running(id)
    /\ Step(id)
    /\ image' = Drawn(image, id, Elements(n, s, id))
    /\ UNCHANGED <<shape, format, nthreads, skipped, handle>>

\* Mutant: every slice of a chunk goes out with the first slice's data and offset.
WriteFirstSlice(id) ==
    /\ format \in {"tif", "chunks"} /\ Running(id)
    /\ Step(id)
    /\ image' = Drawn(image, id, Slice(id, 0))
    /\ UNCHANGED <<shape, format, nthreads, skipped, handle>>

\* Open, write and close one file, under the mutex of the slice if files are shared.
WriteSlice(id) ==
    /\ format \in {"tif", "chunks"} /\ Running(id)
    /\ Step(id)
    /\ image' = Drawn(image, id, Slice(id, pos[id]))
    /\ UNCHANGED <<shape, format, nthreads, skipped, handle>>

\* The file cannot be opened or the write fails: a warning, and f goes on.
WriteFails(id) ==
    /\ format # "gdal" /\ Running(id)
    /\ Step(id)
    /\ skipped' = skipped \cup {<<id, pos[id]>>}
    /\ UNCHANGED <<shape, format, nthreads, image, handle>>

\* The same file is opened once per chunk: every thread has a dataset of its own.
GdalOpen(id) ==
    /\ format = "gdal" /\ pos[id] = 0 /\ Running(id)
    /\ Step(id)
    /\ UNCHANGED <<shape, format, nthreads, skipped, image, handle>>

\* GDAL (external): writing a part of a block loads the block from the file into
\* the dataset's own cache; a block is one row here.
GdalWrite(id) ==
    /\ format = "gdal" /\ pos[id] = 1
    /\ Step(id)
    /\ LET rows == {PixelOf(id, e)[2] : e \in Elements(n, s, id)}
           loaded == [q \in {p \in Pixels(n) : p[2] \in rows} |-> image[q]]
       IN  handle' = [handle EXCEPT ![id] = Drawn(loaded, id, Elements(n, s, id))]
    /\ UNCHANGED <<shape, format, nthreads, skipped, image>>

\* GDAL (external): closing the dataset writes the blocks that changed.
GdalClose(id) ==
    /\ format = "gdal" /\ pos[id] = 2
    /\ Step(id)
    /\ image' = [q \in DOMAIN image |->
                    IF q \in DOMAIN handle[id] THEN handle[id][q] ELSE image[q]]
    /\ handle' = [handle EXCEPT ![id] = <<>>]
    /\ UNCHANGED <<shape, format, nthreads, skipped>>

\* apply() returned and the file is closed.
Returned == \A id \in Ids : Ended(id)

Init ==
    /\ shape \in Shapes /\ format \in Formats /\ nthreads \in 1..MaxThreads
    /\ format = "gdal" => shape.n.t = 1 /\ shape.s.t = 1   \* reduced over time
    /\ pos = [id \in ChunkIds(shape.n, shape.s) |-> 0]
    /\ skipped = {}
    /\ image = [q \in Pixels(shape.n) |-> Nothing]
    /\ handle = [id \in ChunkIds(shape.n, shape.s) |-> <<>>]

Next == \E id \in Ids :
    Skip(id) \/ PutVara(id) \/ WriteSlice(id) \/ WriteFails(id)
        \/ GdalOpen(id) \/ GdalWrite(id) \/ GdalClose(id)

Spec == Init /\ [][Next]_vars

-------------------------------------------------------------------------------
Maybe(S) == S \cup {Nothing}

\* Types of all variables; the handle of a chunk holds whole rows or nothing.
TypeOK ==
    /\ shape \in Shapes /\ format \in Formats /\ nthreads \in 1..MaxThreads
    /\ DOMAIN pos = Ids /\ \A id \in Ids : pos[id] \in 0..StepsOf(id)
    /\ skipped \subseteq Ids \X (0..(n.t + 3))
    /\ DOMAIN image = Pixels(n) /\ \A q \in Pixels(n) : image[q] \in Maybe(Cells(n))
    /\ DOMAIN handle = Ids /\ \A id \in Ids : DOMAIN handle[id] \subseteq Pixels(n)

\* Whatever is exported, and in whatever order chunks are written, a pixel holds the
\* fill value or the cell its coordinates stand for: the flip of the rows, the smaller
\* chunks at the boundary and the offsets of the four exports fit together.
RightPlace == \A q \in Pixels(n) : image[q] \in {Nothing, PixelCell(n, q)}

\* Threads that share a GDAL image each write back whole blocks of it, and a block
\* of an earlier state overwrites what others wrote; the other exports hold a mutex
\* from opening to closing, or make one call.
Lossless == format # "gdal" \/ nthreads = 1

\* Elements of the chunk id that f has written for good.
WrittenElements(id) ==
    {e \in Elements(n, s, id) :
        CASE format = "netcdf" -> pos[id] = 1 /\ <<id, 0>> \notin skipped
          [] format = "gdal"   -> pos[id] = 3 /\ <<id, 0>> \notin skipped
          [] OTHER             -> e.t < pos[id] /\ <<id, e.t>> \notin skipped}

\* Every pixel of a chunk that was written is in the output and stays there, whatever
\* the other chunks do, and all pixels of skipped chunks hold the fill value.
NothingMissing ==
    Lossless =>
        {q \in Pixels(n) : image[q] # Nothing}
            = {q \in Pixels(n) : \E id \in Ids :
                  \E e \in WrittenElements(id) : ElementCell(n, s, id, e) = PixelCell(n, q)}

\* The cells of a cube are divided among its chunks: the chunk that is found for
\* a cell is the only one whose limits contain it, and ids and coordinates agree.
ChunksPartition ==
    /\ \A id \in Ids : chunk_id_from_coords(n, s, chunk_coords_from_id(n, s, id)) = id
    /\ \A p \in Cells(n) :
          {id \in Ids : \E e \in Elements(n, s, id) : ElementCell(n, s, id, e) = p}
              = {find_chunk_that_contains(n, s, p)}

\* A point query reads the element that stands for the cell the point lies in.
PointsFound ==
    \A p \in Cells(n) :
        LET id == find_chunk_that_contains(n, s, p)
            e  == QueriedElement(n, s, p)
        IN  e \in Elements(n, s, id) /\ ElementCell(n, s, id, e) = p

\* The variables it, iy and ix an expression of apply_pixel sees are the slice, the row
\* and the column at which the exports put the element.
VariablesAgree ==
    \A id \in Ids : \A e \in Elements(n, s, id) :
        PixelVariables(n, s, id, e) = PixelOf(id, e)

===============================================================================
