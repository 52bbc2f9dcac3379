----------------------------- MODULE ChunkGeometry -----------------------------
(***************************************************************************)
(* How class cube divides a data cube into chunks (cube.h): counts, ids,    *)
(* coordinates, limits and sizes of chunks, the chunk that contains a cell, *)
(* and which cell each element of a chunk buffer stands for.                *)
(*                                                                         *)
(* n is the size of a cube in cells and s its chunk size, per dimension.    *)
(* Cell 0 is the earliest, bottom, left one (cube_st_reference::map_coords) *)
(* while row 0 of a chunk buffer and of an image is the top one.  Lengths   *)
(* are in cells, so a coordinate of the map is the index of a cell border.  *)
(* Products are assumed to fit the 32 bits of the code.                     *)
(***************************************************************************)
EXTENDS Integers

Sizes == [t : Nat \ {0}, y : Nat \ {0}, x : Nat \ {0}]

Smaller(a, b) == IF a <= b THEN a ELSE b

\* Cells of a cube, as (t, y, x) triples.
Cells(n) == [t : 0..(n.t - 1), y : 0..(n.y - 1), x : 0..(n.x - 1)]

-------------------------------------------------------------------------------
\* One dimension.

\* std::ceil((double)n / (double)s)
Ceil(n, s) == (n + s - 1) \div s

\* Mutant: the last cell is one too far.
HighOffByOne(n, s, i) == Smaller(i * s + s, n - 1)

\* First and last cell of chunk i, shrunk to the view.
Low(n, s, i)  == Smaller(i * s, n - 1)
High(n, s, i) == Smaller(i * s + s - 1, n - 1)

-------------------------------------------------------------------------------
\* All dimensions.

count_chunks(n, s) ==
    Ceil(n.x, s.x) * Ceil(n.y, s.y) * Ceil(n.t, s.t)

ChunkIds(n, s) == 0..(count_chunks(n, s) - 1)

chunk_coords_from_id(n, s, id) ==
    LET nx == Ceil(n.x, s.x)
        ny == Ceil(n.y, s.y)
        nt == Ceil(n.t, s.t)
    IN  [x |-> id % nx, y |-> (id \div nx) % ny, t |-> (id \div (nx * ny)) % nt]

chunk_id_from_coords(n, s, c) ==
    c.t * Ceil(n.y, s.y) * Ceil(n.x, s.x) + c.y * Ceil(n.x, s.x) + c.x

limits_of_coords(n, s, c) ==
    [low  |-> [t |-> Low(n.t, s.t, c.t), y |-> Low(n.y, s.y, c.y),
               x |-> Low(n.x, s.x, c.x)],
     high |-> [t |-> High(n.t, s.t, c.t), y |-> High(n.y, s.y, c.y),
               x |-> High(n.x, s.x, c.x)]]

\* The code repeats the arithmetic of chunk_coords_from_id here.
chunk_limits(n, s, id) == limits_of_coords(n, s, chunk_coords_from_id(n, s, id))

SizeOf(b) ==
    [t |-> b.high.t - b.low.t + 1, y |-> b.high.y - b.low.y + 1, x |-> b.high.x - b.low.x + 1]

chunk_size(n, s, id) == SizeOf(chunk_limits(n, s, id))

\* Borders of a chunk on the map: bottom, top, left, right and the two dates.
Borders(b) ==
    [t0 |-> b.low.t, t1 |-> b.high.t + 1, bottom |-> b.low.y, top |-> b.high.y + 1,
     left |-> b.low.x, right |-> b.high.x + 1]

bounds_from_chunk(n, s, id) == Borders(chunk_limits(n, s, id))

\* p is the cell the point of the query lies in (cube_st_reference::cube_coords).
find_chunk_that_contains(n, s, p) ==
    p.x \div s.x + Ceil(n.x, s.x) * (p.y \div s.y)
        + Ceil(n.x, s.x) * Ceil(n.y, s.y) * (p.t \div s.t)

-------------------------------------------------------------------------------
\* Chunk buffers: element (t, row, col), row 0 at the top.

Elements(n, s, id) ==
    LET z == chunk_size(n, s, id)
    IN  [t : 0..(z.t - 1), row : 0..(z.y - 1), col : 0..(z.x - 1)]

\* Chunks are filled from images warped to the bounds of the chunk, top row first.
CellAt(b, e) == [t |-> b.t0 + e.t, y |-> b.top - 1 - e.row, x |-> b.left + e.col]

ElementCell(n, s, id, e) == CellAt(bounds_from_chunk(n, s, id), e)

\* Mutant: the row is counted in full chunks.
QueriedFullChunk(n, s, p) ==
    [t |-> p.t % s.t, row |-> s.y - 1 - (p.y % s.y), col |-> p.x % s.x]

\* vector_queries::query_points: where the value of the cell p is read.
QueriedElement(n, s, p) ==
    LET z == chunk_size(n, s, find_chunk_that_contains(n, s, p))
    IN  [t |-> p.t % s.t, row |-> z.y - 1 - (p.y % s.y), col |-> p.x % s.x]

\* Mutant: iy counts from the bottom.
VariablesFromBottom(n, s, id, e) ==
    LET b == chunk_limits(n, s, id)
    IN  <<b.low.t + e.t, b.high.y - e.row, b.low.x + e.col>>

\* apply_pixel_cube: the variables it, iy and ix of an element; iy counts from the top.
PixelVariables(n, s, id, e) ==
    LET b == chunk_limits(n, s, id)
    IN  <<b.low.t + e.t, n.y - 1 - (b.high.y - e.row), b.low.x + e.col>>

-------------------------------------------------------------------------------
\* Images (slice, row, column) of a whole cube: row 0 is at the top, and the
\* coordinate variables or the affine transformation say so.
Pixels(n) == (0..(n.t - 1)) \X (0..(n.y - 1)) \X (0..(n.x - 1))

PixelCell(n, q) == [t |-> q[1], y |-> n.y - 1 - q[2], x |-> q[3]]

===============================================================================
