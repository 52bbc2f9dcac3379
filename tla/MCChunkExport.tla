----------------------------- MODULE MCChunkExport -----------------------------
(***************************************************************************)
(* Small cubes, by dimension as pairs of a size and a chunk size: chunks    *)
(* that divide the cube, smaller ones at the boundary, chunks larger than   *)
(* the cube, and one cell only; at most MaxChunks chunks at a time.         *)
(***************************************************************************)
EXTENDS ChunkExport

CONSTANTS MaxChunks

InTime  == {<<1, 1>>, <<2, 1>>, <<3, 2>>}
InSpace == {<<1, 2>>, <<2, 1>>, <<3, 2>>}

Shape(t, y, x) ==
    [n |-> [t |-> t[1], y |-> y[1], x |-> x[1]], s |-> [t |-> t[2], y |-> y[2], x |-> x[2]]]

SmallShapes ==
    {z \in {Shape(t, y, x) : t \in InTime, y \in InSpace, x \in InSpace} :
        count_chunks(z.n, z.s) <= MaxChunks}

===============================================================================
