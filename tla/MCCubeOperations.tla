---------------------------- MODULE MCCubeOperations ----------------------------
(***************************************************************************)
(* Two kinds of cubes.  Series: one pixel, SeriesLength slices, every       *)
(* pattern of gaps and of the values 60 and 120, every chunk size in time,  *)
(* and every choice of blank chunks that come back empty.  Blocks: two      *)
(* bands, several pixels and chunks per slice, boundary chunks in every     *)
(* dimension, distinct values, few gaps or many; blank chunks come back     *)
(* empty or do not.                                                         *)
(***************************************************************************)
EXTENDS Streaming

CONSTANT SeriesLength

\* All cells of a chunk are gaps, in all bands.
Blank(n, s, data, id) ==
    \A b \in DOMAIN data : \A e \in Elements(n, s, id) : data[b][ElementCell(n, s, id, e)] = NaN

BlankChunks(n, s, data) == {id \in ChunkIds(n, s) : Blank(n, s, data, id)}

\* A cube may return its blank chunks empty, or filled with NaN.
CubeWith(n, s, data, e) ==
    [n |-> n, s |-> s, nb |-> Cardinality(DOMAIN data), data |-> data, empty |-> e]

SeriesCubes ==
    LET n == [t |-> SeriesLength, y |-> 1, x |-> 1]
        with(s, data) == {CubeWith(n, s, data, e) : e \in SUBSET BlankChunks(n, s, data)}
    IN  UNION {with([t |-> s, y |-> 1, x |-> 1], [b \in {0} |-> d]) :
                s \in 1..SeriesLength, d \in [Cells(n) -> {NaN, 60, 120}]}

\* Values count the cells; band 1 descends.  The first gaps are at the front, then everywhere
\* but in one pixel.
BlockData(n, g) ==
    LET k(c) == (c.t * n.y + c.y) * n.x + c.x + 1
        gap(c) == CASE g = 0 -> FALSE
                    [] g = 1 -> c.t = 0 \/ c.x = n.x - 1
                    [] g = 2 -> c # [t |-> n.t - 1, y |-> 0, x |-> 0]
    IN  [b \in {0, 1} |-> [c \in Cells(n) |->
            IF gap(c) THEN NaN ELSE IF b = 0 THEN 60 * k(c) ELSE 60 * (20 - k(c))]]

Size(t, y, x) == [t |-> t, y |-> y, x |-> x]

BlockCubes ==
    UNION {LET d == BlockData(z[1], g)
           IN  {CubeWith(z[1], z[2], d, e) : e \in {{}, BlankChunks(z[1], z[2], d)}} :
            g \in 0..2,
            z \in {<<Size(3, 2, 3), Size(2, 2, 2)>>, <<Size(3, 3, 2), Size(1, 2, 1)>>,
                   <<Size(2, 1, 2), Size(1, 1, 1)>>, <<Size(1, 2, 1), Size(1, 1, 1)>>}}

MCCubes == SeriesCubes \cup BlockCubes

RB(r, b) == [r |-> r, b |-> b]

Reductions ==
    {[kind |-> "reduce_time", uses |-> {0}, reducer_bands |-> rb] :
        rb \in {<<RB("sum", 0), RB("which_min", 0), RB("var", 0), RB("median", 0)>>,
                <<RB("prod", 0), RB("mean", 0), RB("which_max", 0), RB("sd", 0)>>,
                <<RB("count", 0), RB("min", 0), RB("max", 0)>>}}
    \cup {[kind |-> "reduce_time", uses |-> {0, 1}, reducer_bands |-> <<RB("max", 1), RB("mean", 0)>>]}
    \cup {[kind |-> "reduce_space", uses |-> {0, 1},
            reducer_bands |-> <<RB("median", 1), RB("var", 0), RB("sum", 1), RB("max", 0)>>],
          [kind |-> "reduce_space", uses |-> {0, 1},
            reducer_bands |-> <<RB("min", 1), RB("mean", 0), RB("count", 1)>>]}
    \cup {[kind |-> "reduce", uses |-> {}, reducer |-> r] : r \in {"var", "median", "min"}}

Windows ==
    {[kind |-> "window_time", uses |-> {0}, f |-> f, bands |-> <<0>>, l |-> l, r |-> r,
      kernel |-> [j \in 1..(l + 1 + r) |-> j]] :
        f \in {"mean", "kernel", "max"}, l \in 0..2, r \in {0, 1, 3}}
    \cup {[kind |-> "window_time", uses |-> {0, 1}, f |-> "sum", bands |-> <<b, 0>>, l |-> 1, r |-> 1,
      kernel |-> <<>>] : b \in {0, 1}}

Others ==
    {[kind |-> "fill_time", uses |-> {}, method |-> m] : m \in {"near", "linear", "locf", "nocb"}}
    \cup {[kind |-> "apply_pixel", uses |-> {0, 1}, keep |-> k,
           exprs |-> <<[bands |-> {1}, vars |-> {1, 2, 3}], [bands |-> {0, 1}, vars |-> {}]>>] :
            k \in BOOLEAN}
    \cup {[kind |-> "filter_pixel", uses |-> {b}, band |-> b, limit |-> 200] : b \in {0, 1}}
    \cup {[kind |-> "select_bands", uses |-> {0, 1}, bands |-> bs] : bs \in {<<1>>, <<1, 0>>}}
    \cup {[kind |-> "join_bands", uses |-> {0, 1}]}

\* Streams of the first chunks by one operator, by two, and by files and pipes.
Streams ==
    {[kind |-> "stream", uses |-> {0, 1}, operators |-> {o}, ids |-> {0, 1}] :
        o \in {"stream", "apply", "reduce", "pipe"}}
    \cup {[kind |-> "stream", uses |-> {0, 1}, operators |-> o, ids |-> {0}] :
        o \in {{"stream", "pipe"}, {"apply", "reduce"}}}

MCOperations == Reductions \cup Windows \cup Others \cup Streams

=================================================================================
