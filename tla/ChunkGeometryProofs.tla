-------------------------- MODULE ChunkGeometryProofs --------------------------
(***************************************************************************)
(* Proofs about ChunkGeometry, for cubes and chunks of every size: ids and  *)
(* coordinates of chunks are in one-to-one correspondence, every cell is in *)
(* the limits of exactly one chunk, and find_chunk_that_contains names it.  *)
(* One dimension at a time first; the rest is the mixed-radix number        *)
(* (t, y, x) with the digits ceil(n / s).  Last, facts about numbers, sets,  *)
(* sequences and folds that the proofs about whole cubes share.             *)
(***************************************************************************)
EXTENDS ChunkGeometry, SequencesExt, FiniteSetTheorems, NaturalsInduction, WellFoundedInduction,
        SequenceTheorems, TLAPS

LEMMA Division ==
    ASSUME NEW a \in Nat, NEW d \in Nat \ {0}
    PROVE  /\ a \div d \in Nat /\ a % d \in 0..(d - 1)
           /\ a = d * (a \div d) + (a % d)
OBVIOUS

LEMMA DivisionUnique ==
    ASSUME NEW d \in Nat \ {0}, NEW q \in Nat, NEW r \in 0..(d - 1)
    PROVE  (d * q + r) \div d = q /\ (d * q + r) % d = r
OBVIOUS

LEMMA ProductOrder ==
    ASSUME NEW d \in Nat, NEW a \in Nat, NEW b \in Nat, a <= b
    PROVE  a * d <= b * d
<1>1. b - a \in Nat /\ (b - a) * d \in Nat
  BY SMT
<1>2. b * d = a * d + (b - a) * d
  BY SMT
<1>3. a * d \in Nat /\ b * d \in Nat
  BY SMT
<1> QED BY <1>1, <1>2, <1>3

\* The number of chunks: the last one begins inside the cube, and they cover it.
LEMMA CeilBounds ==
    ASSUME NEW n \in Nat \ {0}, NEW s \in Nat \ {0}
    PROVE  /\ Ceil(n, s) \in Nat \ {0}
           /\ (Ceil(n, s) - 1) * s < n /\ n <= Ceil(n, s) * s
<1> DEFINE a == n + s - 1
<1>1. a \in Nat
  OBVIOUS
<1>2. a \div s \in Nat /\ a % s \in 0..(s - 1) /\ a = s * (a \div s) + (a % s)
  BY <1>1, Division
<1> QED BY <1>2 DEF Ceil

\* A chunk begins at a multiple of the chunk size, inside the cube, and is not empty.
LEMMA LimitsInside ==
    ASSUME NEW n \in Nat \ {0}, NEW s \in Nat \ {0}, NEW i \in 0..(Ceil(n, s) - 1)
    PROVE  /\ Low(n, s, i) = i * s /\ Low(n, s, i) \in 0..(n - 1)
           /\ High(n, s, i) \in Low(n, s, i)..(n - 1)
<1>1. Ceil(n, s) \in Nat \ {0} /\ (Ceil(n, s) - 1) * s < n
  BY CeilBounds
<1>2. i * s <= (Ceil(n, s) - 1) * s
  BY <1>1, ProductOrder
<1>3. i * s \in Nat /\ (Ceil(n, s) - 1) * s \in Nat
  BY <1>1, SMT
<1>4. i * s < n
  BY <1>1, <1>2, <1>3
<1> QED BY <1>3, <1>4 DEF Low, High, Smaller

\* The chunk of a cell contains it.
LEMMA CellInside ==
    ASSUME NEW n \in Nat \ {0}, NEW s \in Nat \ {0}, NEW p \in 0..(n - 1)
    PROVE  /\ p \div s \in 0..(Ceil(n, s) - 1)
           /\ p \in Low(n, s, p \div s)..High(n, s, p \div s)
           /\ p % s = p - Low(n, s, p \div s)
<1>1. p \div s \in Nat /\ p % s \in 0..(s - 1) /\ p = s * (p \div s) + (p % s)
  BY Division
<1>2. Ceil(n, s) \in Nat \ {0} /\ n <= Ceil(n, s) * s
  BY CeilBounds
<1>3. p \div s < Ceil(n, s)
  <2>1. SUFFICES ASSUME Ceil(n, s) <= p \div s PROVE FALSE
    BY <1>1, <1>2
  <2>2. Ceil(n, s) * s <= (p \div s) * s
    BY <2>1, <1>1, <1>2, ProductOrder
  <2>3. (p \div s) * s <= p
    BY <1>1, SMT
  <2>4. Ceil(n, s) * s \in Nat /\ (p \div s) * s \in Nat
    BY <1>1, <1>2, SMT
  <2> QED BY <2>2, <2>3, <2>4, <1>2
<1>4. p \div s \in 0..(Ceil(n, s) - 1)
  BY <1>1, <1>2, <1>3
<1>5. Low(n, s, p \div s) = (p \div s) * s
  BY <1>4, LimitsInside
<1>6. (p \div s) * s \in Nat /\ p = (p \div s) * s + (p % s)
  BY <1>1, SMT
<1> QED BY <1>1, <1>4, <1>5, <1>6 DEF High, Smaller

\* No other chunk does.
LEMMA CellUnique ==
    ASSUME NEW n \in Nat \ {0}, NEW s \in Nat \ {0},
           NEW i \in 0..(Ceil(n, s) - 1), NEW p \in Low(n, s, i)..High(n, s, i)
    PROVE  p \in 0..(n - 1) /\ p \div s = i
<1>0. i \in Nat
  BY CeilBounds
<1>1. /\ Low(n, s, i) = i * s /\ Low(n, s, i) \in 0..(n - 1)
      /\ High(n, s, i) \in Low(n, s, i)..(n - 1)
  BY LimitsInside
<1>2. i * s \in Nat /\ High(n, s, i) <= i * s + s - 1
  BY <1>0, <1>1 DEF High, Smaller
<1>3. p - i * s \in 0..(s - 1)
  BY <1>1, <1>2
<1>4. p = s * i + (p - i * s)
  BY <1>0, <1>1, <1>2, SMT
<1>5. (s * i + (p - i * s)) \div s = i
  <2>1. PICK q \in 0..(s - 1) : q = p - i * s
    BY <1>3
  <2>2. (s * i + q) \div s = i
    BY <1>0, DivisionUnique
  <2> QED BY <2>1, <2>2
<1> QED BY <1>1, <1>4, <1>5

-------------------------------------------------------------------------------
\* Numbers of two digits: x below a, and y below b.
LEMMA TwoDigits ==
    ASSUME NEW a \in Nat \ {0}, NEW b \in Nat \ {0}, NEW x \in 0..(a - 1), NEW y \in 0..(b - 1)
    PROVE  /\ a * y + x \in 0..(a * b - 1)
           /\ (a * y + x) \div a = y /\ (a * y + x) % a = x
<1>1. (a * y + x) \div a = y /\ (a * y + x) % a = x
  BY DivisionUnique
<1>2. (y + 1) * a <= b * a
  BY ProductOrder
<1>3. (y + 1) * a = a * y + a /\ b * a = a * b /\ a * y \in Nat
  BY SMT
<1> QED BY <1>1, <1>2, <1>3

LEMMA TwoDigitsOf ==
    ASSUME NEW a \in Nat \ {0}, NEW b \in Nat \ {0}, NEW m \in 0..(a * b - 1)
    PROVE  m % a \in 0..(a - 1) /\ m \div a \in 0..(b - 1) /\ m = a * (m \div a) + (m % a)
<1>0. a * b \in Nat /\ m \in Nat
  BY SMT
<1>1. m \div a \in Nat /\ m % a \in 0..(a - 1) /\ m = a * (m \div a) + (m % a)
  BY <1>0, Division
<1>2. m \div a < b
  <2>1. SUFFICES ASSUME b <= m \div a PROVE FALSE
    BY <1>1
  <2>2. b * a <= (m \div a) * a
    BY <2>1, <1>1, ProductOrder
  <2>3. (m \div a) * a = a * (m \div a) /\ b * a = a * b /\ a * (m \div a) \in Nat
    BY <1>1, SMT
  <2> QED BY <2>2, <2>3, <1>0, <1>1
<1> QED BY <1>1, <1>2

-------------------------------------------------------------------------------
\* Chunk coordinates of a cube.
Coords(n, s) ==
    [x : 0..(Ceil(n.x, s.x) - 1), y : 0..(Ceil(n.y, s.y) - 1), t : 0..(Ceil(n.t, s.t) - 1)]

LEMMA Radices ==
    ASSUME NEW n \in Sizes, NEW s \in Sizes
    PROVE  /\ n.x \in Nat \ {0} /\ n.y \in Nat \ {0} /\ n.t \in Nat \ {0}
           /\ s.x \in Nat \ {0} /\ s.y \in Nat \ {0} /\ s.t \in Nat \ {0}
           /\ Ceil(n.x, s.x) \in Nat \ {0} /\ Ceil(n.y, s.y) \in Nat \ {0}
           /\ Ceil(n.t, s.t) \in Nat \ {0}
<1>1. /\ n.x \in Nat \ {0} /\ n.y \in Nat \ {0} /\ n.t \in Nat \ {0}
      /\ s.x \in Nat \ {0} /\ s.y \in Nat \ {0} /\ s.t \in Nat \ {0}
  BY DEF Sizes
<1> QED BY <1>1, CeilBounds

\* chunk_id_from_coords gives ids of chunks, and chunk_coords_from_id undoes it: no
\* two chunks share an id.
THEOREM CoordsOfIdOfCoords ==
    ASSUME NEW n \in Sizes, NEW s \in Sizes, NEW c \in Coords(n, s)
    PROVE  /\ chunk_id_from_coords(n, s, c) \in ChunkIds(n, s)
           /\ chunk_coords_from_id(n, s, chunk_id_from_coords(n, s, c)) = c
<1> DEFINE X == Ceil(n.x, s.x)
           Y == Ceil(n.y, s.y)
           T == Ceil(n.t, s.t)
           q == Y * c.t + c.y
           id == chunk_id_from_coords(n, s, c)
<1>1. X \in Nat \ {0} /\ Y \in Nat \ {0} /\ T \in Nat \ {0}
  BY Radices
<1>2. c.x \in 0..(X - 1) /\ c.y \in 0..(Y - 1) /\ c.t \in 0..(T - 1)
  BY DEF Coords
<1>3. id = c.t * Y * X + c.y * X + c.x
  BY DEF chunk_id_from_coords
<1>3a. count_chunks(n, s) = X * Y * T
  BY DEF count_chunks
<1>3b. chunk_coords_from_id(n, s, id) =
          [x |-> id % X, y |-> (id \div X) % Y, t |-> (id \div (X * Y)) % T]
  BY DEF chunk_coords_from_id
<1>3c. c = [x |-> c.x, y |-> c.y, t |-> c.t]
  BY DEF Coords
<1> HIDE DEF X, Y, T, id
<1>4. q \in 0..(Y * T - 1) /\ q \div Y = c.t /\ q % Y = c.y
  <2> DEFINE u == c.t
             v == c.y
  <2>1. u \in 0..(T - 1) /\ v \in 0..(Y - 1)
    BY <1>2
  <2> HIDE DEF u, v
  <2>2. /\ Y * u + v \in 0..(Y * T - 1)
        /\ (Y * u + v) \div Y = u /\ (Y * u + v) % Y = v
    BY <1>1, <2>1, TwoDigits
  <2> QED BY <2>2 DEF u, v
<1>5. Y * T \in Nat \ {0} /\ X * Y \in Nat \ {0}
  BY <1>1, SMT
<1>6. id = X * q + c.x
  BY <1>1, <1>2, <1>3, SMT
<1> DEFINE r == X * c.y + c.x
<1>7. r \in 0..(X * Y - 1)
  BY <1>1, <1>2, TwoDigits
<1>8. id = (X * Y) * c.t + r
  BY <1>1, <1>2, <1>3, SMT
<1> HIDE DEF q, r
<1>9. id \in 0..(X * (Y * T) - 1) /\ id \div X = q /\ id % X = c.x
  <2> DEFINE w == c.x
             YT == Y * T
  <2>1. w \in 0..(X - 1) /\ q \in 0..(YT - 1) /\ YT \in Nat \ {0} /\ id = X * q + w
    BY <1>2, <1>4, <1>5, <1>6
  <2> HIDE DEF w, YT
  <2>2. X * q + w \in 0..(X * YT - 1) /\ (X * q + w) \div X = q /\ (X * q + w) % X = w
    BY <1>1, <2>1, TwoDigits
  <2> QED BY <2>1, <2>2 DEF w, YT
<1>10. id \div (X * Y) = c.t
  <2> DEFINE u == c.t
             XY == X * Y
  <2>1. u \in Nat /\ XY \in Nat \ {0} /\ r \in 0..(XY - 1) /\ id = XY * u + r
    BY <1>1, <1>2, <1>5, <1>7, <1>8
  <2> HIDE DEF u, XY
  <2>2. (XY * u + r) \div XY = u
    BY <2>1, DivisionUnique
  <2> QED BY <2>1, <2>2 DEF u, XY
<1>11. c.t % T = c.t
  BY <1>1, <1>2
<1>12. X * (Y * T) = X * Y * T
  BY <1>1, SMT
<1> QED BY <1>3a, <1>3b, <1>3c, <1>4, <1>9, <1>10, <1>11, <1>12 DEF ChunkIds, id

\* Every id has coordinates, and chunk_id_from_coords gives it back.
THEOREM IdOfCoordsOfId ==
    ASSUME NEW n \in Sizes, NEW s \in Sizes, NEW id \in ChunkIds(n, s)
    PROVE  /\ chunk_coords_from_id(n, s, id) \in Coords(n, s)
           /\ chunk_id_from_coords(n, s, chunk_coords_from_id(n, s, id)) = id
<1> DEFINE X == Ceil(n.x, s.x)
           Y == Ceil(n.y, s.y)
           T == Ceil(n.t, s.t)
           q == id \div X
           c == [x |-> id % X, y |-> q % Y, t |-> (id \div (X * Y)) % T]
           r == X * (q % Y) + (id % X)
<1>1. X \in Nat \ {0} /\ Y \in Nat \ {0} /\ T \in Nat \ {0}
  BY Radices
<1>2. chunk_coords_from_id(n, s, id) = c
  BY DEF chunk_coords_from_id
<1>3. id \in 0..(X * Y * T - 1)
  BY DEF ChunkIds, count_chunks
<1>3a. chunk_id_from_coords(n, s, c) = c.t * Y * X + c.y * X + c.x
  BY DEF chunk_id_from_coords
<1>3b. c \in Coords(n, s) <=> c \in [x : 0..(X - 1), y : 0..(Y - 1), t : 0..(T - 1)]
  BY DEF Coords
<1> HIDE DEF X, Y, T
<1>4. Y * T \in Nat \ {0} /\ X * Y \in Nat \ {0} /\ X * (Y * T) = X * Y * T
  BY <1>1, SMT
<1>5. id % X \in 0..(X - 1) /\ q \in 0..(Y * T - 1) /\ id = X * q + (id % X)
  BY <1>1, <1>3, <1>4, TwoDigitsOf
<1> HIDE DEF q
<1>6. q % Y \in 0..(Y - 1) /\ q \div Y \in 0..(T - 1) /\ q = Y * (q \div Y) + (q % Y)
  BY <1>1, <1>5, TwoDigitsOf
<1>7. r \in 0..(X * Y - 1)
  BY <1>1, <1>5, <1>6, TwoDigits
<1>8. id = (X * Y) * (q \div Y) + r
  <2>1. id = X * (Y * (q \div Y) + (q % Y)) + (id % X)
    BY <1>5, <1>6
  <2> DEFINE u == q \div Y
             v == q % Y
             w == id % X
  <2>2. u \in Nat /\ v \in Nat /\ w \in Nat
    BY <1>1, <1>5, <1>6
  <2> HIDE DEF u, v, w
  <2>3. X * (Y * u + v) + w = (X * Y) * u + (X * v + w)
    BY <1>1, <2>2, SMT
  <2> QED BY <2>1, <2>3 DEF u, v, w
<1>9. id \div (X * Y) = q \div Y
  BY <1>4, <1>6, <1>7, <1>8, DivisionUnique
<1>10. (id \div (X * Y)) % T = q \div Y
  <2> DEFINE u == q \div Y
  <2>1. u \in 0..(T - 1) /\ id \div (X * Y) = u
    BY <1>6, <1>9
  <2> HIDE DEF u
  <2>2. u % T = u
    BY <1>1, <2>1
  <2> QED BY <2>1, <2>2 DEF u
<1>11. c.t = q \div Y /\ c.y = q % Y /\ c.x = id % X
  BY <1>10
<1>12. c.t * Y * X + c.y * X + c.x = id
  <2> DEFINE u == q \div Y
             v == q % Y
             w == id % X
  <2>2. u \in Nat /\ v \in Nat /\ w \in Nat
    BY <1>1, <1>5, <1>6
  <2> HIDE DEF u, v, w
  <2>3. u * Y * X + v * X + w = (X * Y) * u + (X * v + w)
    BY <1>1, <2>2, SMT
  <2> QED BY <1>8, <1>11, <2>3 DEF u, v, w
<1>13. c \in [x : 0..(X - 1), y : 0..(Y - 1), t : 0..(T - 1)]
  BY <1>5, <1>6, <1>10
<1> QED BY <1>2, <1>3a, <1>3b, <1>12, <1>13

-------------------------------------------------------------------------------
\* chunk_limits: chunks begin at multiples of the chunk size, inside the cube, and have
\* at least one cell in each dimension.
LEMMA ChunkLimits ==
    ASSUME NEW n \in Sizes, NEW s \in Sizes, NEW id \in ChunkIds(n, s)
    PROVE  LET b == chunk_limits(n, s, id)
               c == chunk_coords_from_id(n, s, id)
           IN  /\ c \in Coords(n, s)
               /\ b.low.t = Low(n.t, s.t, c.t) /\ b.high.t = High(n.t, s.t, c.t)
               /\ b.low.y = Low(n.y, s.y, c.y) /\ b.high.y = High(n.y, s.y, c.y)
               /\ b.low.x = Low(n.x, s.x, c.x) /\ b.high.x = High(n.x, s.x, c.x)
               /\ b.low.t \in 0..(n.t - 1) /\ b.high.t \in b.low.t..(n.t - 1)
               /\ b.low.y \in 0..(n.y - 1) /\ b.high.y \in b.low.y..(n.y - 1)
               /\ b.low.x \in 0..(n.x - 1) /\ b.high.x \in b.low.x..(n.x - 1)
<1> DEFINE b == chunk_limits(n, s, id)
           c == chunk_coords_from_id(n, s, id)
<1>1. c \in Coords(n, s)
  BY IdOfCoordsOfId
<1>2. /\ b.low.t = Low(n.t, s.t, c.t) /\ b.high.t = High(n.t, s.t, c.t)
      /\ b.low.y = Low(n.y, s.y, c.y) /\ b.high.y = High(n.y, s.y, c.y)
      /\ b.low.x = Low(n.x, s.x, c.x) /\ b.high.x = High(n.x, s.x, c.x)
  BY DEF chunk_limits, limits_of_coords
<1> HIDE DEF b, c
<1>3. /\ c.t \in 0..(Ceil(n.t, s.t) - 1) /\ c.y \in 0..(Ceil(n.y, s.y) - 1)
      /\ c.x \in 0..(Ceil(n.x, s.x) - 1)
  BY <1>1 DEF Coords
<1>4. /\ b.low.t \in 0..(n.t - 1) /\ b.high.t \in b.low.t..(n.t - 1)
      /\ b.low.y \in 0..(n.y - 1) /\ b.high.y \in b.low.y..(n.y - 1)
      /\ b.low.x \in 0..(n.x - 1) /\ b.high.x \in b.low.x..(n.x - 1)
  <2>1. b.low.t \in 0..(n.t - 1) /\ b.high.t \in b.low.t..(n.t - 1)
    <3>1. /\ Low(n.t, s.t, c.t) \in 0..(n.t - 1)
          /\ High(n.t, s.t, c.t) \in Low(n.t, s.t, c.t)..(n.t - 1)
      BY <1>3, Radices, LimitsInside
    <3> QED BY <1>2, <3>1
  <2>2. b.low.y \in 0..(n.y - 1) /\ b.high.y \in b.low.y..(n.y - 1)
    <3>1. /\ Low(n.y, s.y, c.y) \in 0..(n.y - 1)
          /\ High(n.y, s.y, c.y) \in Low(n.y, s.y, c.y)..(n.y - 1)
      BY <1>3, Radices, LimitsInside
    <3> QED BY <1>2, <3>1
  <2>3. b.low.x \in 0..(n.x - 1) /\ b.high.x \in b.low.x..(n.x - 1)
    <3>1. /\ Low(n.x, s.x, c.x) \in 0..(n.x - 1)
          /\ High(n.x, s.x, c.x) \in Low(n.x, s.x, c.x)..(n.x - 1)
      BY <1>3, Radices, LimitsInside
    <3> QED BY <1>2, <3>1
  <2> QED BY <2>1, <2>2, <2>3
<1> QED BY <1>1, <1>2, <1>4 DEF b, c

LEMMA ElementCellIs ==
    ASSUME NEW n, NEW s, NEW id, NEW e
    PROVE  LET b == chunk_limits(n, s, id)
           IN  ElementCell(n, s, id, e) =
                  [t |-> b.low.t + e.t, y |-> (b.high.y + 1) - 1 - e.row, x |-> b.low.x + e.col]
<1> DEFINE b == chunk_limits(n, s, id)
           m == bounds_from_chunk(n, s, id)
<1>1. m.t0 = b.low.t /\ m.top = b.high.y + 1 /\ m.left = b.low.x
  BY DEF bounds_from_chunk, Borders
<1>2. ElementCell(n, s, id, e) =
          [t |-> m.t0 + e.t, y |-> m.top - 1 - e.row, x |-> m.left + e.col]
  BY DEF ElementCell, CellAt
<1> HIDE DEF b, m
<1>3. /\ m.t0 + e.t = b.low.t + e.t /\ m.left + e.col = b.low.x + e.col
      /\ m.top - 1 - e.row = (b.high.y + 1) - 1 - e.row
  BY <1>1, Zenon
<1> QED BY <1>2, <1>3, Zenon DEF b

\* The elements of the buffer of a chunk stand for the cells in its limits.
LEMMA ElementLimits ==
    ASSUME NEW n \in Sizes, NEW s \in Sizes, NEW id \in ChunkIds(n, s), NEW e \in Elements(n, s, id)
    PROVE  LET b == chunk_limits(n, s, id)
               p == ElementCell(n, s, id, e)
           IN  /\ p = [t |-> b.low.t + e.t, y |-> b.high.y - e.row, x |-> b.low.x + e.col]
               /\ e.t \in Nat /\ e.row \in Nat /\ e.col \in Nat
               /\ p \in Cells(n)
               /\ p.t \in b.low.t..b.high.t /\ p.y \in b.low.y..b.high.y
               /\ p.x \in b.low.x..b.high.x
<1> DEFINE b == chunk_limits(n, s, id)
           p == ElementCell(n, s, id, e)
<1>1. /\ b.low.t \in 0..(n.t - 1) /\ b.high.t \in b.low.t..(n.t - 1)
      /\ b.low.y \in 0..(n.y - 1) /\ b.high.y \in b.low.y..(n.y - 1)
      /\ b.low.x \in 0..(n.x - 1) /\ b.high.x \in b.low.x..(n.x - 1)
  BY ChunkLimits
<1>2. /\ e.t \in 0..(b.high.t - b.low.t + 1 - 1) /\ e.row \in 0..(b.high.y - b.low.y + 1 - 1)
      /\ e.col \in 0..(b.high.x - b.low.x + 1 - 1)
  <2> DEFINE z == chunk_size(n, s, id)
  <2>1. /\ z.t = b.high.t - b.low.t + 1 /\ z.y = b.high.y - b.low.y + 1
        /\ z.x = b.high.x - b.low.x + 1
    BY DEF chunk_size, SizeOf
  <2>2. e \in [t : 0..(z.t - 1), row : 0..(z.y - 1), col : 0..(z.x - 1)]
    BY DEF Elements
  <2> HIDE DEF z, b
  <2>3. e.t \in 0..(z.t - 1) /\ e.row \in 0..(z.y - 1) /\ e.col \in 0..(z.x - 1)
    BY <2>2
  <2> QED BY <1>1, <2>1, <2>3
<1>3. p = [t |-> b.low.t + e.t, y |-> (b.high.y + 1) - 1 - e.row, x |-> b.low.x + e.col]
  BY ElementCellIs
<1>4. n.t \in Nat /\ n.y \in Nat /\ n.x \in Nat
  BY Radices
<1> HIDE DEF b, p
<1>5. p = [t |-> b.low.t + e.t, y |-> b.high.y - e.row, x |-> b.low.x + e.col]
  BY <1>1, <1>2, <1>3
<1>6. /\ p.t \in b.low.t..b.high.t /\ p.y \in b.low.y..b.high.y /\ p.x \in b.low.x..b.high.x
      /\ p.t \in 0..(n.t - 1) /\ p.y \in 0..(n.y - 1) /\ p.x \in 0..(n.x - 1)
  BY <1>1, <1>2, <1>4, <1>5
<1>7. p \in Cells(n)
  BY <1>5, <1>6 DEF Cells
<1> QED BY <1>2, <1>5, <1>6, <1>7 DEF b, p

\* find_chunk_that_contains gives the id of a chunk of the cube, the one with the
\* coordinates p / s.
LEMMA FoundCoords ==
    ASSUME NEW n \in Sizes, NEW s \in Sizes, NEW p \in Cells(n)
    PROVE  LET c == [x |-> p.x \div s.x, y |-> p.y \div s.y, t |-> p.t \div s.t]
           IN  /\ c \in Coords(n, s)
               /\ find_chunk_that_contains(n, s, p) = chunk_id_from_coords(n, s, c)
               /\ find_chunk_that_contains(n, s, p) \in ChunkIds(n, s)
               /\ chunk_coords_from_id(n, s, find_chunk_that_contains(n, s, p)) = c
<1> DEFINE c == [x |-> p.x \div s.x, y |-> p.y \div s.y, t |-> p.t \div s.t]
<1>1. p.x \in 0..(n.x - 1) /\ p.y \in 0..(n.y - 1) /\ p.t \in 0..(n.t - 1)
  BY DEF Cells
<1>2. /\ p.x \div s.x \in 0..(Ceil(n.x, s.x) - 1) /\ p.y \div s.y \in 0..(Ceil(n.y, s.y) - 1)
      /\ p.t \div s.t \in 0..(Ceil(n.t, s.t) - 1)
  BY <1>1, Radices, CellInside
<1>3. c \in Coords(n, s)
  BY <1>2 DEF Coords
<1>4. find_chunk_that_contains(n, s, p) = chunk_id_from_coords(n, s, c)
  <2> DEFINE X == Ceil(n.x, s.x)
             Y == Ceil(n.y, s.y)
             i == p.x \div s.x
             j == p.y \div s.y
             k == p.t \div s.t
  <2>1. find_chunk_that_contains(n, s, p) = i + X * j + X * Y * k
    BY DEF find_chunk_that_contains
  <2>2. chunk_id_from_coords(n, s, c) = k * Y * X + j * X + i
    BY DEF chunk_id_from_coords
  <2>3. X \in Nat /\ Y \in Nat /\ i \in Nat /\ j \in Nat /\ k \in Nat
    BY <1>2, Radices
  <2> HIDE DEF X, Y, i, j, k
  <2>4. i + X * j + X * Y * k = k * Y * X + j * X + i
    BY <2>3, SMT
  <2> QED BY <2>1, <2>2, <2>4
<1> HIDE DEF c
<1>5. /\ chunk_id_from_coords(n, s, c) \in ChunkIds(n, s)
      /\ chunk_coords_from_id(n, s, chunk_id_from_coords(n, s, c)) = c
  BY <1>3, CoordsOfIdOfCoords
<1> QED BY <1>3, <1>4, <1>5 DEF c

\* query_points reads the element of the chunk that was found which stands for the cell
\* of the point, also in the smaller chunks at the boundary.
THEOREM QueriedCell ==
    ASSUME NEW n \in Sizes, NEW s \in Sizes, NEW p \in Cells(n)
    PROVE  LET id == find_chunk_that_contains(n, s, p)
               e  == QueriedElement(n, s, p)
           IN  e \in Elements(n, s, id) /\ ElementCell(n, s, id, e) = p
<1> DEFINE id == find_chunk_that_contains(n, s, p)
           e  == QueriedElement(n, s, p)
           b  == chunk_limits(n, s, id)
           c  == chunk_coords_from_id(n, s, id)
           z  == chunk_size(n, s, id)
<1>1. p.x \in 0..(n.x - 1) /\ p.y \in 0..(n.y - 1) /\ p.t \in 0..(n.t - 1)
  BY DEF Cells
<1>2. p = [t |-> p.t, y |-> p.y, x |-> p.x]
  BY DEF Cells
<1>3. /\ id \in ChunkIds(n, s)
      /\ c = [x |-> p.x \div s.x, y |-> p.y \div s.y, t |-> p.t \div s.t]
  BY FoundCoords
<1>4. /\ b.low.t = Low(n.t, s.t, c.t) /\ b.high.t = High(n.t, s.t, c.t)
      /\ b.low.y = Low(n.y, s.y, c.y) /\ b.high.y = High(n.y, s.y, c.y)
      /\ b.low.x = Low(n.x, s.x, c.x) /\ b.high.x = High(n.x, s.x, c.x)
  BY <1>3, ChunkLimits
<1>4a. /\ b.low.t \in 0..(n.t - 1) /\ b.high.t \in b.low.t..(n.t - 1)
       /\ b.low.y \in 0..(n.y - 1) /\ b.high.y \in b.low.y..(n.y - 1)
       /\ b.low.x \in 0..(n.x - 1) /\ b.high.x \in b.low.x..(n.x - 1)
  BY <1>3, ChunkLimits
<1>5. c.x = p.x \div s.x /\ c.y = p.y \div s.y /\ c.t = p.t \div s.t
  BY <1>3
<1>6. /\ p.x \in b.low.x..b.high.x /\ p.x % s.x = p.x - b.low.x
      /\ p.y \in b.low.y..b.high.y /\ p.y % s.y = p.y - b.low.y
      /\ p.t \in b.low.t..b.high.t /\ p.t % s.t = p.t - b.low.t
  <2> HIDE DEF id, e, b, c, z
  <2>1. p.x \in b.low.x..b.high.x /\ p.x % s.x = p.x - b.low.x
    <3>1. /\ p.x \in Low(n.x, s.x, p.x \div s.x)..High(n.x, s.x, p.x \div s.x)
          /\ p.x % s.x = p.x - Low(n.x, s.x, p.x \div s.x)
      BY <1>1, Radices, CellInside
    <3> QED BY <1>4, <1>5, <3>1
  <2>2. p.y \in b.low.y..b.high.y /\ p.y % s.y = p.y - b.low.y
    <3>1. /\ p.y \in Low(n.y, s.y, p.y \div s.y)..High(n.y, s.y, p.y \div s.y)
          /\ p.y % s.y = p.y - Low(n.y, s.y, p.y \div s.y)
      BY <1>1, Radices, CellInside
    <3> QED BY <1>4, <1>5, <3>1
  <2>3. p.t \in b.low.t..b.high.t /\ p.t % s.t = p.t - b.low.t
    <3>1. /\ p.t \in Low(n.t, s.t, p.t \div s.t)..High(n.t, s.t, p.t \div s.t)
          /\ p.t % s.t = p.t - Low(n.t, s.t, p.t \div s.t)
      BY <1>1, Radices, CellInside
    <3> QED BY <1>4, <1>5, <3>1
  <2> QED BY <2>1, <2>2, <2>3
<1>7. z = [t |-> b.high.t - b.low.t + 1, y |-> b.high.y - b.low.y + 1,
           x |-> b.high.x - b.low.x + 1]
  BY DEF chunk_size, SizeOf
<1>8. e = [t |-> p.t % s.t, row |-> z.y - 1 - (p.y % s.y), col |-> p.x % s.x]
  BY DEF QueriedElement
<1>9. Elements(n, s, id) = [t : 0..(z.t - 1), row : 0..(z.y - 1), col : 0..(z.x - 1)]
  BY DEF Elements
<1>10. ElementCell(n, s, id, e) =
          [t |-> b.low.t + e.t, y |-> (b.high.y + 1) - 1 - e.row, x |-> b.low.x + e.col]
  BY ElementCellIs
<1> HIDE DEF id, e, b, c, z
<1>11. /\ e.t = p.t - b.low.t /\ e.row = b.high.y - p.y /\ e.col = p.x - b.low.x
       /\ e = [t |-> e.t, row |-> e.row, col |-> e.col]
  BY <1>1, <1>4a, <1>6, <1>7, <1>8
<1>12. e.t \in 0..(z.t - 1) /\ e.row \in 0..(z.y - 1) /\ e.col \in 0..(z.x - 1)
  BY <1>1, <1>4a, <1>6, <1>7, <1>11
<1>13. e \in Elements(n, s, id)
  BY <1>9, <1>11, <1>12
<1>14. b.low.t + e.t = p.t /\ (b.high.y + 1) - 1 - e.row = p.y /\ b.low.x + e.col = p.x
  BY <1>1, <1>4a, <1>11
<1> QED BY <1>2, <1>10, <1>13, <1>14 DEF id, e

\* The cell of an element is in the limits of no chunk but the one found for it.
THEOREM OnlyChunk ==
    ASSUME NEW n \in Sizes, NEW s \in Sizes, NEW id \in ChunkIds(n, s), NEW e \in Elements(n, s, id)
    PROVE  find_chunk_that_contains(n, s, ElementCell(n, s, id, e)) = id
<1> DEFINE b == chunk_limits(n, s, id)
           p == ElementCell(n, s, id, e)
           c == chunk_coords_from_id(n, s, id)
           f == [x |-> p.x \div s.x, y |-> p.y \div s.y, t |-> p.t \div s.t]
<1>1. /\ c \in Coords(n, s)
      /\ b.low.t = Low(n.t, s.t, c.t) /\ b.high.t = High(n.t, s.t, c.t)
      /\ b.low.y = Low(n.y, s.y, c.y) /\ b.high.y = High(n.y, s.y, c.y)
      /\ b.low.x = Low(n.x, s.x, c.x) /\ b.high.x = High(n.x, s.x, c.x)
  BY ChunkLimits
<1>2. /\ p \in Cells(n)
      /\ p.t \in b.low.t..b.high.t /\ p.y \in b.low.y..b.high.y /\ p.x \in b.low.x..b.high.x
  BY ElementLimits
<1>3. find_chunk_that_contains(n, s, p) = chunk_id_from_coords(n, s, f)
  BY <1>2, FoundCoords
<1>4. chunk_id_from_coords(n, s, c) = id
  BY IdOfCoordsOfId
<1> HIDE DEF b, p, c
<1>5. /\ c.t \in 0..(Ceil(n.t, s.t) - 1) /\ c.y \in 0..(Ceil(n.y, s.y) - 1)
      /\ c.x \in 0..(Ceil(n.x, s.x) - 1) /\ c = [x |-> c.x, y |-> c.y, t |-> c.t]
  BY <1>1 DEF Coords
<1>6. p.t \div s.t = c.t /\ p.y \div s.y = c.y /\ p.x \div s.x = c.x
  <2>1. p.t \in Low(n.t, s.t, c.t)..High(n.t, s.t, c.t) /\ p.y \in Low(n.y, s.y, c.y)..High(n.y, s.y, c.y)
        /\ p.x \in Low(n.x, s.x, c.x)..High(n.x, s.x, c.x)
    BY <1>1, <1>2
  <2>2. p.t \div s.t = c.t
    BY <1>5, <2>1, Radices, CellUnique
  <2>3. p.y \div s.y = c.y
    BY <1>5, <2>1, Radices, CellUnique
  <2>4. p.x \div s.x = c.x
    BY <1>5, <2>1, Radices, CellUnique
  <2> QED BY <2>2, <2>3, <2>4
<1> QED BY <1>3, <1>4, <1>5, <1>6 DEF p

-------------------------------------------------------------------------------
\* Facts about numbers, finite sets, sequences and folds for the modules that extend this one.

\* b, t and p are the digits of an index.
Digits(nb, nt, m, b, t, p) ==
    LET k == b * (nt * m) + t * m + p
    IN  /\ k \in 0..(nb * (nt * m) - 1)
        /\ k \div (nt * m) = b /\ (k \div m) % nt = t /\ k % m = p

LEMMA Layout ==
    ASSUME NEW nb \in Nat \ {0}, NEW nt \in Nat \ {0}, NEW m \in Nat \ {0},
           NEW b \in 0..(nb - 1), NEW t \in 0..(nt - 1), NEW p \in 0..(m - 1)
    PROVE  Digits(nb, nt, m, b, t, p)
<1> DEFINE k == b * (nt * m) + t * m + p
           q == m * t + p
           r == nt * b + t
<1>1. nt * m \in Nat \ {0} /\ m * t \in Nat /\ m * t = t * m
  BY SMT
<1>2. q \in 0..(m * nt - 1) /\ m * nt = nt * m
  BY TwoDigits
<1>3. (nt * m) * b = b * (nt * m) /\ (nt * m) * b \in Nat /\ (nt * m) * nb = nb * (nt * m)
  BY <1>1, SMT
<1>4. k = (nt * m) * b + q
  BY <1>1, <1>3
<1>5. /\ (nt * m) * b + q \in 0..((nt * m) * nb - 1)
      /\ ((nt * m) * b + q) \div (nt * m) = b
  <2> HIDE DEF q
  <2>1. q \in 0..(nt * m - 1)
    BY <1>2
  <2> QED BY <1>1, <2>1, TwoDigits
<1>6. r \in 0..(nt * nb - 1) /\ r % nt = t
  BY TwoDigits
<1>7. k = m * r + p
  <2>1. m * (nt * b + t) = m * (nt * b) + m * t
    BY SMT
  <2>2. m * (nt * b) = (nt * m) * b
    BY SMT
  <2> QED BY <1>1, <1>3, <2>1, <2>2
<1>8. (m * r + p) \div m = r /\ (m * r + p) % m = p
  <2>1. r \in Nat
    BY <1>6
  <2> HIDE DEF r
  <2> QED BY <2>1, DivisionUnique
<1> HIDE DEF k, q, r
<1>9. k \in 0..(nb * (nt * m) - 1)
  BY <1>3, <1>4, <1>5
<1>10. k \div (nt * m) = b
  BY <1>4, <1>5
<1>11. k \div m = r /\ k % m = p
  BY <1>7, <1>8
<1> QED BY <1>6, <1>9, <1>10, <1>11 DEF k, Digits

LEMMA Multiple ==
    ASSUME NEW d \in Nat \ {0}, NEW q \in Int
    PROVE  (q * d) % d = 0
OBVIOUS

LEMMA Quotient ==
    ASSUME NEW d \in Nat \ {0}, NEW q \in Int
    PROVE  (q * d) \div d = q
OBVIOUS

LEMMA DivShift ==
    ASSUME NEW d \in Nat \ {0}, NEW a \in Int, NEW x \in Int
    PROVE  (a * d + x) \div d = a + (x \div d)
OBVIOUS

LEMMA ExactQuotient ==
    ASSUME NEW y \in Int, NEW e \in Nat \ {0}, y % e = 0
    PROVE  \E z \in Int : y = z * e
<1>1. y \div e \in Int /\ y = e * (y \div e) + (y % e)
  BY SMT
<1>2. PICK z \in Int : z = y \div e
  BY <1>1
<1>3. e * z = z * e
  OBVIOUS
<1> QED BY <1>1, <1>2, <1>3

LEMMA CeilCovers ==
    ASSUME NEW n \in Nat, NEW s \in Nat \ {0}
    PROVE  Ceil(n, s) \in Nat /\ n <= Ceil(n, s) * s
<1>1. CASE n = 0
  <2>1. (s * 0 + (s - 1)) \div s = 0
    BY DivisionUnique
  <2>2. Ceil(n, s) = 0
    BY <1>1, <2>1 DEF Ceil
  <2> QED BY <1>1, <2>2
<1>2. CASE n # 0
  BY <1>2, CeilBounds
<1> QED BY <1>1, <1>2

\* q is the mean of n values of mean m and of x.
LEMMA NewMean ==
    ASSUME NEW x \in Int, NEW m \in Int, NEW n \in Nat, NEW q \in Int, x + n * m = q * (n + 1)
    PROVE  x - m = (q - m) * (n + 1) /\ x - q = (q - m) * n
<1>1. (q - m) * (n + 1) = q * (n + 1) - (n * m + m)
  OBVIOUS
<1>2. (q - m) * n = q * (n + 1) - n * m - q
  OBVIOUS
<1>3. PICK i \in Int, j \in Int : i = n * m /\ j = q * (n + 1)
  OBVIOUS
<1>4. PICK u, v : u = (q - m) * (n + 1) /\ v = (q - m) * n
  OBVIOUS
<1>5. u = j - (i + m) /\ v = j - i - q /\ x + i = j
  BY <1>1, <1>2, <1>3, <1>4
<1> QED BY <1>3, <1>4, <1>5

LEMMA NewSquares ==
    ASSUME NEW e \in Int, NEW n \in Nat, NEW A \in Int
    PROVE  (e * n) * (e * n) + (A + n * (e * e)) = A + (e * (n + 1)) * (e * n)
<1>1. (e * (n + 1)) * (e * n) = (e * n) * (e * n) + e * (e * n)
  <2>1. PICK i \in Int : i = e * n
    OBVIOUS
  <2>2. e * (n + 1) = i + e
    BY <2>1
  <2>3. (i + e) * i = i * i + e * i
    BY <2>1, SMT
  <2> QED BY <2>1, <2>2, <2>3
<1>2. e * (e * n) = n * (e * e)
  OBVIOUS
<1>3. PICK u \in Int, v \in Int : u = (e * n) * (e * n) /\ v = n * (e * e)
  OBVIOUS
<1>4. u + (A + v) = A + (u + v)
  BY <1>3
<1> QED BY <1>1, <1>2, <1>3, <1>4

\* A set of numbers has a least member.
LEMMA LeastMember ==
    ASSUME NEW S \in SUBSET Nat, S # {}
    PROVE  \E n \in S : \A m \in S : n <= m
<1>1. IsWellFoundedOn(OpToRel(<, Nat), Nat)
  BY NatLessThanWellFounded
<1>2. PICK n \in S : \A m \in S : ~ (<<m, n>> \in OpToRel(<, Nat))
  BY <1>1, WFMin
<1>3. \A m \in S : n <= m
  <2> SUFFICES ASSUME NEW m \in S, m < n PROVE FALSE
    OBVIOUS
  <2>1. <<m, n>> \in {pair \in Nat \X Nat : pair[1] < pair[2]}
    OBVIOUS
  <2>2. <<m, n>> \in OpToRel(<, Nat)
    BY <2>1 DEF OpToRel
  <2> QED BY <1>2, <2>2
<1> QED BY <1>3

\* A set of finite sets has one without smaller ones.
LEMMA SmallestSet ==
    ASSUME NEW S, IsFiniteSet(S), NEW W \in SUBSET SUBSET S, W # {}
    PROVE  \E w \in W : IsFiniteSet(w) /\ \A x \in w : w \ {x} \notin W
<1> DEFINE B == {Cardinality(s) : s \in W}
<1>1. \A s \in W : IsFiniteSet(s) /\ Cardinality(s) \in Nat
  BY FS_Subset, FS_CardinalityType
<1>2. B \in SUBSET Nat /\ B # {}
  BY <1>1
<1>3. PICK n \in B : \A m \in B : n <= m
  <2> HIDE DEF B
  <2> QED BY <1>2, LeastMember
<1>4. PICK w \in W : Cardinality(w) = n
  OBVIOUS
<1>5. ASSUME NEW x \in w PROVE w \ {x} \notin W
  <2>1. Cardinality(w \ {x}) = Cardinality(w) - 1 /\ Cardinality(w) \in Nat
    BY <1>1, <1>4, FS_RemoveElement
  <2>2. w \ {x} \in W => Cardinality(w) <= Cardinality(w) - 1
    BY <1>3, <1>4, <2>1
  <2> QED BY <2>1, <2>2
<1> QED BY <1>1, <1>4, <1>5

\* Finitely many numbers have a least and a greatest one.
LEMMA FiniteExtremes ==
    ASSUME NEW S \in SUBSET Int, IsFiniteSet(S), S # {}
    PROVE  (\E x \in S : \A y \in S : x <= y) /\ (\E x \in S : \A y \in S : y <= x)
<1> DEFINE Good(s) == (\E x \in s : \A y \in s : x <= y) /\ (\E x \in s : \A y \in s : y <= x)
           W == {s \in SUBSET S : s # {} /\ ~ Good(s)}
<1>1. SUFFICES ASSUME W # {} PROVE FALSE
  OBVIOUS
<1>2. PICK w \in W : \A x \in w : w \ {x} \notin W
  <2>1. W \in SUBSET SUBSET S
    OBVIOUS
  <2> HIDE DEF W
  <2> QED BY <1>1, <2>1, SmallestSet
<1>3. w \in SUBSET S /\ w # {} /\ ~ Good(w)
  OBVIOUS
<1>4. PICK e \in w : TRUE
  BY <1>3
<1>5. w \ {e} = {} \/ Good(w \ {e})
  <2>1. w \ {e} \in SUBSET S /\ w \ {e} \notin W
    BY <1>2, <1>3, <1>4
  <2> QED BY <2>1
<1>6. e \in Int /\ \A x \in w : x \in Int
  BY <1>3
<1>7. CASE w \ {e} = {}
  <2>1. \A x \in w : x = e
    BY <1>7
  <2> QED BY <1>3, <1>4, <1>6, <2>1
<1>8. CASE Good(w \ {e})
  <2>1. PICK lo \in w, hi \in w : \A y \in w \ {e} : lo <= y /\ y <= hi
    BY <1>8
  <2>2. \E x \in w : \A y \in w : x <= y
    <3>1. CASE lo <= e
      BY <1>6, <2>1, <3>1
    <3>2. CASE e <= lo
      BY <1>4, <1>6, <2>1, <3>2
    <3> QED BY <1>6, <3>1, <3>2
  <2>3. \E x \in w : \A y \in w : y <= x
    <3>1. CASE e <= hi
      BY <1>6, <2>1, <3>1
    <3>2. CASE hi <= e
      BY <1>4, <1>6, <2>1, <3>2
    <3> QED BY <1>6, <3>1, <3>2
  <2> QED BY <1>3, <2>2, <2>3
<1> QED BY <1>5, <1>7, <1>8

LEMMA MaxIs ==
    ASSUME NEW S \in SUBSET Int, NEW x \in S, \A k \in S : k <= x
    PROVE  Max(S) = x
<1>1. \E y \in S : \A k \in S : y >= k
  OBVIOUS
<1>2. Max(S) \in S /\ \A k \in S : Max(S) >= k
  BY <1>1 DEF Max
<1>3. PICK y : y = Max(S)
  OBVIOUS
<1>4. y \in Int /\ x \in Int /\ y >= x /\ y <= x
  BY <1>2, <1>3
<1> QED BY <1>3, <1>4

LEMMA MinIs ==
    ASSUME NEW S \in SUBSET Int, NEW x \in S, \A k \in S : x <= k
    PROVE  Min(S) = x
<1>1. \E y \in S : \A k \in S : y =< k
  OBVIOUS
<1>2. Min(S) \in S /\ \A k \in S : Min(S) =< k
  BY <1>1 DEF Min
<1>3. PICK y : y = Min(S)
  OBVIOUS
<1>4. y \in Int /\ x \in Int /\ y <= x /\ x <= y
  BY <1>2, <1>3
<1> QED BY <1>3, <1>4

\* What holds at 0 and is kept up to n.
LEMMA Upward ==
    ASSUME NEW n \in Nat, NEW G \in SUBSET (0..n), 0 \in G, \A k \in 1..n : k - 1 \in G => k \in G
    PROVE  G = 0..n
<1> DEFINE B == (0..n) \ G
<1>1. SUFFICES ASSUME B # {} PROVE FALSE
  OBVIOUS
<1>2. PICK k \in B : \A l \in B : k <= l
  <2>1. B \in SUBSET Nat
    OBVIOUS
  <2> HIDE DEF B
  <2> QED BY <1>1, <2>1, LeastMember
<1>3. k \in 1..n /\ k - 1 \in 0..n /\ k - 1 \notin B
  BY <1>2
<1> QED BY <1>2, <1>3

\* Members that correspond to each other are as many.
LEMMA SameNumber ==
    ASSUME NEW A, NEW S, NEW q \in Bijection(A, S), IsFiniteSet(A), NEW J \in SUBSET A, NEW I \in SUBSET S,
           \A j \in A : j \in J <=> q[j] \in I
    PROVE  Cardinality(J) = Cardinality(I)
<1> DEFINE r == [j \in J |-> q[j]]
<1>1. /\ q \in [A -> S] /\ \A i, j \in A : q[i] = q[j] => i = j
      /\ \A x \in S : \E j \in A : q[j] = x
  BY DEF Bijection, Injection, IsInjective, Surjection
<1>2. r \in [J -> I] /\ \A i, j \in J : r[i] = r[j] => i = j
  BY <1>1
<1>3. \A x \in I : \E j \in J : r[j] = x
  BY <1>1
<1>4. r \in Bijection(J, I)
  BY <1>2, <1>3 DEF Bijection, Injection, IsInjective, Surjection
<1>5. IsFiniteSet(J) /\ ExistsBijection(J, I)
  BY <1>4, FS_Subset DEF ExistsBijection
<1> QED BY <1>5, FS_Bijection

LEMMA FiniteSeq ==
    ASSUME NEW S, NEW n \in Nat, NEW f \in [1..n -> S]
    PROVE  f \in Seq(S) /\ Len(f) = n
<1>1. f \in Seq(S)
  BY SeqDef
<1>2. Len(f) \in Nat /\ DOMAIN f = 1..Len(f)
  BY <1>1, LenProperties
<1>3. 1..Len(f) = 1..n
  BY <1>2
<1>4. Len(f) = n
  <2>1. ASSUME NEW u \in Nat, NEW v \in Nat, 1..u = 1..v PROVE u = v
    <3>1. u \in Nat /\ (u > 0 => u \in 1..v) /\ (v > 0 => v \in 1..u)
      BY <2>1
    <3> QED BY <3>1
  <2> QED BY <1>2, <1>3, <2>1
<1> QED BY <1>1, <1>4

\* Sequences joined one after the other.
Joined(n, seqs, a) ==
    /\ a[0] = <<>> /\ \A k \in 1..n : a[k] = a[k - 1] \o seqs[k]

HasJoined(S, n, seqs) ==
    \E a : /\ Joined(n, seqs, a) /\ \A k \in 0..n : a[k] \in Seq(S)
           /\ FlattenSeq(seqs) = a[n]

JoinEquation(seqs, g, i) == IF i = 1 THEN seqs[i] ELSE g[i - 1] \o seqs[i]

JoinUpTo(n, seqs, g, k) ==
    /\ g = [i \in 1..n |-> g[i]]
    /\ \A i \in 1..n : i <= k => g[i] = JoinEquation(seqs, g, i)

LEMMA JoinedExists ==
    ASSUME NEW S, NEW n \in Nat, NEW seqs \in [1..n -> Seq(S)]
    PROVE  HasJoined(S, n, seqs)
<1>1. Len(seqs) = n
  BY FiniteSeq
<1>2. <<>> \in Seq(S)
  BY EmptySeq
<1>3. CASE n = 0
  <2> DEFINE a == [k \in 0..0 |-> <<>>]
  <2>1. seqs = <<>>
    BY <1>3
  <2>2. FlattenSeq(seqs) = <<>>
    BY <1>1, <1>3, <2>1 DEF FlattenSeq
  <2>3. Joined(n, seqs, a) /\ \A k \in 0..n : a[k] \in Seq(S)
    BY <1>2, <1>3 DEF Joined
  <2>4. a[n] = <<>>
    BY <1>3
  <2> HIDE DEF a
  <2> QED BY <2>2, <2>3, <2>4 DEF HasJoined
<1>4. CASE n # 0
  <2> DEFINE B == {k \in 0..n : \E g : JoinUpTo(n, seqs, g, k)}
             g == CHOOSE g : g = [i \in 1..n |-> JoinEquation(seqs, g, i)]
  <2>1. FlattenSeq(seqs) = g[n]
    BY <1>1, <1>4 DEF FlattenSeq, JoinEquation
  <2>2. 0 \in B
    <3> DEFINE h == [i \in 1..n |-> seqs[i]]
    <3>1. JoinUpTo(n, seqs, h, 0)
      BY DEF JoinUpTo
    <3> QED BY <3>1
  <2>3. ASSUME NEW k \in 1..n, k - 1 \in B PROVE k \in B
    <3>1. PICK h : JoinUpTo(n, seqs, h, k - 1)
      BY <2>3
    <3> DEFINE e == [i \in 1..n |-> JoinEquation(seqs, h, i)]
    <3>2. ASSUME NEW i \in 1..n, i <= k PROVE e[i] = JoinEquation(seqs, e, i)
      <4>1. CASE i = 1
        BY <4>1 DEF JoinEquation
      <4>2. CASE i # 1
        <5>1. i - 1 \in 1..n /\ i - 1 <= k - 1
          BY <3>2, <4>2
        <5>2. h[i - 1] = JoinEquation(seqs, h, i - 1)
          BY <3>1, <5>1 DEF JoinUpTo
        <5>3. e[i - 1] = h[i - 1]
          BY <5>1, <5>2
        <5> QED BY <4>2, <5>3 DEF JoinEquation
      <4> QED BY <4>1, <4>2
    <3>3. JoinUpTo(n, seqs, e, k)
      <4>1. e = [i \in 1..n |-> e[i]]
        OBVIOUS
      <4> HIDE DEF e
      <4> QED BY <3>2, <4>1 DEF JoinUpTo
    <3> QED BY <3>3
  <2>4. B \in SUBSET (0..n)
    OBVIOUS
  <2> HIDE DEF B
  <2>5. B = 0..n
    BY <2>2, <2>3, <2>4, Upward
  <2>6. n \in B
    BY <2>5
  <2>7. PICK h : JoinUpTo(n, seqs, h, n)
    BY <2>6 DEF B
  <2>8. h = [i \in 1..n |-> JoinEquation(seqs, h, i)]
    BY <2>7 DEF JoinUpTo
  <2>9. g = [i \in 1..n |-> JoinEquation(seqs, g, i)]
    BY <2>8
  <2> HIDE DEF g
  <2> DEFINE a == [k \in 0..n |-> IF k = 0 THEN <<>> ELSE g[k]]
             G == {k \in 0..n : a[k] \in Seq(S)}
  <2>10. a[0] = <<>> /\ a[n] = g[n]
    BY <1>4
  <2>11. ASSUME NEW k \in 1..n PROVE a[k] = a[k - 1] \o seqs[k]
    <3>0. a[k] = g[k]
      OBVIOUS
    <3>1. g[k] = JoinEquation(seqs, g, k) /\ a[k] = g[k]
      <4> HIDE DEF a
      <4> QED BY <2>9, <3>0
    <3>2. CASE k = 1
      <4>1. a[k] = seqs[k] /\ a[k - 1] = <<>>
        BY <3>1, <3>2 DEF JoinEquation
      <4>2. seqs[k] \in Seq(S)
        OBVIOUS
      <4> HIDE DEF a
      <4> QED BY <4>1, <4>2, ConcatEmptySeq
    <3>3. CASE k # 1
      <4>1. a[k - 1] = g[k - 1]
        BY <3>3
      <4> HIDE DEF a
      <4> QED BY <3>1, <3>3, <4>1 DEF JoinEquation
    <3> QED BY <3>2, <3>3
  <2> HIDE DEF a
  <2>12. 0 \in G
    <3>1. 0 \in 0..n
      OBVIOUS
    <3> QED BY <1>2, <2>10, <3>1
  <2>13. \A k \in 1..n : k - 1 \in G => k \in G
    <3> SUFFICES ASSUME NEW k \in 1..n, k - 1 \in G PROVE a[k] \in Seq(S)
      OBVIOUS
    <3>1. a[k - 1] \in Seq(S) /\ seqs[k] \in Seq(S)
      OBVIOUS
    <3> HIDE DEF G
    <3> QED BY <2>11, <3>1, ConcatProperties
  <2>14. G \in SUBSET (0..n)
    OBVIOUS
  <2> HIDE DEF G
  <2>15. G = 0..n
    BY <2>12, <2>13, <2>14, Upward
  <2>16. \A k \in 0..n : a[k] \in Seq(S)
    BY <2>15 DEF G
  <2>17. Joined(n, seqs, a)
    BY <2>10, <2>11 DEF Joined
  <2> QED BY <2>1, <2>10, <2>16, <2>17 DEF HasJoined
<1> QED BY <1>3, <1>4

\* The function that a fold defines by recursion over the subsets of a set exists, as there is one that
\* has the equation up to every cardinality.

\* Ch picks the member that is taken out of a set, F adds it to what the others gave.
FoldEquation(Ch, F, base, g, s) ==
    IF s = {} THEN base ELSE F[<<g[s \ {Ch[s]}], Ch[s]>>]

FoldUpTo(n, S, St, Ch, F, base, g) ==
    /\ g \in [SUBSET S -> St]
    /\ \A s \in SUBSET S : Cardinality(s) <= n => g[s] = FoldEquation(Ch, F, base, g, s)

\* F stays in St.
Foldable(S, St, Ch, F, base) ==
    /\ IsFiniteSet(S) /\ \A s \in SUBSET S : s # {} => Ch[s] \in s
    /\ base \in St /\ \A x \in St, k \in S : F[<<x, k>>] \in St

HasFold(S, St, Ch, F, base) ==
    \E g \in [SUBSET S -> St] : \A s \in SUBSET S : g[s] = FoldEquation(Ch, F, base, g, s)

LEMMA FoldExists ==
    ASSUME NEW S, NEW St, NEW Ch, NEW F, NEW base, Foldable(S, St, Ch, F, base)
    PROVE  HasFold(S, St, Ch, F, base)
<1> USE DEF Foldable
<1> DEFINE Has(n) == \E g : FoldUpTo(n, S, St, Ch, F, base, g)
<1>1. \A s \in SUBSET S : IsFiniteSet(s) /\ Cardinality(s) \in Nat /\ Cardinality(s) <= Cardinality(S)
                          /\ (Cardinality(s) = 0 <=> s = {})
  BY FS_Subset, FS_CardinalityType, FS_EmptySet
<1>2. ASSUME NEW s \in SUBSET S, s # {}
      PROVE  Cardinality(s \ {Ch[s]}) = Cardinality(s) - 1 /\ s \ {Ch[s]} \in SUBSET S
  BY <1>1, <1>2, FS_RemoveElement
<1>3. Has(0)
  <2> DEFINE g == [s \in SUBSET S |-> base]
  <2>1. FoldUpTo(0, S, St, Ch, F, base, g)
    BY <1>1 DEF FoldUpTo, FoldEquation
  <2> QED BY <2>1
<1>4. ASSUME NEW k \in Nat, Has(k) PROVE Has(k + 1)
  <2>1. PICK g : FoldUpTo(k, S, St, Ch, F, base, g)
    BY <1>4
  <2> DEFINE h == [s \in SUBSET S |-> FoldEquation(Ch, F, base, g, s)]
  <2>2. h \in [SUBSET S -> St]
    <3> SUFFICES ASSUME NEW s \in SUBSET S PROVE FoldEquation(Ch, F, base, g, s) \in St
      OBVIOUS
    <3>1. s # {} => Ch[s] \in S /\ g[s \ {Ch[s]}] \in St
      BY <1>2, <2>1 DEF FoldUpTo
    <3> QED BY <3>1 DEF FoldEquation
  <2>3. ASSUME NEW s \in SUBSET S, Cardinality(s) <= k + 1
        PROVE  h[s] = FoldEquation(Ch, F, base, h, s)
    <3>1. CASE s = {}
      BY <3>1 DEF FoldEquation
    <3>2. CASE s # {}
      <4> DEFINE r == s \ {Ch[s]}
      <4>1. r \in SUBSET S /\ Cardinality(r) <= k
        BY <1>1, <1>2, <2>3, <3>2
      <4>2. g[r] = FoldEquation(Ch, F, base, g, r)
        BY <2>1, <4>1 DEF FoldUpTo
      <4>3. h[r] = g[r]
        BY <4>1, <4>2
      <4>4. h[s] = F[<<g[r], Ch[s]>>]
        BY <3>2 DEF FoldEquation
      <4> HIDE DEF h
      <4> QED BY <3>2, <4>3, <4>4 DEF FoldEquation
    <3> QED BY <3>1, <3>2
  <2>4. FoldUpTo(k + 1, S, St, Ch, F, base, h)
    <3> HIDE DEF h
    <3> QED BY <2>2, <2>3 DEF FoldUpTo
  <2> QED BY <2>4
<1>5. \A k \in Nat : Has(k)
  <2> SUFFICES ASSUME {k \in Nat : ~ Has(k)} # {} PROVE FALSE
    OBVIOUS
  <2> DEFINE B == {k \in Nat : ~ Has(k)}
  <2>1. PICK k \in B : \A l \in B : k <= l
    <3>1. B \in SUBSET Nat /\ B # {}
      OBVIOUS
    <3> HIDE DEF B
    <3> QED BY <3>1, LeastMember
  <2>2. k # 0 /\ k \in Nat
    BY <1>3, <2>1
  <2>3. k - 1 \in Nat /\ k - 1 \notin B
    BY <2>1, <2>2
  <2> HIDE DEF Has
  <2>4. Has(k - 1)
    BY <2>3
  <2>5. Has((k - 1) + 1)
    BY <1>4, <2>3, <2>4
  <2> QED BY <2>1, <2>2, <2>5
<1>6. Cardinality(S) \in Nat
  BY FS_CardinalityType
<1>7. PICK g : FoldUpTo(Cardinality(S), S, St, Ch, F, base, g)
  BY <1>5, <1>6
<1> QED BY <1>1, <1>7 DEF FoldUpTo, HasFold

\* The members may be taken in any order.
Exchanging(S, St, F) ==
    \A x \in St, k \in S, l \in S : F[<<F[<<x, k>>], l>>] = F[<<F[<<x, l>>], k>>]

OrderFree(S, St, F, base, T) ==
    /\ T \in [SUBSET S -> St] /\ T[{}] = base
    /\ \A s \in SUBSET S : \A k \in s : T[s] = F[<<T[s \ {k}], k>>]

LEMMA OrderFreeExists ==
    ASSUME NEW S, NEW St, NEW Ch, NEW F, NEW base, Foldable(S, St, Ch, F, base), Exchanging(S, St, F)
    PROVE  \E T : OrderFree(S, St, F, base, T)
<1>1. PICK T \in [SUBSET S -> St] : \A s \in SUBSET S : T[s] = FoldEquation(Ch, F, base, T, s)
  <2>1. HasFold(S, St, Ch, F, base)
    BY FoldExists
  <2> QED BY <2>1 DEF HasFold
<1>2. IsFiniteSet(S) /\ \A s \in SUBSET S : s # {} => Ch[s] \in s
  BY DEF Foldable
<1> DEFINE Good(s) == \A k \in s : T[s] = F[<<T[s \ {k}], k>>]
           W == {s \in SUBSET S : ~ Good(s)}
<1>3. SUFFICES ASSUME W # {} PROVE FALSE
  <2>1. \A s \in SUBSET S : Good(s)
    BY <1>3
  <2>2. T[{}] = base
    BY <1>1 DEF FoldEquation
  <2> QED BY <1>1, <2>1, <2>2 DEF OrderFree
<1>4. PICK w \in W : \A x \in w : w \ {x} \notin W
  <2>1. W \in SUBSET SUBSET S
    OBVIOUS
  <2> HIDE DEF W
  <2> QED BY <1>2, <1>3, <2>1, SmallestSet
<1>5. PICK k \in w : T[w] # F[<<T[w \ {k}], k>>]
  OBVIOUS
<1>6. PICK c : c = Ch[w]
  OBVIOUS
<1>7. c \in w /\ w \in SUBSET S /\ T[w] = F[<<T[w \ {c}], c>>]
  BY <1>1, <1>2, <1>4, <1>5, <1>6 DEF FoldEquation
<1>8. k # c
  BY <1>5, <1>7
<1>9. Good(w \ {c}) /\ Good(w \ {k})
  BY <1>4, <1>5, <1>7
<1>10. T[w \ {c}] = F[<<T[(w \ {c}) \ {k}], k>>]
  BY <1>5, <1>8, <1>9
<1>11. T[w \ {k}] = F[<<T[(w \ {k}) \ {c}], c>>]
  BY <1>7, <1>8, <1>9
<1>12. (w \ {c}) \ {k} = (w \ {k}) \ {c} /\ T[(w \ {c}) \ {k}] \in St
  BY <1>1, <1>7
<1>13. F[<<F[<<T[(w \ {c}) \ {k}], k>>], c>>] = F[<<F[<<T[(w \ {c}) \ {k}], c>>], k>>]
  BY <1>5, <1>7, <1>12 DEF Exchanging
<1> QED BY <1>5, <1>7, <1>10, <1>11, <1>12, <1>13

\* The last of finitely many numbers.
LEMMA LastMember ==
    ASSUME NEW n \in Nat, NEW s \in SUBSET (1..n), s # {}
    PROVE  Max(s) \in s /\ \A k \in s : k <= Max(s)
<1> DEFINE B == {n - k : k \in s}
<1>1. PICK b \in B : \A m \in B : b <= m
  <2>1. \A k \in s : k \in 1..n /\ n - k \in Nat
    OBVIOUS
  <2>2. B \in SUBSET Nat /\ B # {}
    BY <2>1
  <2> HIDE DEF B
  <2> QED BY <2>2, LeastMember
<1>2. PICK x \in s : b = n - x
  BY <1>1
<1>3. \A k \in s : k <= x
  <2> SUFFICES ASSUME NEW k \in s PROVE k <= x
    OBVIOUS
  <2>1. b <= n - k
    BY <1>1
  <2> QED BY <1>2, <2>1
<1>4. \E y \in s : \A k \in s : y >= k
  BY <1>2, <1>3
<1>5. Max(s) \in s /\ \A k \in s : Max(s) >= k
  BY <1>4 DEF Max
<1> QED BY <1>5

LEMMA LastOf ==
    ASSUME NEW n \in Nat, NEW k \in 1..n
    PROVE  1..k \in SUBSET (1..n) /\ 1..k # {} /\ Max(1..k) = k /\ (1..k) \ {k} = 1..(k - 1)
<1>1. 1..k \in SUBSET (1..n) /\ 1..k # {} /\ k \in 1..k /\ (1..k) \ {k} = 1..(k - 1)
  OBVIOUS
<1>2. Max(1..k) \in 1..k /\ k <= Max(1..k)
  BY <1>1, LastMember
<1> QED BY <1>1, <1>2

\* A fold over the numbers up to n.
SeqEquation(F, base, g, s) == IF s = {} THEN base ELSE F[<<g[s \ {Max(s)}], Max(s)>>]

SeqFoldable(n, St, F, base) ==
    n \in Nat /\ base \in St /\ \A x \in St, k \in 1..n : F[<<x, k>>] \in St

HasSeqFold(n, St, F, base) ==
    \E g \in [SUBSET (1..n) -> St] : g = [s \in SUBSET (1..n) |-> SeqEquation(F, base, g, s)]

LEMMA SeqFoldExists ==
    ASSUME NEW n, NEW St, NEW F, NEW base, SeqFoldable(n, St, F, base)
    PROVE  HasSeqFold(n, St, F, base)
<1> USE DEF SeqFoldable
<1>1. IsFiniteSet(1..n)
  BY FS_Interval
<1>2. PICK S : S = 1..n
  OBVIOUS
<1> DEFINE Ch == [s \in SUBSET S |-> Max(s)]
<1>3. \A s \in SUBSET S : Ch[s] = Max(s)
  OBVIOUS
<1>4. \A s \in SUBSET S : s # {} => Max(s) \in s
  BY <1>2, LastMember
<1> HIDE DEF Ch
<1>5. \A s \in SUBSET S : s # {} => Ch[s] \in s
  BY <1>3, <1>4
<1>6. \A x \in St, k \in S : F[<<x, k>>] \in St
  BY <1>2
<1>7. PICK g \in [SUBSET S -> St] : \A s \in SUBSET S : g[s] = FoldEquation(Ch, F, base, g, s)
  <2>1. Foldable(S, St, Ch, F, base)
    BY <1>1, <1>2, <1>5, <1>6 DEF Foldable
  <2>2. HasFold(S, St, Ch, F, base)
    BY <2>1, FoldExists
  <2> QED BY <2>2 DEF HasFold
<1>8. \A s \in SUBSET S : g[s] = SeqEquation(F, base, g, s)
  BY <1>3, <1>7 DEF FoldEquation, SeqEquation
<1>9. g = [s \in SUBSET S |-> SeqEquation(F, base, g, s)]
  BY <1>7, <1>8
<1> QED BY <1>2, <1>7, <1>9 DEF HasSeqFold
===============================================================================
