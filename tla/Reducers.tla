-------------------------------- MODULE Reducers --------------------------------
(***************************************************************************)
(* The accumulators of the reducers (reduce_time.cpp; reduce_space.cpp and  *)
(* reduce.cpp repeat them).  An accumulator holds the output value v, a     *)
(* count n, aux (the running mean, or the extreme value whose date is v)    *)
(* and, for the median, the list of values.  Values are multiples of 60 in  *)
(* the instances, which makes the divisions exact for up to six values.     *)
(***************************************************************************)
EXTENDS Integers, SequencesExt, FiniteSetsExt

CONSTANT NaN

Sums     == {"sum", "prod", "mean"}
Extremes == {"min", "max", "which_min", "which_max"}
Spreads  == {"count", "median", "var", "sd"}

\* What the result is the date of.
Dated == {"which_min", "which_max"}

Start(r) ==
    [v    |-> IF r = "prod" THEN 1 ELSE IF r \in Extremes \cup {"median"} THEN NaN ELSE 0,
     n    |-> 0,
     aux  |-> IF r \in {"var", "sd"} THEN 0 ELSE NaN,
     list |-> <<>>]

AddSum(r, a, x) ==
    [a EXCEPT !.v = IF r = "prod" THEN @ * x ELSE @ + x,
              !.n = IF r = "mean" THEN @ + 1 ELSE @]

\* The first of several equal extremes stays.
AddExtreme(r, a, x, date) ==
    LET dated  == r \in Dated
        best   == IF dated THEN a.aux ELSE a.v
        better == IF best = NaN THEN TRUE
                  ELSE IF r \in {"min", "which_min"} THEN x < best ELSE x > best
    IN  IF ~better THEN a
        ELSE IF dated THEN [a EXCEPT !.aux = x, !.v = date] ELSE [a EXCEPT !.v = x]

\* var and sd: Welford's algorithm.
AddSpread(r, a, x) ==
    LET mean == a.aux + (x - a.aux) \div (a.n + 1)
    IN  CASE r = "count"  -> [a EXCEPT !.v = @ + 1]
          [] r = "median" -> [a EXCEPT !.list = Append(@, x)]
          [] OTHER -> [a EXCEPT !.n = @ + 1, !.aux = mean,
                                !.v = @ + (x - a.aux) * (x - mean)]

Add(r, a, x, date) ==
    IF x = NaN THEN a
    ELSE IF r \in Sums THEN AddSum(r, a, x)
    ELSE IF r \in Extremes THEN AddExtreme(r, a, x, date)
    ELSE AddSpread(r, a, x)

\* Pairs of a value and its date go into an accumulator one after the other.
AddAll(r, a, pairs) == FoldLeft(LAMBDA u, e : Add(r, u, e[1], e[2]), a, pairs)

\* Element k of the list after std::sort.
Sorted(list, k) ==
    Min({x \in Range(list) : Cardinality({j \in DOMAIN list : list[j] <= x}) >= k})

Median(list) ==
    LET h == Len(list) \div 2
    IN  CASE list = <<>>        -> NaN
          [] Len(list) % 2 = 1  -> Sorted(list, h + 1)
          [] OTHER              -> (Sorted(list, h + 1) + Sorted(list, h)) \div 2

\* sd is left as its square.
Finish(r, a) ==
    CASE r = "mean"           -> IF a.n > 0 THEN a.v \div a.n ELSE NaN
      [] r = "median"         -> Median(a.list)
      [] r \in {"var", "sd"}  -> IF a.n > 1 THEN a.v \div (a.n - 1) ELSE NaN
      [] OTHER                -> a.v

=================================================================================
