---------------------------- MODULE MCCollectionCube ----------------------------
(***************************************************************************)
(* A day has two ticks, a week two days, a year a month of three days and   *)
(* one of two: month borders are at 0, 6, 10, 16.  Images P (in two files), *)
(* Q (overlaps P and shares its month), R (next month, on a border of       *)
(* weeks) and S (next year); files that are refused, skipped or conflict.   *)
(***************************************************************************)
EXTENDS CollectionCube

\* An ordinary file.
File(image, date, left, right, bands, b1, b2) ==
    [matches |-> TRUE, opens |-> TRUE, subs |-> <<>>, extent |-> TRUE, rasters |-> 2, image |-> image,
     date |-> date, left |-> left, right |-> right, bands |-> bands, md |-> date # NoMatch,
     values |-> [b1 |-> b1, b2 |-> b2]]

Container(subs) == [File(NoMatch, NoMatch, 0, 0, {}, NaN, NaN) EXCEPT !.subs = subs]

MCFileInfo ==
    [p1 |-> File("P", 1, 0, 4, {"b1"}, 60, NaN),
     p2 |-> File("P", NoMatch, 2, 4, {"b2"}, NaN, 1),
     p3 |-> File("P", 3, 0, 4, {"b1", "b2"}, 90, 2),
     q  |-> File("Q", 5, 2, 6, {"b1", "b2"}, 20, 0),
     r  |-> File("R", 8, 0, 6, {"b1", "b2"}, 40, 0),
     s  |-> File("S", 13, 4, 6, {"b1"}, 80, NaN),
     undated |-> File("U", NoMatch, 0, 4, {"b1"}, 10, NaN),
     strange |-> File("V", Unparsable, 0, 4, {"b1"}, 10, NaN),
     other   |-> [File("W", 2, 0, 4, {"b1"}, 10, NaN) EXCEPT !.matches = FALSE],
     bare    |-> [File("X", 2, 0, 4, {"b1"}, 10, NaN) EXCEPT !.extent = FALSE],
     broken  |-> [Container(<<>>) EXCEPT !.opens = FALSE],
     c1 |-> Container(<<"p1", "q">>),
     c2 |-> Container(<<"p2", "r", "s">>),
     c3 |-> Container(<<"other", "undated", "p3", "bare", "q">>),
     c4 |-> Container(<<"r", "strange", "p1">>)]

MCBandOrder == <<"b1", "b2">>
MCMonthDays == <<3, 2>>
MCDescriptors == DOMAIN MCFileInfo

MCLists ==
    {[files |-> <<"c1", "broken", "c2">>, strict |-> s] : s \in BOOLEAN}
    \cup {[files |-> <<"c3">>, strict |-> s] : s \in BOOLEAN}
    \cup {[files |-> <<"c4">>, strict |-> FALSE]}

MCRanges == {[from |-> 0, to |-> 20, left |-> 0, right |-> 1], [from |-> 5, to |-> 8, left |-> 1, right |-> 6]}

MCBandSets == {{"b1"}, {"b1", "b2"}}

MCSelections == {<<>>, <<"b1">>}

\* From the start of a month to the next year, by months and by ticks, and one that starts in
\* the middle of a month.
MCViews ==
    LET from(l, t0, t1, n, u) ==
            View([left |-> l, right |-> 6], 3 - l \div 2, Date(t0, u), Date(t1, u), Duration(n, u))
    IN  {from(2, 0, 15, 1, "month"), from(0, 1, 14, 4, "tick"), from(2, 5, 14, 1, "month")}

MCDurations == {Duration(2, "month"), Duration(1, "year"), Duration(1, "week")}
MCCounts == {3}
MCCellSizes == {4}

Setting(st, sx, agg, mask, values, invert, range) ==
    [st |-> st, sx |-> sx, agg |-> agg, mask |-> mask, maskvalues |-> values, invert |-> invert, range |-> range]

MCSettings ==
    {Setting(1, 2, "mean", NoMatch, {}, FALSE, FALSE), Setting(2, 1, "median", "b2", {0}, FALSE, FALSE),
     Setting(2, 3, "first", "b2", {1}, TRUE, TRUE),    Setting(3, 2, "last", "b2", {1}, TRUE, FALSE),
     Setting(9, 9, "min", NoMatch, {}, FALSE, FALSE),  Setting(3, 3, "max", NoMatch, {}, FALSE, FALSE),
     Setting(3, 3, "count_values", "b2", {1}, FALSE, TRUE)}

MCUnreadable == {{}, {"p2", "q"}}

=================================================================================
