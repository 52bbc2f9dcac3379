-------------------------------- MODULE CubeView --------------------------------
(***************************************************************************)
(* The spatial and temporal reference of a cube (view.h, view.cpp): the     *)
(* window and its cells, the first and last date and the duration of a      *)
(* cell.  Space has one dimension here; a window is an interval.            *)
(*                                                                         *)
(* Dates are given a unit of their own, which the setters must keep the     *)
(* same as that of the duration: dates are compared in whole units.         *)
(***************************************************************************)
EXTENDS CubeTime

View(win, nx, t0, t1, dt) == [win |-> win, nx |-> nx, t0 |-> t0, t1 |-> t1, dt |-> dt]

\* Number of cells in time; the units of t1 - t0 and dt must agree.
CellsFor(d, dt) == IF Rem(d, dt) = 0 THEN Quot(d, dt) ELSE 1 + Quot(d, dt)

nt(v) ==
    IF Equal(v.t1, v.t0) THEN 1
    ELSE CellsFor(Minus(v.t1, v.t0).interval + 1, v.dt.interval)

UnitsAgree(v) == Coarser(v.t0.unit, v.t1.unit) = v.dt.unit

\* nt(n): a cell becomes so long that n of them cover the dates.
Stretched(v, n, d, dt) ==
    [v EXCEPT !.dt = dt,
              !.t1 = IF Rem(d, n) # 0 THEN Plus(v.t0, Times(dt, n - 1)) ELSE v.t1]

set_nt(v, n) ==
    LET total == Minus(v.t1, v.t0)
        with(d, unit) == Stretched(v, n, d, Duration(CeilDiv(d, n), unit))
    IN  with(total.interval + 1, IF v.dt.interval = 0 THEN total.unit ELSE v.dt.unit)

\* Mutant: the end is not moved.
set_dt_keeps_end(v, dt) ==
    [v EXCEPT !.t0.unit = dt.unit, !.t1.unit = dt.unit, !.dt = Duration(dt.interval, v.dt.unit)]

\* dt(d): the dates take the unit of d; the end moves to the last unit of a cell.
Extended(w, dt, dtotal) ==
    IF Rem(dtotal, dt.interval) = 0 THEN w
    ELSE [w EXCEPT !.t1 = Plus(Plus(w.t0, Times(dt, Quot(dtotal, dt.interval))),
                               Duration(dt.interval - 1, dt.unit))]

set_dt(v, dt) ==
    LET total(w) == Extended(w, dt, Minus(w.t1, w.t0).interval + 1)
    IN  total([v EXCEPT !.t0.unit = dt.unit, !.t1.unit = dt.unit, !.dt = dt])

\* dx(x): the window is widened at both ends to a multiple of x (lengths are even).
set_dx(v, x) ==
    LET w   == v.win.right - v.win.left
        n   == CeilDiv(w, x)
        ext == n * x - w
    IN  [v EXCEPT !.nx = n, !.win = [left  |-> @.left - ext \div 2, right |-> @.right + ext \div 2]]

\* write_json and read: dates are written in their unit and read with that of the duration.
rewritten(v) ==
    [v EXCEPT !.t0 = Date(Written(v.t0), v.dt.unit), !.t1 = Date(Written(v.t1), v.dt.unit)]

\* set_st_reference of a derived cube: the dates are copied, then the duration is set.
derived(v) == set_dt(v, v.dt)

\* map_coords and cube_coords, in time.
map_time(v, k) == Plus(v.t0, Times(v.dt, k))
cube_time(v, p) == Quot(Minus(Date(p, v.dt.unit), v.t0).interval, v.dt.interval)

\* The finest unit that makes more than four cells, or days; then four cells.
default_view(win, nx, first, last) ==
    LET fits == {u \in {"year", "month", "day", "tick"} : Convert(last - first, u) > 4}
        coarsest(us) == CHOOSE u \in us : \A w \in us : Rank[w] <= Rank[u]
        four(unit) == set_nt(View(win, nx, Date(first, unit), Date(last, unit), Duration(0, unit)), 4)
    IN  IF first = last
        THEN View(win, nx, Date(first, "tick"), Date(last, "tick"), Duration(1, "day"))
        ELSE four(IF fits = {} THEN "day" ELSE coarsest(fits))

=================================================================================
