------------------------------ MODULE PathCuts ------------------------------
(***************************************************************************)
(* How a path is cut into certified segments (trajecta-core                 *)
(* boundary/met_path.rs, certify_path_cuts and the interval isolation of    *)
(* extrema), for one residual: the clearance over the ground or the gap     *)
(* under the model top.                                                     *)
(*                                                                          *)
(* The path has the points 0..N.  Between two grid lines it lies in one     *)
(* cell, where the residual is smooth: here a polynomial, of degree two when *)
(* the corners are constant in time and of degree three when they are not,  *)
(* which meets its neighbour at the grid line.  Interval  *)
(* arithmetic is what it guarantees, an enclosure: the exact range, widened *)
(* by Slack per unit of width.  A step holds no frame time inside, because  *)
(* the step planner cuts there, so a field has one time window.             *)
(***************************************************************************)
EXTENDS Integers, FiniteSets, FiniteSetsExt

CONSTANTS N, Origins, Slopes, Bends, Twists, Slack, MaxPasses

VARIABLES track,   \* grid lines met, and the residual in each cell
          cuts, passes, outcome

vars == <<track, cuts, passes, outcome>>

Points == 0..N

\* The cell of a leaf is that of its midpoint, doubled to stay on the lattice.
CellStart(l, r) == Max({0} \cup {g \in track.lines : 2 * g <= l + r})
CellEnd(l, r) == Min({N} \cup {g \in track.lines : 2 * g > l + r})

\* The residual of the cell that starts at line s, its slope and its bend.
Value(s, i) == LET c == track.cell[s]
                   x == i - s
               IN  c.origin + c.slope * x + c.bend * x * x + c.twist * x * x * x
Slope(s, i) == LET c == track.cell[s]
                   x == i - s
               IN  c.slope + 2 * c.bend * x + 3 * c.twist * x * x
Bend(s, i) == 2 * track.cell[s].bend + 6 * track.cell[s].twist * (i - s)

Sign(x) == IF x > 0 THEN 1 ELSE IF x < 0 THEN -1 ELSE 0

\* An enclosure of values taken on l..r, and whether it excludes zero.
Enclosure(values, l, r) == [lo |-> Min(values) - Slack * (r - l),
                            hi |-> Max(values) + Slack * (r - l)]
ExcludesZero(iv) == iv.lo > 0 \/ iv.hi < 0

ValueEnclosure(s, l, r) == Enclosure({Value(s, i) : i \in l..r}, l, r)
SlopeEnclosure(s, l, r) == Enclosure({Slope(s, i) : i \in l..r}, l, r)
BendEnclosure(s, l, r) == Enclosure({Bend(s, l), Bend(s, r)}, l, r)

-----------------------------------------------------------------------------
(* Isolation of the extrema of one leaf.                                    *)

Roots(found) == [ok |-> TRUE, found |-> found]
Failed == [ok |-> FALSE, found |-> {}]
Both(a, b) == IF a.ok /\ b.ok THEN Roots(a.found \cup b.found) ELSE Failed

\* Mutation of UniqueRoot: the middle of the bracket is taken for the root.
UniqueRootMiddle(s, l, r) == (l + r) \div 2

\* bisect_unique_residual_root: the zero of the slope on l..r.
UniqueRoot(s, l, r) ==
    IF Slope(s, l) = 0 THEN l
    ELSE IF Slope(s, r) = 0 THEN r
    ELSE LET root[a \in Points, b \in Points] ==
               LET mid == (a + b) \div 2 IN
               IF Slope(s, mid) = 0 \/ mid = a THEN mid
               ELSE IF Sign(Slope(s, mid)) = Sign(Slope(s, l)) THEN root[mid, b]
                    ELSE root[a, mid]
         IN  root[l, r]

Brackets(s, l, r) == \/ Slope(s, l) = 0 \/ Slope(s, r) = 0
                     \/ Sign(Slope(s, l)) # Sign(Slope(s, r))

\* A curved residual whose slope keeps its sign has no root on l..r.
SlopeKeepsSign(s, l, r) ==
    LET bend == BendEnclosure(s, l, r) IN
    \/ bend.lo > 0 /\ (Slope(s, l) > 0 \/ Slope(s, r) < 0)
    \/ bend.hi < 0 /\ (Slope(s, l) < 0 \/ Slope(s, r) > 0)

\* isolate_residual_rec: a part without a zero of the residual, or of its
\* slope, needs no cut; one with a certified bend and a bracket has one root;
\* any other is divided, and one that cannot be divided is an error.
RECURSIVE Isolate(_, _, _)
Isolate(s, l, r) ==
    LET mid == (l + r) \div 2
        bent == ExcludesZero(BendEnclosure(s, l, r))
    IN  IF ExcludesZero(ValueEnclosure(s, l, r))
             \/ ExcludesZero(SlopeEnclosure(s, l, r)) THEN Roots({})
        ELSE IF bent /\ Brackets(s, l, r) THEN Roots({UniqueRoot(s, l, r)})
        ELSE IF bent /\ SlopeKeepsSign(s, l, r) THEN Roots({})
        ELSE IF r - l <= 1 THEN Failed
        ELSE Both(Isolate(s, l, mid), Isolate(s, mid, r))

\* isolate_residual_roots_interval: a uniform cell has no isolated extremum.
LeafRoots(l, r) ==
    LET s == CellStart(l, r)
        cell == track.cell[s]
    IN  IF cell.uniform THEN Roots({})
        ELSE LET all == Isolate(s, l, r) IN
             [all EXCEPT !.found = {i \in all.found : l < i /\ i < r}]

\* scalar_field_extremum_cuts: both ends of a leaf must lie in its cell.
LeafCuts(l, r) == IF CellStart(l, r) <= l /\ r <= CellEnd(l, r)
                  THEN LeafRoots(l, r) ELSE Failed

-----------------------------------------------------------------------------
NextCut(c, l) == Min({q \in c : q > l})
Leaves(c) == {<<l, NextCut(c, l)>> : l \in c \ {N}}

\* The grid lines, the turning points and the domain edges of the path.
InitialCuts == {0, N} \cup track.lines

\* A uniform cell has no bend.
Shapes == {x \in [slope : Slopes, bend : Bends, twist : Twists,
                    uniform : BOOLEAN] :
             x.uniform => x.bend = 0 /\ x.twist = 0}

Cell(origin, x) == [origin |-> origin, slope |-> x.slope, bend |-> x.bend,
                    twist |-> x.twist, uniform |-> x.uniform]

\* The path crosses the line g, or none when g = 0; the residual is continuous.
Init == /\ \E g \in 0..(N - 1), origin \in Origins, x, y \in Shapes :
             LET meet == origin + x.slope * g + x.bend * g * g
                            + x.twist * g * g * g IN
             /\ g = 0 => x = y
             /\ track = [lines |-> {g} \ {0},
                         cell |-> [s \in {0, g} |-> IF s = 0 THEN Cell(origin, x)
                                                            ELSE Cell(meet, y)]]
        /\ cuts = InitialCuts /\ passes = 0 /\ outcome = "cutting"

\* One pass of the certification loop over all leaves.
Pass == /\ outcome = "cutting" /\ passes < MaxPasses
        /\ passes' = passes + 1
        /\ LET found == {LeafCuts(leaf[1], leaf[2]) : leaf \in Leaves(cuts)}
               added == UNION {x.found : x \in found}
           IN  /\ cuts' = cuts \cup added
               /\ outcome' = IF \E x \in found : ~x.ok THEN "uncertified"
                             ELSE IF added = {} THEN "certified" ELSE outcome
        /\ UNCHANGED track

GuardTrips == /\ outcome = "cutting" /\ passes = MaxPasses
              /\ outcome' = "uncertified"
              /\ UNCHANGED <<track, cuts, passes>>

Ended == outcome # "cutting" /\ UNCHANGED vars

Next == Pass \/ GuardTrips \/ Ended

Spec == Init /\ [][Next]_vars

-----------------------------------------------------------------------------
(* Properties.                                                              *)

\* The residual at a point of the path, whatever the leaf.
Residual(i) == Value(Max({s \in DOMAIN track.cell : s <= i}), i)

\* A certified segment is what the boundary searches rely on: the residual
\* stays on one side of zero, or runs one way, so that its ends tell whether
\* it crosses, and a bisection finds where.
CertifiedIsOneWay ==
    outcome = "certified" => \A leaf \in Leaves(cuts) :
       LET part == leaf[1]..leaf[2] IN
       \/ \A i \in part : Residual(i) > 0
       \/ \A i \in part : Residual(i) < 0
       \/ \A i, j \in part : i < j => Residual(i) <= Residual(j)
       \/ \A i, j \in part : i < j => Residual(i) >= Residual(j)

\* A certified segment holds at most one crossing from above to below, the
\* aim of the certification, whatever the arithmetic.
OneDownCrossing ==
    outcome = "certified" => \A leaf \in Leaves(cuts) :
       Cardinality({i \in leaf[1]..(leaf[2] - 1) :
                      Residual(i) > 0 /\ Residual(i + 1) <= 0}) <= 1

\* A path is cut at grid lines and at extrema, nowhere else: a cut inside a
\* cell has the residual turn around it.
CutsAreEvents ==
    \A c \in cuts \ ({0, N} \cup track.lines) :
       (Residual(c) - Residual(c - 1)) * (Residual(c + 1) - Residual(c)) <= 0

\* An exact arithmetic certifies every path that is not flat on the boundary.
ExactCertifies ==
    (Slack = 0 /\ outcome = "uncertified") =>
       \E s \in DOMAIN track.cell :
          /\ ~track.cell[s].uniform
          /\ \A i \in s..CellEnd(s, s + 1) : Value(s, i) = 0

\* A second pass over the new leaves is the last: the guard never trips.
FewPasses == passes <= 2
=============================================================================
