---------------------------- MODULE ColumnStencil ----------------------------
(***************************************************************************)
(* The sampling of a column from the four corners of a cell on pressure      *)
(* levels, where corners may be under the ground (`vertical/mod.rs'): with   *)
(* three corners the point must be in their triangle, with fewer there is    *)
(* no support.  Corners are numbered row by row from the lower left one.     *)
(*                                                                         *)
(* Simplifications.  A position in the cell is a multiple of 1/Parts;        *)
(* weights are counted in units of 1/Parts^2, so that they are integers.     *)
(* Temperature and humidity are interpolated like the height.                *)
(***************************************************************************)
EXTENDS Naturals, Integers, Sequences, FiniteSets, FiniteSetsExt, Functions

CONSTANTS Parts,        \* the subdivision of a cell's side
          Outside,      \* the distance by which levels without support are stacked
          Slopes, Terrains \* of the planes the levels lie on, and of the ground

Corners == 1 .. 4
NoWeights == <<>>
CornerX == <<0, 1, 0, 1>>
CornerY == <<0, 0, 1, 1>>

\* The bilinear weights of a position (horizontal_weights).
CellWeights(x, y) ==
    <<(Parts - x) * (Parts - y), x * (Parts - y), (Parts - x) * y, x * y>>

\* valid_triangle_weights: all four corners, or the triangle of three.
Weights(x, y, valid) ==
    LET missing == {c \in Corners : ~ valid[c]}
        N == Parts
        at(inside, w) == IF inside THEN [c \in Corners |-> N * w[c]] ELSE NoWeights
    IN  IF missing = {} THEN CellWeights(x, y)
        ELSE CASE missing = {1} -> at(x + y >= N, <<0, N - y, N - x, x + y - N>>)
               [] missing = {2} -> at(y >= x, <<N - y, 0, y - x, x>>)
               [] missing = {3} -> at(x >= y, <<N - x, x - y, 0, y>>)
               [] missing = {4} -> at(x + y <= N, <<N - x - y, x, y, 0>>)
               [] OTHER -> NoWeights

\* bilinear, in units of 1/Parts^2.
Interpolate(values, w) == SumFunction([c \in Corners |-> values[c] * w[c]])

\* Mutation of Gradient: the differences of the lower and the left side always.
GradientSides(x, y, v, valid) == <<Parts * (v[2] - v[1]), Parts * (v[3] - v[1])>>

\* horizontal_gradient per cell side, in units of 1/Parts.
Gradient(x, y, v, valid) ==
    LET missing == {c \in Corners : ~ valid[c]}
        N == Parts
    IN  IF missing = {}
          THEN <<(N - y) * (v[2] - v[1]) + y * (v[4] - v[3]), (N - x) * (v[3] - v[1]) + x * (v[4] - v[2])>>
          ELSE <<N * (IF missing \subseteq {1, 2} THEN v[4] - v[3] ELSE v[2] - v[1]),
                 N * (IF missing \subseteq {1, 3} THEN v[4] - v[2] ELSE v[3] - v[1])>>

\* fill_invalid_descending: between valid levels along a line, outside them stacked.  The
\* heights of a run of n invalid levels are interpolated in n+1 parts.
Filled(height, valid) ==
    LET given == {i \in DOMAIN height : valid[i]}
    IN  [i \in DOMAIN height |->
            IF \A j \in given : i < j THEN height[Min(given)] + (Min(given) - i) * Outside
            ELSE LET above == Max({j \in given : j <= i})
                 IN  IF \A j \in given : j <= i THEN height[above] - (i - above) * Outside
                     ELSE LET below == Min({j \in given : j > i})
                          IN  height[above] + ((height[below] - height[above]) * (i - above)) \div (below - above)]

\* PressureColumnStencil::sample: the height of each level over a position, and whether
\* it has support there and is above the ground.
SampleLevels(x, y, heights, valid, terrain) ==
    LET w == [i \in DOMAIN heights |-> Weights(x, y, valid[i])]
        ground == Interpolate(terrain, CellWeights(x, y))
        height == [i \in DOMAIN heights |-> IF w[i] = NoWeights THEN 0 ELSE Interpolate(heights[i], w[i])]
        above == [i \in DOMAIN heights |-> w[i] # NoWeights /\ height[i] > ground]
    IN  IF \A i \in DOMAIN heights : ~ above[i] THEN [ok |-> FALSE, height |-> <<>>, valid |-> above]
        ELSE [ok |-> TRUE, height |-> Filled(height, above), valid |-> above]

-----------------------------------------------------------------------------
\* One column sampled at every position of a cell, from every mask of its corners.
VARIABLES x, y, slope, terrain, valid, column

vars == <<x, y, slope, terrain, valid, column>>
NotYet == [ok |-> FALSE, height |-> <<>>, valid |-> <<>>]
Base == <<24, 16, 8>>

\* Planes over the cell, one above the other; a level is valid above a corner's ground.
Plane(base) == [c \in Corners |-> base + slope[1] * CornerX[c] + slope[2] * CornerY[c]]
Heights == [i \in 1 .. 3 |-> Plane(Base[i])]

Init ==
    /\ x \in 0 .. Parts /\ y \in 0 .. Parts /\ slope \in Slopes /\ terrain \in Terrains
    /\ \E sources \in [1 .. 3 -> SUBSET Corners] :
          valid = [i \in 1 .. 3 |-> [c \in Corners |-> c \in sources[i] /\ Heights[i][c] > terrain[c]]]
    /\ column = NotYet

Samples ==
    /\ column = NotYet /\ column' = SampleLevels(x, y, Heights, valid, terrain)
    /\ UNCHANGED <<x, y, slope, terrain, valid>>

Spec == Init /\ [][Samples]_vars

Exactly(base) == Parts * (Parts * base + slope[1] * x + slope[2] * y)

\* Whatever corners are missing, a level with support is sampled from valid corners without
\* error: a plane through the corners is returned as it is; and on a side that two cells
\* share, only the two corners of that side count.
PlanesAreExact ==
    \A i \in 1 .. 3 : LET w == Weights(x, y, valid[i]) IN
        w # NoWeights =>
            /\ \A c \in Corners : w[c] >= 0 /\ (w[c] > 0 => valid[i][c])
            /\ SumFunction(w) = Parts * Parts
            /\ Interpolate(Heights[i], w) = Exactly(Base[i])
            /\ \A c \in Corners : w[c] > 0 => x # Parts * (1 - CornerX[c]) /\ y # Parts * (1 - CornerY[c])

\* The gradient of a level, which turns wind into vertical velocity, is the slope of the
\* plane that the level is sampled from.
SlopesAreExact ==
    \A i \in 1 .. 3 :
        Weights(x, y, valid[i]) # NoWeights =>
            Gradient(x, y, [c \in Corners |-> IF valid[i][c] THEN Heights[i][c] ELSE 0], valid[i])
              = <<Parts * slope[1], Parts * slope[2]>>

\* The heights of a sampled column fall from level to level, those filled in included, so
\* that a height lies between at most one pair of levels.
HeightsFall == column.ok => \A i, j \in 1 .. 3 : i < j => column.height[i] > column.height[j]
=============================================================================
