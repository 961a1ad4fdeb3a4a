------------------------------ MODULE FlowSample ------------------------------
(***************************************************************************)
(* The wind and the vertical velocity at a point, computed from levels that *)
(* move (`query/engine.rs', `derive/vertical_velocity.rs').  The height of a *)
(* level changes in time, slopes, and is crossed by the air, so that         *)
(*     w = dz/dt + u dz/dx + C' dz/dC,                                       *)
(* where C is the coordinate of the levels and C' is either in the data or   *)
(* follows from the change of pressure (omega).                             *)
(*                                                                         *)
(* A frame is filled from a flow in which height, pressure, wind and C' are  *)
(* planes in C, x and t: then every difference the code takes is exact, and  *)
(* what it samples must be the flow itself.                                  *)
(*                                                                         *)
(* Simplifications.  One horizontal direction; a cell has two corners.       *)
(* Numbers are fractions.  Points are asked for by height; what a failing    *)
(* point falls back to is in TransportRoute.                                 *)
(***************************************************************************)
EXTENDS Naturals, Integers, Sequences, FiniteSets, FiniteSetsExt

CONSTANTS Flows,      \* [kind, height, pressure, wind, crossing, ground, theta]
          Windows,    \* the frames around a time: [exact, left, right, t]
          Side,       \* the length of a cell
          Depths,     \* the coordinates of the levels, from the top down
          Outside,    \* the distance by which invalid levels are stacked
          Elevations  \* the heights asked for

-----------------------------------------------------------------------------
\* Fractions.
RECURSIVE Gcd(_, _)
Gcd(a, b) == IF b = 0 THEN a ELSE Gcd(b, a % b)
Absolute(a) == IF a < 0 THEN -a ELSE a
Q(n, d) == LET g == Gcd(Absolute(n), Absolute(d))
           IN  IF d < 0 THEN <<-(n \div g), -(d \div g)>> ELSE <<n \div g, d \div g>>
N(n) == <<n, 1>>
Add(a, b) == Q(a[1] * b[2] + b[1] * a[2], a[2] * b[2])
Sub(a, b) == Q(a[1] * b[2] - b[1] * a[2], a[2] * b[2])
Mul(a, b) == Q(a[1] * b[1], a[2] * b[2])
Div(a, b) == Q(a[1] * b[2], a[2] * b[1])
Less(a, b) == a[1] * b[2] < b[1] * a[2]

\* From a to b by a part of the way.
Toward(a, b, part) == Add(a, Mul(part, Sub(b, a)))

-----------------------------------------------------------------------------
VARIABLES flow, window, x, height, sample

vars == <<flow, window, x, height, sample>>

Levels == DOMAIN Depths
Corners == {0, Side}
Isobaric == flow.kind = "pressure"

\* A plane of the flow: at coordinate c, place p and time t.
Plane(f, c, p, t) == Add(Add(N(f.base), Mul(N(f.up), c)), Add(Mul(N(f.along), p), Mul(N(f.during), t)))

\* field_3d_value: what a frame holds at a corner.  Pressure levels carry their pressure, and
\* omega is what a change of pressure along the flow amounts to.
HeightAt(k, p, t) == Plane(flow.height, N(Depths[k]), N(p), N(t))
PressureAt(k, p, t) == IF Isobaric THEN N(Depths[k]) ELSE Plane(flow.pressure, N(Depths[k]), N(p), N(t))
WindAt(k, p, t) == Plane(flow.wind, N(Depths[k]), N(p), N(t))
CrossingAt(k, p, t) == Plane(flow.crossing, N(Depths[k]), N(p), N(t))
OmegaAt(k, p, t) ==
    Add(N(flow.pressure.during), Add(Mul(N(flow.pressure.along), WindAt(k, p, t)),
                                     Mul(N(flow.pressure.up), CrossingAt(k, p, t))))
GroundAt(p) == N(flow.ground.base + flow.ground.along * p)

\* vertical_velocity_field: C' itself where the data have it, else omega.
SourceAt(k, p, t) == IF flow.kind = "omega" THEN OmegaAt(k, p, t) ELSE CrossingAt(k, p, t)

\* Levels under the ground are invalid on pressure levels; hybrid levels follow the ground.
ValidAt(k, p, t) == Isobaric => Less(GroundAt(p), HeightAt(k, p, t))

-----------------------------------------------------------------------------
\* One frame.

\* sample_level_scalar and sample_level_vector: by the weights of the corners.
Across(v(_), part) == Toward(v(0), v(Side), part)
Here == Q(x, Side)

\* fill_invalid_descending: levels outside the valid ones are stacked.
Stacked(h, valid) ==
    LET top == Min({k \in Levels : valid[k]})
        bottom == Max({k \in Levels : valid[k]})
    IN  [k \in Levels |-> IF k < top THEN Add(h[top], N((top - k) * Outside))
                          ELSE IF k > bottom THEN Sub(h[bottom], N((k - bottom) * Outside))
                          ELSE h[k]]

\* The column of a frame over a part of the cell's side (ColumnShape, ColumnGeometry).
Shape(ground, h, valid, p) ==
    [ground |-> ground, valid |-> valid, p |-> p,
     h |-> IF \E k \in Levels : valid[k] THEN Stacked(h, valid) ELSE h]

Over(ground, h, part, t) ==
    Shape(ground, h,
          [k \in Levels |-> Isobaric => ValidAt(k, 0, t) /\ ValidAt(k, Side, t) /\ Less(ground, h[k])],
          [k \in Levels |-> Across(LAMBDA p : PressureAt(k, p, t), part)])

Column(part, t) ==
    Over(Across(GroundAt, part), [k \in Levels |-> Across(LAMBDA p : HeightAt(k, p, t), part)], part, t)

Between(first, second, part) == [ok |-> TRUE, first |-> first, second |-> second, part |-> part]
NoBracket == [ok |-> FALSE, first |-> 0, second |-> 0, part |-> N(0)]

\* The height is above the ground, and between the highest and the lowest valid level.
InReach(c, q) ==
    LET valid == {k \in Levels : c.valid[k]}
    IN  valid # {} /\ Less(c.ground, q) /\ ~ Less(c.h[Min(valid)], q) /\ ~ Less(q, c.h[Max(valid)])

\* vertical_bracket_shape: from the top, the first level there or the first pair around it.
LocateScan(c, q) ==
    LET there == {k \in Levels : c.valid[k] /\ c.h[k] = q}
        around == {k \in Levels : k + 1 \in Levels /\ c.valid[k] /\ c.valid[k + 1]
                                  /\ Less(q, c.h[k]) /\ Less(c.h[k + 1], q)}
    IN  CASE ~ InReach(c, q) -> NoBracket
          [] there # {} -> Between(Min(there), Min(there), N(0))
          [] around # {} -> LET k == Min(around)
                            IN  Between(k, k + 1, Div(Sub(c.h[k], q), Sub(c.h[k], c.h[k + 1])))
          [] OTHER -> NoBracket

\* The first level not above the height, by halving.
RECURSIVE SearchLevel(_, _, _, _)
SearchLevel(c, q, low, high) ==
    IF low >= high THEN low
    ELSE LET middle == low + (high - low) \div 2
         IN  IF Less(q, c.h[middle]) THEN SearchLevel(c, q, middle + 1, high)
             ELSE SearchLevel(c, q, low, middle)

\* locate_hybrid_vertical, whose levels are all valid.
LocateSearch(c, q) ==
    LET low == SearchLevel(c, q, 1, Len(Depths) + 1)
    IN  IF ~ InReach(c, q) \/ low > Len(Depths) THEN NoBracket
        ELSE IF c.h[low] = q THEN Between(low, low, N(0))
        ELSE IF low = 1 THEN NoBracket
        ELSE Between(low - 1, low, Div(Sub(c.h[low - 1], q), Sub(c.h[low - 1], c.h[low])))

\* Hybrid columns are searched, pressure columns scanned.
Locate(c, q) == IF Isobaric THEN LocateScan(c, q) ELSE LocateSearch(c, q)

\* sample_frame_point: the wind of a frame at the height, from that frame's own levels.
WindBetween(b, t) ==
    LET at(k) == Across(LAMBDA p : WindAt(k, p, t), Here)
    IN  [ok |-> b.ok, wind |-> IF b.ok THEN Toward(at(b.first), at(b.second), b.part) ELSE N(0)]

FramePoint(t) == WindBetween(Locate(Column(Here, t), height), t)

-----------------------------------------------------------------------------
\* Two frames.

\* blend_value; on a frame the answer is that frame's.
AfterWeight == IF window.exact THEN N(0) ELSE Q(window.t, window.right)
Times == {-window.left, 0, window.right}
Blend(v) == IF window.exact THEN v[0] ELSE Toward(v[0], v[window.right], AfterWeight)
Before == Column(Here, 0)
After == IF window.exact THEN Before ELSE Column(Here, window.right)

\* blend_shapes, blend_columns: a level is valid when it is in both frames.
BlendColumns(before, after) ==
    [ground |-> before.ground,
     valid |-> [k \in Levels |-> before.valid[k] /\ after.valid[k]],
     h |-> [k \in Levels |-> Toward(before.h[k], after.h[k], AfterWeight)],
     p |-> [k \in Levels |-> Toward(before.p[k], after.p[k], AfterWeight)]]

Target == BlendColumns(Before, After)

\* blend_frame_points.
BlendPoints(before, after) ==
    [ok |-> before.ok /\ after.ok, wind |-> Toward(before.wind, after.wind, AfterWeight)]

TargetPoint ==
    IF window.exact THEN FramePoint(0) ELSE BlendPoints(FramePoint(0), FramePoint(window.right))

\* target_level_geometry: the change between two frames; on a frame the mean of the changes
\* on both sides of it.
Rate(v) ==
    IF window.exact
      THEN Mul(Q(1, 2), Add(Div(Sub(v[0], v[-window.left]), N(window.left)),
                            Div(Sub(v[window.right], v[0]), N(window.right))))
      ELSE Div(Sub(v[window.right], v[0]), N(window.right))

\* derivative_at: by the levels above and below.
DerivativeAt(v, k) ==
    LET left == IF k = 1 THEN 1 ELSE k - 1
        right == IF k = Len(Depths) THEN k ELSE k + 1
    IN  Div(Sub(v[right], v[left]), N(Depths[right] - Depths[left]))

\* Mutation of CoordinateVelocity: the levels are taken to keep their pressure.
CoordinateVelocityFixed(source, u, rate, slope, perC) == Div(source, perC)

\* native_coordinate_velocity_from_omega.
CoordinateVelocity(source, u, rate, slope, perC) ==
    Div(Sub(Sub(source, rate), Mul(u, slope)), perC)

\* geometric_vertical_velocity_m_s.
GeometricW(rate, u, slope, c, perC) == Add(Add(rate, Mul(u, slope)), Mul(c, perC))

\* derive_geometric_w_at_level: `over' takes a field over the point from its times, `column'
\* has the levels.
WFrom(k, part, column, over(_)) ==
    LET series(v(_, _, _)) == [t \in Times |-> Across(LAMBDA p : v(k, p, t), part)]
        slope(v(_, _, _)) == [t \in Times |-> Div(Sub(v(k, Side, t), v(k, 0, t)), N(Side))]
        u == over(series(WindAt))
        source == over(series(SourceAt))
        c == IF flow.kind # "omega" THEN source
             ELSE CoordinateVelocity(source, u, Rate(series(PressureAt)), over(slope(PressureAt)),
                                     DerivativeAt(column.p, k))
    IN  GeometricW(Rate(series(HeightAt)), u, over(slope(HeightAt)), c, DerivativeAt(column.h, k))

\* geometric_w_level: at the time asked for, of the column there.
WAtLevel(column, k) == WFrom(k, Here, column, Blend)

\* geometric_w_at_bracket.
WAtBracket(column, b) == Toward(WAtLevel(column, b.first), WAtLevel(column, b.second), b.part)

\* endpoint_geometric_vertical_velocity: at one frame, changing as between both.
EndpointW(k, part, t) == WFrom(k, part, Column(part, t), LAMBDA v : v[t])

\* sample_upper_transport.
NoSample == [ok |-> FALSE, first |-> 0, second |-> 0, wind |-> N(0), w |-> N(0)]

Answer(column, b, point) ==
    IF ~ b.ok \/ ~ point.ok THEN NoSample
    ELSE [ok |-> TRUE, first |-> b.first, second |-> b.second, wind |-> point.wind, w |-> WAtBracket(column, b)]

SampleIn(column) == Answer(column, Locate(column, height), TargetPoint)
Sampled == SampleIn(Target)

-----------------------------------------------------------------------------
\* The support of the mesoscale motion (sample_mesoscale_point): every corner of the two
\* levels in the two frames, weighted, those of weight zero left out.
SupportBetween(b) ==
    LET time(t) == IF t = 0 THEN Sub(N(1), AfterWeight) ELSE AfterWeight
        level(k) == IF b.first = b.second THEN N(1)
                    ELSE IF k = b.first THEN Sub(N(1), b.part) ELSE b.part
        corner(p) == IF p = 0 THEN Sub(N(1), Here) ELSE Here
        all == {[t |-> t, k |-> k, p |-> p, weight |-> Mul(time(t), Mul(level(k), corner(p)))] :
                    t \in (IF window.exact THEN {0} ELSE {0, window.right}), k \in {b.first, b.second}, p \in Corners}
    IN  {s \in all : s.weight # N(0)}

Support == SupportBetween(Locate(Target, height))

\* mesoscale_corner_velocity.
CornerWind(s) == WindAt(s.k, s.p, s.t)
CornerW(s) == EndpointW(s.k, Q(s.p, Side), s.t)
SupportSum(f(_)) == FoldSet(LAMBDA s, total : Add(total, Mul(s.weight, f(s))), N(0), Support)

-----------------------------------------------------------------------------
\* Stability (sample_stability_point): per layer, the rise of potential temperature with
\* height over its mean; between the middles of the layers along a line.
LayerMiddle(h, k) == Mul(Q(1, 2), Add(h[k], h[k + 1]))
LayerRise(h, k) ==
    Div(Mul(N(2), Div(N(flow.theta[k + 1] - flow.theta[k]), Sub(h[k + 1], h[k]))), N(flow.theta[k] + flow.theta[k + 1]))

\* interpolate_layer_value: above the first and below the last middle, their value.
LayerValue(h) ==
    LET last == Len(Depths) - 1
        k == CHOOSE k \in 1 .. last - 1 : ~ Less(LayerMiddle(h, k), height) /\ ~ Less(height, LayerMiddle(h, k + 1))
    IN  IF ~ Less(height, LayerMiddle(h, 1)) THEN LayerRise(h, 1)
        ELSE IF ~ Less(LayerMiddle(h, last), height) THEN LayerRise(h, last)
        ELSE Toward(LayerRise(h, k), LayerRise(h, k + 1),
                    Div(Sub(LayerMiddle(h, k), height), Sub(LayerMiddle(h, k), LayerMiddle(h, k + 1))))

-----------------------------------------------------------------------------
NotYet == [NoSample EXCEPT !.w = <<0, 0>>]

Init ==
    /\ flow \in Flows /\ window \in Windows /\ x \in 0 .. Side /\ height \in {N(z) : z \in Elevations}
    /\ sample = NotYet

Sample == sample = NotYet /\ sample' = Sampled /\ UNCHANGED <<flow, window, x, height>>
Next == Sample
Spec == Init /\ [][Next]_vars

-----------------------------------------------------------------------------
\* The flow at the point: the coordinate there, and what the air does.
Time == IF window.exact THEN N(0) ELSE N(window.t)
CoordinateHere ==
    Div(Sub(height, Plane(flow.height, N(0), N(x), Time)), N(flow.height.up))
TrueWind(c) == Plane(flow.wind, c, N(x), Time)
TrueW(c, p, t) ==
    Add(N(flow.height.during), Add(Mul(N(flow.height.along), Plane(flow.wind, c, p, t)),
                                   Mul(N(flow.height.up), Plane(flow.crossing, c, p, t))))

\* No level is under the ground anywhere near.
Whole == \A k \in Levels, p \in Corners, t \in {-window.left, 0, window.right} : ValidAt(k, p, t)

\* Whatever the levels do, the wind sampled is the flow's, and so is the vertical velocity,
\* between two frames and on a frame between unequal intervals.
FlowIsKept ==
    sample.ok /\ Whole => /\ sample.wind = TrueWind(CoordinateHere)
                          /\ sample.w = TrueW(CoordinateHere, N(x), Time)

\* The velocities at the ends of a window, which a change of route blends, are the flow's too.
EndpointsAreKept ==
    sample # NotYet /\ Whole /\ ~ window.exact => \A k \in Levels, t \in {0, window.right} :
        EndpointW(k, Here, t) = TrueW(N(Depths[k]), N(x), N(t))

\* The support of the mesoscale motion weighs one, and its mean is the motion sampled: the
\* variance it gives is about the wind that carries the particle.
SupportIsCentred ==
    sample.ok /\ Whole =>
        /\ SupportSum(LAMBDA s : N(1)) = N(1)
        /\ SupportSum(CornerWind) = sample.wind /\ SupportSum(CornerW) = sample.w

\* The two ways to find a height find the same levels.
FormsAgree == sample # NotYet => \A c \in {Before, After, Target} :
    (\A k \in Levels : c.valid[k]) => LocateScan(c, height) = LocateSearch(c, height)

\* The stability at a height lies between that of the layers, and is stable where they are.
StabilityBetween ==
    sample # NotYet /\ (\A k \in Levels : Target.valid[k]) =>
        LET of == {LayerRise(Target.h, k) : k \in 1 .. Len(Depths) - 1}
        IN  (\E a \in of : ~ Less(LayerValue(Target.h), a)) /\ (\E a \in of : ~ Less(a, LayerValue(Target.h)))

\* The vertical velocity is the flow's also next to the ground, where levels are missing: they
\* stay invalid, and no values are made up for them
\* (docs/engineering/TRAJECTA_M3_MET_QUERY_PLAN.md:259).
FlowIsKeptByTheGround ==
    sample.ok => sample.w = TrueW(CoordinateHere, N(x), Time)
=============================================================================
