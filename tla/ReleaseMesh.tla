----------------------------- MODULE ReleaseMesh -----------------------------
(***************************************************************************)
(* How the polygon of a release event becomes the triangles its particles  *)
(* are drawn from: the rings are brought to one canonical form, the region *)
(* between the exterior and the holes is cut into triangles, and a mesh    *)
(* of a polygon with holes is certified before it is used                  *)
(* (release/geometry.rs; the cut at the dateline is not modelled).         *)
(*                                                                         *)
(* Simplifications.  Points have whole coordinates in a plane in which     *)
(* great circles are straight lines (a gnomonic chart), so tolerances      *)
(* vanish; an area is twice the planar one instead of the spherical        *)
(* excess, which is additive and has the same sign.  A ring is written     *)
(* without its closing point.  A centroid or midpoint is rounded to a      *)
(* point of the grid, and the order of encoded rings is that of their      *)
(* coordinates.                                                            *)
(***************************************************************************)
EXTENDS Integers, Sequences, SequencesExt, FiniteSets, FiniteSetsExt, Functions

CONSTANT Inputs \* polygons as a case may give them: <<exterior, hole, ...>>

VARIABLES
  rings,  \* the polygon given
  canon,  \* its canonical form
  mesh,   \* the triangles of the sampling plan
  status  \* "given", "canonical", "meshed" or "refused"

vars == <<rings, canon, mesh, status>>

Refused == <<>>

-----------------------------------------------------------------------------
(* Points, segments and rings.                                             *)

Cross(a, b, c) == (b[1] - a[1]) * (c[2] - a[2]) - (b[2] - a[2]) * (c[1] - a[1])

Successor(ring, i) == ring[(i % Len(ring)) + 1]
Predecessor(ring, i) == ring[((i - 2 + Len(ring)) % Len(ring)) + 1]
Edges(ring) == {<<ring[i], Successor(ring, i)>> : i \in DOMAIN ring}
Reversed(ring) == <<ring[1]>> \o Reverse(Tail(ring))
Rotated(ring, i) == SubSeq(ring, i, Len(ring)) \o SubSeq(ring, 1, i - 1)

SignedArea(ring) == SumFunction([i \in 2 .. Len(ring) - 1 |-> Cross(ring[1], ring[i], ring[i + 1])])
Magnitude(n) == IF n < 0 THEN -n ELSE n
RingArea(ring) == Magnitude(SignedArea(ring))
PolygonArea(polygon) == RingArea(polygon[1]) - SumFunction([h \in 2 .. Len(polygon) |-> RingArea(polygon[h])])

Between(p, a, b) == p >= Min({a, b}) /\ p <= Max({a, b})
OnSegment(p, a, b) == Cross(a, b, p) = 0 /\ Between(p[1], a[1], b[1]) /\ Between(p[2], a[2], b[2])
Opposite(s, t) == (s >= 0 /\ t <= 0) \/ (s <= 0 /\ t >= 0)

\* great_circle_segments_intersect: a touch counts, segments of one line do not.
Intersect(a, b, c, d) ==
  /\ (b[1] - a[1]) * (d[2] - c[2]) # (b[2] - a[2]) * (d[1] - c[1])
  /\ Opposite(Cross(a, b, c), Cross(a, b, d))
  /\ Opposite(Cross(c, d, a), Cross(c, d, b))

\* The point p / den: on which side of a line it is, and how often a ring winds around it.
Side(p, den, a, b) == (b[1] - a[1]) * (p[2] - den * a[2]) - (b[2] - a[2]) * (p[1] - den * a[1])

Winding(ring, p, den) ==
  LET up(e) == den * e[1][2] <= p[2] /\ p[2] < den * e[2][2] /\ Side(p, den, e[1], e[2]) > 0
      down(e) == den * e[2][2] <= p[2] /\ p[2] < den * e[1][2] /\ Side(p, den, e[1], e[2]) < 0
  IN Cardinality({i \in DOMAIN ring : up(<<ring[i], Successor(ring, i)>>)})
     - Cardinality({i \in DOMAIN ring : down(<<ring[i], Successor(ring, i)>>)})

InRing(ring, p, den) == Winding(ring, p, den) # 0
InPolygon(polygon, p, den) ==
  InRing(polygon[1], p, den) /\ \A h \in 2 .. Len(polygon) : ~InRing(polygon[h], p, den)

-----------------------------------------------------------------------------
(* The canonical form: normalize_polygon.                                  *)

PointBefore(a, b) == a[1] < b[1] \/ (a[1] = b[1] /\ a[2] < b[2])
RingBefore(r, s) ==
  LET shared == {i \in DOMAIN r \cap DOMAIN s : r[i] # s[i]} IN
  IF shared = {} THEN Len(r) < Len(s) ELSE PointBefore(r[Min(shared)], s[Min(shared)])

\* The closing point is dropped first: the last point may still equal the first.
WithoutRepeats(ring) ==
  LET kept == {i \in DOMAIN ring : i = 1 \/ ring[i] # ring[i - 1]} IN
  [k \in 1 .. Cardinality(kept) |-> ring[CHOOSE i \in kept : Cardinality({j \in kept : j <= i}) = k]]

FromLeast(ring) ==
  Rotated(ring, CHOOSE i \in DOMAIN ring :
    \A j \in DOMAIN ring : PointBefore(ring[i], ring[j]) \/ (ring[i] = ring[j] /\ i <= j))

NormalRing(ring, isHole) ==
  LET once == WithoutRepeats(ring)
      turned == IF isHole THEN SignedArea(once) >= 0 ELSE SignedArea(once) <= 0
  IN FromLeast(IF turned THEN Reversed(once) ELSE once)

Canonical(polygon) ==
  LET normal == [i \in DOMAIN polygon |-> NormalRing(polygon[i], i > 1)]
      holes == Tail(normal)
      refused == \/ \E i \in DOMAIN polygon : Len(WithoutRepeats(polygon[i])) < 3
                 \/ RingArea(normal[1]) = 0
                 \/ \E h \in DOMAIN holes : \E p \in Range(holes[h]) : ~InRing(normal[1], p, 1)
                 \/ SumFunction([h \in DOMAIN holes |-> RingArea(holes[h])]) >= RingArea(normal[1])
  IN IF refused THEN Refused ELSE <<normal[1]>> \o SortSeq(holes, RingBefore)

-----------------------------------------------------------------------------
(* Ear clipping.                                                           *)

\* A closed triangle; a flat one contains every point.
InTriangle(p, a, b, c) ==
  /\ Cross(a, b, p) * Cross(a, b, c) >= 0
  /\ Cross(b, c, p) * Cross(b, c, a) >= 0
  /\ Cross(c, a, p) * Cross(c, a, b) >= 0

IsEar(ring, i) ==
  LET a == Predecessor(ring, i)
      c == Successor(ring, i)
  IN /\ Cross(a, ring[i], c) > 0
     /\ \A p \in Range(ring) \ {a, ring[i], c} : ~InTriangle(p, a, ring[i], c)

RECURSIVE EarClip(_)
EarClip(ring) ==
  IF Len(ring) = 3 THEN <<ring>>
  ELSE LET ears == {i \in DOMAIN ring : IsEar(ring, i)} IN
       IF ears = {} THEN Refused
       ELSE LET i == Min(ears)
                rest == EarClip(RemoveAt(ring, i))
            IN IF rest = Refused THEN Refused
               ELSE <<<<Predecessor(ring, i), ring[i], Successor(ring, i)>>>> \o rest

-----------------------------------------------------------------------------
(* Holes: bridges to the exterior, and what is tried when those fail.      *)

BridgeIsValid(exterior, hole, a, b) ==
  /\ a # b
  /\ \A e \in Edges(exterior) \cup Edges(hole) :
        e[1] = e[2] \/ {a, b} \cap {e[1], e[2]} # {} \/ ~Intersect(a, b, e[1], e[2])

Bridges(exterior, hole) ==
  {<<exterior[ei][1], hole[hi][1], ei, hi>> :
     <<ei, hi>> \in {x \in (DOMAIN exterior) \X (DOMAIN hole) : BridgeIsValid(exterior, hole, exterior[x[1]], hole[x[2]])}}

KeyBefore(k, m) == \E i \in 1 .. 4 : k[i] < m[i] /\ \A j \in 1 .. i - 1 : k[j] = m[j]

FirstBridge(bridges) == CHOOSE k \in bridges : \A m \in bridges \ {k} : KeyBefore(k, m)

\* The hole is entered and left over one bridge, whose ends stand twice.
Entered(exterior, turned, at) ==
  SubSeq(exterior, 1, at) \o turned \o <<turned[1]>> \o SubSeq(exterior, at, Len(exterior))
Over(exterior, hole, bridge) == Entered(exterior, Rotated(hole, bridge[4]), bridge[3])

\* Mutation of WithHole: the bridge is not taken back.
OverOneWay(exterior, hole, bridge) ==
  SubSeq(exterior, 1, bridge[3]) \o Rotated(hole, bridge[4]) \o SubSeq(exterior, bridge[3] + 1, Len(exterior))
WithHoleOneWay(exterior, hole) ==
  LET bridges == Bridges(exterior, hole) IN
  IF bridges = {} THEN Refused ELSE OverOneWay(exterior, hole, FirstBridge(bridges))

WithHole(exterior, hole) ==
  LET bridges == Bridges(exterior, hole) IN
  IF bridges = {} THEN Refused ELSE Over(exterior, hole, FirstBridge(bridges))

\* Without the closing point, and counter-clockwise.
Opened(ring) == IF Len(ring) >= 2 /\ ring[1] = Last(ring) THEN Front(ring) ELSE ring
Oriented(ring) ==
  IF Len(ring) < 3 THEN Refused ELSE IF SignedArea(ring) < 0 THEN Reverse(ring) ELSE ring

Keyhole(exterior, holes) == Oriented(Opened(WithoutRepeats(FoldLeft(WithHole, exterior, holes))))

StarFan(ring, centre) ==
  LET fan == [i \in DOMAIN ring |-> <<centre, ring[i], Successor(ring, i)>>]
      turn(t) == Cross(t[1], t[2], t[3])
  IN IF \E i \in DOMAIN fan : turn(fan[i]) < 0 THEN Refused ELSE SelectSeq(fan, LAMBDA t : turn(t) > 0)

Middle(a, b) == <<(a[1] + b[1]) \div 2, (a[2] + b[2]) \div 2>>
Centroid(ring) == <<SumFunction([i \in DOMAIN ring |-> ring[i][1]]) \div Len(ring),
                    SumFunction([i \in DOMAIN ring |-> ring[i][2]]) \div Len(ring)>>

\* The first of several attempts that answers.
FirstOf(attempts) ==
  LET answers == {i \in DOMAIN attempts : attempts[i] # Refused} IN
  IF answers = {} THEN Refused ELSE attempts[Min(answers)]

\* Where find_region_steiner looks, in this order: the centroid, the middles of the ways from
\* hole to exterior, and the middles of the sides, but the last, a fifth of the way to the centroid.
FifthOfTheWay(a, b) == <<(4 * a[1] + b[1]) \div 5, (4 * a[2] + b[2]) \div 5>>
Middles(outer, inner) == FlattenSeq([o \in DOMAIN outer |-> [i \in DOMAIN inner |-> Middle(outer[o], inner[i])]])
SteinerCandidates(exterior, holes) ==
  <<Centroid(exterior)>> \o Middles(FlattenSeq(holes), exterior)
    \o [i \in 1 .. Len(exterior) - 1 |-> FifthOfTheWay(Middle(exterior[i], exterior[i + 1]), Centroid(exterior))]

InRegion(polygon, candidates) == SelectSeq(candidates, LAMBDA p : InPolygon(polygon, p, 1))

\* Only the first candidate in the region is tried.
SteinerFan(polygon, boundary) ==
  LET steiners == InRegion(polygon, SteinerCandidates(polygon[1], Tail(polygon))) IN
  IF boundary = Refused \/ steiners = <<>> THEN Refused ELSE StarFan(boundary, steiners[1])

\* A polygon with one hole has every middle between exterior and hole tried.
BridgeFans(polygon, boundary) ==
  LET steiners == InRegion(polygon, Middles(polygon[1], polygon[2])) IN
  [i \in DOMAIN steiners |-> StarFan(boundary, steiners[i])]

Clipped(boundary) == IF boundary = Refused THEN Refused ELSE EarClip(boundary)

\* Bearings around the centroid of the exterior, and two triangles for each pair of edges.
Upper(v) == v[2] > 0 \/ (v[2] = 0 /\ v[1] > 0)
ByBearing(ring, o) ==
  LET v(p) == <<p[1] - o[1], p[2] - o[2]>>
      turn(p, q) == v(p)[1] * v(q)[2] - v(p)[2] * v(q)[1]
      before(p, q) == IF Upper(v(p)) # Upper(v(q)) THEN Upper(v(q)) ELSE turn(p, q) > 0
  IN SortSeq(ring, before)

Zipper(exterior, hole) ==
  LET e == ByBearing(exterior, Centroid(exterior))
      h == ByBearing(hole, Centroid(exterior))
      at(ring, i) == ring[((i - 1) % Len(ring)) + 1]
      pair(i) == << <<at(e, i), at(e, i + 1), at(h, i + 1)>>, <<at(e, i), at(h, i + 1), at(h, i)>> >>
      turned(t) == IF Cross(t[1], t[2], t[3]) < 0 THEN <<t[1], t[3], t[2]>> ELSE t
      all == FlattenSeq([i \in 1 .. Max({Len(e), Len(h), 3}) |-> pair(i)])
  IN SelectSeq([i \in DOMAIN all |-> turned(all[i])], LAMBDA t : Cross(t[1], t[2], t[3]) # 0)

AnnulusBy(boundary, exterior, hole) ==
  IF boundary = Refused THEN Refused
  ELSE FirstOf(<<Clipped(boundary), SteinerFan(<<exterior, hole>>, boundary)>>
                 \o BridgeFans(<<exterior, hole>>, boundary) \o <<Zipper(exterior, hole)>>)

Annulus(exterior, hole) == AnnulusBy(Keyhole(exterior, <<hole>>), exterior, hole)

\* triangle_hole_relation.
HoleInside(t, hole) == \A p \in Range(hole) : InTriangle(p, t[1], t[2], t[3])
HoleApart(t, hole) == \A p \in Range(hole) : ~InTriangle(p, t[1], t[2], t[3])
HoleTangled(t, hole) ==
  \/ \E p \in Range(t) : InRing(hole, p, 1)
  \/ \E e \in Edges(t), f \in Edges(hole) : {e[1], e[2]} \cap {f[1], f[2]} = {} /\ Intersect(e[1], e[2], f[1], f[2])

Replaced(triangles, host, ring) ==
  IF ring = Refused THEN Refused
  ELSE FlattenSeq([i \in DOMAIN triangles |-> IF i = host THEN ring ELSE <<triangles[i]>>])

Embedded(triangles, hole) ==
  LET hosts == {i \in DOMAIN triangles : HoleInside(triangles[i], hole)} IN
  IF \/ \E i \in DOMAIN triangles : HoleTangled(triangles[i], hole)
     \/ \E i \in DOMAIN triangles : ~HoleInside(triangles[i], hole) /\ ~HoleApart(triangles[i], hole)
     \/ Cardinality(hosts) # 1
  THEN Refused
  ELSE Replaced(triangles, Min(hosts), Annulus(triangles[Min(hosts)], hole))

-----------------------------------------------------------------------------
(* The certificate of a mesh: finish_mesh and validate_mesh_topology.      *)

StrictlyInside(p, den, t) == \A i \in 1 .. 3 : Side(p, den, t[i], Successor(t, i)) > 0

Blend(t, w) == <<w[1] * t[1][1] + w[2] * t[2][1] + w[3] * t[3][1], w[1] * t[1][2] + w[2] * t[2][2] + w[3] * t[3][2]>>
Weights == {<<1, 1, 1>>} \cup {<<k, 1, 1>> : k \in 2 .. 3} \cup {<<1, k, 1>> : k \in 2 .. 3} \cup {<<1, 1, k>> : k \in 2 .. 3}
Representative(t) == Blend(t, <<1, 1, 1>>)

\* The places on a side where a ring meets it, as fractions <<n, d>> of the side.
Cuts(a, b, polygon) ==
  LET along(p) == IF a[1] # b[1] THEN <<p[1] - a[1], b[1] - a[1]>> ELSE <<p[2] - a[2], b[2] - a[2]>>
      fraction(f) == IF f[2] < 0 THEN <<-f[1], -f[2]>> ELSE f
      edges == UNION {Edges(polygon[r]) : r \in DOMAIN polygon}
      touching == {p \in UNION {Range(polygon[r]) : r \in DOMAIN polygon} : OnSegment(p, a, b)}
      crossing == {e \in edges : Intersect(a, b, e[1], e[2])}
  IN {<<0, 1>>, <<1, 1>>} \cup {fraction(along(p)) : p \in touching}
     \cup {fraction(<<Cross(e[1], e[2], a), Cross(e[1], e[2], a) - Cross(e[1], e[2], b)>>) : e \in crossing}

OnRings(polygon, p, den) ==
  \E r \in DOMAIN polygon : \E e \in Edges(polygon[r]) :
    /\ Side(p, den, e[1], e[2]) = 0
    /\ \A i \in 1 .. 2 : Between(p[i], den * e[1][i], den * e[2][i])

\* Between two neighbouring cuts nothing changes: the middle decides.
Less(f, g) == f[1] * g[2] < g[1] * f[2]
Neighbours(cuts) == {fg \in cuts \X cuts : Less(fg[1], fg[2]) /\ ~\E h \in cuts : Less(fg[1], h) /\ Less(h, fg[2])}
Along(a, b, den, n) == <<den * a[1] + (b[1] - a[1]) * n, den * a[2] + (b[2] - a[2]) * n>>
Covered(p, den, polygon) == InPolygon(polygon, p, den) \/ OnRings(polygon, p, den)
MiddleCovered(a, b, f, g, polygon) ==
  Covered(Along(a, b, 2 * f[2] * g[2], f[1] * g[2] + g[1] * f[2]), 2 * f[2] * g[2], polygon)

SideCertified(a, b, polygon) ==
  \A fg \in Neighbours(Cuts(a, b, polygon)) : MiddleCovered(a, b, fg[1], fg[2], polygon)

Sides(t) == {<<t[i], Successor(t, i)>> : i \in 1 .. 3}
Shares(e, f) == {e[1], e[2]} \cap {f[1], f[2]} # {}
ProperCrossing(e, f) == ~Shares(e, f) /\ Intersect(e[1], e[2], f[1], f[2])

\* One line, partly overlapping, neither within the other.
PartialOverlap(e, f) ==
  /\ Cross(e[1], e[2], f[1]) = 0 /\ Cross(e[1], e[2], f[2]) = 0
  /\ \E p \in {e[1], e[2]} : OnSegment(p, f[1], f[2]) /\ p \notin {f[1], f[2]}
  /\ ~\A p \in {e[1], e[2]} : OnSegment(p, f[1], f[2])
  /\ ~\A p \in {f[1], f[2]} : OnSegment(p, e[1], e[2])

TriangleCertified(t, polygon) ==
  /\ Cross(t[1], t[2], t[3]) > 0
  /\ \E w \in Weights : InPolygon(polygon, Blend(t, w), w[1] + w[2] + w[3])
  /\ \A h \in 2 .. Len(polygon) :
       /\ \A p \in Range(polygon[h]) : ~StrictlyInside(p, 1, t)
       /\ \A e \in Sides(t), f \in Edges(polygon[h]) : ~ProperCrossing(e, f)
  /\ \A e \in Sides(t) : SideCertified(e[1], e[2], polygon)

Apart(s, t) ==
  /\ ~StrictlyInside(Representative(s), 3, t) /\ ~StrictlyInside(Representative(t), 3, s)
  /\ \A e \in Sides(s), f \in Sides(t) : ~ProperCrossing(e, f) /\ (PartialOverlap(e, f) => Shares(e, f))

Finished(triangles, polygon) ==
  IF /\ SumFunction([i \in DOMAIN triangles |-> RingArea(triangles[i])]) = PolygonArea(polygon)
     /\ \A i \in DOMAIN triangles : TriangleCertified(triangles[i], polygon)
     /\ \A i, j \in DOMAIN triangles : i < j => Apart(triangles[i], triangles[j])
  THEN triangles ELSE Refused

\* mesh_polygon_region: ears without a hole, else a mesh that is certified.
Attempts(polygon, holes, boundary) ==
  IF Len(holes) = 1 THEN <<Annulus(polygon[1], holes[1])>>
  ELSE <<Clipped(boundary), SteinerFan(polygon, boundary), FoldLeft(Embedded, EarClip(polygon[1]), holes)>>

MeshedAround(polygon, holes) ==
  LET attempts == Attempts(polygon, holes, Keyhole(polygon[1], holes)) IN
  FirstOf([i \in DOMAIN attempts |-> Finished(attempts[i], polygon)])

Meshed(polygon) ==
  IF Len(polygon) = 1 THEN EarClip(polygon[1]) ELSE MeshedAround(polygon, Tail(polygon))

-----------------------------------------------------------------------------

\* canonicalize_geometry, when the run is built.
Canonicalizes ==
  /\ status = "given"
  /\ canon' = Canonical(rings)
  /\ status' = IF canon' = Refused THEN "refused" ELSE "canonical"
  /\ UNCHANGED <<rings, mesh>>

\* SamplingPlan::polygons, when the first particles are drawn: no triangle may be flat.
Usable(triangles) ==
  IF \A i \in DOMAIN triangles : RingArea(triangles[i]) > 0 THEN triangles ELSE Refused

Plans ==
  /\ status = "canonical"
  /\ mesh' = Usable(Meshed(canon))
  /\ status' = IF mesh' = Refused THEN "refused" ELSE "meshed"
  /\ UNCHANGED <<rings, canon>>

Init == rings \in Inputs /\ canon = Refused /\ mesh = Refused /\ status = "given"
Next == Canonicalizes \/ Plans
Spec == Init /\ [][Next]_vars

-----------------------------------------------------------------------------
(* What a polygon is, independently of the algorithms above.               *)

SimpleRing(ring) ==
  /\ Len(ring) >= 3
  /\ \A i, j \in DOMAIN ring : i # j => ring[i] # ring[j]
  /\ \A i, j \in DOMAIN ring : i < j =>
       LET e == <<ring[i], Successor(ring, i)>>  f == <<ring[j], Successor(ring, j)>> IN
       /\ ~Shares(e, f) => ~Intersect(e[1], e[2], f[1], f[2])
       /\ \A p \in {f[1], f[2]} \ {e[1], e[2]} : ~OnSegment(p, e[1], e[2])
       /\ \A p \in {e[1], e[2]} \ {f[1], f[2]} : ~OnSegment(p, f[1], f[2])

Inside(ring, p) == InRing(ring, p, 1) /\ ~\E e \in Edges(ring) : OnSegment(p, e[1], e[2])
Separate(r, s) == \A e \in Edges(r), f \in Edges(s) : ~Shares(e, f) /\ ~Intersect(e[1], e[2], f[1], f[2])
                     /\ ~OnSegment(e[1], f[1], f[2]) /\ ~OnSegment(f[1], e[1], e[2])

\* Simple rings, the holes inside the exterior and outside one another.
ProperPolygon(polygon) ==
  /\ \A r \in DOMAIN polygon : SimpleRing(polygon[r])
  /\ \A r, s \in DOMAIN polygon : r # s => Separate(polygon[r], polygon[s])
  /\ \A h \in 2 .. Len(polygon) :
       /\ Inside(polygon[1], polygon[h][1])
       /\ \A k \in (2 .. Len(polygon)) \ {h} : ~Inside(polygon[k], polygon[h][1])

Covering(p, den) == {i \in DOMAIN mesh : StrictlyInside(p, den, mesh[i])}
Touching(p, den) == {i \in DOMAIN mesh : \A e \in Sides(mesh[i]) : Side(p, den, e[1], e[2]) >= 0}

\* Points between the grid points, on no ring.
Probes(polygon) ==
  LET xs == {p[1] : p \in Range(polygon[1])}  ys == {p[2] : p \in Range(polygon[1])} IN
  {p \in (4 * Min(xs) - 1 .. 4 * Max(xs) + 1) \X (4 * Min(ys) - 1 .. 4 * Max(ys) + 1) :
     p[1] % 4 = 1 /\ p[2] % 2 = 1 /\ ~OnRings(polygon, p, 4)}

CoversRegion ==
  \A p \in Probes(rings) :
    /\ Cardinality(Covering(p, 4)) <= 1
    /\ (Covering(p, 4) # {}) => InPolygon(rings, p, 4)
    /\ InPolygon(rings, p, 4) => Touching(p, 4) # {}

\* The polygon, each corner given once where it was given twice in a row.
Cleaned == [r \in DOMAIN rings |-> Opened(WithoutRepeats(rings[r]))]

\* The triangles of the mesh of a proper polygon are the region, each place once: nothing outside
\* the polygon, within a hole or twice can be drawn, and nothing of it is left out, also when a
\* corner is given twice in a row (mesh_polygon_region, finish_mesh).
MeshIsRegion == status = "meshed" /\ ProperPolygon(Cleaned) => CoversRegion

\* The same of every polygon. The code does not promise it: nothing certifies a mesh without holes,
\* so the ears of a ring that touches or crosses itself may lie outside (ear_clip_sphere).
AnyMeshIsRegion == status = "meshed" => CoversRegion

\* A polygon with at most one hole always has a mesh: no flat corner stops the clipping, and one
\* bridge is enough (ear_clip_sphere, is_convex_ear, mesh_annulus).
OneHoleIsMeshed == ProperPolygon(rings) /\ Len(rings) <= 2 => status # "refused"

\* Every polygon of the kind has one, whatever the number of its holes.
ProperIsMeshed == ProperPolygon(rings) => status # "refused"

\* A ring two sides of which cross is refused.
Crosses(e, f) ==
  /\ Cross(e[1], e[2], f[1]) * Cross(e[1], e[2], f[2]) < 0
  /\ Cross(f[1], f[2], e[1]) * Cross(f[1], f[2], e[2]) < 0
CrossedIsRefused == (\E e, f \in Edges(rings[1]) : Crosses(e, f)) => status # "meshed"

\* The direction of a ring, where it starts and the order of the holes are forgotten
\* (normalize_polygon, rotate_ring_lex_min, encode_polygon).
OneForm ==
  /\ \A i \in DOMAIN rings[1] : Canonical([rings EXCEPT ![1] = Rotated(rings[1], i)]) = canon
  /\ Canonical([r \in DOMAIN rings |-> Reverse(rings[r])]) = canon
  /\ Canonical(<<rings[1]>> \o Reverse(Tail(rings))) = canon
  /\ Canonical(canon) = canon

\* A polygon none of whose rings comes to a corner twice has one canonical form.
DistinctHasOneForm ==
  status = "canonical" /\ (\A r \in DOMAIN rings : IsInjective(rings[r])) => OneForm

\* Every polygon has one canonical form. The code does not promise it: a corner given twice in a row
\* is forgotten except where the ring starts, and a ring that comes back to its least corner
\* has two starts (normalize_ring, rotate_ring_lex_min).
CanonicalIsOne == status = "canonical" => OneForm

=============================================================================
