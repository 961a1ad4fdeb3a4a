--------------------------- MODULE ReleaseSampling ---------------------------
(***************************************************************************)
(* The horizontal draw of a release: which point, segment or triangle of   *)
(* the event's geometry a particle is placed in                            *)
(* (SamplingPlan and sample_horizontal of release/geometry.rs).            *)
(*                                                                         *)
(* A plan is [kind, parts], a part the sequence of its extents: the areas  *)
(* of the triangles of a polygon, one length of a line segment, one weight *)
(* of a point.  The draws of                                               *)
(* Draws particles are spread evenly over the unit interval, in any        *)
(* batches: draw k of a dimension is (2k + 1) / (2 Draws).  Where in the   *)
(* chosen segment or triangle the particle lies is not modelled, nor is    *)
(* the rectangle that is drawn from without a mesh.                        *)
(***************************************************************************)
EXTENDS Naturals, Sequences, SequencesExt, FiniteSetsExt, Functions

CONSTANTS
  Geometries, \* the lines, points and polygons of a case, parts without extent included
  Draws,      \* particles of the event
  MaxBatch    \* the most of them one request asks for

VARIABLES
  plan,     \* the plan made of the geometry, or NoPlan
  ordinal,  \* the particles placed so far
  drawn     \* [place -> particles in it], a place being <<part, triangle>>

vars == <<plan, ordinal, drawn>>

NoPlan == [kind |-> "refused", parts |-> <<>>]
Total(lengths) == SumFunction(lengths)
Extents(parts) == [i \in DOMAIN parts |-> Total(parts[i])]

\* SamplingPlan::new: parts without extent are dropped, a flat triangle refuses the geometry.
Planned(g) ==
  LET kept == SelectSeq(g.parts, LAMBDA p : Total(p) > 0) IN
  IF kept = <<>> \/ \E p \in Range(kept) : 0 \in Range(p) THEN NoPlan ELSE [kind |-> g.kind, parts |-> kept]

\* The first whose running sum reaches the target u of the total, u = (2k + 1) / (2 Draws).
Reaching(lengths, k) ==
  LET reached(i) == 2 * Draws * Total(SubSeq(lengths, 1, i)) >= (2 * k + 1) * Total(lengths) IN
  Min({i \in DOMAIN lengths : reached(i)} \cup {Len(lengths)})

\* Points have equal weight; lines and polygons that of their extent.
ChosenPart(k) ==
  IF plan.kind = "points" THEN ((2 * k + 1) * Len(plan.parts)) \div (2 * Draws) + 1
  ELSE Reaching(Extents(plan.parts), k)

\* The draw that chose the part, once more, against the areas within it.
ChosenTriangle(k) == Reaching(plan.parts[ChosenPart(k)], k)

Places == {<<i, j>> : <<i, j>> \in {x \in (DOMAIN plan.parts) \X (1 .. 9) : x[2] \in DOMAIN plan.parts[x[1]]}}

\* sample_horizontal: a batch of the next ordinals, each keyed by its own.
SampleBatch ==
  /\ plan # NoPlan
  /\ ordinal < Draws
  /\ \E n \in 1 .. MaxBatch :
       /\ ordinal + n <= Draws
       /\ ordinal' = ordinal + n
       /\ drawn' = [p \in Places |->
            drawn[p] + Cardinality({k \in ordinal .. ordinal + n - 1 : <<ChosenPart(k), ChosenTriangle(k)>> = p})]
  /\ UNCHANGED plan

Init ==
  /\ \E g \in Geometries : plan = Planned(g)
  /\ ordinal = 0
  /\ drawn = [p \in Places |-> 0]
Next == SampleBatch
Spec == Init /\ [][Next]_vars

-----------------------------------------------------------------------------
InPart(i) == SumFunction([p \in {q \in Places : q[1] = i} |-> drawn[p]])
WholeExtent == Total(Extents(plan.parts))
Done == plan # NoPlan /\ ordinal = Draws

\* Over all draws a point, line segment or polygon gets the particles of its weight, length or
\* area, whatever the batches (SamplingPlan::sample).
PartsByExtent == Done => \A i \in DOMAIN plan.parts : InPart(i) * WholeExtent = Draws * Extents(plan.parts)[i]

\* Within one polygon, so does every triangle.
OnePartByArea ==
  Done /\ plan.kind = "polygons" /\ Len(plan.parts) = 1 =>
    \A p \in Places : drawn[p] * WholeExtent = Draws * plan.parts[p[1]][p[2]]

\* And within several.
PolygonsByArea ==
  Done /\ plan.kind = "polygons" => \A p \in Places : drawn[p] * WholeExtent = Draws * plan.parts[p[1]][p[2]]

=============================================================================
