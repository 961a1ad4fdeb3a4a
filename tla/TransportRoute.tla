---------------------------- MODULE TransportRoute ----------------------------
(***************************************************************************)
(* How one transport query is answered between two meteorological frames    *)
(* (`query/engine.rs'): from the levels above and below the height, from     *)
(* the surface layer under the lowest complete level, or, when the frames    *)
(* disagree about that, from one of each.  A cheaper probe tells the         *)
(* boundary driver beforehand whether a point can be queried; the two must   *)
(* agree, or a particle is moved to where it cannot be advected.             *)
(*                                                                         *)
(* A column of meteorology over a point (`vertical/mod.rs') has its levels  *)
(* numbered from the top.  A level may be invalid, below the ground or      *)
(* without support in the cell; a valid one is complete when wind and       *)
(* vertical velocity are known there too.                                   *)
(*                                                                         *)
(* Simplifications.  Heights are natural numbers above sea level; the query *)
(* for a pressure, which uses the same guards with the order reversed, and  *)
(* the physical top of a hybrid model are left out.                         *)
(***************************************************************************)
EXTENDS Naturals, Integers, Sequences, FiniteSets, FiniteSetsExt

CONSTANTS Columns,     \* the columns a frame may have over the point
          Heights      \* the heights queried

-----------------------------------------------------------------------------
\* A column: [terrain, roughness, h, valid, complete], the last three by level.
Levels(column) == DOMAIN column.h
ValidLevels(column) == {i \in Levels(column) : column.valid[i]}

\* first_valid_index and last_valid_index.
Highest(column) == Min(ValidLevels(column))
Lowest(column) == Max(ValidLevels(column))

Bracket(i, j) == [kind |-> "bracket", first |-> i, second |-> j]
Nowhere(why) == [kind |-> why, first |-> 0, second |-> 0]

\* locate_descending_linear: a level exactly there, or two valid neighbours around it.
LocateBetween(column, q) ==
    LET around == {i \in Levels(column) : /\ i + 1 \in Levels(column) /\ column.valid[i] /\ column.valid[i + 1]
                                          /\ column.h[i] > q /\ q > column.h[i + 1]}
        there == {i \in ValidLevels(column) : column.h[i] = q}
    IN  IF there # {} THEN Bracket(Min(there), Min(there))
        ELSE IF around # {} THEN Bracket(Min(around), Min(around) + 1)
        ELSE Nowhere("invalid_column")

\* locate_height_asl_m.
Locate(column, q) ==
    IF q <= column.terrain THEN Nowhere("below_ground")
    ELSE IF q > column.h[Highest(column)] THEN Nowhere("above_top")
    ELSE IF q < column.h[Lowest(column)] THEN Nowhere("surface")
    ELSE LocateBetween(column, q)

\* The value half way between the frames (blend_value).
Blend(a, b) == (a + b) \div 2

\* blend_columns and blend_shapes: a level is valid when it is in both frames.
BlendColumns(before, after) ==
    [terrain |-> Blend(before.terrain, after.terrain),
     roughness |-> Blend(before.roughness, after.roughness),
     h |-> [i \in Levels(before) |-> Blend(before.h[i], after.h[i])],
     valid |-> [i \in Levels(before) |-> before.valid[i] /\ after.valid[i]],
     complete |-> [i \in Levels(before) |-> before.complete[i] /\ after.complete[i]]]

\* minimum_transport_height_agl_m: a floor, and a multiple of the roughness.
MinimumHeight(column) == Max({1, 2 * column.roughness})

\* The top up to which both frames reach (restrictive_transport_top_asl_m).
RestrictiveTop(before, after) ==
    LET top == Highest(BlendColumns(before, after))
    IN  Min({before.h[top], after.h[top]})

-----------------------------------------------------------------------------
VARIABLES before, after, height, probe, answer

vars == <<before, after, height, probe, answer>>

Exact == before = after
Target == BlendColumns(before, after)
NoAnswer == [status |-> "none", route |-> "none"]
Answers(status, route) == [status |-> status, route |-> route]
Fails(status) == Answers(status, "none")

\* sample_status_for_vertical_error.
StatusOf(where) == IF where.kind = "surface" THEN "surface_undefined" ELSE where.kind

-----------------------------------------------------------------------------
\* The probe (finish_boundary_point).

\* The top that the probe accepts.
ProbeTop == RestrictiveTop(before, after)

Probe ==
    LET where == Locate(Target, height)
        agl == height - Target.terrain
    IN  CASE where.kind = "bracket" -> IF height > ProbeTop THEN "above_top" ELSE "ok"
          [] where.kind = "surface" -> IF agl < MinimumHeight(Target) THEN "surface_undefined" ELSE "ok"
          [] OTHER -> StatusOf(where)

-----------------------------------------------------------------------------
\* Sampling.  "incomplete" stands for the errors of a level without support.

\* sample_upper_transport_endpoint: one frame, at its own bracket.
UpperEndpoint(column, where) ==
    IF where.kind # "bracket" THEN Fails(StatusOf(where))
    ELSE IF column.complete[where.first] /\ column.complete[where.second] THEN Answers("ok", "upper")
    ELSE Fails("incomplete")

\* The levels that may close the surface layer from above.
Anchor(column) == {i \in ValidLevels(column) : column.complete[i]}

\* sample_surface_transport: from the ground to the lowest complete level.
Surface(column) ==
    IF Anchor(column) = {} THEN Fails("incomplete")
    ELSE LET agl == height - column.terrain
             lowest == Max(Anchor(column))
         IN  IF ~ column.complete[lowest] THEN Fails("incomplete")
             ELSE IF agl < MinimumHeight(column) \/ height > column.h[lowest] THEN Fails("surface_undefined")
             ELSE Answers("ok", "surface")

\* The lowest interval, when its lower level is incomplete, belongs to the surface layer.
OrSurface(upper, column, where) ==
    IF upper.status = "incomplete" /\ where.second = Lowest(column)
      THEN IF Surface(column).status \in {"surface_undefined", "incomplete"} THEN upper ELSE Surface(column)
      ELSE upper

\* sample_transport_endpoint.
Endpoint(column) ==
    LET where == Locate(column, height)
    IN  CASE where.kind = "bracket" -> OrSurface(UpperEndpoint(column, where), column, where)
          [] where.kind = "surface" -> Surface(column)
          [] OTHER -> Fails(StatusOf(where))

\* sample_temporal_mixed_transport: the first frame that fails decides.
Mixed ==
    IF Endpoint(before).status # "ok" THEN Fails(Endpoint(before).status)
    ELSE IF Endpoint(after).status # "ok" THEN Fails(Endpoint(after).status)
    ELSE Answers("ok", "mixed")

\* endpoint_routes_are_mixed: one frame is above its lowest level, the other below.
RoutesMixed ==
    /\ ~ Exact
    /\ {Locate(before, height).kind, Locate(after, height).kind} = {"bracket", "surface"}

\* sample_upper_transport: both frames at their own brackets, the vertical velocity at the
\* bracket of the blended column.
Upper(where) ==
    LET first == UpperEndpoint(before, Locate(before, height))
        second == UpperEndpoint(after, Locate(after, height))
    IN  IF first.status # "ok" THEN first
        ELSE IF second.status # "ok" THEN second
        ELSE IF Target.complete[where.first] /\ Target.complete[where.second] THEN Answers("ok", "upper")
        ELSE Fails("incomplete")

\* sample_boundary_adjacent_transport_point.
BoundaryAdjacent ==
    LET where == Locate(Target, height)
    IN  IF RoutesMixed /\ where.kind \in {"bracket", "surface"} THEN Mixed
        ELSE CASE where.kind = "bracket" -> OrSurface(Upper(where), Target, where)
               [] where.kind = "surface" -> Surface(Target)
               [] OTHER -> Fails(StatusOf(where))

\* sample_pressure_transport_point and sample_hybrid_transport_point: the fast path is for
\* points away from the lowest level.
Sample ==
    LET where == Locate(Target, height)
    IN  CASE where.kind = "surface" -> BoundaryAdjacent
          [] where.kind = "bracket" -> IF RoutesMixed \/ Lowest(Target) = where.second
                                         THEN BoundaryAdjacent ELSE Upper(where)
          [] OTHER -> Fails(StatusOf(where))

\* Mutation of Resolved: an error of the levels gets out.
ResolvedRaw(result) == result

\* resolve_local_transport_result.
Resolved(result) == IF result.status = "incomplete" THEN Fails("invalid_column") ELSE result

-----------------------------------------------------------------------------
Init ==
    /\ before \in Columns /\ after \in Columns
    /\ ValidLevels(before) \intersect ValidLevels(after) # {}
    /\ height \in Heights /\ probe = "none" /\ answer = NoAnswer

\* query_boundary_batch, as the boundary driver asks it.
Probes == probe = "none" /\ probe' = Probe /\ UNCHANGED <<before, after, height, answer>>

\* A transport query for the same point.
Samples ==
    /\ probe # "none" /\ answer = NoAnswer
    /\ answer' = Resolved(Sample) /\ UNCHANGED <<before, after, height, probe>>

Next == Probes \/ Samples
Spec == Init /\ [][Next]_vars

-----------------------------------------------------------------------------
\* The type invariant: an answer is one of the statuses, and has a route exactly when ok.
Statuses == {"ok", "below_ground", "surface_undefined", "above_top", "invalid_column"}
TypeOK ==
    /\ probe \in Statuses \union {"none"}
    /\ answer # NoAnswer => answer.status \in Statuses /\ (answer.route # "none" <=> answer.status = "ok")

\* A frame without holes: only the lowest levels are invalid, and at most the lowest of
\* the others is incomplete.
Whole(column) ==
    /\ ValidLevels(column) = 1 .. Lowest(column)
    /\ \A i \in 1 .. Lowest(column) - 1 : column.complete[i]

\* Where no frame has a hole or a level under the surface layer's minimum height, the
\* boundary driver is told that a point can be queried exactly when it can: in one frame,
\* and between frames of one roughness in which every valid level is complete.
AboveMinimum(column) == column.h[Lowest(column)] - column.terrain >= MinimumHeight(column)
ProbeAgrees ==
    /\ answer # NoAnswer /\ \A c \in {before, after} : Whole(c) /\ AboveMinimum(c)
    /\ Exact \/ (before.roughness = after.roughness /\ \A c \in {before, after} : Anchor(c) = ValidLevels(c))
    => (probe = "ok" <=> answer.status = "ok")

\* What the code says of the bounds: the probes and the ordinary queries share one domain.
ProbeShared == answer # NoAnswer /\ Whole(before) /\ Whole(after) => (probe = "ok" <=> answer.status = "ok")

\* An answer uses levels with support only: a surface layer ends below a complete level,
\* and one from levels has them around the height in both frames.
SupportedRoutes ==
    /\ answer.route = "upper" => \A c \in {before, after} : \E i, j \in Anchor(c) :
          c.h[i] >= height /\ height >= c.h[j] /\ j <= i + 1
    /\ answer.route = "surface" => \E i \in Anchor(Target) : Target.terrain < height /\ height <= Target.h[i]
=============================================================================
