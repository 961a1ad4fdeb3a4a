------------------------------- MODULE MCQuery -------------------------------
(***************************************************************************)
(* A meteorological query: the frames and columns it holds (MetQuery), the *)
(* sources it names (FieldProvenance), the levels or the surface layer that*)
(* answer it (TransportRoute), and the column sampled in a cell            *)
(* (ColumnStencil). A behaviour is one of theirs; the variables of the     *)
(* others keep their initial values.                                       *)
(***************************************************************************)
EXTENDS Integers, Sequences, FiniteSets, MetQuery

VARIABLES part,   \* the component that moves
          flow, around, place, elevation, sampled,
          window, plan, outcome, point,
          before, after, height, probe, routed,
          x, y, slope, terrain, valid, column,
          grid, points, budget, workers, stage, forward, chunks, chunk, found, status, values

\* The points queried: two in cells of one column's size, one in a cell of twice that.
MCCellOf == [p \in {"p1", "p2", "p3"} |-> IF p = "p3" THEN "wide" ELSE "narrow"]
MCColumnSize == [c \in {"wide", "narrow"} |-> IF c = "wide" THEN 2 ELSE 1]
MCBatches == {<<"p1">>, <<"p2", "p1">>, <<"p3">>}

\* Three levels of even heights over one ground, every mask of validity, two of completeness.
All == [i \in 1..3 |-> TRUE]
MCColumns ==
    {[terrain |-> 2, roughness |-> r, h |-> h, valid |-> v, complete |-> c] :
        r \in {0, 2}, h \in {<<14, 10, 6>>, <<12, 8, 4>>, <<16, 10, 8>>},
        v \in {m \in [1..3 -> BOOLEAN] : \E i \in 1..3 : m[i]},
        c \in {All, <<TRUE, TRUE, FALSE>>}}

\* Nothing optional, each group of optional fields, and fields of both.
MCProfiles == {{}, {"zt", "zgeo", "ustar"}, {"eta", "L", "zt"}}

\* Flows of planes: [base, up, along, during] of height, pressure, wind and the velocity across
\* the levels; level, rising, and sloping over ground that slopes as well.
Plane(base, up, along, during) == [base |-> base, up |-> up, along |-> along, during |-> during]
MCFlows ==
    {[kind |-> kind, height |-> Plane(40, -4, m[1], m[2]), pressure |-> Plane(2, 3, m[3], 1), wind |-> wind,
      crossing |-> Plane(1, -1, 1, 1), ground |-> [base |-> 6, along |-> 3 * m[1]], theta |-> <<12, 8, 9>>] :
        kind \in {"pressure", "omega", "eta"}, m \in {<<1, -1, -2>>, <<0, 1, 0>>, <<2, 1, 1>>},
        wind \in {Plane(1, 0, 1, 1), Plane(2, 1, -1, 0)}}

\* Half way and a third of the way between frames, and on a frame between unequal intervals.
MCWindows ==
    {[exact |-> FALSE, left |-> 1, right |-> 3, t |-> 1], [exact |-> FALSE, left |-> 1, right |-> 2, t |-> 1],
     [exact |-> TRUE, left |-> 1, right |-> 2, t |-> 0], [exact |-> TRUE, left |-> 2, right |-> 1, t |-> 0]}

\* Round the globe from pole to pole, and a region with and one without a halo.
MCGrids ==
    {[lon0 |-> 1, dlon |-> 2, nx |-> 4, lat0 |-> 4, dlat |-> -2, ny |-> 5, periodic |-> TRUE, halo |-> 1],
     [lon0 |-> 0, dlon |-> 2, nx |-> 3, lat0 |-> -2, dlat |-> 2, ny |-> 3, periodic |-> FALSE, halo |-> 0],
     [lon0 |-> 0, dlon |-> 2, nx |-> 5, lat0 |-> 3, dlat |-> -2, ny |-> 4, periodic |-> FALSE, halo |-> 1]}

\* One point anywhere, and three of a few places and every kind.
MCLists ==
    {<<[lon |-> lon, lat |-> lat, kind |-> "fine"]>> : lon \in -3..10, lat \in -5..5} \union
    [1..3 -> [lon : {3, 6}, lat : {0}, kind : {"fine", "local", "fatal"}] \union
             [lon : {4}, lat : {-1, 4}, kind : {"fine"}]]

Flow == INSTANCE FlowSample WITH Flows <- MCFlows, Windows <- MCWindows, Side <- 2, Depths <- <<1, 3, 7>>,
                Outside <- 10, Elevations <- {10, 14, 20, 28, 35, 36}, window <- around, x <- place,
                height <- elevation, sample <- sampled
Sourced == INSTANCE FieldProvenance WITH Profiles <- MCProfiles
Route == INSTANCE TransportRoute WITH Columns <- MCColumns, Heights <- 2..17, answer <- routed
Stencil == INSTANCE ColumnStencil WITH Parts <- 2, Outside <- 8, Slopes <- {<<0, 0>>, <<2, -1>>},
                Terrains <- {<<4, 12, 4, 12>>, <<12, 4, 4, 4>>}
Batched == INSTANCE PointBatches WITH Grids <- MCGrids, Circle <- 8, Pole <- 4, Batches <- MCLists,
                Budgets <- {1, 3, 4}, Fixed <- 2, PerPoint <- 1, Preferred <- 2, Workers <- {1, 2},
                batch <- points, phase <- stage

flowVars == <<flow, around, place, elevation, sampled>>
sourcesVars == <<window, plan, outcome, point>>
routeVars == <<before, after, height, probe, routed>>
stencilVars == <<x, y, slope, terrain, valid, column>>
pointsVars == <<grid, points, budget, workers, stage, forward, chunks, chunk, found, status,
    values>>

Unused(v) == v = "idle"
flowIdle == Unused(flow) /\ Unused(around) /\ Unused(place) /\ Unused(elevation) /\ Unused(sampled)
sourcesIdle == Unused(window) /\ Unused(plan) /\ Unused(outcome) /\ Unused(point)
routeIdle == Unused(before) /\ Unused(after) /\ Unused(height) /\ Unused(probe) /\ Unused(routed)
stencilIdle == Unused(x) /\ Unused(y) /\ Unused(slope) /\ Unused(terrain) /\ Unused(valid) /\ Unused(column)
pointsIdle == Unused(grid) /\ Unused(points) /\ Unused(budget) /\ Unused(workers) /\ Unused(stage) /\
    Unused(forward) /\ Unused(chunks) /\ Unused(chunk) /\ Unused(found) /\ Unused(status) /\ Unused(values)

MCInit ==
    \/ part = "flow" /\ Flow!Init /\ Init /\ sourcesIdle /\ routeIdle /\ stencilIdle /\
        pointsIdle
    \/ part = "columns" /\ Init /\ flowIdle /\ sourcesIdle /\ routeIdle /\ stencilIdle /\
        pointsIdle
    \/ part = "sources" /\ Sourced!Init /\ flowIdle /\ Init /\ routeIdle /\ stencilIdle
        /\ pointsIdle
    \/ part = "route" /\ Route!Init /\ flowIdle /\ Init /\ sourcesIdle /\ stencilIdle /\
        pointsIdle
    \/ part = "stencil" /\ Stencil!Init /\ flowIdle /\ Init /\ sourcesIdle /\ routeIdle
        /\ pointsIdle
    \/ part = "points" /\ Batched!Init /\ flowIdle /\ Init /\ sourcesIdle /\ routeIdle /\
        stencilIdle

MCNext ==
    /\ UNCHANGED part
    /\ \/ part = "flow" /\ Flow!Next /\ UNCHANGED <<vars, sourcesVars, routeVars,
        stencilVars, pointsVars>>
       \/ part = "columns" /\ Next /\ UNCHANGED <<flowVars, sourcesVars, routeVars,
        stencilVars, pointsVars>>
       \/ part = "sources" /\ Sourced!Next /\ UNCHANGED <<flowVars, vars, routeVars,
        stencilVars, pointsVars>>
       \/ part = "route" /\ Route!Next /\ UNCHANGED <<flowVars, vars, sourcesVars,
        stencilVars, pointsVars>>
       \/ part = "stencil" /\ Stencil!Samples /\ UNCHANGED <<flowVars, vars, sourcesVars,
        routeVars, pointsVars>>
       \/ part = "points" /\ Batched!Next /\ UNCHANGED <<flowVars, vars, sourcesVars,
        routeVars, stencilVars>>

MCVars == <<part, flowVars, vars, sourcesVars, routeVars, stencilVars, pointsVars>>

MCSpec == MCInit /\ [][MCNext]_MCVars

(***************************************************************************)
(* A field that is served names the frames it was computed from, all of    *)
(* them held.  Its quality is no better than that of anything a derived    *)
(* value was computed from, and of an interpolated one than its own        *)
(* field's.  Where estimates are not allowed, a plan with a surface model  *)
(* serves no value computed from one, another plan none whose own inputs   *)
(* it answers for were estimated.                                          *)
(***************************************************************************)
SourcesAreTold == part = "sources" =>
    /\ Sourced!MetadataAvailable /\ Sourced!FramesHeld /\ Sourced!SourcesNamed
    /\ Sourced!QualityAdmitsInputs /\ Sourced!EstimatedNotServed

\* The probe that lets a particle go somewhere agrees with the query that moves it there, and
\* the route taken is supported in both frames.
RoutesAgree == part = "route" => Route!TypeOK /\ Route!ProbeAgrees /\ Route!SupportedRoutes

(***************************************************************************)
(* A column sampled with any corners missing is exact on planes, its       *)
(* gradient is their slope, and its heights fall from level to level.      *)
(***************************************************************************)
StencilIsExact == part = "stencil" =>
    Stencil!SlopesAreExact /\ Stencil!PlanesAreExact /\ Stencil!HeightsFall

(***************************************************************************)
(* Whatever the levels do, the wind and the vertical velocity sampled are  *)
(* the flow's: between frames, on a frame, at the ends of a window, and in  *)
(* the mean of the mesoscale support; the two ways to find a height find    *)
(* the same levels, and stability lies between that of the layers.          *)
(***************************************************************************)
FlowIsSampled == part = "flow" =>
    /\ Flow!FlowIsKept /\ Flow!EndpointsAreKept /\ Flow!SupportIsCentred
    /\ Flow!FormsAgree /\ Flow!StabilityBetween

(***************************************************************************)
(* A point is answered from the cell it lies in, as if it had been asked    *)
(* alone, whatever the chunks and the workers; no chunk outgrows the       *)
(* budget, and a batch fails exactly when one of its points does.          *)
(***************************************************************************)
PointsAreTheirOwn == part = "points" =>
    /\ Batched!PlacedInside /\ Batched!AsIfAlone
    /\ Batched!FailsWithAPoint /\ Batched!ChunksFit
=============================================================================
