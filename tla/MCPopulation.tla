----------------------------- MODULE MCPopulation ----------------------------
(***************************************************************************)
(* Where particles come from: a domain filled with air, dry or ozone       *)
(* (DomainFill) and its first snapshot (below); releases over            *)
(* time, forward and backward (ReleaseBirths), over an area (ReleaseMesh)  *)
(* and over its parts (ReleaseSampling). A behaviour is one of theirs.     *)
(***************************************************************************)
EXTENDS Integers, Sequences, FiniteSets, Functions

VARIABLES part,   \* the component that moves
          now, stage, particles, carrier, initialResidual, residual, plan, nextEvent, opening,
          ledger, error, inflow,
          layers, spec, ozone, target, draws, layerOf,
          release, instant, draw, births, emitted, emittedCount, born,
          rings, canon, mesh, status,
          placing, ordinal, drawn

\* Two faces whose inflow varies, and a domain with a layer that may not be filled.
MCLayers == <<[mass |-> 4, eligible |-> 2], [mass |-> 3, eligible |-> 0], [mass |-> 3, eligible |-> 2]>>
Face(r, e) == [rate |-> r, eligible |-> e]
MCWinds == {<<Face(0, 0), Face(2, 1)>>, <<Face(1, 1), Face(0, 0)>>, <<Face(4, 2), Face(1, 0)>>}
ByCount(n) == [count |-> n, mass |-> 0]
ByMass(m) == [count |-> 0, mass |-> m]
Layer == {[mass |-> m, eligible |-> e] : m \in {1, 2, 4}, e \in {0, 1, 2}}

\* An instantaneous event on the edge of the window, and overlapping ones.
Event(id, start, end, count, mass) ==
    [id |-> id, start |-> start, end |-> end, count |-> count, mass |-> mass]
MCEvents == <<Event(2, 0, 0, 2, 3), Event(3, 0, 4, 3, 7), Event(1, 3, 3, 2, 5), Event(4, 3, 5, 2, 4)>>

\* Small polygons with every start, direction and order of holes.
Triangle == << <<0, 0>>, <<6, 0>>, <<0, 6>> >>
Square == << <<0, 0>>, <<8, 0>>, <<8, 8>>, <<0, 8>> >>
Notch == << <<0, 0>>, <<8, 0>>, <<8, 8>>, <<4, 3>>, <<0, 8>> >>
Flat == << <<0, 0>>, <<4, 0>>, <<8, 0>>, <<8, 8>>, <<4, 8>> >>
Exteriors == {Triangle, Square, Notch, Flat}
Holes == { << <<1, 1>>, <<1, 2>>, <<2, 1>> >>, << <<2, 4>>, <<2, 6>>, <<3, 6>>, <<3, 5>> >>,
           << <<5, 5>>, <<6, 7>>, <<7, 5>>, <<6, 6>> >>, << <<3, 2>>, <<3, 4>>, <<5, 2>> >> }

\* 24 draws, and extents that divide them, with parts of none in between.
Points(n) == [kind |-> "points", parts |-> [i \in 1..n |-> <<1>>]]
Lines(lengths) == [kind |-> "lines", parts |-> [i \in DOMAIN lengths |-> <<lengths[i]>>]]
Polygons(parts) == [kind |-> "polygons", parts |-> parts]
MCGeometries ==
    {Points(n) : n \in 1..4}
    \cup {Lines(p) : p \in {<<3, 5>>, <<1, 0, 2, 1>>, <<0, 6>>, <<0>>, <<2, 1, 2, 1>>}}
    \cup {Polygons(p) : p \in { <<<<1, 2>>>>, <<<<3, 1>>, <<4>>>>, <<<<1, 1>>, <<1, 1>>>>,
                                <<<<0>>, <<2, 3, 1>>>>, <<<<2, 0>>>>, <<<<1, 2>>, <<2, 1>>, <<6>>>> }}

Shapes == INSTANCE ReleaseMesh WITH Inputs <- {}
Proper == {p \in {<<e>> : e \in Exteriors} \cup {<<e, h>> : e \in Exteriors, h \in Holes}
             \cup {<<e, h, k>> : e \in {Square, Notch}, h \in Holes, k \in Holes} : Shapes!ProperPolygon(p)}
Turned(ring) == {Shapes!Rotated(ring, i) : i \in DOMAIN ring}
                \cup {Shapes!Reversed(Shapes!Rotated(ring, i)) : i \in DOMAIN ring}
TwoHoles == {p \in Proper : Len(p) = 3}
\* Rings that come to a corner twice: at once, where the ring starts, and by touching themselves.
Doubled == { << <<0, 0>>, <<6, 0>>, <<6, 0>>, <<0, 6>> >>, << <<0, 0>>, <<6, 0>>, <<0, 6>>, <<0, 0>> >>,
             << <<0, 0>>, <<4, 4>>, <<8, 0>>, <<8, 8>>, <<4, 4>>, <<0, 8>> >> }
MCInputs == TwoHoles \cup {<<r>> : r \in UNION {Turned(d) : d \in Doubled}} \cup UNION {{[p EXCEPT ![1] = r] : r \in Turned(p[1])} : p \in Proper \ TwoHoles}

Dry == INSTANCE DomainFill WITH Layers <- MCLayers, Target <- ByMass(3), Ozone <- FALSE,
                Winds <- MCWinds, Steps <- {1, 2}, Horizon <- 3
OzoneFill == INSTANCE DomainFill WITH Layers <- MCLayers, Target <- ByCount(2), Ozone <- TRUE,
                Winds <- MCWinds, Steps <- {1, 2}, Horizon <- 3
Forward == INSTANCE ReleaseBirths WITH Events <- MCEvents, Begin <- 0, End <- 5,
                Steps <- 1..5, Words <- 2,
                stage <- release, now <- instant, particles <- born
Backward == INSTANCE ReleaseBirths WITH Events <- MCEvents, Begin <- 5, End <- 0,
                Steps <- 1..5, Words <- 2,
                stage <- release, now <- instant, particles <- born
Mesh == INSTANCE ReleaseMesh WITH Inputs <- MCInputs
Places == INSTANCE ReleaseSampling WITH Geometries <- MCGeometries, Draws <- 24, MaxBatch <- 3,
                plan <- placing

-----------------------------------------------------------------------------
\* The seeding of a domain, for all small snapshots, targets and draws.
LayerSets == UNION {[1..n -> Layer] : n \in 1..3}
Targets == {ByCount(n) : n \in 1..3} \cup {ByMass(m) : m \in 2..3}

MassOf(i) == IF ozone THEN layers[i].eligible ELSE layers[i].mass
Seeded == Dry!Masses(layers, ozone)
Total == FoldFunction(+, 0, [i \in DOMAIN Seeded |-> Seeded[i].mass])

SeedInit ==
    /\ layers \in LayerSets /\ spec \in Targets /\ ozone \in BOOLEAN
    /\ target = Dry!NoTarget /\ draws = <<>> /\ layerOf = <<>>

Seed ==
    /\ target = Dry!NoTarget
    /\ target' = Dry!ResolveMassTarget(spec, Total)
    /\ target'.count * target'.carrier + target'.residual = Total   \* no rounding in this instance
    /\ draws' \in [0 .. target'.count - 1 -> 0 .. target'.carrier - 1]
    /\ layerOf' = Dry!SeedLayers(layers, ozone, target', draws')
    /\ UNCHANGED <<layers, spec, ozone>>

\* Particles lie in layers that have mass for them.
SeedPlaced ==
    /\ DOMAIN layerOf = 0 .. target.count - 1
    /\ \A o \in DOMAIN layerOf : \E i \in DOMAIN Seeded : Seeded[i].layer = layerOf[o]

\* The mass below and in each layer is represented to within one particle, whatever the
\* draws are: particles are spread over the mass, not over the layers.
SeedProportional ==
    \A k \in 1 .. Len(layers) :
        LET below  == FoldFunction(+, 0, [i \in 1 .. k |-> MassOf(i)])
            seeded == Cardinality({o \in DOMAIN layerOf : layerOf[o] <= k}) * target.carrier
        IN  target # Dry!NoTarget =>
               /\ seeded < below + target.carrier
               /\ below < seeded + target.carrier + target.residual

-----------------------------------------------------------------------------
dryVars == <<now, stage, particles, carrier, initialResidual, residual, plan, nextEvent,
    opening, ledger, error, inflow>>
seedVars == <<layers, spec, ozone, target, draws, layerOf>>
forwardVars == <<release, instant, draw, births, emitted, emittedCount, born>>
meshVars == <<rings, canon, mesh, status>>
placesVars == <<placing, ordinal, drawn>>

Idle(v) == v = "idle"
dryIdle == Idle(now) /\ Idle(stage) /\ Idle(particles) /\ Idle(carrier) /\ Idle(initialResidual)
    /\ Idle(residual) /\ Idle(plan) /\ Idle(nextEvent) /\ Idle(opening) /\ Idle(ledger) /\
    Idle(error) /\ Idle(inflow)
seedIdle == Idle(layers) /\ Idle(spec) /\ Idle(ozone) /\ Idle(target) /\ Idle(draws) /\
    Idle(layerOf)
forwardIdle == Idle(release) /\ Idle(instant) /\ Idle(draw) /\ Idle(births) /\ Idle(emitted) /\
    Idle(emittedCount) /\ Idle(born)
meshIdle == Idle(rings) /\ Idle(canon) /\ Idle(mesh) /\ Idle(status)
placesIdle == Idle(placing) /\ Idle(ordinal) /\ Idle(drawn)

Init ==
    \/ part = "dry" /\ Dry!Init /\ seedIdle /\ forwardIdle /\ meshIdle /\ placesIdle
    \/ part = "ozoneFill" /\ OzoneFill!Init /\ seedIdle /\ forwardIdle /\ meshIdle /\ placesIdle
    \/ part = "seed" /\ SeedInit /\ dryIdle /\ forwardIdle /\ meshIdle /\ placesIdle
    \/ part = "forward" /\ Forward!Init /\ dryIdle /\ seedIdle /\ meshIdle /\ placesIdle
    \/ part = "backward" /\ Backward!Init /\ dryIdle /\ seedIdle /\ meshIdle /\ placesIdle
    \/ part = "mesh" /\ Mesh!Init /\ dryIdle /\ seedIdle /\ forwardIdle /\ placesIdle
    \/ part = "places" /\ Places!Init /\ dryIdle /\ seedIdle /\ forwardIdle /\ meshIdle

Next ==
    /\ UNCHANGED part
    /\ \/ part = "dry" /\ Dry!Next /\ UNCHANGED <<seedVars, forwardVars, meshVars, placesVars>>
       \/ part = "ozoneFill" /\ OzoneFill!Next /\ UNCHANGED <<seedVars, forwardVars, meshVars,
        placesVars>>
       \/ part = "seed" /\ Seed /\ UNCHANGED <<dryVars, forwardVars, meshVars, placesVars>>
       \/ part = "forward" /\ Forward!Next /\ UNCHANGED <<dryVars, seedVars, meshVars,
        placesVars>>
       \/ part = "backward" /\ Backward!Next /\ UNCHANGED <<dryVars, seedVars, meshVars,
        placesVars>>
       \/ part = "mesh" /\ Mesh!Next /\ UNCHANGED <<dryVars, seedVars, forwardVars, placesVars>>
       \/ part = "places" /\ Places!Next /\ UNCHANGED <<dryVars, seedVars, forwardVars,
        meshVars>>

vars == <<part, dryVars, seedVars, forwardVars, meshVars, placesVars>>

Spec == Init /\ [][Next]_vars

(***************************************************************************)
(* Every unit of air mass is a particle's, a carrier's or in the ledger,   *)
(* no gate of the closing fires, and births follow the inflow alone,       *)
(* however the steps are cut; for ozone, the eligible inflow.  Seeded      *)
(* particles stand for the mass of each layer to within one particle.      *)
(***************************************************************************)
FillIsSound ==
    /\ part = "dry" => /\ Dry!TypeOK /\ Dry!MassConserved
                       /\ Dry!GatesNeverFire /\ Dry!BirthsFollowInflow
    /\ part = "ozoneFill" => OzoneFill!GatesNeverFire /\ OzoneFill!BirthsFollowInflow
    /\ part = "seed" => SeedPlaced /\ SeedProportional

(***************************************************************************)
(* Each particle of a release is born once, in one order whatever the      *)
(* steps and the direction, inside its stratum, with its share of the      *)
(* mass.                                                                   *)
(***************************************************************************)
BirthsAreSound ==
    /\ part = "forward" => /\ Forward!TypeOK /\ Forward!MassReleased
                           /\ Forward!SpreadEvenly /\ Forward!BornOnceInOrder
    /\ part = "backward" => Backward!BornOnceInOrder

(***************************************************************************)
(* The mesh of a proper polygon is exactly its region; a polygon whose     *)
(* rings come to no corner twice has one canonical form wherever they      *)
(* start; and a proper polygon with at most one hole is always meshed.     *)
(* Every part of a release, and every triangle of a single polygon, gets   *)
(* its share of the particles, whatever the batches.                       *)
(***************************************************************************)
MeshIsSound ==
    /\ part = "mesh" => Mesh!MeshIsRegion /\ Mesh!DistinctHasOneForm /\ Mesh!OneHoleIsMeshed
    /\ part = "places" => Places!PartsByExtent /\ Places!OnePartByArea

\* What the release tutorial says of several polygons: each place gets its share by area.
PolygonsByArea == part = "places" => Places!PolygonsByArea
=============================================================================
