----------------------------- MODULE DomainFill -----------------------------
(***************************************************************************)
(* A domain-filling population over the macro steps of a run: before each   *)
(* step the inflow is planned and its births handed to the runner, after    *)
(* the particles have moved the step is closed in the mass ledger           *)
(* (`DomainFillAirMass', `DomainFillStratosphericOzone').  The domain is    *)
(* limited: a global one has no faces and no inflow.                        *)
(*                                                                         *)
(* First the arithmetic of `air_mass.rs': how many carriers a domain is     *)
(* seeded with and in which layers, and which births the inflow brings      *)
(* within one step.  Masses, rates and times are natural numbers without    *)
(* rounding; time is counted along the direction of the run.  A layer is    *)
(* its mass and the part of it that the ozone rule accepts, a face its      *)
(* inflow rate and the accepted part of that.                               *)
(***************************************************************************)
EXTENDS Naturals, Sequences, SequencesExt, FiniteSets, FiniteSetsExt

-----------------------------------------------------------------------------
\* Seeding.

NoTarget == [count |-> 0, carrier |-> 0, residual |-> 0]

\* resolve_mass_target: a number of particles, or the mass of one.
ResolveMassTarget(spec, total) ==
    IF total = 0 \/ (spec.count = 0) = (spec.mass = 0) THEN NoTarget
    ELSE IF spec.count > 0 THEN [count |-> spec.count, carrier |-> total \div spec.count, residual |-> 0]
    ELSE [count |-> total \div spec.mass, carrier |-> spec.mass, residual |-> total % spec.mass]

\* The masses a population sees in the columns of the snapshot.
Masses(layers, ozone) ==
    SelectSeq([i \in 1 .. Len(layers) |-> [layer |-> i, mass |-> IF ozone THEN layers[i].eligible
                                                                 ELSE layers[i].mass]],
              LAMBDA s : s.mass > 0)

\* The cumulative mass up to and including each stratum.
Cumulative(strata) == [i \in 1 .. Len(strata) |-> SumFunction([j \in 1 .. i |-> strata[j].mass])]

\* locate_mass_coordinate: the first stratum that reaches beyond it, the last for rounding.
Locate(strata, coordinate) ==
    LET upper == Cumulative(strata)
        index == Cardinality({i \in 1 .. Len(strata) : upper[i] <= coordinate}) + 1
    IN  strata[Min({index, Len(strata)})].layer

\* Every particle draws its mass coordinate in a stratum of its own.
Coordinate(target, ordinal, draw) == ordinal * target.carrier + draw

\* seed_initial_air_mass and seed_initial_stratospheric_ozone: the layer of each particle.
SeedLayers(layers, ozone, target, draws) ==
    [o \in 0 .. target.count - 1 |->
        Locate(Masses(layers, ozone), Coordinate(target, o, draws[o]))]

-----------------------------------------------------------------------------
\* Inflow.

NoPlan == [planned |-> FALSE, start |-> 0, end |-> 0, event |-> 0, rate |-> <<>>, births |-> {}]

\* The inflow of a face; the ozone rule takes only an eligible part.
Rate(face, ozone) == IF ozone THEN face.eligible ELSE face.rate

CeilDiv(a, b) == (a + b - 1) \div b

\* The time after which an inflow has brought a mass.
Elapsed(required, rate) == CeilDiv(required, rate)

\* Mutation of FaceBirths: all births of a step are at its end.
FaceBirthsLate(face, rate, opening, carrier, start, step, event) ==
    {[time |-> start + step, face |-> face, event |-> event, ordinal |-> k] :
        k \in 0 .. (IF rate = 0 THEN 0 ELSE (opening + rate * step) \div carrier) - 1}

\* The births of one face: every time the mass waiting there reaches another carrier.
FaceBirths(face, rate, opening, carrier, start, step, event) ==
    {[time |-> start + Elapsed(carrier * (k + 1) - opening, rate), face |-> face,
      event |-> event, ordinal |-> k] :
        k \in 0 .. (IF rate = 0 THEN 0 ELSE (opening + rate * step) \div carrier) - 1}

\* plan_boundary_inflow and plan_ozone_boundary_inflow.
PlanInflow(faces, ozone, carrier, residual, start, step, event) ==
    [planned |-> TRUE, start |-> start, end |-> start + step, event |-> event,
     rate |-> [f \in DOMAIN faces |-> Rate(faces[f], ozone)],
     births |-> UNION {FaceBirths(f, Rate(faces[f], ozone), residual[f], carrier, start, step, event) :
                          f \in DOMAIN faces}]

\* What the planner refuses: a residual that is already a carrier, a birth after the end.
PlanFails(plan, carrier, residual) ==
    \/ \E f \in DOMAIN plan.rate : plan.rate[f] > 0 /\ residual[f] >= carrier
    \/ \E b \in plan.births : b.time > plan.end \/ b.time <= plan.start

CoversInterval(plan, start, step) == plan.planned /\ start >= plan.start /\ start + step <= plan.end

\* incoming_by_face.
Incoming(plan, step) == [f \in DOMAIN plan.rate |-> plan.rate[f] * step]

-----------------------------------------------------------------------------
\* A population over the steps of a run.


CONSTANTS Layers,       \* the layers of the initial snapshot
          Target,       \* what the case asks for: a count or a mass per particle
          Ozone,        \* whether the population carries stratospheric ozone
          Winds,        \* the inflow of all faces that a snapshot may have
          Steps,        \* the lengths of macro steps
          Horizon       \* the time the run ends

VARIABLES now, stage,
          particles,   \* each particle that ever was: its status
          carrier, initialResidual, residual,
          plan, nextEvent,
          opening,     \* DomainFillStepOpening, or Closed
          ledger,      \* the records, each with what it says has left
          error,
          inflow       \* history: the inflow of every face in every unit of time

vars == <<now, stage, particles, carrier, initialResidual, residual, plan, nextEvent,
          opening, ledger, error, inflow>>

Faces == UNION {DOMAIN w : w \in Winds}
Total == SumFunction([i \in 1 .. Len(Masses(Layers, Ozone)) |-> Masses(Layers, Ozone)[i].mass])
Closed == [open |-> FALSE, at |-> 0, end |-> 0, active |-> 0, residual |-> 0, incoming |-> 0,
           alive |-> {}, births |-> {}]

Alive(all) == {p \in DOMAIN all : all[p] = "alive"}
Mass(ids) == carrier * Cardinality(ids)
Residuals(r) == initialResidual + SumFunction(r)

Init ==
    /\ now = 0 /\ stage = "new" /\ particles = <<>> /\ carrier = 0 /\ initialResidual = 0
    /\ residual = [f \in Faces |-> 0] /\ plan = NoPlan /\ nextEvent = 0 /\ opening = Closed
    /\ ledger = <<>> /\ error = "" /\ inflow = [f \in Faces |-> <<>>]

Fails(code) == stage' = "failed" /\ error' = code

\* initialize: the domain is seeded; the boundary residuals start empty.
Initialize ==
    LET target == ResolveMassTarget(Target, Total)
    IN  /\ stage = "new" /\ target # NoTarget
        /\ particles' = [p \in {[face |-> 0, event |-> 0, ordinal |-> k] : k \in 0 .. target.count - 1} |->
                            "alive"]
        /\ carrier' = target.carrier /\ initialResidual' = target.residual
        /\ stage' = "idle"
        /\ UNCHANGED <<now, residual, plan, nextEvent, opening, ledger, error, inflow>>

-----------------------------------------------------------------------------
\* Before a step.

\* A plan that ends now has been used up.
Current == IF plan.planned /\ plan.end = now THEN NoPlan ELSE plan

\* dynamic_step_boundaries: an open plan is kept, whoever made it.
PlanOnce(open, ozone, winds, step) ==
    IF open.planned THEN open
    ELSE PlanInflow(winds, ozone, carrier, residual, now, step, nextEvent)

\* The ozone population plans first; the dry-air one inside it finds that plan.
NextPlan(winds, step) ==
    PlanOnce(IF Ozone THEN PlanOnce(Current, TRUE, winds, step) ELSE Current, FALSE, winds, step)

NextIndex == nextEvent + 1

\* prepare_cohort_step for a step of the given length: the opening balance is taken, the
\* inflow of the whole step is added to the residuals and its births are taken out.
Prepare(step) ==
    /\ stage = "idle" /\ now + step <= Horizon
    /\ \E winds \in Winds :
        LET next == NextPlan(winds, step)
            incoming == Incoming(next, step)
            added == [f \in Faces |-> residual[f] + incoming[f]]
            taken == [f \in Faces |-> carrier * Cardinality({b \in next.births : b.face = f})]
            births == {[face |-> b.face, event |-> b.event, ordinal |-> b.ordinal] : b \in next.births}
        IN  /\ plan' = next
            /\ nextEvent' = IF Current.planned THEN nextEvent ELSE NextIndex
            /\ IF PlanFails(next, carrier, residual) THEN Fails("plan") /\ UNCHANGED <<residual, opening, particles, inflow>>
               ELSE IF ~ CoversInterval(next, now, step)
                 THEN Fails("interval") /\ UNCHANGED <<residual, opening, particles, inflow>>
               ELSE IF \/ \E f \in Faces : added[f] < taken[f] \/ added[f] - taken[f] >= carrier
                       \/ births \cap DOMAIN particles # {}
                 THEN Fails("residual") /\ UNCHANGED <<residual, opening, particles, inflow>>
               ELSE /\ stage' = "moving" /\ error' = error
                    /\ residual' = [f \in Faces |-> added[f] - taken[f]]
                    /\ opening' = [open |-> TRUE, at |-> now, end |-> now + step,
                                   active |-> Mass(Alive(particles)), residual |-> Residuals(residual),
                                   incoming |-> SumFunction(incoming), alive |-> Alive(particles),
                                   births |-> births]
                    /\ particles' = [p \in DOMAIN particles \union births |->
                                        IF p \in births THEN "alive" ELSE particles[p]]
                    /\ inflow' = [f \in Faces |-> inflow[f] \o [i \in 1 .. step |->
                                                       IF Ozone THEN winds[f].eligible ELSE winds[f].rate]]
    /\ UNCHANGED <<now, carrier, initialResidual, ledger>>

-----------------------------------------------------------------------------
\* During and after a step.

\* The runner moves every particle to the end of the step; some end on the way.
Advance ==
    /\ stage = "moving"
    /\ \E ending \in SUBSET Alive(particles) : \E fate \in {"outside", "normal", "abnormal"} :
          particles' = [p \in DOMAIN particles |-> IF p \in ending THEN fate ELSE particles[p]]
    /\ now' = opening.end /\ stage' = "moved"
    /\ UNCHANGED <<carrier, initialResidual, residual, plan, nextEvent, opening, ledger, error, inflow>>

\* The particles of this step that have ended in one of these ways.
Left(fates, after) ==
    {p \in DOMAIN after : after[p] \in fates /\ p \in opening.alive \union opening.births}

\* complete_cohort_step: particles outside the domain have flowed out; the ledger closes
\* the step, and refuses it when the balance is not exact.
Complete ==
    /\ stage = "moved" /\ opening.open /\ opening.end = now
    /\ LET after == [p \in DOMAIN particles |-> IF particles[p] = "outside" THEN "outflow" ELSE particles[p]]
           gone == [out |-> Mass(Left({"outflow"}, after)), normal |-> Mass(Left({"normal"}, after)),
                    abnormal |-> Mass(Left({"abnormal"}, after))]
           before == opening.active + opening.residual + opening.incoming
           behind == SumFunction(gone) + Mass(Alive(after)) + Residuals(residual)
       IN  /\ particles' = after
           /\ ledger' = IF before = behind THEN Append(ledger, gone) ELSE ledger
           /\ IF before = behind THEN stage' = "idle" /\ error' = error ELSE Fails("imbalance")
    /\ opening' = Closed /\ plan' = Current
    /\ UNCHANGED <<now, carrier, initialResidual, residual, nextEvent, inflow>>

\* An integration error ends the run in the middle of a step.
AdvanceFails == stage = "moving" /\ stage' = "failed" /\ UNCHANGED
    <<now, particles, carrier, initialResidual, residual, plan, nextEvent, opening, ledger, error, inflow>>

\* finalize, at the end of the window or after a safe cancellation.
Finalize ==
    /\ stage = "idle"
    /\ IF opening.open \/ plan.planned \/ initialResidual >= carrier THEN Fails("final")
       ELSE stage' = "done" /\ error' = error
    /\ UNCHANGED <<now, particles, carrier, initialResidual, residual, plan, nextEvent, opening, ledger, inflow>>

Next == Initialize \/ (\E s \in Steps : Prepare(s)) \/ Advance \/ AdvanceFails \/ Complete \/ Finalize
Spec == Init /\ [][Next]_vars

-----------------------------------------------------------------------------
\* The type invariant: each face's residual is less than a carrier, and what was opened
\* or planned for a step is gone after it.
TypeOK ==
    /\ now \in 0 .. Horizon
    /\ stage \in {"new", "idle", "moving", "moved", "done", "failed"}
    /\ (stage # "new" => \A f \in Faces : residual[f] \in 0 .. carrier - 1)
    /\ (stage \in {"idle", "done"} => ~ opening.open /\ (plan.planned => plan.end > now))

Left3(r) == r.out + r.normal + r.abnormal

\* Over the whole run no air is lost or made: what the domain was seeded with and what
\* has flowed in is carried, waits at the faces, or is recorded as having left.
MassConserved ==
    stage \in {"idle", "done"} =>
        Total + SumFunction([f \in Faces |-> SumFunction(inflow[f])])
          = Mass(Alive(particles)) + Residuals(residual)
            + SumFunction([i \in 1 .. Len(ledger) |-> Left3(ledger[i])])

\* In any sequence of steps the planner, the residual check, the ledger and the final
\* gate accept what the others have computed.
GatesNeverFire == error = ""

InflowUpTo(f, t) == SumFunction([i \in 1 .. t |-> inflow[f][i]])
BornAt(f) == {p \in DOMAIN particles : p.face = f}

\* The births of a face depend on its inflow alone, however the run was cut into steps:
\* there is one for every carrier that has flowed in, at the first time it was full.
BirthsFollowInflow ==
    /\ stage = "idle" => \A f \in Faces : Cardinality(BornAt(f)) = InflowUpTo(f, now) \div carrier
    /\ stage = "moving" =>
          \A b \in plan.births :
              LET before == Cardinality({p \in BornAt(b.face) : p.event # plan.event})
                  full == (before + b.ordinal + 1) * carrier
              IN  /\ b.time \in opening.at + 1 .. opening.end
                  /\ InflowUpTo(b.face, b.time) >= full /\ InflowUpTo(b.face, b.time - 1) < full
=============================================================================
