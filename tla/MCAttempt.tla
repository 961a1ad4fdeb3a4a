------------------------------ MODULE MCAttempt ------------------------------
(***************************************************************************)
(* An attempt of a run. Its steps: the planner cuts the time               *)
(* (StepPlanner), the physics pipeline cuts the macro step (MacroStep),    *)
(* a batch of particles is moved (ParticleAdvance), the boundary policies  *)
(* judge a path (BoundaryPolicies), and the path is cut where a crossing   *)
(* may be (PathCuts, with a loose and with an exact arithmetic). And its   *)
(* files: the runner's closeout (RunOutputs), the rows it writes (RunLog), *)
(* and the provenance bundle (ProvenanceBundle). A behaviour is one of     *)
(* theirs.                                                                 *)
(***************************************************************************)
EXTENDS Integers, Sequences, RunOutputs, RunLog, StepPlanner

CONSTANTS p1, p2

VARIABLES part,   \* the component that moves
          stage, limits, rows, spool, records, sets, runs, taken, out, round, sorted, doc,
          tampered, why,
          direction, common, instant, macro, goal, startTimes, substepStart, pending, index,
          motion, moment, moved, keys, drawn,
          world, path, segments, policy, hits, result,
          track, cuts, passes, outcome,
          way, winds, reached, columns, starts, until, doing, singles

\* A time line of five instants.
MCInstants == 0..4
MCRequests == -3..3

\* Rows with nothing, a mixed wind and a missing temperature, one component and pressure.
Shown(quality, shown, order) == [quality |-> quality, shown |-> shown, order |-> order]
Looks == {<<>>,
          [slot \in {"u", "v", "w", "p", "T"} |->
              Shown(IF slot = "w" THEN 1 ELSE 0, slot # "T", "swapped")],
          [slot \in {"v", "p"} |-> Shown(IF slot = "p" THEN 2 ELSE 0, TRUE, "given")]}
Limit(c, f, r, s) == [chunk |-> c, fanIn |-> f, records |-> r, sets |-> s]
Limits == {Limit(1, 2, 20, 20), Limit(1, 3, 6, 2), Limit(2, 2, 6, 20), Limit(2, 1, 20, 2)}

\* A step of four stretches over ground of two heights, with a domain that is left (and
\* may be entered again), or one column without an answer.
Sky(bad, what) == [p \in 0..4 |-> IF p \in bad THEN what ELSE "ok"]
MCSkies == {Sky(a..b, "out") : a \in 1..4, b \in 1..4} \cup {Sky({h}, "hole") : h \in 0..4}
MCOrders == {<<"surface", "top", "domain">>, <<"surface", "top", "periodic">>}

\* Cohorts that share a substance, a random velocity or an identifier, or nothing; winds that
\* grow evenly, are missing for a moment, or leave the domain.
Born(id, when, place) == [id |-> id, born |-> when, place |-> place, offset |-> 0, age |-> 0,
                          status |-> "alive", death |-> -1]
Cohort(born, mass, layer) ==
    [row |-> born, mass |-> mass, adjoint |-> <<>>, layer |-> layer, meso |-> <<>>]
MCCohorts == {
    Cohort(<<Born(1, 0, 3), Born(2, 0, -5)>>, [s \in {"a"} |-> <<7, 8>>], <<>>),
    Cohort(<<>>, <<>>, <<>>),
    Cohort(<<Born(3, 2, -1), Born(4, 1, 2)>>, [s \in {"b"} |-> <<5, 6>>], <<>>),
    Cohort(<<Born(5, 3, 4)>>, [s \in {"a", "b"} |-> <<1>>], <<2>>),
    Cohort(<<Born(2, 4, 0)>>, <<>>, <<>>)}
Wind(below(_), above(_)) ==
    [t \in 0..4 |-> [below |-> [kind |-> below(t)[1], v |-> below(t)[2]],
                     above |-> [kind |-> above(t)[1], v |-> above(t)[2]]]]
MCWinds == {
    Wind(LAMBDA t : <<"ok", 2 * t - 3>>, LAMBDA t : <<"ok", 2 * t - 3>>),
    Wind(LAMBDA t : <<IF t = 3 THEN "bad" ELSE "ok", t>>, LAMBDA t : <<"ok", -1>>),
    Wind(LAMBDA t : <<IF t > 1 THEN "bridge" ELSE "ok", 1 + t>>, LAMBDA t : <<"ok", -2 * t>>)}

Spooled == INSTANCE ProvenanceBundle WITH Particles <- {1, 2}, MaxSamples <- 3, MaxRounds <- 3,
                                         next <- taken
Macro == INSTANCE MacroStep WITH Particles <- {p1, p2}, Horizon <- 3, MaxStep <- 3, Shift <- 2,
                                 clock <- instant, target <- goal, phase <- moment, batch <- moved
Policies == INSTANCE BoundaryPolicies WITH G <- 4, Step <- 12, Grounds <- {0, 48}, Skies <- MCSkies,
                Starts <- {-12, 24, 60, 132}, Aims <- {-60, 12, 60, 168}, Top <- 144,
                Orders <- MCOrders, Clearance <- 1, Margin <- 6, MaxReflections <- 2,
                cuts <- segments
Loose == INSTANCE PathCuts WITH N <- 8, MaxPasses <- 4,
            Origins <- {-9, -4, -1, 0, 1, 4, 9}, Slopes <- {-8, -4, -2, 0, 2, 4},
            Bends <- {-1, 0, 1}, Twists <- {0}, Slack <- 1
Exact == INSTANCE PathCuts WITH N <- 8, MaxPasses <- 4,
            Origins <- {-9, -4, -1, 0, 1, 4, 9}, Slopes <- {-8, -4, -2, 0, 2, 4},
            Bends <- {-1, 0, 1}, Twists <- {0}, Slack <- 0
Rows == INSTANCE ParticleAdvance WITH Substances <- {"a", "b"}, Cohorts <- MCCohorts, Winds <- MCWinds,
                Horizon <- 4, Steps <- {1, 2, 3}, Kicks <- {[i \in 1..5 |-> 3 - i]}, Widest <- 3,
                direction <- way, wind <- winds, clock <- reached, start <- starts, to <- until,
                phase <- doing, batch <- columns, known <- singles

spooledVars == <<stage, limits, rows, spool, records, sets, runs, taken, out, round, sorted, doc,
    tampered, why>>
macroVars == <<direction, common, instant, macro, goal, startTimes, substepStart, pending,
    index, motion, moment, moved, keys, drawn>>
policiesVars == <<world, path, segments, policy, hits, result>>
looseVars == <<track, cuts, passes, outcome>>
particlesVars == <<way, winds, reached, columns, starts, until, doing, singles>>

Idle(v) == v = "idle"
rowlogIdle == schedule = {} /\ birth = [p \in Particles |-> 0] /\ LogInit
spooledIdle == Idle(stage) /\ Idle(limits) /\ Idle(rows) /\ Idle(spool) /\ Idle(records) /\
    Idle(sets) /\ Idle(runs) /\ Idle(taken) /\ Idle(out) /\ Idle(round) /\ Idle(sorted) /\
    Idle(doc) /\ Idle(tampered) /\ Idle(why)
planIdle ==
    /\ clock = [current |-> 0, direction |-> "Forward"] /\ requested = 0 /\ boundaries = <<>>
    /\ events = [times |-> {}, end |-> 0, collected |-> FALSE]
    /\ next = 0 /\ pass = StartPlan(clock, requested)
macroIdle == Idle(direction) /\ Idle(common) /\ Idle(instant) /\ Idle(macro) /\ Idle(goal) /\
    Idle(startTimes) /\ Idle(substepStart) /\ Idle(pending) /\ Idle(index) /\ Idle(motion) /\
    Idle(moment) /\ Idle(moved) /\ Idle(keys) /\ Idle(drawn)
policiesIdle == Idle(world) /\ Idle(path) /\ Idle(segments) /\ Idle(policy) /\ Idle(hits) /\
    Idle(result)
looseIdle == Idle(track) /\ Idle(cuts) /\ Idle(passes) /\ Idle(outcome)
particlesIdle == Idle(way) /\ Idle(winds) /\ Idle(reached) /\ Idle(columns) /\ Idle(starts) /\
    Idle(until) /\ Idle(doing) /\ Idle(singles)

MCInit ==
  /\ Init
  /\ \/ part = "closeout" /\ rowlogIdle /\ spooledIdle /\ planIdle /\ macroIdle
        /\ policiesIdle /\ looseIdle /\ particlesIdle
     \/ part = "rowlog" /\ LogInit /\ spooledIdle /\ planIdle /\ macroIdle /\
        policiesIdle /\ looseIdle /\ particlesIdle
     \/ part = "spooled" /\ Spooled!Init /\ rowlogIdle /\ planIdle /\ macroIdle
        /\ policiesIdle /\ looseIdle /\ particlesIdle
     \/ part = "plan" /\ PlanInit /\ rowlogIdle /\ spooledIdle /\ macroIdle
        /\ policiesIdle /\ looseIdle /\ particlesIdle
     \/ part = "macro" /\ Macro!Init /\ rowlogIdle /\ spooledIdle /\ planIdle /\
        policiesIdle /\ looseIdle /\ particlesIdle
     \/ part = "policies" /\ Policies!Init /\ rowlogIdle /\ spooledIdle /\
        planIdle /\ macroIdle /\ looseIdle /\ particlesIdle
     \/ part = "loose" /\ Loose!Init /\ rowlogIdle /\ spooledIdle /\ planIdle /\
        macroIdle /\ policiesIdle /\ particlesIdle
     \/ part = "exact" /\ Exact!Init /\ rowlogIdle /\ spooledIdle /\ planIdle /\
        macroIdle /\ policiesIdle /\ particlesIdle
     \/ part = "particles" /\ Rows!Init /\ rowlogIdle /\ spooledIdle /\ planIdle
        /\ macroIdle /\ policiesIdle /\ looseIdle

MCNext ==
    /\ UNCHANGED part
    /\ \/ part = "closeout" /\ Next /\ UNCHANGED <<logVars, spooledVars, planVars,
        macroVars, policiesVars, looseVars, particlesVars>>
       \/ part = "rowlog" /\ LogNext /\ UNCHANGED <<vars, spooledVars, planVars,
        macroVars, policiesVars, looseVars, particlesVars>>
       \/ part = "spooled" /\ Spooled!Next /\ UNCHANGED <<vars, logVars, planVars,
        macroVars, policiesVars, looseVars, particlesVars>>
       \/ part = "plan" /\ PlanNext /\ UNCHANGED <<vars, logVars, spooledVars,
        macroVars, policiesVars, looseVars, particlesVars>>
       \/ part = "macro" /\ Macro!Next /\ UNCHANGED <<vars, logVars, spooledVars,
        planVars, policiesVars, looseVars, particlesVars>>
       \/ part = "policies" /\ Policies!Next /\ UNCHANGED <<vars, logVars,
        spooledVars, planVars, macroVars, looseVars, particlesVars>>
       \/ part = "loose" /\ Loose!Next /\ UNCHANGED <<vars, logVars, spooledVars,
        planVars, macroVars, policiesVars, particlesVars>>
       \/ part = "exact" /\ Exact!Next /\ UNCHANGED <<vars, logVars, spooledVars,
        planVars, macroVars, policiesVars, particlesVars>>
       \/ part = "particles" /\ Rows!Next /\ UNCHANGED <<vars, logVars, spooledVars,
        planVars, macroVars, policiesVars, looseVars>>

MCVars == <<part, vars, logVars, spooledVars, planVars, macroVars, policiesVars, looseVars, particlesVars>>

MCSpec == MCInit /\ [][MCNext]_MCVars

(***************************************************************************)
(* However the spool is cut into runs and merged, no line is lost and they *)
(* meet the database in its order; what the sink wrote always publishes    *)
(* and passes the later audit; and what is published has a sample for each *)
(* row and a record for each value, even of rows that somebody changed.    *)
(***************************************************************************)
BundleMirrorsRows == part = "spooled" =>
    /\ Spooled!SortedAscends /\ Spooled!SortKeepsLines
    /\ Spooled!HonestRunsPublish /\ Spooled!PublishedPassesAudit /\ Spooled!PublishedMirrors

(***************************************************************************)
(* A terminal manifest is never rewritten, by no failure path and no       *)
(* recovery; and what a reader has seen of the rows stays: a row may only  *)
(* become the end of its particle, an event only rise in kind.             *)
(***************************************************************************)
WrittenStays == [][TerminalManifestStays /\ Extends(disk', disk)]_MCVars

(***************************************************************************)
(* However often stability limits cut it, a macro step is covered exactly  *)
(* and never underflows; age, velocity and transport of every particle     *)
(* keep the same time; a death is dated to the nearest nanosecond; and no  *)
(* random key is used twice.                                               *)
(***************************************************************************)
MacroIsSound == part = "macro" =>
    /\ Macro!TypeOK /\ Macro!SubstepsTile /\ Macro!NeverUnderflows
    /\ Macro!AgeIsLife /\ Macro!VelocityKeepsTime
    /\ Macro!DeathIsNearest /\ Macro!KeysFresh

(***************************************************************************)
(* A particle that stays alive touched nothing on its last leg, a path not *)
(* built for its clear envelope neither; an end at the top or the domain   *)
(* was the first contact of its leg; and a death before any reflection has *)
(* the time of its place.                                                  *)
(***************************************************************************)
PoliciesAreSound == part = "policies" =>
    /\ Policies!AliveIsClear /\ Policies!SkippedIsClear
    /\ Policies!FirstContactWins /\ Policies!DeathAtContact

\* Each further reflection of a step lies later on the track: a particle does not hit the
\* same ground twice, which is what bounds the loop of the surface policy.
CollisionsAdvance == [][part = "policies" => Policies!LaterCollision]_MCVars

(***************************************************************************)
(* A path is cut at grid lines and turning points, nowhere else; what an   *)
(* exact arithmetic certifies runs one way or stays on one side in every   *)
(* segment, it certifies all but a path flat on the boundary, and two      *)
(* passes do.                                                              *)
(***************************************************************************)
CutsAreSound ==
    /\ part = "loose" => Loose!CutsAreEvents
    /\ part = "exact" => Exact!CutsAreEvents /\ Exact!CertifiedIsOneWay
                         /\ Exact!ExactCertifies /\ Exact!FewPasses

(***************************************************************************)
(* A row of the batch is one particle in every column, and moves as if it  *)
(* were alone: with its own masses, its own wind and its own time, however *)
(* cohorts were joined and the wind was asked for.                         *)
(***************************************************************************)
RowsAreParticles == part = "particles" =>
    /\ Rows!RowsStayTogether /\ Rows!SelectionKeeps /\ Rows!GroupedAgrees
    /\ Rows!AgesKeepTime /\ Rows!CarriedExactly
=============================================================================
