----------------------------- MODULE StepPlanner -----------------------------
(***************************************************************************)
(* `StepPlanner::plan', which splits a requested step at event boundaries, *)
(* and the boundaries that the runner hands it.  An instant is a number of *)
(* nanoseconds; a step is written as the pair of instants that it joins.   *)
(***************************************************************************)
EXTENDS Integers, Sequences, FiniteSets

CONSTANT Instants      \* the instants a Timestamp can hold

Directions == {"Forward", "Backward"}

\* `b' lies strictly ahead of `a' in the direction of the run.
Ahead(dir, a, b) == IF dir = "Forward" THEN a < b ELSE b < a

Boundaries == [time : Instants, end : BOOLEAN]

Segment(from, to) == [from |-> from, to |-> to]

\* The checks before the loop: an empty request, its sign, the width of its end.
StartPlan(clock, requested) ==
    [previous |-> clock.current, start |-> clock.current, steps |-> <<>>,
     verdict |-> IF requested = 0 THEN "planned"
                 ELSE IF ~ Ahead(clock.direction, 0, requested) THEN "direction_mismatch"
                 ELSE IF clock.current + requested \notin Instants THEN "overflow"
                 ELSE "scanning"]

\* A boundary is cut at if it is ahead of the clock and the request reaches it.
Inside(clock, target, time) ==
    Ahead(clock.direction, clock.current, time) /\ ~ Ahead(clock.direction, target, time)

\* Mutation of CutAt: the next segment starts where the request did.
CutAtForgetful(p, time) ==
    IF time = p.start THEN p
    ELSE [p EXCEPT !.steps = Append(@, Segment(p.start, time))]

\* Closes the current segment at `time'; coincident events cut once.
CutAt(p, time) ==
    IF time = p.start THEN p
    ELSE [p EXCEPT !.steps = Append(@, Segment(p.start, time)), !.start = time]

\* One iteration of the loop over the boundaries.
Consider(p, clock, target, b) ==
    LET q == [p EXCEPT !.previous = b.time]
    IN  IF Ahead(clock.direction, b.time, p.previous) THEN [p EXCEPT !.verdict = "unordered"]
        ELSE IF b.end /\ b.time = clock.current THEN [q EXCEPT !.verdict = "planned"]
        ELSE IF ~ Inside(clock, target, b.time) THEN q
        ELSE [CutAt(q, b.time) EXCEPT !.verdict = IF b.end THEN "planned" ELSE "scanning"]

\* After the last boundary: what is left of the request is a step of its own.
Remainder(p, target) == [CutAt(p, target) EXCEPT !.verdict = "planned"]

-----------------------------------------------------------------------------
(* collect_step_boundaries: the frames and output times that the request   *)
(* reaches, and always the end of the run, in the order of the run.        *)

\* The order in which a run meets its boundaries; coincident ones keep the order of the
\* list, which is turned around with it.
Before(dir, b, c) ==
    \/ Ahead(dir, b.time, c.time)
    \/ b.time = c.time /\ IF dir = "Forward" THEN ~ b.end /\ c.end ELSE b.end /\ ~ c.end

\* Mutation of OrderStepBoundaries: the list of a backward run is not turned around.
OrderStepBoundariesForward(dir, found) ==
    [k \in 1..Cardinality(found) |->
        CHOOSE b \in found : Cardinality({c \in found : Before("Forward", c, b)}) = k - 1]

OrderStepBoundaries(dir, found) ==
    [k \in 1..Cardinality(found) |->
        CHOOSE b \in found : Cardinality({c \in found : Before(dir, c, b)}) = k - 1]

CollectStepBoundaries(clock, requested, times, end) ==
    LET target == clock.current + requested
    IN  OrderStepBoundaries(clock.direction,
            {[time |-> t, end |-> FALSE] : t \in {u \in times : Inside(clock, target, u)}}
               \union {[time |-> end, end |-> TRUE]})

-----------------------------------------------------------------------------
(* One call of the planner, one step per boundary, from any boundaries at   *)
(* all and from those that the runner collects.                             *)

CONSTANTS Requests,        \* requested durations
          MaxBoundaries    \* bound: boundaries of a call that does not come from the runner

ASSUME PlanAssumption ==
    /\ Instants \subseteq Int /\ IsFiniteSet(Instants)
    /\ Requests \subseteq Int /\ MaxBoundaries \in Nat

VARIABLES clock, requested, boundaries,   \* the arguments
          events,      \* the events and the end that a runner collected them from
          next,        \* how many boundaries have been considered
          pass         \* the locals of the loop

planVars == <<clock, requested, boundaries, events, next, pass>>
args == <<clock, requested, boundaries, events>>

target == clock.current + requested

\* A runner's clock has not passed its end and its step points towards it.
RunnerCall ==
    \E times \in SUBSET Instants, end \in Instants :
        /\ ~ Ahead(clock.direction, end, clock.current)
        /\ Ahead(clock.direction, 0, requested) /\ target \in Instants
        /\ events = [times |-> times, end |-> end, collected |-> TRUE]
        /\ boundaries = CollectStepBoundaries(clock, requested, times, end)

PlanInit ==
    /\ clock \in [current : Instants, direction : Directions]
    /\ requested \in Requests
    /\ \/ RunnerCall
       \/ /\ events = [times |-> {}, end |-> clock.current, collected |-> FALSE]
          /\ \E n \in 0..MaxBoundaries : boundaries \in [1..n -> Boundaries]
    /\ next = 0
    /\ pass = StartPlan(clock, requested)

Scan ==
    /\ pass.verdict = "scanning" /\ next < Len(boundaries)
    /\ next' = next + 1
    /\ pass' = Consider(pass, clock, target, boundaries[next + 1])
    /\ UNCHANGED args

Close ==
    /\ pass.verdict = "scanning" /\ next = Len(boundaries)
    /\ pass' = Remainder(pass, target)
    /\ UNCHANGED <<args, next>>

Planned == pass.verdict # "scanning" /\ UNCHANGED planVars

PlanNext == Scan \/ Close \/ Planned

PlanSpec == PlanInit /\ [][PlanNext]_planVars

-----------------------------------------------------------------------------
Verdicts == {"scanning", "planned", "direction_mismatch", "overflow", "unordered"}

\* Type invariant.
PlanTypeOK ==
    /\ next \in 0..Len(boundaries)
    /\ pass \in [previous : Instants, start : Instants,
                 steps : Seq([from : Instants, to : Instants]), verdict : Verdicts]

\* The segments join up from the clock to the segment start, each of them runs
\* in the direction of the run, and none is empty.
Chain ==
    LET s == pass.steps
    IN  /\ pass.start = IF s = <<>> THEN clock.current ELSE s[Len(s)].to
        /\ \A k \in 1..Len(s) :
              /\ s[k].from = IF k = 1 THEN clock.current ELSE s[k - 1].to
              /\ Ahead(clock.direction, s[k].from, s[k].to)

\* No event is crossed implicitly: no step of a plan has a boundary strictly
\* inside it, as long as the boundaries were in order.
NoEventCrossed ==
    pass.verdict \in {"scanning", "planned"} =>
        \A i \in 1..next, k \in 1..Len(pass.steps) :
            ~ (/\ Ahead(clock.direction, pass.steps[k].from, boundaries[i].time)
               /\ Ahead(clock.direction, boundaries[i].time, pass.steps[k].to))

\* A finished plan reaches the end of the request, or stops exactly at the end
\* of the run if that comes first; it never passes an end.
PlanEndsWhereItMust ==
    pass.verdict = "planned" /\ requested # 0 =>
        LET ends == {boundaries[i].time : i \in {j \in 1..next : boundaries[j].end}}
        IN  \/ pass.start = target /\ \A e \in ends : ~ Inside(clock, target, e) \/ e = target
            \/ pass.start \in ends /\ ~ Ahead(clock.direction, target, pass.start)

\* An unordered list is refused wherever it is out of order, even behind the
\* clock, and an ordered one never is.
OrderJudged ==
    LET late(i) == Ahead(clock.direction, boundaries[i].time,
                         IF i = 1 THEN clock.current ELSE boundaries[i - 1].time)
    IN  /\ pass.verdict = "unordered" <=> \E i \in 1..next : late(i)
        /\ pass.verdict = "unordered" => late(next)

\* The runner's boundaries are never refused, and the first step it takes ends
\* at the nearest of: the requested step, an event, the end of the run.  There
\* is none only at the end.
RunnerStepIsNearest ==
    events.collected /\ pass.verdict # "scanning" =>
        /\ pass.verdict = "planned"
        /\ IF clock.current = events.end THEN pass.steps = <<>>
           ELSE LET stops == {target, events.end} \union
                             {t \in events.times : Ahead(clock.direction, clock.current, t)}
                IN  /\ pass.steps # <<>>
                    /\ pass.steps[1].to \in stops
                    /\ \A t \in stops : ~ Ahead(clock.direction, t, pass.steps[1].to)

(***************************************************************************)
(* The plan of a step is a chain in the direction of the run that crosses  *)
(* no event, ends at the request or at the end of the run, refuses exactly *)
(* the unordered lists, and gives a runner the nearest stop first.         *)
(***************************************************************************)
PlanIsSound ==
    /\ PlanTypeOK /\ Chain
    /\ NoEventCrossed /\ PlanEndsWhereItMust
    /\ OrderJudged /\ RunnerStepIsNearest
=============================================================================
