---------------------------- MODULE ReleaseBirths ----------------------------
(***************************************************************************)
(* A release-driven population (`release/mod.rs', `ReleaseDrivenPopulation' *)
(* of `population/mod.rs'): when the particles of each event are born, and  *)
(* how the births inside each macro step become rows with identities, birth *)
(* times and masses, however the window is cut into steps.                  *)
(*                                                                         *)
(* Simplifications.  Times are whole nanoseconds of a small window.  A draw *)
(* has Words values instead of 2^64.  Masses are natural numbers and a      *)
(* share is rounded down.  Geometry and heights are sampled per ordinal     *)
(* outside this module.                                                     *)
(***************************************************************************)
EXTENDS Naturals, Integers, Sequences, SequencesExt, FiniteSets, FiniteSetsExt

CONSTANTS Events,      \* the schedule: [id, start, end, count, mass]
          Begin, End,  \* the window, Begin > End for a backward run
          Steps,       \* the lengths a macro step may have
          Words        \* the number of values of a random word

VARIABLES stage, now, draw, births, emitted, emittedCount, particles

vars == <<stage, now, draw, births, emitted, emittedCount, particles>>

\* ReleaseSchedule::validate; `outside_simulation_time' of the case.
ScheduleIsValid ==
    \A i \in DOMAIN Events :
       LET e == Events[i]
       IN  /\ e.count > 0 /\ e.mass > 0 /\ e.start <= e.end
           /\ Min({Begin, End}) <= e.start /\ e.end <= Max({Begin, End})
           /\ \A j \in DOMAIN Events : i < j =>
                 /\ e.id # Events[j].id /\ e.start <= Events[j].start
                 /\ e.start = Events[j].start =>
                       e.end < Events[j].end \/ (e.end = Events[j].end /\ e.id < Events[j].id)

Backward == End < Begin
Ordinals == {<<i, o>> \in (DOMAIN Events) \X (0 .. Max({Events[i].count : i \in DOMAIN Events}) - 1) :
                o < Events[i].count}

\* stratified_birth_offset_ns: a draw inside the ordinal's share of the duration.
StratifiedOffset(duration, count, ordinal, random) ==
    LET lower == (ordinal * duration) \div count
        width == ((ordinal + 1) * duration) \div count - lower
    IN  lower + (random * width) \div Words

\* release_birth_time.
BirthTime(draws, i, o) ==
    Events[i].start + StratifiedOffset(Events[i].end - Events[i].start, Events[i].count, o, draws[<<i, o>>])

\* compensated_mass_share: the last particle carries what is left.
MassShare(event, ordinal) ==
    IF ordinal + 1 = event.count THEN event.mass - (event.mass \div event.count) * (event.count - 1)
    ELSE event.mass \div event.count

-----------------------------------------------------------------------------
\* The order of the scheduled births: time, event identifier, ordinal.
Before(a, b) ==
    \/ a.time < b.time
    \/ a.time = b.time /\ Events[a.event].id < Events[b.event].id
    \/ a.time = b.time /\ a.event = b.event /\ a.ordinal < b.ordinal

Ranked(S, Precedes(_, _)) ==
    [k \in 1 .. Cardinality(S) |-> CHOOSE b \in S : Cardinality({a \in S : Precedes(a, b)}) = k - 1]

Scheduled(draws) ==
    Ranked({[time |-> BirthTime(draws, k[1], k[2]), event |-> k[1], ordinal |-> k[2]] : k \in Ordinals},
           Before)

\* Two neighbouring pending births that are sampled in one chunk.
Continues(a, b) == a.event = b.event /\ b.ordinal = a.ordinal + 1

\* ReleaseAllocator::allocate for the births due at one time: the rows of a chunk are
\* counted up from its first ordinal.
Allocated(pending) ==
    [i \in 1 .. Len(pending) |->
        LET first == Max({j \in 1 .. i : j = 1 \/ ~ Continues(pending[j - 1], pending[j])})
            event == pending[first].event
            ordinal == pending[first].ordinal + (i - first)
        IN  [event |-> event, ordinal |-> ordinal, mass |-> MassShare(Events[event], ordinal),
             time |-> IF <<event, ordinal>> \in Ordinals THEN BirthTime(draw, event, ordinal) ELSE now]]

Pending(time) ==
    LET due == SelectSeq([i \in 1 .. Len(births) |-> [i |-> i, birth |-> births[i]]],
                         LAMBDA b : b.birth.time = time /\ b.i \notin emitted)
    IN  [k \in 1 .. Len(due) |-> due[k].birth]

\* Mutation of Inside: a birth at the end of the step is left out.
InsideOpen(time, from, target) ==
    IF Backward THEN time < from /\ time > target ELSE time > from /\ time < target

\* Whether a boundary is met in a step: after its start, up to and including its end.
Inside(time, from, target) ==
    IF Backward THEN time < from /\ time >= target ELSE time > from /\ time <= target

\* step_boundaries: the times of births in a step, in the direction of the run.
Times(from, target) ==
    IF emittedCount = Len(births) THEN <<>>
    ELSE LET due == {births[i].time : i \in {j \in DOMAIN births : j \notin emitted /\ Inside(births[j].time, from, target)}}
         IN  Ranked(due, LAMBDA a, b : IF Backward THEN a > b ELSE a < b)

\* The births by which the emitted count grows.
Newly(pending) == Len(pending)

\* emit_particles at each of the given times.
Emits(times) ==
    LET pending == [k \in 1 .. Len(times) |-> Pending(times[k])]
    IN  /\ particles' = particles \o FlattenSeq([k \in 1 .. Len(times) |-> Allocated(pending[k])])
        /\ emitted' = emitted \union {i \in DOMAIN births : births[i].time \in Range(times)}
        /\ emittedCount' = emittedCount + SumFunction([k \in 1 .. Len(times) |-> Newly(pending[k])])

-----------------------------------------------------------------------------
Init ==
    /\ ScheduleIsValid
    /\ stage = "new" /\ now = Begin /\ births = <<>> /\ emitted = {} /\ emittedCount = 0 /\ particles = <<>>
    /\ draw \in [Ordinals -> 0 .. Words - 1]

\* initialize: every birth is scheduled.
Initialize ==
    /\ stage = "new" /\ stage' = "initial" /\ births' = Scheduled(draw)
    /\ UNCHANGED <<now, draw, emitted, emittedCount, particles>>

\* Before the first step the particles born at its start are emitted.
EmitInitial ==
    /\ stage = "initial" /\ stage' = "running" /\ Emits(<<now>>)
    /\ UNCHANGED <<now, draw, births>>

\* A macro step of any length up to the end: prepare_cohort_step, then the clock.
Step(length) ==
    LET target == IF Backward THEN now - length ELSE now + length
    IN  /\ stage = "running" /\ (IF Backward THEN target >= End ELSE target <= End)
        /\ Emits(Times(now, target)) /\ now' = target
        /\ UNCHANGED <<stage, draw, births>>

\* finalize at the end of the window: refused when a birth was never emitted.
Finalize ==
    /\ stage = "running" /\ now = End
    /\ stage' = IF emitted = DOMAIN births THEN "done" ELSE "failed"
    /\ UNCHANGED <<now, draw, births, emitted, emittedCount, particles>>

Next == Initialize \/ EmitInitial \/ (\E s \in Steps : Step(s)) \/ Finalize
Spec == Init /\ [][Next]_vars

-----------------------------------------------------------------------------
\* The type invariant: the count that ends the search for boundaries early is the number
\* of births marked as emitted.
TypeOK ==
    /\ stage \in {"new", "initial", "running", "done", "failed"} /\ now \in Min({Begin, End}) .. Max({Begin, End})
    /\ emitted \subseteq DOMAIN births /\ emittedCount = Cardinality(emitted)

\* The rows that a run which has reached `now' holds, in the order they are stored in.
DueBy ==
    SelectSeq(Ranked(Range(births),
                     LAMBDA a, b : IF Backward /\ a.time # b.time THEN b.time < a.time ELSE Before(a, b)),
              LAMBDA b : IF Backward THEN b.time >= now ELSE b.time <= now)

\* However the window is cut into steps, the rows are the births that are due, each once,
\* with its own identity and birth time, in one and the same order; and at the end of the
\* window none is missing.
BornOnceInOrder ==
    /\ stage # "failed"
    /\ stage \in {"running", "done"} =>
        [i \in 1 .. Len(particles) |-> [time |-> particles[i].time, event |-> particles[i].event,
                                        ordinal |-> particles[i].ordinal]] = DueBy

\* The births of an event are spread over its interval: up to any time, the number of
\* births differs by at most one from the share of the interval that has passed.
SpreadEvenly ==
    \A i \in DOMAIN Events : \A t \in Events[i].start .. Events[i].end :
        LET duration == Events[i].end - Events[i].start
            born == Cardinality({b \in Range(births) : b.event = i /\ b.time < t})
            share == (t - Events[i].start) * Events[i].count
        IN  stage # "new" /\ duration >= Events[i].count =>
                (born - 1) * duration <= share /\ share <= (born + 1) * duration

\* When all particles of an event are born, their masses are the event's mass.
MassReleased ==
    \A i \in DOMAIN Events :
        LET born == {k \in DOMAIN particles : particles[k].event = i}
        IN  Cardinality(born) = Events[i].count =>
                SumFunction([k \in born |-> particles[k].mass]) = Events[i].mass
=============================================================================
