------------------------------- MODULE RunLog -------------------------------
(***************************************************************************)
(* What a run writes while it simulates: the runner's loop over macro      *)
(* steps (runner/mod.rs), the release-driven population (population/mod.rs) *)
(* and the particle database it logs births, deaths and snapshots to       *)
(* (output/sqlite.rs), read by `trajecta result' while the run goes on and *)
(* audited by `verify --full' afterwards (verification.rs).                *)
(*                                                                         *)
(* Instants are offsets from the start of the run in its direction; of a   *)
(* particle, the columns of its birth and its death are kept.              *)
(***************************************************************************)
EXTENDS Integers, Sequences, FiniteSets

CONSTANTS Particles,
          LastInstant, \* bound: instants of the run are 0..LastInstant
          MaxBatch     \* MAX_LIFECYCLE_EVENTS_PER_TRANSACTION

ASSUME RunLogAssumption == LastInstant \in Nat /\ MaxBatch \in Nat \ {0}

VARIABLES schedule,   \* times of the scheduled samples
          birth, death,     \* columns of the particles
          emitted,    \* the particles of the batch: those born so far
          now, stepEnd,     \* the clock, and the end of the macro step
          phase, calls,     \* where the loop is, and the lifecycle batches it has yet to sample
          wanted,     \* a safe cancel was asked for
          cancelled,  \* the loop has seen it
          log,        \* what the sink's connection sees: events, and the rows of each particle
          unsaved,    \* lifecycle events in its open transaction
          refused,    \* the sink has refused an event
          disk        \* what is committed

lives == <<birth, death, emitted>>
sink  == <<log, unsaved, refused, disk>>
logVars == <<schedule, lives, now, stepEnd, phase, calls, wanted, cancelled, sink>>

Span     == 0..LastInstant
Never    == LastInstant + 1
Dead(p)  == death[p] # Never
Outcomes == {"completed", "cancelled", "failed", "crashed"}

-----------------------------------------------------------------------------
(* The sink.  The rows of a particle are in the order of their sample      *)
(* sequence, which counts them.                                            *)

Empty == [events |-> <<>>, rows |-> [p \in Particles |-> <<>>]]

\* The end of the particle is among its rows.
Closed(rows) == \E k \in 1..Len(rows) : rows[k].status = "terminated"

HasTime(seq, time) == \E k \in 1..Len(seq) : seq[k].time = time

Kinds == {"birth", "termination", "start", "end", "interval"}
Lifecycle == {"birth", "termination"}

Priority(kind) ==
    IF kind = "birth" THEN 4 ELSE IF kind = "termination" THEN 3
    ELSE IF kind = "start" THEN 2 ELSE IF kind = "end" THEN 1 ELSE 0

\* Mutation of InferEventKind: a termination comes before a birth.
InferEventKindTerminationFirst(time, newlyTerminated, anyBirth) ==
    IF newlyTerminated THEN "termination" ELSE IF anyBirth THEN "birth"
    ELSE IF time = 0 THEN "start" ELSE IF time = LastInstant THEN "end" ELSE "interval"

InferEventKind(time, newlyTerminated, anyBirth) ==
    IF anyBirth THEN "birth" ELSE IF newlyTerminated THEN "termination"
    ELSE IF time = 0 THEN "start" ELSE IF time = LastInstant THEN "end" ELSE "interval"

\* One event for an instant; a kind of a higher priority replaces a lower one.
EventAt(events, time, kind) ==
    IF HasTime(events, time)
    THEN [k \in 1..Len(events) |->
            IF events[k].time = time /\ Priority(kind) > Priority(events[k].kind)
            THEN [time |-> time, kind |-> kind] ELSE events[k]]
    ELSE Append(events, [time |-> time, kind |-> kind])

EventSequence(events, time) == CHOOSE k \in 1..Len(events) : events[k].time = time

\* A particle whose end has been written is skipped; a row of this instant is
\* kept, and becomes terminal in place if the particle has died at it.
RowAt(rows, sequence, time, status) ==
    IF status = "terminated" /\ Closed(rows) THEN rows
    ELSE IF HasTime(rows, time)
    THEN [k \in 1..Len(rows) |->
            IF rows[k].time = time /\ status = "terminated"
            THEN [event |-> rows[k].event, time |-> time, status |-> status] ELSE rows[k]]
    ELSE Append(rows, [event |-> sequence, time |-> time, status |-> status])

Status(p) == IF Dead(p) THEN "terminated" ELSE "alive"

\* The particles of a batch whose death is new to the sink.
NewlyTerminated(particles) == {p \in particles : Dead(p) /\ ~ Closed(log.rows[p])}

\* The sink takes the death of a particle at its instant only, and finds the
\* row of an instant in the event of that instant, open if the particle lives.
Refuses(time, particles, sequence) ==
    \/ \E p \in NewlyTerminated(particles) : death[p] # time
    \/ \E p \in particles :
          /\ ~ (Dead(p) /\ Closed(log.rows[p]))
          /\ \E k \in 1..Len(log.rows[p]) :
                LET row == log.rows[p][k]
                IN  /\ row.time = time
                    /\ row.event # sequence \/ (~ Dead(p) /\ row.status = "terminated")

\* The lifecycle events of the open transaction, with the one of this instant.
PendingLifecycle == unsaved + 1

\* write_event: a snapshot commits what is pending and then itself; a lifecycle
\* event waits until a transaction is full.
WriteEvent(time, particles) ==
    LET kind == InferEventKind(time, NewlyTerminated(particles) # {},
                               \E p \in particles : birth[p] = time)
        events == EventAt(log.events, time, kind)
        sequence == EventSequence(events, time)
        commits == kind \notin Lifecycle \/ PendingLifecycle >= MaxBatch
    IN  IF Refuses(time, particles, sequence)
        THEN refused' = TRUE /\ UNCHANGED <<log, unsaved, disk>>
        ELSE /\ log' = [events |-> events,
                        rows |-> [p \in Particles |->
                            IF p \in particles THEN RowAt(log.rows[p], sequence, time, Status(p))
                            ELSE log.rows[p]]]
             /\ unsaved' = IF commits THEN 0 ELSE PendingLifecycle
             /\ disk' = IF commits THEN log' ELSE disk
             /\ UNCHANGED refused

-----------------------------------------------------------------------------
(* The run loop.                                                           *)

LogInit ==
    /\ schedule \in SUBSET Span
    /\ birth \in [Particles -> Span] /\ death = [p \in Particles |-> Never] /\ emitted = {}
    /\ now = 0 /\ stepEnd = 0 /\ phase = "begin" /\ calls = {}
    /\ wanted = FALSE /\ cancelled = FALSE
    /\ log = Empty /\ unsaved = 0 /\ refused = FALSE /\ disk = Empty

given == <<schedule, birth, wanted>>

\* The population of the first instant, and then the first snapshot.
Initialize ==
    /\ phase = "begin"
    /\ emitted' = {p \in Particles : birth[p] = 0}
    /\ phase' = "snapshot"
    /\ UNCHANGED <<given, death, now, stepEnd, calls, cancelled, sink>>

FirstSnapshot ==
    /\ phase = "snapshot"
    /\ WriteEvent(0, emitted)
    /\ phase' = "poll"
    /\ UNCHANGED <<given, death, emitted, now, stepEnd, calls, cancelled>>

\* The particles of a set by the instant of each.
Groups(particles, instant) ==
    {[time |-> t, particles |-> {p \in particles : instant[p] = t}] :
        t \in {instant[p] : p \in particles}}

\* The groups are sampled in time order.
Earliest(group) == group \in calls /\ \A g \in calls : group.time <= g.time

\* A birth or death at the end of the step is left to the sample of its end.
InteriorBirths(to) ==
    Groups({p \in Particles : now < birth[p] /\ birth[p] < to}, birth)

InteriorTerminations(new, ends) == Groups({p \in new : ends[p] # stepEnd}, ends)

\* The planner stops at every scheduled time and at the end, not at births; the
\* cohort of a step is born after its start and up to its end.
PlanStep ==
    /\ phase = "plan" /\ now < LastInstant
    /\ \E to \in now + 1..LastInstant :
          /\ \A t \in schedule : ~ (now < t /\ t < to)
          /\ stepEnd' = to
          /\ emitted' = emitted \union {p \in Particles : now < birth[p] /\ birth[p] <= to}
          /\ calls' = InteriorBirths(to)
    /\ phase' = "births"
    /\ UNCHANGED <<given, death, now, cancelled, sink>>

SampleBirths ==
    /\ phase = "births" /\ ~ refused
    /\ \E group \in calls :
          /\ Earliest(group)
          /\ WriteEvent(group.time, group.particles)
          /\ calls' = calls \ {group}
    /\ UNCHANGED <<given, death, emitted, now, stepEnd, phase, cancelled>>

\* The macro step: a particle dies at its start, its end or anywhere between.
Integrate ==
    /\ phase = "births" /\ calls = {} /\ ~ refused
    /\ \E new \in SUBSET {p \in Particles : birth[p] < stepEnd /\ ~ Dead(p)} :
          \E ends \in [new -> now..stepEnd] :
             /\ \A p \in new : birth[p] <= ends[p]
             /\ death' = [p \in Particles |-> IF p \in new THEN ends[p] ELSE death[p]]
             /\ calls' = InteriorTerminations(new, ends)
    /\ phase' = "deaths"
    /\ UNCHANGED <<given, emitted, now, stepEnd, cancelled, sink>>

SampleTerminations ==
    /\ phase = "deaths" /\ ~ refused
    /\ \E group \in calls :
          /\ Earliest(group)
          /\ WriteEvent(group.time, group.particles)
          /\ calls' = calls \ {group}
    /\ UNCHANGED <<given, death, emitted, now, stepEnd, phase, cancelled>>

\* The control is asked before the first step and after every one.
Poll ==
    /\ ~ refused
    /\ \/ /\ phase = "poll"
          /\ phase' = IF wanted \/ now = LastInstant THEN "finish" ELSE "plan"
          /\ UNCHANGED now
       \/ /\ phase = "deaths" /\ calls = {}
          /\ phase' = "sample"
          /\ now' = stepEnd
    /\ cancelled' = wanted
    /\ UNCHANGED <<given, death, emitted, stepEnd, calls, sink>>

\* Births and deaths of exactly this instant.
AtThisInstant == {p \in emitted : now \in {birth[p], death[p]}}

\* A full snapshot on schedule, at the end and on a cancel; else the lifecycle
\* of this instant, if any.
FullSnapshot == cancelled \/ now = LastInstant \/ now \in schedule

Sampled == IF FullSnapshot THEN emitted ELSE AtThisInstant

SampleEnd ==
    /\ phase = "sample"
    /\ IF FullSnapshot \/ AtThisInstant # {}
       THEN WriteEvent(now, Sampled) ELSE UNCHANGED sink
    /\ phase' = IF cancelled \/ now = LastInstant THEN "finish" ELSE "plan"
    /\ UNCHANGED <<given, death, emitted, now, stepEnd, calls, cancelled>>

\* Mutation of Committed: a failed run starts from an empty database.
CommittedWiped == [completed |-> log, cancelled |-> log, failed |-> Empty]

\* The population is finalized, and only then is the last transaction closed.
Committed == [completed |-> log, cancelled |-> log, failed |-> disk]

Finish ==
    /\ phase = "finish" /\ ~ refused
    /\ phase' = IF emitted # Particles THEN "failed"
                ELSE IF cancelled THEN "cancelled" ELSE "completed"
    /\ disk' = Committed[phase']
    /\ UNCHANGED <<given, death, emitted, now, stepEnd, calls, cancelled, log, unsaved, refused>>

\* A refused event fails the run, and what was not committed is rolled back.
Fail ==
    /\ phase \notin Outcomes /\ refused
    /\ phase' = "failed"
    /\ UNCHANGED <<given, death, emitted, now, stepEnd, calls, cancelled, sink>>

Ended == phase \in Outcomes /\ UNCHANGED logVars

-----------------------------------------------------------------------------
RequestCancel ==
    /\ phase \notin Outcomes /\ ~ wanted
    /\ wanted' = TRUE
    /\ UNCHANGED <<schedule, lives, now, stepEnd, phase, calls, cancelled, sink>>

\* A force cancel, or the machine: what is not committed is gone.
Crash ==
    /\ phase \notin Outcomes
    /\ phase' = "crashed"
    /\ UNCHANGED <<given, death, emitted, now, stepEnd, calls, cancelled, sink>>

Run == \/ Initialize \/ FirstSnapshot \/ Poll \/ PlanStep \/ SampleBirths \/ Integrate
       \/ SampleTerminations \/ SampleEnd \/ Finish \/ Fail

LogNext == Run \/ RequestCancel \/ Crash \/ Ended

LogSpec == LogInit /\ [][LogNext]_logVars

-----------------------------------------------------------------------------
Phases == {"begin", "snapshot", "poll", "plan", "births", "deaths", "sample", "finish"}
          \union Outcomes

Stores ==
    [events : Seq([time : Span, kind : Kinds]),
     rows : [Particles -> Seq([event : Nat, time : Span, status : {"alive", "terminated"}])]]

\* Type invariant.
LogTypeOK ==
    /\ log \in Stores /\ disk \in Stores /\ unsaved \in 0..MaxBatch - 1
    /\ schedule \subseteq Span /\ birth \in [Particles -> Span]
    /\ death \in [Particles -> Span \union {Never}] /\ emitted \subseteq Particles
    /\ now \in Span /\ stepEnd \in Span /\ phase \in Phases
    /\ calls \subseteq [time : Span, particles : SUBSET Particles]

\* The sink's bookkeeping and the loop agree: no event of a run is refused.
WritesAccepted == ~ refused

\* The lifecycle rules of the audit, for the rows of a particle: later in both
\* the events and in time, from the birth, in an event of that kind, to at most
\* one end.
Audits(events, rows, born) ==
    \A k \in 1..Len(rows) :
        LET row == rows[k]
        IN  /\ row.event \in 1..Len(events) /\ events[row.event].time = row.time
            /\ k = 1 => row.time = born /\ events[row.event].kind = "birth"
            /\ \A j \in 1..k - 1 : /\ rows[j].event < row.event /\ rows[j].time < row.time
                                   /\ rows[j].status = "alive"

\* Whenever a result command opens the database of a live, dead or finished run,
\* what it reads obeys the lifecycle rules.
SnapshotAudits == \A p \in Particles : Audits(disk.events, disk.rows[p], birth[p])

\* At each scheduled time that the run has sampled there is a row of every
\* particle that was alive then.
ScheduledCoverage ==
    phase \in {"plan", "births", "deaths", "finish"} =>
        \A t \in schedule, p \in emitted :
            t <= now /\ birth[p] <= t /\ t <= death[p] => HasTime(log.rows[p], t)

\* A row is of an instant of its particle's life, terminal just if it is its end.
RowsTruthful ==
    \A p \in Particles : \A k \in 1..Len(log.rows[p]) :
        LET row == log.rows[p][k]
        IN  /\ birth[p] <= row.time /\ row.time <= death[p]
            /\ row.status = "terminated" => row.time = death[p]
            /\ phase \in {"plan", "finish"} /\ row.time = death[p] => row.status = "terminated"

\* A run that ends in success has every birth and every death on disk, as the
\* summary of its manifest says.
SuccessIsComplete ==
    phase \in {"completed", "cancelled"} =>
        \A p \in Particles : /\ Closed(disk.rows[p]) <=> Dead(p)
                             /\ disk.rows[p] # <<>> <=> p \in emitted

\* The instants of the rows and events of a store that are not saved as they are.
Unlike(rows, saved) ==
    {rows[k].time : k \in {i \in 1..Len(rows) : i > Len(saved) \/ rows[i] # saved[i]}}
Lost(store, saved) ==
    {store.events[k].time : k \in Len(saved.events) + 1..Len(store.events)}
        \union UNION {Unlike(store.rows[p], saved.rows[p]) : p \in Particles}

\* A crash loses less than a batch of lifecycle instants, and nothing of a
\* snapshot that no birth or death coincides with.
LossBounded ==
    /\ Cardinality(Lost(log, disk)) < MaxBatch
    /\ \A k \in 1..Len(log.events) :
          log.events[k].kind \notin Lifecycle => log.events[k].time \notin Lost(log, disk)

(***************************************************************************)
(* The rows tell the particles' lives: every write is accepted, any        *)
(* committed prefix obeys the lifecycle rules, scheduled samples cover     *)
(* whoever is alive, a run that succeeds has every birth and death, and a  *)
(* crash loses less than one batch.                                        *)
(***************************************************************************)
RowsTellLives ==
    /\ LogTypeOK /\ WritesAccepted
    /\ SnapshotAudits /\ ScheduledCoverage /\ RowsTruthful
    /\ SuccessIsComplete /\ LossBounded

\* What a reader has seen stays: a row may only become the end of its particle,
\* an event only rise in kind.
EventsExtend(later, events) ==
    /\ Len(events) <= Len(later)
    /\ \A k \in 1..Len(events) : /\ later[k].time = events[k].time
                                 /\ Priority(later[k].kind) >= Priority(events[k].kind)
RowsExtend(later, rows) ==
    /\ Len(rows) <= Len(later)
    /\ \A k \in 1..Len(rows) : \/ later[k] = rows[k]
                               \/ later[k] = [rows[k] EXCEPT !.status = "terminated"]
Extends(later, store) ==
    /\ EventsExtend(later.events, store.events)
    /\ \A p \in Particles : RowsExtend(later.rows[p], store.rows[p])
CommittedStays == [][Extends(disk', disk)]_disk

\* What the audit also asks of a finished run: no event is without rows.
EventsHaveStates ==
    phase \in {"completed", "cancelled"} =>
        \A k \in 1..Len(disk.events) :
            \E p \in Particles : \E i \in 1..Len(disk.rows[p]) : disk.rows[p][i].event = k

\* What the manual says of a safe cancel: once the loop has seen it, the attempt
\* ends cancelled.
SafeCancelEndsCancelled == phase = "failed" => ~ cancelled
=============================================================================
