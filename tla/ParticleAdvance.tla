---------------------------- MODULE ParticleAdvance ----------------------------
(***************************************************************************)
(* The particles of a run as columns (`particle.rs'), and the midpoint      *)
(* integrator that moves all of them at once (`integrator/mod.rs').         *)
(*                                                                         *)
(* A particle is one index into many columns.  Columns of masses, of adjoint *)
(* weights and of random velocities appear when the first particle needs    *)
(* them, batches with other columns are appended, subsets are selected, and *)
(* the wind is asked for in groups of one time whose answers are put back   *)
(* by index: a slip anywhere gives a particle the mass or the wind of       *)
(* another one.  Here every batch is compared with particles kept one by    *)
(* one.                                                                    *)
(*                                                                         *)
(* Simplifications.  One coordinate, in half metres so that a midpoint is   *)
(* whole; the columns every particle has are one column of records; the     *)
(* three components of a random velocity are one number.                    *)
(***************************************************************************)
EXTENDS Integers, Sequences, FiniteSets, Functions

CONSTANTS Substances,
          Cohorts,     \* batches that a population may give birth to: one per macro step
          Winds,       \* [0..Horizon -> [below, above : Samples]]
          Horizon,     \* bound: nanoseconds of the run
          Steps,       \* lengths of a macro step
          Kicks,       \* random velocities, by identifier
          Widest       \* bound: the age that its type can hold

VARIABLES direction, wind, clock, batch, start,  \* start: when each row begins to move
          to, phase,
          known      \* the particles one by one

vars == <<direction, wind, clock, batch, start, to, phase, known>>

-----------------------------------------------------------------------------
\* Columns.  `row' stands for those that every particle has.
Count(b) == Len(b.row)
Empty == [row |-> <<>>, mass |-> <<>>, adjoint |-> <<>>, layer |-> <<>>, meso |-> <<>>]
Zeros(n) == [i \in 1 .. n |-> 0]

\* ParticleBatch::len and ::validate.
Lengths(b) ==
    /\ \A s \in DOMAIN b.mass : Len(b.mass[s]) = Count(b)
    /\ \A s \in DOMAIN b.adjoint : Len(b.adjoint[s]) = Count(b)
    /\ Len(b.layer) \in {0, Count(b)} /\ Len(b.meso) \in {0, Count(b)}
Valid(b) ==
    /\ Lengths(b)
    /\ \A i, j \in 1 .. Count(b) : b.row[i].id = b.row[j].id => i = j
    /\ \A i \in 1 .. Count(b) : b.row[i].death >= 0 => b.row[i].status # "alive"
    /\ DOMAIN b.mass \cap DOMAIN b.adjoint = {}

\* state: one particle.  It has a value for every column of its batch, none for motion.
State(b, i) == [row |-> b.row[i], mass |-> [s \in DOMAIN b.mass |-> b.mass[s][i]],
                adjoint |-> [s \in DOMAIN b.adjoint |-> b.adjoint[s][i]]]

\* set_state: a substance that is new to the batch gets a column, one that is not in the state
\* becomes zero in its row.
Stored(columns, n, i, values) ==
    [s \in DOMAIN columns \cup DOMAIN values |->
        [(IF s \in DOMAIN columns THEN columns[s] ELSE Zeros(n)) EXCEPT
            ![i] = IF s \in DOMAIN values THEN values[s] ELSE 0]]
SetState(b, i, state) ==
    [b EXCEPT !.row[i] = state.row, !.mass = Stored(@, Count(b), i, state.mass),
              !.adjoint = Stored(@, Count(b), i, state.adjoint)]

\* select_indices.
Picked(column, indices) == IF column = <<>> THEN <<>> ELSE [k \in DOMAIN indices |-> column[indices[k]]]
SelectIndices(b, indices) ==
    [row |-> Picked(b.row, indices),
     mass |-> [s \in DOMAIN b.mass |-> Picked(b.mass[s], indices)],
     adjoint |-> [s \in DOMAIN b.adjoint |-> Picked(b.adjoint[s], indices)],
     layer |-> Picked(b.layer, indices), meso |-> Picked(b.meso, indices)]

\* append: columns that one of the two lacks are filled with zeros.
Joined(a, n, b, m) ==
    [s \in DOMAIN a \cup DOMAIN b |->
        (IF s \in DOMAIN a THEN a[s] ELSE Zeros(n)) \o (IF s \in DOMAIN b THEN b[s] ELSE Zeros(m))]

\* append_components.
JoinedMotion(a, n, b, m) ==
    IF a = <<>> /\ b = <<>> THEN <<>>
    ELSE (IF a = <<>> THEN Zeros(n) ELSE a) \o (IF b = <<>> THEN Zeros(m) ELSE b)

Taken(a, b) == \E i \in 1 .. Count(a), j \in 1 .. Count(b) : a.row[i].id = b.row[j].id
AppendBatch(a, b) ==
    LET n == Count(a)  m == Count(b)
    IN  [row |-> a.row \o b.row, mass |-> Joined(a.mass, n, b.mass, m),
         adjoint |-> Joined(a.adjoint, n, b.adjoint, m),
         layer |-> JoinedMotion(a.layer, n, b.layer, m), meso |-> JoinedMotion(a.meso, n, b.meso, m)]

\* select_directional_substance_state: backward, what is released are the weights.
Refuses(b) == IF direction = 1 THEN b.adjoint # <<>> ELSE b.adjoint # <<>> /\ b.mass # <<>>
Directed(b) ==
    IF direction = -1 /\ b.adjoint = <<>> THEN [b EXCEPT !.adjoint = b.mass, !.mass = <<>>] ELSE b

\* initialize_boundary_layer_state, initialize_mesoscale_state.
Ensured(column, n) == IF column = <<>> THEN Zeros(n) ELSE column

\* random_motion_velocity: a column that is absent is zero.
At(column, i) == IF column = <<>> THEN 0 ELSE column[i]
RandomVelocity(b, i) == At(b.layer, i) + At(b.meso, i)

-----------------------------------------------------------------------------
\* The integrator.
Abs(d) == IF d < 0 THEN -d ELSE d
Half(d) == direction * (Abs(d) \div 2)

\* query_transport: the samples of points at one time.
WindAt(time, place) == IF place < 0 THEN wind[Abs(time)].below ELSE wind[Abs(time)].above
QueryTransport(time, places) == [k \in DOMAIN places |-> WindAt(time, places[k])]

\* ordered_transport_time_groups: the times in the order of the run, and who has each.
InRunOrder(times) ==
    SelectSeq([k \in 1 .. Horizon + 1 |-> direction * (k - 1)], LAMBDA t : t \in Range(times))
Upto(n) == [k \in 1 .. n |-> k]
GroupOf(times, t) == SelectSeq(Upto(Len(times)), LAMBDA i : times[i] = t)

\* Mutation of QueryAtTimes: the answers of a group are put back in the order of the groups.
QueryAtTimesInOrder(times, places) ==
    LET groups == InRunOrder(times)
        answers(g) == LET indices == GroupOf(times, groups[g])
                      IN  QueryTransport(groups[g], [k \in DOMAIN indices |-> places[indices[k]]])
        all[g \in 0 .. Len(groups)] == IF g = 0 THEN <<>> ELSE all[g - 1] \o answers(g)
    IN  all[Len(groups)]

\* query_transport_at_times: gathered by time, asked, and put back by index.
QueryAtTimes(times, places) ==
    LET groups == InRunOrder(times)
        indices(g) == GroupOf(times, groups[g])
        answers == [g \in DOMAIN groups |->
                        QueryTransport(groups[g], [k \in DOMAIN indices(g) |-> places[indices(g)[k]]])]
    IN  [i \in DOMAIN times |->
            LET g == CHOOSE g \in DOMAIN groups : groups[g] = times[i]
            IN  answers[g][CHOOSE k \in DOMAIN indices(g) : indices(g)[k] = i]]

\* advanced: the age must fit.
Fits(row, step) == row.age + Abs(step) <= Widest
MovedTo(row, place, step) ==
    [row EXCEPT !.place = place, !.offset = @ + step, !.age = @ + Abs(step)]

\* terminate_particle_at, terminate_particle_motion_at.
Lost(row, reason, time) == [row EXCEPT !.status = reason, !.death = Abs(time)]

\* The rows that move: alive, and not born at the end.
Moving(b, starts, end) ==
    SelectSeq(Upto(Count(b)), LAMBDA i : b.row[i].status = "alive" /\ starts[i] # end)

\* What the start of the step makes of a row: it is carried on, is left to the boundary
\* policies where it is, or ends.
AtStart(row, sample, v, from, step) ==
    IF sample.kind = "bridge"
      THEN [goes |-> FALSE, row |-> IF Fits(row, step) THEN MovedTo(row, row.place, step)
                                    ELSE Lost(row, "numerical_failure", from)]
    ELSE IF sample.kind = "bad" THEN [goes |-> FALSE, row |-> Lost(row, "invalid_meteorology", from)]
    ELSE IF ~ Fits(row, Half(step)) THEN [goes |-> FALSE, row |-> Lost(row, "numerical_failure", from)]
    ELSE [goes |-> TRUE, row |-> MovedTo(row, row.place + step * v, Half(step))]

\* And its midpoint: the whole step with the wind there, or with the wind of the start where
\* the midpoint is left to the boundary policies.
AtMidpoint(row, middle, sample, v0, v, from, step) ==
    IF sample.kind # "bad" /\ Fits(row, step)
      THEN MovedTo(row, row.place + 2 * step * (IF sample.kind = "bridge" THEN v0 ELSE v), step)
    ELSE Lost(middle, IF sample.kind = "bad" THEN "invalid_meteorology" ELSE "numerical_failure", from + Half(step))

\* Rk2Spherical::advance_timed: all rows at once.
AdvanceTimed(b, starts, end) ==
    LET active == Moving(b, starts, end)
        step(i) == end - starts[i]
        first == QueryAtTimes([k \in DOMAIN active |-> starts[active[k]]],
                              [k \in DOMAIN active |-> b.row[active[k]].place])
        v0(k) == first[k].v + RandomVelocity(b, active[k])
        begun == [k \in DOMAIN active |->
                    AtStart(b.row[active[k]], first[k], v0(k), starts[active[k]], step(active[k]))]
        on == SelectSeq(Upto(Len(active)), LAMBDA k : begun[k].goes)
        second == QueryAtTimes([m \in DOMAIN on |-> starts[active[on[m]]] + Half(step(active[on[m]]))],
                               [m \in DOMAIN on |-> begun[on[m]].row.place])
        finished(m) == LET k == on[m]  i == active[k]
                       IN  AtMidpoint(b.row[i], begun[k].row, second[m], v0(k),
                                      second[m].v + RandomVelocity(b, i), starts[i], step(i))
    IN  [b EXCEPT !.row = [i \in DOMAIN @ |->
            IF \A k \in DOMAIN active : active[k] # i THEN @[i]
            ELSE LET k == CHOOSE k \in DOMAIN active : active[k] = i
                 IN  IF begun[k].goes THEN finished(CHOOSE m \in DOMAIN on : on[m] = k) ELSE begun[k].row]]

\* IntegratorModel::advance_timed, for integrators that know only one start: a subset per
\* start, stored back row by row.
AdvanceGrouped(b, starts, end) ==
    LET groups == InRunOrder(starts)
        subset(g) == GroupOf(starts, groups[g])
        moved(g) == AdvanceTimed(SelectIndices(b, subset(g)), [k \in DOMAIN subset(g) |-> groups[g]], end)
        into[g \in 0 .. Len(groups)] ==
            IF g = 0 THEN b
            ELSE LET rows[k \in 0 .. Len(subset(g))] ==
                        IF k = 0 THEN into[g - 1] ELSE SetState(rows[k - 1], subset(g)[k], State(moved(g), k))
                 IN  rows[Len(subset(g))]
    IN  into[Len(groups)]

-----------------------------------------------------------------------------
\* A particle by itself, and what the wind makes of it.
Part(columns, i) == [s \in Substances |-> IF s \in DOMAIN columns THEN columns[s][i] ELSE 0]
View(b, i) == [row |-> b.row[i], mass |-> Part(b.mass, i), adjoint |-> Part(b.adjoint, i),
               layer |-> At(b.layer, i), meso |-> At(b.meso, i)]
Alone(p, from, end) ==
    LET step == end - from
        random == p.layer + p.meso
        v0 == WindAt(from, p.row.place).v + random
        begun == AtStart(p.row, WindAt(from, p.row.place), v0, from, step)
        there == WindAt(from + Half(step), begun.row.place)
    IN  IF p.row.status # "alive" \/ step = 0 THEN p
        ELSE [p EXCEPT !.row = IF begun.goes THEN AtMidpoint(p.row, begun.row, there, v0, there.v + random, from, step)
                               ELSE begun.row]
WithBorn(list, b) ==
    [id \in DOMAIN list \cup {b.row[i].id : i \in 1 .. Count(b)} |->
        IF id \in DOMAIN list THEN list[id] ELSE View(b, CHOOSE i \in 1 .. Count(b) : b.row[i].id = id)]

-----------------------------------------------------------------------------
\* The population of the first instant.
Init ==
    /\ direction \in {1, -1} /\ wind \in Winds /\ clock = 0 /\ to = 0 /\ phase = "between" /\ start = <<>>
    /\ \E b \in {c \in Cohorts : Valid(c) /\ \A i \in 1 .. Count(c) : c.row[i].born = 0} :
          batch = Directed(b) /\ known = WithBorn(<<>>, batch)

\* A macro step begins with its births: a particle that was there starts with the step, a new
\* one when it is born.  A batch with an identifier that is taken ends the run.
Begin ==
    /\ phase = "between"
    /\ \E step \in Steps, c \in Cohorts \cup {Empty} :
          LET end == clock + direction * step
              births == Directed([c EXCEPT !.row = [i \in DOMAIN @ |-> [@[i] EXCEPT !.born = direction * @]]])
              joined == AppendBatch(batch, births)
          IN  /\ Abs(end) <= Horizon
              /\ \A i \in 1 .. Count(c) : c.row[i].born > Abs(clock) /\ c.row[i].born <= Abs(end)
              /\ IF Refuses(c) \/ ~ Valid(births) \/ Taken(batch, births)
                 THEN phase' = "refused" /\ UNCHANGED <<batch, start, to, known>>
                 ELSE /\ batch' = joined /\ to' = end /\ phase' = "moving"
                      /\ start' = [i \in 1 .. Count(joined) |->
                                      IF i <= Count(batch) THEN clock ELSE joined.row[i].born]
                      /\ known' = WithBorn(known, births)
    /\ UNCHANGED <<direction, wind, clock>>

\* set_boundary_layer_velocity, set_mesoscale_velocity.
Kick ==
    /\ phase = "moving" /\ phase' = "kicked"
    /\ \E v \in Kicks, which \in {"layer", "meso"} :
          /\ batch' = [batch EXCEPT ![which] = [i \in 1 .. Count(batch) |->
                            IF batch.row[i].status = "alive" THEN v[batch.row[i].id]
                            ELSE Ensured(@, Count(batch))[i]]]
          /\ known' = [id \in DOMAIN known |->
                          IF known[id].row.status = "alive" THEN [known[id] EXCEPT ![which] = v[id]] ELSE known[id]]
    /\ UNCHANGED <<direction, wind, clock, start, to>>

Advance ==
    /\ phase \in {"moving", "kicked"}
    /\ batch' = AdvanceTimed(batch, start, to)
    /\ known' = [id \in DOMAIN known |->
                    Alone(known[id], start[CHOOSE i \in DOMAIN start : batch.row[i].id = id], to)]
    /\ clock' = to /\ phase' = "between" /\ start' = <<>>
    /\ UNCHANGED <<direction, wind, to>>

Next == Begin \/ Kick \/ Advance
Spec == Init /\ [][Next]_vars

-----------------------------------------------------------------------------
\* A row of the batch is one particle in every column: what was born, kicked and carried
\* with it, and nothing of its neighbours, however batches were joined and winds asked for.
RowsStayTogether ==
    /\ Valid(batch) /\ Count(batch) = Cardinality(DOMAIN known)
    /\ \A i \in 1 .. Count(batch) : View(batch, i) = known[batch.row[i].id]

\* A subset has the particles it was asked for, in that order.
SelectionKeeps ==
    \A i, j \in 1 .. Count(batch) :
        LET two == SelectIndices(batch, <<i, j>>)
        IN  View(two, 1) = View(batch, i) /\ View(two, 2) = View(batch, j) /\ (Valid(two) <=> i # j)

\* Both ways to advance a batch come to the same.
GroupedAgrees == phase \in {"moving", "kicked"} => AdvanceGrouped(batch, start, to) = AdvanceTimed(batch, start, to)

\* A particle's clock is the run's: whoever is alive has lived until now, whoever ended has
\* lived until it ended, and no age outgrew its type.
AgesKeepTime ==
    phase = "between" => \A i \in 1 .. Count(batch) :
        LET r == batch.row[i]
        IN  /\ r.age <= Widest /\ Abs(r.offset) = r.age
            /\ r.born + r.offset = (IF r.status = "alive" THEN clock ELSE direction * r.death)

\* A wind that is the same everywhere and grows evenly carries whoever lives as far as it
\* went, to the half metre, whatever it was kicked with.
EvenWind ==
    /\ \A t \in 0 .. Horizon : wind[t].below = wind[t].above /\ wind[t].below.kind = "ok"
    /\ \A t \in 1 .. Horizon - 1 : wind[t + 1].below.v - wind[t].below.v = wind[t].below.v - wind[t - 1].below.v
CarriedExactly ==
    phase \in {"moving", "kicked"} /\ EvenWind => \A i \in 1 .. Count(batch) :
        LET before == batch.row[i]  after == AdvanceTimed(batch, start, to).row[i]
            step == to - start[i]
        IN  before.status = "alive" /\ after.status = "alive" /\ step % 2 = 0 =>
                after.place = before.place
                              + step * (WindAt(start[i], 0).v + WindAt(to, 0).v + 2 * RandomVelocity(batch, i))
=============================================================================
