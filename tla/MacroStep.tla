------------------------------ MODULE MacroStep ------------------------------
(***************************************************************************)
(* The macro steps of a run with a physics pipeline: a macro step is cut   *)
(* into common substeps, a substep that a sampled stability limit refuses  *)
(* is cut again, and an accepted one draws the random motion, moves every  *)
(* active particle and judges its path (runner/mod.rs, physics/mod.rs,     *)
(* integrator/mod.rs, clock.rs).                                           *)
(*                                                                         *)
(* Instants and durations are integers of nanoseconds.  A velocity is the  *)
(* instant up to which the random process has been driven; positions and   *)
(* weather are choices of their outcome.                                   *)
(***************************************************************************)
EXTENDS Integers, Sequences, FiniteSets, SequencesExt

CONSTANTS Particles,
          Horizon,     \* bound: nanoseconds of the run
          MaxStep,     \* bound: nanoseconds of a macro step and of a stability limit
          Shift        \* fractions of a path are f / 2^Shift

VARIABLES direction, common,             \* of the configuration
          clock, macro, target,          \* the macro step: where it starts, its number, where it ends
          startTimes,                    \* when each row starts to move in it
          substepStart, pending, index,  \* the substeps not yet taken
          motion,                        \* what prepare_motion returned
          phase, batch,
          keys, drawn                    \* random keys used, and how many draws were made

substeps == <<substepStart, pending, index>>
draws    == <<keys, drawn>>
macroVars == <<clock, macro, target, startTimes>>
vars == <<direction, common, macroVars, substeps, motion, phase, batch, draws>>

Abs(d) == IF d < 0 THEN -d ELSE d
Ahead(t, u) == direction * (u - t) > 0       \* u comes after t in the run
End  == direction * Horizon
Half(d) == direction * (Abs(d) \div 2)       \* signed halving truncates towards zero
Alive(p) == batch[p].status = "alive"

\* The common substeps of a macro step.
Partition(step) ==
    LET n == (Abs(step) - 1) \div common + 1
    IN  [k \in 1..n |-> direction * (IF k < n THEN common ELSE Abs(step) - (n - 1) * common)]

ClampStartTimes(from, to) ==
    [p \in Particles |-> IF ~ Ahead(from, startTimes[p]) THEN from
                         ELSE IF ~ Ahead(startTimes[p], to) THEN to ELSE startTimes[p]]

ActiveIndices(from, to) ==
    {p \in Particles : Alive(p) /\ Ahead(startTimes[p], to) /\ from # to}

-----------------------------------------------------------------------------
NoMotion == [active |-> {}, clamped |-> [p \in Particles |-> 0], end |-> [p \in Particles |-> 0]]

Unborn(t) == [born |-> t, status |-> "unborn", age |-> 0, offset |-> 0, velocity |-> 0,
              death |-> [time |-> 0, from |-> 0, to |-> 0, fraction |-> -1]]

\* The population of the first instant is there before the first macro step.
Init ==
    /\ direction \in {1, -1} /\ common \in 1..MaxStep
    /\ clock = 0 /\ macro = 0 /\ target = 0
    /\ startTimes = [p \in Particles |-> 0]
    /\ substepStart = 0 /\ pending = <<>> /\ index = 0
    /\ motion = NoMotion /\ phase = "between"
    /\ \E born \in [Particles -> 0..Horizon] :
          batch = [p \in Particles |->
                     IF born[p] = 0 THEN [Unborn(0) EXCEPT !.status = "alive"]
                     ELSE Unborn(direction * born[p])]
    /\ keys = {} /\ drawn = 0

\* The runner plans a step, appends its births and starts the substeps.  A row
\* that was there starts with the step, a new one at its birth.
BeginMacroStep ==
    /\ phase = "between" /\ clock # End
    /\ \E step \in {direction * s : s \in 1..MaxStep} :
          LET born == {p \in Particles : /\ batch[p].status = "unborn"
                                         /\ Ahead(clock, batch[p].born)
                                         /\ ~ Ahead(clock + step, batch[p].born)}
          IN  /\ ~ Ahead(End, clock + step)
              /\ target' = clock + step
              /\ batch' = [p \in Particles |-> IF p \in born THEN [batch[p] EXCEPT !.status = "alive"]
                                               ELSE batch[p]]
              /\ startTimes' = [p \in Particles |-> IF p \in born THEN batch[p].born ELSE clock]
              /\ pending' = Partition(step)
    /\ substepStart' = clock /\ index' = 0 /\ phase' = "substeps"
    /\ UNCHANGED <<direction, common, clock, macro, motion, draws>>

\* The largest duration that a rejected candidate may have: the part before a
\* particle starts to move is free.
DynamicLimits(from, to, clamped, active, stable) ==
    {Abs(clamped[p] - from) + stable[p] :
        p \in {q \in active : Abs(to - clamped[q]) > stable[q]}}

SplitAt(substep, maximum) ==
    <<direction * maximum, substep - direction * maximum>>

Reject(substep, limits) ==
    LET maximum == CHOOSE m \in limits : \A n \in limits : m <= n
    IN  /\ IF maximum <= 0 \/ maximum >= Abs(substep)
           THEN phase' = "underflow" /\ UNCHANGED pending
           ELSE pending' = SplitAt(substep, maximum) \o Tail(pending) /\ UNCHANGED phase
        /\ UNCHANGED <<direction, common, macroVars, substepStart, index, motion, batch, draws>>

\* Mutation of FirstHalf: the longer half first.
FirstHalfLonger(active) == Abs(active - Half(active))

FirstHalf(active)  == Abs(Half(active))
SecondHalf(active) == Abs(active - Half(active))

DrawKeys(p, active) ==
    {<<p, macro, index, "end">>}
    \union (IF FirstHalf(active) = 0 THEN {} ELSE {<<p, macro, index, "midpoint">>})
    \union (IF batch[p].age = 0 THEN {<<p, 0, 0, "birth">>} ELSE {})

\* A particle of age zero draws the velocity it is born with; every one is then
\* driven to its midpoint, where it moves, and on to the end, kept aside.
Accept(to, clamped, active) ==
    LET span(p) == to - clamped[p]
        before(p) == IF batch[p].age = 0 THEN clamped[p] ELSE batch[p].velocity
        middle(p) == before(p) + direction * FirstHalf(span(p))
        new == UNION {DrawKeys(p, span(p)) : p \in active}
    IN  /\ batch' = [p \in Particles |-> IF p \in active THEN [batch[p] EXCEPT !.velocity = middle(p)]
                                         ELSE batch[p]]
        /\ motion' = [active |-> active, clamped |-> clamped,
                      end |-> [p \in Particles |-> IF p \in active
                                                   THEN middle(p) + direction * SecondHalf(span(p)) ELSE 0]]
        /\ keys' = keys \union new /\ drawn' = drawn + Cardinality(new)
        /\ phase' = "moving"
        /\ UNCHANGED <<direction, common, macroVars, substeps>>

\* prepare_motion: the limits are sampled before anything is written.
PrepareMotion ==
    /\ phase = "substeps" /\ pending # <<>>
    /\ LET to == substepStart + Head(pending)
           clamped == ClampStartTimes(substepStart, to)
           active == ActiveIndices(substepStart, to)
       IN  \E stable \in [active -> 1..MaxStep] :
              LET limits == DynamicLimits(substepStart, to, clamped, active, stable)
              IN  IF limits = {} THEN Accept(to, clamped, active) ELSE Reject(Head(pending), limits)

-----------------------------------------------------------------------------
RoundShiftRightTiesEven(value, shift) ==
    LET quotient == value \div 2^shift  remainder == value % 2^shift  half == 2^(shift - 1)
    IN  IF remainder > half \/ (remainder = half /\ quotient % 2 = 1) THEN quotient + 1 ELSE quotient

ScaleDurationByFraction(duration, fraction) ==
    direction * RoundShiftRightTiesEven(Abs(duration) * fraction, Shift)

Outcomes == [kind : {"through", "lost_at_start", "lost_at_midpoint"}, fraction : {-1}]
            \union [kind : {"boundary"}, fraction : 0..2^Shift]

\* A row after the integrator and the boundary policies.
Advanced(row, from, to, outcome) ==
    LET after(step) == [row EXCEPT !.age = @ + Abs(step), !.offset = @ + step]
        lost(step) == [after(step) EXCEPT !.status = "terminated",
                          !.death = [time |-> from + step, from |-> from, to |-> to,
                                     fraction |-> outcome.fraction]]
    IN  CASE outcome.kind = "through" -> after(to - from)
          [] outcome.kind = "lost_at_start" -> lost(0)
          [] outcome.kind = "lost_at_midpoint" -> lost(Half(to - from))
          [] outcome.kind = "boundary" -> lost(ScaleDurationByFraction(to - from, outcome.fraction))

\* PreparedMotion::finish: only a particle that completes the substep gets the
\* velocity of its end.
Finished(p, row) ==
    IF p \in motion.active /\ row.status = "alive" THEN [row EXCEPT !.velocity = motion.end[p]] ELSE row

Transport ==
    LET to == substepStart + Head(pending)
    IN  /\ phase = "moving"
        /\ \E outcome \in [motion.active -> Outcomes] :
              batch' = [p \in Particles |->
                          IF p \in motion.active
                          THEN Finished(p, Advanced(batch[p], motion.clamped[p], to, outcome[p]))
                          ELSE batch[p]]
        /\ substepStart' = to /\ index' = index + 1 /\ pending' = Tail(pending)
        /\ motion' = NoMotion /\ phase' = "substeps"
        /\ UNCHANGED <<direction, common, macroVars, draws>>

FinishMacroStep ==
    /\ phase = "substeps" /\ pending = <<>>
    /\ IF substepStart # target
       THEN phase' = "underflow" /\ UNCHANGED <<clock, macro>>
       ELSE phase' = "between" /\ clock' = target /\ macro' = macro + 1
    /\ UNCHANGED <<direction, common, target, startTimes, substeps, motion, batch, draws>>

\* Weather that is missing, or a scientific check, fails the whole run.
MeteorologyFails ==
    /\ phase \in {"substeps", "moving"} /\ pending # <<>>
    /\ phase' = "failed"
    /\ UNCHANGED <<direction, common, macroVars, substeps, motion, batch, draws>>

Ended == (phase \in {"underflow", "failed"} \/ (phase = "between" /\ clock = End)) /\ UNCHANGED vars

Next ==
    BeginMacroStep \/ PrepareMotion \/ Transport \/ MeteorologyFails \/ FinishMacroStep \/ Ended

\* The worker's thread runs the loop until it is done.
Spec == Init /\ [][Next]_vars /\ WF_vars(Next)

-----------------------------------------------------------------------------
\* Type invariant.
TypeOK ==
    /\ clock \in -Horizon..Horizon /\ target \in -Horizon..Horizon
    /\ macro \in 0..Horizon /\ index \in 0..MaxStep
    /\ pending \in Seq(-MaxStep..MaxStep \ {0})
    /\ phase \in {"between", "substeps", "moving", "failed", "underflow"}
    /\ \A p \in Particles :
          /\ batch[p].status \in {"unborn", "alive", "terminated"}
          /\ batch[p].age \in 0..Horizon /\ batch[p].offset \in -Horizon..Horizon
          /\ batch[p].velocity \in -Horizon..Horizon

\* However often substeps are cut again, those that are left cover exactly what
\* is left of the macro step, and each of them runs in its direction.
SubstepsTile ==
    phase \in {"substeps", "moving"} =>
        /\ substepStart + FoldSeq(LAMBDA d, sum : d + sum, 0, pending) = target
        /\ \A k \in 1..Len(pending) : direction * pending[k] > 0

\* A stability limit of at least one nanosecond can always be met: no limit
\* asks for an empty first part or for the candidate itself.
NeverUnderflows == phase # "underflow"

\* A particle's age and offset are the time from its birth to where it is: its
\* death, or as far as the run has come; whichever way and in whatever substeps
\* it got there.
AgeIsLife ==
    phase \in {"between", "substeps"} =>
        \A p \in Particles :
            LET row == batch[p]
                now == IF phase = "between" THEN clock ELSE substepStart
                reached == IF row.status = "terminated" THEN row.death.time
                           ELSE IF row.status = "alive" /\ Ahead(row.born, now) THEN now ELSE row.born
            IN  /\ row.offset = reached - row.born
                /\ row.age = Abs(row.offset)
                /\ Abs(reached) <= Abs(now) \/ row.status # "terminated"

\* The random motion keeps time with the transport: between substeps it has been
\* driven up to the instant of the particle, in a substep to the midpoint where
\* the integrator samples the wind.
VelocityKeepsTime ==
    \A p \in Particles :
        /\ phase = "moving" /\ p \in motion.active =>
              LET to == substepStart + Head(pending)
              IN  /\ batch[p].velocity = motion.clamped[p] + Half(to - motion.clamped[p])
                  /\ motion.end[p] = to
        /\ phase \in {"between", "substeps"} /\ Alive(p) /\ batch[p].age > 0 =>
              batch[p].velocity = batch[p].born + batch[p].offset

\* The instant of a death on a boundary is the nanosecond nearest to its place on
\* the path, the even one of two, inside the substep, and the same distance from
\* the start in a backward run.
DeathIsNearest ==
    \A p \in Particles :
        LET d == batch[p].death
            span == Abs(d.to - d.from)  partial == Abs(d.time - d.from)
            error == Abs(2^Shift * partial - d.fraction * span)
        IN  d.fraction >= 0 =>
                /\ ~ Ahead(d.time, d.from) /\ ~ Ahead(d.to, d.time)
                /\ 2 * error <= 2^Shift
                /\ 2 * error = 2^Shift => partial % 2 = 0

\* No draw of a run repeats a random key, whichever candidates were refused.
KeysFresh == Cardinality(keys) = drawn

\* Refusals cannot go on for ever: a run that does not fail gets to its end.
RunEnds == <>(phase = "failed" \/ (phase = "between" /\ clock = End))
=============================================================================
