-------------------------- MODULE BoundaryPolicies --------------------------
(***************************************************************************)
(* The boundary policies applied to one proposed motion of one particle    *)
(* (trajecta-core boundary/mod.rs, the sampler of boundary/met_path.rs and  *)
(* apply_boundaries of the runner).                                         *)
(*                                                                          *)
(* A step is sampled at the points 0..G of its ground track.  The ground    *)
(* height and what the meteorology answers there are arbitrary; heights     *)
(* and clock ticks are in twelfths, so that every fraction n/d of a step of *)
(* at most four points is exact.  `path` is the leg the sampler is bound    *)
(* to: it starts at point `from` at height `low` and ends over point G at   *)
(* height `high`.  A retarget after a collision rebinds the local fractions *)
(* 0..1 to the rest of the step.                                            *)
(***************************************************************************)
EXTENDS Integers, FiniteSets, Sequences

CONSTANTS G,              \* points of the ground track after the first
          Step,           \* clock ticks of the step, a multiple of 1..G
          Grounds,        \* ground heights
          Skies,          \* what the samples of a track may answer
          Starts, Aims,   \* heights at the start and of the proposal
          Top,            \* model top
          Orders,         \* policy sequences of the case
          Clearance,      \* surface_clearance
          Margin,         \* SAFE_BOUNDARY_ENVELOPE_MARGIN_M
          MaxReflections  \* maximum_surface_reflections_per_step

VARIABLES world,    \* the track, the proposal and the configured policies
          path,     \* leg the sampler is bound to
          cuts,     \* certified segment ends, as local points
          policy,   \* position in world.order of the policy being applied
          hits,     \* collisions resolved in this step
          result    \* Flying, or what the runner stores

vars == <<world, path, cuts, policy, hits, result>>

Flying == [kind |-> "flying"]

-----------------------------------------------------------------------------
\* A local point of a leg: its place on the track, and its height.
Span(leg) == IF leg.from = G THEN 1 ELSE G - leg.from
Local(leg) == 0..Span(leg)
Point(leg, l) == IF leg.from = G THEN G ELSE leg.from + l
Height(leg, l) == leg.low + ((leg.high - leg.low) * l) \div Span(leg)

\* sample_uncached: the status of a sample, and whether it has bounds.
Out(leg, l) == world.sky[Point(leg, l)] = "out"
Known(leg, l) == world.sky[Point(leg, l)] = "ok"

Gap(leg, kind, l) ==
    IF kind = "surface" THEN Height(leg, l) - world.ground[Point(leg, l)]
                        ELSE Top - Height(leg, l)

-----------------------------------------------------------------------------
(* Certified segments.                                                      *)

OneWay(leg, kind, points) ==
    LET gap == [i \in points |-> Gap(leg, kind, i)] IN
    \/ \A i \in points : gap[i] > 0
    \/ \A i, j \in points : i < j => gap[i] <= gap[j]
    \/ \A i, j \in points : i < j => gap[i] >= gap[j]

\* A leaf whose corner columns cannot be sampled is left as it is.
Certified(leg, l, r) ==
    \/ \E i \in l..r : world.sky[Point(leg, i)] = "hole"
    \/ /\ Cardinality({i \in l..(r - 1) : Out(leg, i) # Out(leg, i + 1)}) <= 1
       /\ \A kind \in {"surface", "top"} :
             OneWay(leg, kind, {i \in l..r : ~Out(leg, i)})

NextCut(c, l) == CHOOSE r \in c : r > l /\ \A q \in c : q > l => r <= q

Partitions(leg) ==
    {c \in {{0, Span(leg)} \cup mid : mid \in SUBSET (1..(Span(leg) - 1))} :
       \A l \in c \ {Span(leg)} : Certified(leg, l, NextCut(c, l))}

-----------------------------------------------------------------------------
(* The searches.                                                            *)

Found(l) == [tag |-> "found", at |-> l]
Pass == [tag |-> "pass", at |-> 0]
None == [tag |-> "none", at |-> 0]
Missing == [tag |-> "missing", at |-> 0]

\* bisect_domain_exit_bracket, the last point inside and the first outside.
RECURSIVE Exit(_, _)
Exit(l, r) == LET mid == (l + r) \div 2 IN
              IF mid = l THEN <<l, r>>
              ELSE IF Out(path, mid) THEN Exit(l, mid) ELSE Exit(mid, r)

\* bisect_scalar_downcrossing, the first point not above the boundary.
RECURSIVE Bisect(_, _, _)
Bisect(kind, l, r) == LET mid == (l + r) \div 2 IN
                      IF mid = l THEN Found(r)
                      ELSE IF ~Known(path, mid) THEN Missing
                      ELSE IF Gap(path, kind, mid) > 0 THEN Bisect(kind, mid, r)
                      ELSE Bisect(kind, l, mid)

\* One segment of find_first_scalar_downcrossing.
SegmentContact(kind, l, r) ==
    LET inside == IF Out(path, r) THEN Exit(l, r)[1] ELSE r IN
    IF Out(path, l) THEN None
    ELSE IF ~Known(path, l) \/ ~Known(path, inside) THEN Missing
    ELSE IF Gap(path, kind, l) < 0 \/ (Gap(path, kind, l) = 0 /\ Gap(path, kind, inside) < 0)
      THEN Found(l)
    ELSE IF Gap(path, kind, l) > 0 /\ Gap(path, kind, inside) <= 0
      THEN Bisect(kind, l, inside)
    ELSE IF Out(path, r) THEN None ELSE Pass

\* One segment of find_first_domain_exit.
SegmentExit(l, r) == IF Out(path, l) THEN Found(l)
                     ELSE IF Out(path, r) THEN Found(Exit(l, r)[2])
                     ELSE Pass

FirstOf(Segment(_, _)) ==
    LET told == {l \in cuts \ {Span(path)} : Segment(l, NextCut(cuts, l)).tag # "pass"}
        first == CHOOSE l \in told : \A m \in told : l <= m
    IN  IF told = {} THEN None ELSE Segment(first, NextCut(cuts, first))

SurfaceContact == FirstOf(LAMBDA l, r : SegmentContact("surface", l, r))
DomainExit == FirstOf(SegmentExit)

\* Mutation of TopContact: the ends of the leg are compared, not its segments.
TopContactEnds == IF Known(path, 0) /\ Known(path, Span(path)) /\ Gap(path, "top", Span(path)) <= 0
                  THEN Found(Span(path)) ELSE None

\* find_first_optional_scalar_downcrossing
TopContact == IF Known(path, 0) THEN FirstOf(LAMBDA l, r : SegmentContact("top", l, r))
              ELSE IF Known(path, Span(path)) THEN Missing ELSE None

-----------------------------------------------------------------------------
Init == /\ world \in [ground : [0..G -> Grounds], sky : Skies,
                      start : Starts, aim : Aims, order : Orders]
        /\ path = [from |-> 0, low |-> world.start, high |-> world.aim]
        /\ cuts = {} /\ policy = 0 /\ hits = 0 /\ result = Flying

Policy(p) == result = Flying /\ policy \in DOMAIN world.order
             /\ world.order[policy] = p

\* certify_clear_path and envelope_clears_path, for the track of the step.
EnvelopeClears ==
    LET lowest == IF world.start < world.aim THEN world.start ELSE world.aim
        highest == IF world.start < world.aim THEN world.aim ELSE world.start
    IN  /\ \A p \in 0..G : /\ world.sky[p] = "ok"
                           /\ lowest > world.ground[p] + Clearance + Margin
        /\ highest + Margin < Top

SkipsCertifiedClear == \A p \in DOMAIN world.order : world.order[p] # "periodic"

Alive == [kind |-> "alive"]

SkipClear == /\ result = Flying /\ policy = 0
             /\ SkipsCertifiedClear /\ EnvelopeClears
             /\ result' = Alive
             /\ UNCHANGED <<world, path, cuts, policy, hits>>

\* build_residual; a certificate is never asked for over corrected terrain.
Build == /\ result = Flying /\ policy = 0
         /\ cuts' \in Partitions(path)
         /\ policy' = 1
         /\ UNCHANGED <<world, path, hits, result>>

\* A leaf that cannot be certified fails the run when the sampler is built.
BuildFails == /\ result = Flying /\ policy = 0
              /\ result' = [kind |-> "run_error"]
              /\ UNCHANGED <<world, path, cuts, policy, hits>>

\* The runner ends a particle: `at` is where it is stored, and <<n, d>> the
\* fraction of the decision, taken as a fraction of the full step.
TerminationTime(n, d) == (Step * n) \div d

Terminate(reason, at, n, d) ==
    /\ result' = [kind |-> "dead", reason |-> reason, at |-> at,
                  time |-> TerminationTime(n, d)]
    /\ UNCHANGED <<world, path, cuts, policy, hits>>

\* terminate_proposal: back to the start only for the fraction 0.
TerminateProposal(reason, p) ==
    Terminate(reason, IF p = 0 THEN 0 ELSE G, p, G)

Continue == /\ policy' = policy + 1
            /\ result' = IF policy = Len(world.order) THEN Alive ELSE result
            /\ UNCHANGED <<world, path, cuts, hits>>

\* The full-step fraction of a local root, as SurfaceReflect computes it.
GlobalPoint(l) == Point(path, l)

\* The height of the endpoint after a collision at local point l.
Mirrored(l) ==
    LET mirror == IF Known(path, Span(path)) THEN world.ground[G]
                                             ELSE world.ground[Point(path, l)]
        depth == IF path.high < mirror THEN mirror - path.high
                                       ELSE path.high - mirror
    IN  mirror + depth + Clearance

\* Mutation of Rebound: the leg restarts on the ground, without the clearance.
ReboundGrounded(l) == [from |-> GlobalPoint(l), low |-> world.ground[Point(path, l)],
                       high |-> Mirrored(l)]

\* The leg after a collision at local point l.
Rebound(l) == [from |-> GlobalPoint(l),
               low |-> world.ground[Point(path, l)] + Clearance,
               high |-> Mirrored(l)]

\* SurfaceReflect, from one search to the next.
SurfaceReflect ==
    /\ Policy("surface")
    /\ \E contact \in {SurfaceContact} :
       \/ contact.tag = "none" /\ Continue
       \/ contact.tag = "missing"
          /\ TerminateProposal("InvalidMeteorology", path.from)
       \/ /\ contact.tag = "found" /\ hits < MaxReflections
          /\ hits' = hits + 1
          /\ path' = Rebound(contact.at)
          /\ cuts' \in Partitions(Rebound(contact.at))
          /\ UNCHANGED <<world, policy, result>>
       \* The retargeted sampler finds no certificate for the rest.
       \/ /\ contact.tag = "found" /\ hits < MaxReflections
          /\ TerminateProposal("NumericalFailure", GlobalPoint(contact.at))
       \/ /\ contact.tag = "found" /\ hits = MaxReflections
          /\ Terminate("ReflectionLimit", Point(path, contact.at),
                       GlobalPoint(contact.at), G)

\* ModelTopTerminate and LimitedDomainTerminate end with the local fraction.
EndAt(reason, found) == \E contact \in {found} :
    \/ contact.tag = "none" /\ Continue
    \/ contact.tag = "missing" /\ TerminateProposal("InvalidMeteorology", 0)
    \/ contact.tag = "found"
       /\ Terminate(reason, Point(path, contact.at), contact.at, Span(path))

ModelTop == Policy("top") /\ EndAt("ModelTop", TopContact)
LimitedDomain == Policy("domain") /\ EndAt("OutsideDomain", DomainExit)
GlobalPeriodic == Policy("periodic") /\ Continue

Apply == \/ Build \/ BuildFails \/ SkipClear
         \/ SurfaceReflect \/ ModelTop \/ LimitedDomain \/ GlobalPeriodic

Done == result # Flying /\ UNCHANGED vars

Next == Apply \/ Done

Spec == Init /\ [][Next]_vars

-----------------------------------------------------------------------------
(* Properties.                                                              *)

Applied(p) == \E i \in DOMAIN world.order : world.order[i] = p
NoHoles == \A p \in 0..G : world.sky[p] # "hole"

\* What a leg must not meet before the local point `end`.
ClearBefore(end) ==
    \A l \in Local(path) : l < end =>
       /\ ~Out(path, l)
       /\ Gap(path, "surface", l) >= 0
       /\ Gap(path, "top", l) >= 0

\* A particle that stays alive under the surface, top and domain policies
\* touched nothing on the whole of its last leg, its end included: neither a
\* coarse segment, nor a bisection, nor a reflection leaves a contact behind.
AliveIsClear ==
    (result = Alive /\ policy # 0 /\ NoHoles
       /\ \A p \in {"surface", "top", "domain"} : Applied(p))
        => ClearBefore(Span(path) + 1)

\* A path that is never built because the envelope clears it touches nothing,
\* whatever the particle and the ground do between its ends.
SkippedIsClear ==
    (result = Alive /\ policy = 0) =>
       \A l \in Local(path) : ~Out(path, l) /\ Gap(path, "surface", l) > 0 /\ Gap(path, "top", l) > 0

\* The first event wins: a particle that ends at the model top or at the domain
\* had met neither the ground, nor the other, before on that leg.
FirstContactWins ==
    (result.kind = "dead" /\ NoHoles
       /\ result.reason \in {"ModelTop", "OutsideDomain"}
       /\ \A p \in {"surface", "top", "domain"} : Applied(p))
    => \E l \in Local(path) : Point(path, l) = result.at /\ ClearBefore(l)

\* Before a reflection, and at the reflection limit, the time of a death at a
\* boundary is the time of the place it is stored at.
DeathAtContact ==
    (result.kind = "dead"
       /\ \/ result.reason = "ReflectionLimit"
          \/ result.reason \in {"ModelTop", "OutsideDomain"} /\ hits = 0)
        => result.time * G = Step * result.at

\* The same for every death at the model top or at the domain.
DeathTimeIsContact ==
    (result.kind = "dead" /\ result.reason \in {"ModelTop", "OutsideDomain"})
        => result.time * G = Step * result.at

\* Each further collision of a step lies later on the track: a particle does
\* not hit the same ground twice.
LaterCollision == hits' > hits /\ hits > 0 => path'.from > path.from
CollisionsAdvance == [][LaterCollision]_vars
=============================================================================
