------------------------- MODULE StepPlanner_proofs -------------------------
(***************************************************************************)
(* Whatever list of boundaries `StepPlanner::plan' is given, its plan is a *)
(* chain that crosses no event and ends where it must; and the list that   *)
(* `collect_step_boundaries' makes is in the order of the run, so that the *)
(* first step of a runner ends at the nearest stop.                        *)
(***************************************************************************)
EXTENDS StepPlanner, FiniteSetTheorems, TLAPS

-----------------------------------------------------------------------------
(* The loop invariant, of a clock c, a request r, the boundaries b, the    *)
(* number n of them that have been considered, and the locals p.           *)

\* The request has a direction and an end, so that the loop is entered.
Going(c, r) == Ahead(c.direction, 0, r) /\ c.current + r \in Instants

\* The arguments that a call may have.
Arguments(c, r, b) ==
    /\ c \in [current : Instants, direction : Directions] /\ r \in Int
    /\ b \in [1..Len(b) -> Boundaries] /\ Len(b) \in Nat

\* None of the first n boundaries is behind the clock or behind an earlier one.
Ordered(c, b, n) ==
    /\ \A i \in 1..n : ~ Ahead(c.direction, b[i].time, c.current)
    /\ \A i, j \in 1..n : i < j => ~ Ahead(c.direction, b[j].time, b[i].time)

\* While the loop runs, the segment starts at the last boundary that is to be cut at.
Started(c, r, b, n, p) ==
    /\ p.previous = IF n = 0 THEN c.current ELSE b[n].time
    /\ ~ Ahead(c.direction, p.start, c.current) /\ ~ Ahead(c.direction, c.current + r, p.start)
    /\ ~ Ahead(c.direction, p.previous, p.start)
    /\ \A i \in 1..n : /\ Inside(c, c.current + r, b[i].time) =>
                              ~ Ahead(c.direction, p.start, b[i].time)
                       /\ b[i].end => b[i].time # c.current /\ ~ Inside(c, c.current + r, b[i].time)

\* The steps are a chain from the clock to the segment start.
Chained(c, p) ==
    LET s == p.steps
    IN  /\ p.start = IF s = <<>> THEN c.current ELSE s[Len(s)].to
        /\ \A k \in 1..Len(s) :
              /\ s[k].from = IF k = 1 THEN c.current ELSE s[k - 1].to
              /\ Ahead(c.direction, s[k].from, s[k].to)
              /\ ~ Ahead(c.direction, s[k].from, c.current) /\ ~ Ahead(c.direction, p.start, s[k].to)

\* No boundary lies strictly inside a step, or is to be cut at before the first step ends.
Uncrossed(c, r, b, n, p) ==
    LET s == p.steps
    IN  \A i \in 1..n :
           /\ \A k \in 1..Len(s) : ~ (/\ Ahead(c.direction, s[k].from, b[i].time)
                                     /\ Ahead(c.direction, b[i].time, s[k].to))
           /\ s # <<>> /\ Inside(c, c.current + r, b[i].time) =>
                 ~ Ahead(c.direction, b[i].time, s[1].to)

\* A step ends where a boundary that is to be cut at lies, or at the end of the request.
Stops(c, r, b, n, p) ==
    \A k \in 1..Len(p.steps) :
        \/ p.steps[k].to = c.current + r
        \/ \E i \in 1..n : b[i].time = p.steps[k].to /\ Inside(c, c.current + r, b[i].time)

\* A finished plan has seen the whole list and covers the request, or has stopped at an end.
Finished(c, r, b, n, p) ==
    \/ /\ n = Len(b) /\ p.start = c.current + r
       /\ \A i \in 1..n : b[i].end =>
             b[i].time # c.current /\ ~ Inside(c, c.current + r, b[i].time)
    \/ /\ n > 0 /\ b[n].end /\ p.start = b[n].time
       /\ ~ Ahead(c.direction, c.current + r, p.start)

Looping(c, r, b, n, p) ==
    /\ n \in 0..Len(b)
    /\ p \in [previous : Instants, start : Instants,
              steps : Seq([from : Instants, to : Instants]), verdict : Verdicts]
    /\ ~ Going(c, r) => n = 0 /\ p.steps = <<>> /\ p.start = c.current
                        /\ p.verdict \in {"planned", "direction_mismatch", "overflow"}
                        /\ (p.verdict = "planned" => r = 0)
    /\ Going(c, r) =>
          /\ p.verdict \in {"scanning", "planned", "unordered"}
          /\ Chained(c, p) /\ Stops(c, r, b, n, p)
          /\ p.verdict # "unordered" => Ordered(c, b, n) /\ Uncrossed(c, r, b, n, p)
          /\ p.verdict = "scanning" => Started(c, r, b, n, p)
          /\ p.verdict = "planned" => Finished(c, r, b, n, p)
          /\ p.verdict = "unordered" =>
                n > 0 /\ Ordered(c, b, n - 1)
                /\ Ahead(c.direction, b[n].time, IF n = 1 THEN c.current ELSE b[n - 1].time)

\* What the runner collects: what the request reaches, in order, and one end.
Collected(c, r, b, e) ==
    /\ Going(c, r) /\ ~ Ahead(c.direction, e.end, c.current) /\ e.times \subseteq Instants
    /\ Ordered(c, b, Len(b))
    /\ \A i \in 1..Len(b) : \/ b[i].end /\ b[i].time = e.end
                            \/ ~ b[i].end /\ b[i].time \in e.times
                               /\ Inside(c, c.current + r, b[i].time)
    /\ \E i \in 1..Len(b) : b[i].end
    /\ \A t \in e.times : Inside(c, c.current + r, t) => \E i \in 1..Len(b) : b[i].time = t

PlannerInv ==
    /\ Arguments(clock, requested, boundaries)
    /\ Looping(clock, requested, boundaries, next, pass)
    /\ events.collected => Collected(clock, requested, boundaries, events)

-----------------------------------------------------------------------------
(* Segments.                                                               *)

Segments == [from : Instants, to : Instants]
Locals == [previous : Instants, start : Instants, steps : Seq(Segments), verdict : Verdicts]

\* What cutting at a time does to the locals.
LEMMA CutIs ==
    ASSUME NEW p \in Locals, NEW time \in Instants
    PROVE  /\ CutAt(p, time) \in Locals
           /\ CutAt(p, time).previous = p.previous /\ CutAt(p, time).verdict = p.verdict
           /\ CutAt(p, time).start = time
           /\ time = p.start => CutAt(p, time).steps = p.steps
           /\ time # p.start => CutAt(p, time).steps = Append(p.steps, Segment(p.start, time))
PROOF
  <1>1. CASE time = p.start
    BY <1>1 DEF CutAt
  <1>2. CASE time # p.start
    <2>. PICK s : s = Append(p.steps, Segment(p.start, time))
      OBVIOUS
    <2>1. Segment(p.start, time) \in Segments /\ p.steps \in Seq(Segments)
      BY DEF Segment, Segments, Locals
    <2>2. s \in Seq(Segments)
      BY <2>1
    <2>3. CutAt(p, time) = [p EXCEPT !.steps = s, !.start = time]
      BY <1>2 DEF CutAt
    <2>4. p = [previous |-> p.previous, start |-> p.start, steps |-> p.steps, verdict |-> p.verdict]
      BY DEF Locals
    <2>5. CutAt(p, time) = [previous |-> p.previous, start |-> time, steps |-> s,
                            verdict |-> p.verdict]
      BY <2>3, <2>4
    <2>. QED BY <1>2, <2>2, <2>5 DEF Locals
  <1>. QED BY <1>1, <1>2

\* v is s with one more segment, from x to t.
Extends(v, s, x, t) ==
    /\ v \in Seq(Segments) /\ v # <<>> /\ Len(v) = Len(s) + 1 /\ Len(s) \in Nat
    /\ v[Len(v)].from = x /\ v[Len(v)].to = t
    /\ \A k \in 1..Len(s) : v[k] = s[k] /\ v[k].from \in Instants /\ v[k].to \in Instants
    /\ \A k \in 1..Len(v) : k = Len(v) \/ k \in 1..Len(s)
    /\ s = <<>> => v[1].to = t
    /\ s # <<>> => v[1] = s[1] /\ 1 \in 1..Len(s)

LEMMA OneMoreStep ==
    ASSUME NEW s \in Seq(Segments), NEW x \in Instants, NEW t \in Instants
    PROVE  Extends(Append(s, Segment(x, t)), s, x, t)
PROOF
  <1>. PICK v : v = Append(s, Segment(x, t))
    OBVIOUS
  <1>1. Segment(x, t) \in Segments /\ Segment(x, t).from = x /\ Segment(x, t).to = t
    BY DEF Segment, Segments
  <1>2. v \in Seq(Segments) /\ Len(v) = Len(s) + 1 /\ Len(s) \in Nat /\ v[Len(v)] = Segment(x, t)
        /\ \A k \in 1..Len(s) : v[k] = s[k]
    BY <1>1
  <1>3. \A k \in 1..Len(s) : s[k].from \in Instants /\ s[k].to \in Instants
    <2>1. \A k \in 1..Len(s) : s[k] \in Segments
      OBVIOUS
    <2>. QED BY <2>1 DEF Segments
  <1>4. v # <<>>
    BY <1>2
  <1>5. \A k \in 1..Len(v) : k = Len(v) \/ k \in 1..Len(s)
    BY <1>2
  <1>6. s = <<>> => v[1].to = t
    <2>. SUFFICES ASSUME s = <<>>
                  PROVE  v[1].to = t
      OBVIOUS
    <2>1. Len(v) = 1
      BY <1>2
    <2>. QED BY <1>1, <1>2, <2>1
  <1>7. s # <<>> => v[1] = s[1] /\ 1 \in 1..Len(s)
    <2>1. s # <<>> => 1 \in 1..Len(s)
      OBVIOUS
    <2>. QED BY <1>2, <2>1
  <1>8. Extends(v, s, x, t)
    BY <1>1, <1>2, <1>3, <1>4, <1>5, <1>6, <1>7 DEF Extends
  <1>. QED BY <1>8

-----------------------------------------------------------------------------
(* Cutting keeps what holds of the segments.                               *)

\* Ahead is a strict order of the integers.
LEMMA AheadOrder ==
    ASSUME NEW dir \in Directions
    PROVE  /\ \A x \in Int : ~ Ahead(dir, x, x)
           /\ \A x, y, z \in Int : Ahead(dir, x, y) /\ Ahead(dir, y, z) => Ahead(dir, x, z)
           /\ \A x, y, z \in Int : Ahead(dir, x, y) /\ ~ Ahead(dir, z, y) => Ahead(dir, x, z)
           /\ \A x, y, z \in Int : ~ Ahead(dir, y, x) /\ Ahead(dir, y, z) => Ahead(dir, x, z)
           /\ \A x, y, z \in Int : ~ Ahead(dir, x, y) /\ ~ Ahead(dir, y, z) => ~ Ahead(dir, x, z)
           /\ \A x, y \in Int : ~ Ahead(dir, x, y) /\ ~ Ahead(dir, y, x) => x = y
           /\ \A x, y \in Int : Ahead(dir, x, y) => ~ Ahead(dir, y, x)
PROOF
  <1>1. CASE dir = "Forward"
    BY <1>1 DEF Ahead
  <1>2. CASE dir # "Forward"
    BY <1>2 DEF Ahead
  <1>. QED BY <1>1, <1>2

LEMMA CutChained ==
    ASSUME NEW c \in [current : Instants, direction : Directions],
           NEW p \in Locals, NEW time \in Instants, Chained(c, p),
           ~ Ahead(c.direction, p.start, c.current), ~ Ahead(c.direction, time, p.start),
           NEW q \in Locals, q.start = CutAt(p, time).start, q.steps = CutAt(p, time).steps
    PROVE  Chained(c, q)
PROOF
  <1>. USE PlanAssumption
  <1>. PICK s, v : s = p.steps /\ v = q.steps
    OBVIOUS
  <1>0. q.start = time /\ s \in Seq(Segments) /\ p.start \in Instants /\ p.start \in Int
        /\ time \in Int /\ c.current \in Int /\ c.direction \in Directions
    BY CutIs DEF Locals
  <1>1. CASE time = p.start
    <2>1. q.start = p.start /\ q.steps = p.steps
      BY <1>0, <1>1, CutIs
    <2>. QED BY <2>1 DEF Chained
  <1>2. CASE time # p.start
    <2>1. v = Append(s, Segment(p.start, time))
      BY <1>2, CutIs
    <2>2. Ahead(c.direction, p.start, time)
      BY <1>0, <1>2, AheadOrder
    <2>3. /\ v \in Seq(Segments) /\ v # <<>> /\ Len(v) = Len(s) + 1 /\ Len(s) \in Nat
          /\ v[Len(v)].from = p.start /\ v[Len(v)].to = time
          /\ \A k \in 1..Len(s) : v[k] = s[k] /\ v[k].from \in Instants /\ v[k].to \in Instants
          /\ \A k \in 1..Len(v) : k = Len(v) \/ k \in 1..Len(s)
      <3>1. Extends(Append(s, Segment(p.start, time)), s, p.start, time)
        BY <1>0, OneMoreStep
      <3>. QED BY <2>1, <3>1 DEF Extends
    <2>4. \A k \in 1..Len(v) :
              /\ v[k].from = IF k = 1 THEN c.current ELSE v[k - 1].to
              /\ Ahead(c.direction, v[k].from, v[k].to)
              /\ ~ Ahead(c.direction, v[k].from, c.current) /\ ~ Ahead(c.direction, time, v[k].to)
      <3>. TAKE k \in 1..Len(v)
      <3>1. CASE k = Len(v)
        <4>1. v[k].from = p.start /\ v[k].to = time
          BY <2>3, <3>1
        <4>2. ~ Ahead(c.direction, time, time)
          BY <1>0, AheadOrder
        <4>3. v[k].from = IF k = 1 THEN c.current ELSE v[k - 1].to
          <5>1. CASE s = <<>>
            <6>1. k = 1 /\ p.start = c.current
              BY <2>3, <3>1, <5>1 DEF Chained
            <6>. QED BY <4>1, <6>1
          <5>2. CASE s # <<>>
            <6>1. k # 1 /\ k - 1 = Len(s) /\ Len(s) \in 1..Len(s)
              BY <2>3, <3>1, <5>2, <1>0
            <6>2. p.start = s[Len(s)].to
              BY <5>2 DEF Chained
            <6>. QED BY <2>3, <4>1, <6>1, <6>2
          <5>. QED BY <5>1, <5>2
        <4>. QED BY <2>2, <4>1, <4>2, <4>3
      <3>2. CASE k \in 1..Len(s)
        <4>1. v[k] = s[k] /\ v[k].to \in Int
          BY <2>3, <3>2
        <4>2. /\ s[k].from = IF k = 1 THEN c.current ELSE s[k - 1].to
              /\ Ahead(c.direction, s[k].from, s[k].to)
              /\ ~ Ahead(c.direction, s[k].from, c.current)
              /\ ~ Ahead(c.direction, p.start, s[k].to)
          BY <3>2 DEF Chained
        <4>3. k # 1 => k - 1 \in 1..Len(s) /\ v[k - 1] = s[k - 1]
          BY <2>3, <3>2
        <4>4. ~ Ahead(c.direction, time, v[k].to)
          BY <1>0, <4>1, <4>2, AheadOrder
        <4>. QED BY <4>1, <4>2, <4>3, <4>4
      <3>. QED BY <2>3, <3>1, <3>2
    <2>. QED BY <1>0, <2>3, <2>4 DEF Chained
  <1>. QED BY <1>1, <1>2

\* Nothing lies between the segment start and the place of the cut.
LEMMA CutUncrossed ==
    ASSUME NEW c \in [current : Instants, direction : Directions], NEW r \in Int,
           NEW b, NEW n \in Nat, \A i \in 1..n : b[i].time \in Instants,
           NEW p \in Locals, NEW time \in Instants,
           Uncrossed(c, r, b, n, p),
           \A i \in 1..n : ~ (/\ Ahead(c.direction, p.start, b[i].time)
                              /\ Ahead(c.direction, b[i].time, time)),
           p.steps = <<>> => \A i \in 1..n : Inside(c, c.current + r, b[i].time) =>
                                 ~ Ahead(c.direction, b[i].time, time),
           NEW q \in Locals, q.steps = CutAt(p, time).steps
    PROVE  Uncrossed(c, r, b, n, q)
PROOF
  <1>. USE PlanAssumption
  <1>. PICK s, v : s = p.steps /\ v = q.steps
    OBVIOUS
  <1>0. s \in Seq(Segments) /\ p.start \in Instants
    BY DEF Locals
  <1>1. CASE time = p.start
    <2>1. q.steps = p.steps
      BY <1>1, CutIs
    <2>. QED BY <2>1 DEF Uncrossed
  <1>2. CASE time # p.start
    <2>1. v = Append(s, Segment(p.start, time))
      BY <1>2, CutIs
    <2>2. Extends(v, s, p.start, time)
      BY <1>0, <2>1, OneMoreStep
    <2>. SUFFICES ASSUME NEW i \in 1..n
                  PROVE  /\ \A k \in 1..Len(v) :
                               ~ (/\ Ahead(c.direction, v[k].from, b[i].time)
                                  /\ Ahead(c.direction, b[i].time, v[k].to))
                         /\ v # <<>> /\ Inside(c, c.current + r, b[i].time) =>
                               ~ Ahead(c.direction, b[i].time, v[1].to)
      BY DEF Uncrossed
    <2>3. \A k \in 1..Len(v) : ~ (/\ Ahead(c.direction, v[k].from, b[i].time)
                                  /\ Ahead(c.direction, b[i].time, v[k].to))
      <3>. TAKE k \in 1..Len(v)
      <3>1. CASE k = Len(v)
        BY <2>2, <3>1 DEF Extends
      <3>2. CASE k \in 1..Len(s)
        <4>1. v[k] = s[k]
          BY <2>2, <3>2 DEF Extends
        <4>. QED BY <3>2, <4>1 DEF Uncrossed
      <3>. QED BY <2>2, <3>1, <3>2 DEF Extends
    <2>4. Inside(c, c.current + r, b[i].time) => ~ Ahead(c.direction, b[i].time, v[1].to)
      <3>1. CASE s = <<>>
        BY <2>2, <3>1 DEF Extends
      <3>2. CASE s # <<>>
        <4>1. v[1] = s[1]
          BY <2>2, <3>2 DEF Extends
        <4>. QED BY <3>2, <4>1 DEF Uncrossed
      <3>. QED BY <3>1, <3>2
    <2>. QED BY <2>3, <2>4
  <1>. QED BY <1>1, <1>2

\* The new segment ends where a boundary is, or at the end of the request.
LEMMA CutStops ==
    ASSUME NEW c, NEW r, NEW b, NEW n,
           NEW p \in Locals, NEW time \in Instants, Stops(c, r, b, n, p),
           \/ time = c.current + r
           \/ \E i \in 1..n : b[i].time = time /\ Inside(c, c.current + r, b[i].time),
           NEW q \in Locals, q.steps = CutAt(p, time).steps
    PROVE  Stops(c, r, b, n, q)
PROOF
  <1>. PICK s, v : s = p.steps /\ v = q.steps
    OBVIOUS
  <1>0. s \in Seq(Segments) /\ p.start \in Instants
    BY DEF Locals
  <1>1. CASE time = p.start
    <2>1. q.steps = p.steps
      BY <1>1, CutIs
    <2>. QED BY <2>1 DEF Stops
  <1>2. CASE time # p.start
    <2>1. v = Append(s, Segment(p.start, time))
      BY <1>2, CutIs
    <2>2. Extends(v, s, p.start, time)
      BY <1>0, <2>1, OneMoreStep
    <2>3. ASSUME NEW k \in 1..Len(v)
          PROVE  \/ v[k].to = c.current + r
                 \/ \E i \in 1..n : b[i].time = v[k].to /\ Inside(c, c.current + r, b[i].time)
      <3>1. CASE k = Len(v)
        <4>1. v[k].to = time
          BY <2>2, <3>1 DEF Extends
        <4>. QED BY <4>1
      <3>2. CASE k \in 1..Len(s)
        <4>1. v[k] = s[k]
          BY <2>2, <3>2 DEF Extends
        <4>. QED BY <3>2, <4>1 DEF Stops
      <3>. QED BY <2>2, <3>1, <3>2 DEF Extends
    <2>. QED BY <2>3 DEF Stops
  <1>. QED BY <1>1, <1>2

-----------------------------------------------------------------------------
(* The loop.                                                               *)

LEMMA ArgumentTypes ==
    ASSUME NEW c, NEW r, NEW b, Arguments(c, r, b)
    PROVE  /\ c \in [current : Instants, direction : Directions]
           /\ c.current \in Instants /\ c.current \in Int /\ c.direction \in Directions
           /\ r \in Int /\ Len(b) \in Nat /\ 0 \in 0..Len(b)
           /\ \A i \in 1..Len(b) : /\ b[i].time \in Instants /\ b[i].time \in Int
                                   /\ b[i].end \in BOOLEAN
PROOF
  <1>1. c \in [current : Instants, direction : Directions] /\ r \in Int /\ Len(b) \in Nat
    BY DEF Arguments
  <1>2. c.current \in Instants /\ c.direction \in Directions
    BY <1>1
  <1>3. \A i \in 1..Len(b) : b[i] \in Boundaries
    BY DEF Arguments
  <1>4. \A i \in 1..Len(b) : b[i].time \in Instants /\ b[i].end \in BOOLEAN
    BY <1>3 DEF Boundaries
  <1>5. Instants \subseteq Int
    BY PlanAssumption
  <1>6. 0 \in 0..Len(b)
    BY <1>1
  <1>. QED BY <1>1, <1>2, <1>4, <1>5, <1>6

LEMMA StartLooping ==
    ASSUME NEW c, NEW r, NEW b, Arguments(c, r, b)
    PROVE  Looping(c, r, b, 0, StartPlan(c, r))
PROOF
  <1>. USE PlanAssumption
  <1>. PICK p : p = StartPlan(c, r)
    OBVIOUS
  <1>1. /\ p.previous = c.current /\ p.start = c.current /\ p.steps = <<>>
        /\ p.verdict = IF r = 0 THEN "planned"
                       ELSE IF ~ Ahead(c.direction, 0, r) THEN "direction_mismatch"
                       ELSE IF c.current + r \notin Instants THEN "overflow"
                       ELSE "scanning"
    BY DEF StartPlan
  <1>2. c.current \in Instants /\ c.current \in Int /\ c.direction \in Directions /\ r \in Int
        /\ 0 \in 0..Len(b)
    BY ArgumentTypes
  <1>3. p \in [previous : Instants, start : Instants,
               steps : Seq([from : Instants, to : Instants]), verdict : Verdicts]
    <2>1. <<>> \in Seq([from : Instants, to : Instants])
      OBVIOUS
    <2>. PICK w : w = p.verdict
      OBVIOUS
    <2>2. w \in Verdicts
      BY <1>1 DEF Verdicts
    <2>3. p = [previous |-> c.current, start |-> c.current, steps |-> <<>>, verdict |-> w]
      BY <1>1 DEF StartPlan
    <2>. QED BY <1>2, <2>1, <2>2, <2>3
  <1>4. Going(c, r) <=> p.verdict = "scanning"
    BY <1>1, <1>2, AheadOrder DEF Going
  <1>5. ~ Going(c, r) => p.verdict \in {"planned", "direction_mismatch", "overflow"}
                         /\ (p.verdict = "planned" => r = 0)
    BY <1>1, <1>4
  <1>6. Going(c, r) => /\ Chained(c, p) /\ Stops(c, r, b, 0, p) /\ Ordered(c, b, 0)
                       /\ Uncrossed(c, r, b, 0, p)
    BY <1>1 DEF Chained, Stops, Ordered, Uncrossed
  <1>7. Going(c, r) => Started(c, r, b, 0, p)
    <2>2. ~ Ahead(c.direction, c.current, c.current)
      BY <1>2, AheadOrder
    <2>3. Ahead(c.direction, 0, r) => ~ Ahead(c.direction, c.current + r, c.current)
      BY <1>2 DEF Ahead, Directions
    <2>. QED BY <1>1, <2>2, <2>3 DEF Going, Started
  <1>8. Looping(c, r, b, 0, p)
    BY <1>1, <1>2, <1>3, <1>4, <1>5, <1>6, <1>7 DEF Looping
  <1>. QED BY <1>8

\* What holds while the loop runs.
LEMMA Scanning ==
    ASSUME NEW c, NEW r, NEW b, NEW n, NEW p, Arguments(c, r, b), Looping(c, r, b, n, p),
           p.verdict = "scanning"
    PROVE  /\ n \in Nat /\ n <= Len(b) /\ \A i \in 1..n : i \in 1..Len(b)
           /\ p \in Locals /\ p.start \in Int /\ p.previous \in Int
           /\ Going(c, r) /\ c.current + r \in Instants /\ c.current + r \in Int
           /\ Chained(c, p) /\ Stops(c, r, b, n, p) /\ Ordered(c, b, n)
           /\ Uncrossed(c, r, b, n, p) /\ Started(c, r, b, n, p)
           /\ \A k \in 1..Len(p.steps) : p.steps[k].from \in Int /\ p.steps[k].to \in Int
PROOF
  <1>1. Going(c, r)
    BY DEF Looping
  <1>2. p \in Locals
    BY DEF Looping, Locals, Segments
  <1>3. p.start \in Int /\ p.previous \in Int /\ p.steps \in Seq(Segments)
    BY <1>2, PlanAssumption DEF Locals
  <1>4. n \in 0..Len(b) /\ Len(b) \in Nat
    BY ArgumentTypes DEF Looping
  <1>5. n \in Nat /\ n <= Len(b) /\ \A i \in 1..n : i \in 1..Len(b)
    BY <1>4
  <1>6. c.current + r \in Instants /\ c.current + r \in Int
    BY <1>1, PlanAssumption DEF Going
  <1>7. \A k \in 1..Len(p.steps) : p.steps[k].from \in Int /\ p.steps[k].to \in Int
    <2>1. \A k \in 1..Len(p.steps) : p.steps[k] \in Segments
      BY <1>3
    <2>. QED BY <2>1, PlanAssumption DEF Segments
  <1>. QED BY <1>1, <1>2, <1>3, <1>5, <1>6, <1>7 DEF Looping

\* One more boundary in order.
LEMMA OrderedMore ==
    ASSUME NEW c, NEW r, NEW b, NEW n \in Nat, Arguments(c, r, b), n < Len(b), Ordered(c, b, n),
           NEW x, x = IF n = 0 THEN c.current ELSE b[n].time,
           ~ Ahead(c.direction, b[n + 1].time, x)
    PROVE  Ordered(c, b, n + 1)
PROOF
  <1>. PICK dir, t : dir = c.direction /\ t = b[n + 1].time
    OBVIOUS
  <1>1. /\ c.current \in Int /\ dir \in Directions
        /\ \A i \in 1..Len(b) : b[i].time \in Int
    BY ArgumentTypes
  <1>2. n + 1 \in 1..Len(b) /\ t \in Int
        /\ (\A i \in 1..n : i \in 1..Len(b))
        /\ (\A i \in 1..n + 1 : i = n + 1 \/ i \in 1..n)
    <2>1. Len(b) \in Nat
      BY ArgumentTypes
    <2>2. n + 1 \in 1..Len(b)
      BY <2>1
    <2>. QED BY <1>1, <2>1, <2>2
  <1>3. ~ Ahead(dir, x, c.current) /\ x \in Int
        /\ \A i \in 1..n : ~ Ahead(dir, x, b[i].time)
    <2>1. CASE n = 0
      BY <1>1, <2>1, AheadOrder
    <2>2. CASE n # 0
      <3>1. n \in 1..n /\ x = b[n].time
        BY <2>2
      <3>2. \A i \in 1..n : i < n \/ i = n
        OBVIOUS
      <3>3. ~ Ahead(dir, x, x) /\ x \in Int
        BY <1>1, <1>2, <3>1, AheadOrder
      <3>. QED BY <3>1, <3>2, <3>3 DEF Ordered
    <2>. QED BY <2>1, <2>2
  <1>4. ~ Ahead(dir, t, c.current) /\ \A i \in 1..n : ~ Ahead(dir, t, b[i].time)
    <2>1. ~ Ahead(dir, t, c.current)
      BY <1>1, <1>2, <1>3, AheadOrder
    <2>2. ASSUME NEW i \in 1..n
          PROVE  ~ Ahead(dir, t, b[i].time)
      <3>1. b[i].time \in Int /\ ~ Ahead(dir, x, b[i].time)
        BY <1>1, <1>2, <1>3
      <3>. QED BY <1>1, <1>2, <1>3, <3>1, AheadOrder
    <2>. QED BY <2>1, <2>2
  <1>5. ASSUME NEW i \in 1..n + 1
        PROVE  ~ Ahead(dir, b[i].time, c.current)
    BY <1>2, <1>4 DEF Ordered
  <1>6. ASSUME NEW i \in 1..n + 1, NEW j \in 1..n + 1, i < j
        PROVE  ~ Ahead(dir, b[j].time, b[i].time)
    <2>1. i \in 1..n
      BY <1>6
    <2>2. j = n + 1 \/ j \in 1..n
      BY <1>2
    <2>. QED BY <1>4, <1>6, <2>1, <2>2 DEF Ordered
  <1>. QED BY <1>5, <1>6 DEF Ordered

\* Stops, Chained and Uncrossed look at the segments alone.
LEMMA StopsMore ==
    ASSUME NEW c, NEW r, NEW b, NEW n \in Nat, NEW p, NEW q, Stops(c, r, b, n, p),
           q.steps = p.steps
    PROVE  Stops(c, r, b, n + 1, q)
PROOF
  <1>1. \A i \in 1..n : i \in 1..n + 1
    OBVIOUS
  <1>. QED BY <1>1 DEF Stops

LEMMA UncrossedMore ==
    ASSUME NEW c, NEW r, NEW b, NEW n \in Nat, NEW p, NEW q, Uncrossed(c, r, b, n, p),
           q.steps = p.steps,
           \A k \in 1..Len(p.steps) : ~ (/\ Ahead(c.direction, p.steps[k].from, b[n + 1].time)
                                         /\ Ahead(c.direction, b[n + 1].time, p.steps[k].to)),
           p.steps # <<>> /\ Inside(c, c.current + r, b[n + 1].time) =>
               ~ Ahead(c.direction, b[n + 1].time, p.steps[1].to)
    PROVE  Uncrossed(c, r, b, n + 1, q)
PROOF
  <1>1. \A i \in 1..n + 1 : i \in 1..n \/ i = n + 1
    OBVIOUS
  <1>. QED BY <1>1 DEF Uncrossed

\* The locals with another previous boundary, and with another verdict.
Passed(q, p, t) ==
    /\ q \in Locals /\ q.start = p.start /\ q.steps = p.steps
    /\ q.previous = t /\ q.verdict = p.verdict

Judged(q, p, w) ==
    /\ q \in Locals /\ q.start = p.start /\ q.steps = p.steps
    /\ q.previous = p.previous /\ q.verdict = w

LEMMA PassedIs ==
    ASSUME NEW p \in Locals, NEW t \in Instants
    PROVE  Passed([p EXCEPT !.previous = t], p, t)
PROOF
  <1>1. [p EXCEPT !.previous = t] =
            [previous |-> t, start |-> p.start, steps |-> p.steps, verdict |-> p.verdict]
    BY DEF Locals
  <1>2. p.start \in Instants /\ p.steps \in Seq(Segments) /\ p.verdict \in Verdicts
    BY DEF Locals
  <1>. QED BY <1>1, <1>2 DEF Locals, Passed

LEMMA JudgedIs ==
    ASSUME NEW p \in Locals, NEW w \in Verdicts
    PROVE  Judged([p EXCEPT !.verdict = w], p, w)
PROOF
  <1>1. [p EXCEPT !.verdict = w] =
            [previous |-> p.previous, start |-> p.start, steps |-> p.steps, verdict |-> w]
    BY DEF Locals
  <1>2. p.start \in Instants /\ p.steps \in Seq(Segments) /\ p.previous \in Instants
    BY DEF Locals
  <1>. QED BY <1>1, <1>2 DEF Locals, Judged

\* Looping of a loop that goes on, as it is established.
LEMMA LoopingIs ==
    ASSUME NEW c, NEW r, NEW b, NEW n \in Nat, Len(b) \in Nat, n <= Len(b), Going(c, r),
           NEW q \in Locals,
           Chained(c, q), Stops(c, r, b, n, q),
           \/ q.verdict = "scanning" /\ Ordered(c, b, n) /\ Uncrossed(c, r, b, n, q)
              /\ Started(c, r, b, n, q)
           \/ q.verdict = "planned" /\ Ordered(c, b, n) /\ Uncrossed(c, r, b, n, q)
              /\ Finished(c, r, b, n, q)
           \/ q.verdict = "unordered" /\ n > 0 /\ Ordered(c, b, n - 1)
              /\ Ahead(c.direction, b[n].time, IF n = 1 THEN c.current ELSE b[n - 1].time)
    PROVE  Looping(c, r, b, n, q)
PROOF
  <1>1. n \in 0..Len(b)
    OBVIOUS
  <1>2. q \in [previous : Instants, start : Instants,
               steps : Seq([from : Instants, to : Instants]), verdict : Verdicts]
    BY DEF Locals, Segments
  <1>. QED BY <1>1, <1>2 DEF Looping

\* Every boundary considered so far that is to be cut at is behind the segment start.
LEMMA NothingAhead ==
    ASSUME NEW c, NEW r, NEW b, NEW n, NEW p, Arguments(c, r, b), Looping(c, r, b, n, p),
           p.verdict = "scanning", NEW t \in Int, ~ Ahead(c.direction, c.current + r, t),
           NEW i \in 1..n
    PROVE  ~ (Ahead(c.direction, p.start, b[i].time) /\ Ahead(c.direction, b[i].time, t))
PROOF
  <1>. PICK dir, x, u, y, T : /\ dir = c.direction /\ x = p.start /\ u = b[i].time
                              /\ y = c.current /\ T = c.current + r
    OBVIOUS
  <1>1. /\ dir \in Directions /\ x \in Int /\ u \in Int /\ y \in Int /\ T \in Int
        /\ ~ Ahead(dir, x, y) /\ ~ Ahead(dir, T, t)
        /\ Inside(c, T, u) => ~ Ahead(dir, x, u)
    BY ArgumentTypes, Scanning DEF Started
  <1>2. Ahead(dir, x, u) /\ Ahead(dir, u, t) => Ahead(dir, y, u) /\ ~ Ahead(dir, T, u)
    BY <1>1 DEF Ahead, Directions
  <1>. QED BY <1>1, <1>2 DEF Inside

LEMMA ConsiderLooping ==
    ASSUME NEW c, NEW r, NEW b, NEW n, NEW p, Arguments(c, r, b), Looping(c, r, b, n, p),
           p.verdict = "scanning", n < Len(b)
    PROVE  Looping(c, r, b, n + 1, Consider(p, c, c.current + r, b[n + 1]))
PROOF
  <1>. PICK dir, now, T, t, e, x : /\ dir = c.direction /\ now = c.current /\ T = c.current + r
                                   /\ t = b[n + 1].time /\ e = b[n + 1].end /\ x = p.start
    OBVIOUS
  <1>. PICK q : q = [p EXCEPT !.previous = t]
    OBVIOUS
  <1>. PICK res : res = Consider(p, c, T, b[n + 1])
    OBVIOUS
  <1>1. /\ n \in Nat /\ Len(b) \in Nat /\ n + 1 \in Nat /\ n + 1 <= Len(b) /\ n + 1 \in 1..Len(b)
        /\ p \in Locals /\ x \in Int /\ x \in Instants /\ p.previous \in Int
        /\ Going(c, r) /\ T \in Instants /\ T \in Int
        /\ Chained(c, p) /\ Stops(c, r, b, n, p) /\ Ordered(c, b, n)
        /\ Uncrossed(c, r, b, n, p) /\ Started(c, r, b, n, p)
        /\ \A k \in 1..Len(p.steps) : p.steps[k].from \in Int /\ p.steps[k].to \in Int
    <2>1. Len(b) \in Nat
      BY ArgumentTypes
    <2>2. n \in Nat /\ n + 1 \in Nat /\ n + 1 <= Len(b) /\ n + 1 \in 1..Len(b)
      BY <2>1, Scanning
    <2>3. x \in Instants
      BY Scanning DEF Locals
    <2>. QED BY <2>1, <2>2, <2>3, Scanning
  <1>2. /\ dir \in Directions /\ now \in Int /\ r \in Int /\ t \in Int /\ t \in Instants /\ e \in BOOLEAN
        /\ c \in [current : Instants, direction : Directions]
        /\ \A i \in 1..Len(b) : b[i].time \in Int
    BY <1>1, ArgumentTypes
  <1>3. /\ q \in Locals /\ q.start = x /\ q.steps = p.steps /\ q.previous = t
        /\ q.verdict = "scanning"
    <2>1. Passed([p EXCEPT !.previous = t], p, t)
      BY <1>1, <1>2, PassedIs
    <2>. QED BY <2>1 DEF Passed
  <1>4. Chained(c, q)
    BY <1>1, <1>3 DEF Chained
  <1>5. Stops(c, r, b, n + 1, q)
    BY <1>1, <1>3, StopsMore
  <1>6. CASE Ahead(dir, t, p.previous)
    <2>1. res = [p EXCEPT !.verdict = "unordered"]
      BY <1>6 DEF Consider
    <2>2. res \in Locals /\ res.start = x /\ res.steps = p.steps /\ res.verdict = "unordered"
      <3>1. Judged([p EXCEPT !.verdict = "unordered"], p, "unordered")
        BY <1>1, JudgedIs DEF Verdicts
      <3>. QED BY <2>1, <3>1 DEF Judged
    <2>3. Chained(c, res) /\ Stops(c, r, b, n + 1, res)
      BY <1>1, <2>2, StopsMore DEF Chained
    <2>4. n + 1 > 0 /\ (n + 1) - 1 = n /\ (n + 1 = 1 <=> n = 0)
      BY <1>1
    <2>5. Ahead(dir, t, IF n + 1 = 1 THEN c.current ELSE b[(n + 1) - 1].time)
      BY <1>1, <1>6, <2>4 DEF Started
    <2>. QED BY <1>1, <2>2, <2>3, <2>4, <2>5, LoopingIs
  <1>7. CASE ~ Ahead(dir, t, p.previous)
    <2>1. Ordered(c, b, n + 1)
      BY <1>1, <1>7, OrderedMore DEF Started
    <2>2. /\ ~ Ahead(dir, x, now) /\ ~ Ahead(dir, T, x) /\ ~ Ahead(dir, t, x)
          /\ ~ Ahead(dir, t, now)
      <3>1. ~ Ahead(dir, x, now) /\ ~ Ahead(dir, T, x) /\ ~ Ahead(dir, p.previous, x)
        BY <1>1 DEF Started
      <3>. QED BY <1>1, <1>2, <1>7, <3>1, AheadOrder
    <2>3. ASSUME NEW k \in 1..Len(p.steps)
          PROVE  ~ (Ahead(dir, p.steps[k].from, t) /\ Ahead(dir, t, p.steps[k].to))
      <3>1. p.steps[k].to \in Int /\ ~ Ahead(dir, x, p.steps[k].to)
        BY <1>1 DEF Chained
      <3>. QED BY <1>1, <1>2, <2>2, <3>1, AheadOrder
    <2>4. p.steps # <<>> => ~ Ahead(dir, t, p.steps[1].to)
      <3>. SUFFICES ASSUME p.steps # <<>>
                    PROVE  ~ Ahead(dir, t, p.steps[1].to)
        OBVIOUS
      <3>1. 1 \in 1..Len(p.steps)
        BY <1>1 DEF Locals
      <3>2. p.steps[1].to \in Int /\ ~ Ahead(dir, x, p.steps[1].to)
        BY <1>1, <3>1 DEF Chained
      <3>. QED BY <1>1, <1>2, <2>2, <3>2, AheadOrder
    <2>5. CASE e /\ t = now
      <3>1. res = [q EXCEPT !.verdict = "planned"]
        BY <1>7, <2>5 DEF Consider
      <3>2. /\ res \in Locals /\ res.start = x /\ res.steps = p.steps
            /\ res.verdict = "planned"
        <4>1. Judged([q EXCEPT !.verdict = "planned"], q, "planned")
          BY <1>3, JudgedIs DEF Verdicts
        <4>. QED BY <1>3, <3>1, <4>1 DEF Judged
      <3>3. Chained(c, res) /\ Stops(c, r, b, n + 1, res)
        BY <1>1, <3>2, StopsMore DEF Chained
      <3>4. Uncrossed(c, r, b, n + 1, res)
        BY <1>1, <2>3, <2>4, <3>2, UncrossedMore
      <3>5. x = t
        BY <1>1, <1>2, <2>2, <2>5, AheadOrder
      <3>6. Finished(c, r, b, n + 1, res)
        BY <1>1, <2>2, <2>5, <3>2, <3>5 DEF Finished
      <3>. QED BY <1>1, <2>1, <3>2, <3>3, <3>4, <3>6, LoopingIs
    <2>6. CASE ~ (e /\ t = now) /\ ~ Inside(c, T, t)
      <3>1. res = q
        BY <1>7, <2>6 DEF Consider
      <3>2. Uncrossed(c, r, b, n + 1, q)
        BY <1>1, <1>3, <2>3, <2>4, UncrossedMore
      <3>3. ASSUME NEW i \in 1..n + 1
            PROVE  /\ Inside(c, T, b[i].time) => ~ Ahead(dir, q.start, b[i].time)
                   /\ b[i].end => b[i].time # now /\ ~ Inside(c, T, b[i].time)
        <4>1. i \in 1..n \/ i = n + 1
          BY <1>1
        <4>. QED BY <1>1, <1>3, <2>6, <4>1 DEF Started
      <3>4. Started(c, r, b, n + 1, q)
        <4>1. n + 1 # 0
          BY <1>1
        <4>. QED BY <1>3, <2>2, <3>3, <4>1 DEF Started
      <3>. QED BY <1>1, <1>3, <1>4, <1>5, <2>1, <3>1, <3>2, <3>4, LoopingIs
    <2>7. CASE ~ (e /\ t = now) /\ Inside(c, T, t)
      <3>. PICK v : v = IF e THEN "planned" ELSE "scanning"
        OBVIOUS
      <3>. PICK cut : cut = CutAt(q, t)
        OBVIOUS
      <3>1. res = [cut EXCEPT !.verdict = v]
        BY <1>7, <2>7 DEF Consider
      <3>2. cut \in Locals /\ cut.start = t /\ cut.previous = t /\ v \in Verdicts
        BY <1>2, <1>3, CutIs DEF Verdicts
      <3>3. /\ res \in Locals /\ res.start = t /\ res.previous = t /\ res.verdict = v
            /\ res.steps = CutAt(q, t).steps /\ res.start = CutAt(q, t).start
        <4>1. Judged([cut EXCEPT !.verdict = v], cut, v)
          BY <3>2, JudgedIs
        <4>. QED BY <3>1, <3>2, <4>1 DEF Judged
      <3>4. Chained(c, res)
        BY <1>2, <1>3, <1>4, <2>2, <3>3, CutChained
      <3>5. Stops(c, r, b, n + 1, res)
        <4>1. n + 1 \in 1..n + 1
          BY <1>1
        <4>2. \E i \in 1..n + 1 : b[i].time = t /\ Inside(c, c.current + r, b[i].time)
          BY <2>7, <4>1
        <4>. QED BY <4>2, <1>2, <1>3, <1>5, <2>7, <3>3, <4>1, CutStops
      <3>6. Uncrossed(c, r, b, n + 1, res)
        <4>1. Uncrossed(c, r, b, n + 1, q)
          BY <1>1, <1>3, <2>3, <2>4, UncrossedMore
        <4>2. ASSUME NEW i \in 1..n + 1
              PROVE  /\ b[i].time \in Instants
                     /\ ~ (Ahead(dir, q.start, b[i].time) /\ Ahead(dir, b[i].time, t))
          <5>0. i \in 1..Len(b) /\ (i \in 1..n \/ i = n + 1)
            BY <1>1
          <5>1. CASE i \in 1..n
            <6>1. ~ Ahead(dir, T, t)
              BY <2>7 DEF Inside
            <6>. QED BY <1>1, <1>2, <1>3, <5>0, <5>1, <6>1, NothingAhead, ArgumentTypes
          <5>2. CASE i = n + 1
            BY <1>2, <5>2, AheadOrder
          <5>. QED BY <5>0, <5>1, <5>2
        <4>3. q.steps = <<>> => \A i \in 1..n + 1 : Inside(c, T, b[i].time) =>
                                    ~ Ahead(dir, b[i].time, t)
          <5>. SUFFICES ASSUME q.steps = <<>>, NEW i \in 1..n + 1, Inside(c, T, b[i].time)
                        PROVE  ~ Ahead(dir, b[i].time, t)
            OBVIOUS
          <5>1. q.start = now
            BY <1>4 DEF Chained
          <5>. QED BY <4>2, <5>1 DEF Inside
        <4>. QED BY <1>1, <1>2, <1>3, <3>3, <4>1, <4>2, <4>3, CutUncrossed
      <3>7. CASE e
        <4>1. ~ Ahead(dir, T, t)
          BY <2>7 DEF Inside
        <4>2. Finished(c, r, b, n + 1, res)
          BY <1>1, <3>3, <3>7, <4>1 DEF Finished
        <4>3. res.verdict = "planned"
          BY <3>3, <3>7
        <4>. QED BY <1>1, <2>1, <3>3, <3>4, <3>5, <3>6, <4>2, <4>3, LoopingIs
      <3>8. CASE ~ e
        <4>1. ~ Ahead(dir, T, t) /\ ~ Ahead(dir, t, t)
          BY <1>2, <2>7, AheadOrder DEF Inside
        <4>2. ASSUME NEW i \in 1..n + 1
              PROVE  /\ ~ Ahead(dir, t, b[i].time)
                     /\ b[i].end => b[i].time # now /\ ~ Inside(c, T, b[i].time)
          <5>1. CASE i \in 1..n
            <6>1. i < n + 1 /\ n + 1 \in 1..n + 1
              BY <1>1, <5>1
            <6>2. ~ Ahead(dir, t, b[i].time)
              BY <2>1, <6>1 DEF Ordered
            <6>. QED BY <1>1, <5>1, <6>2 DEF Started
          <5>2. CASE i = n + 1
            BY <3>8, <4>1, <5>2
          <5>. QED BY <1>1, <5>1, <5>2
        <4>3. Started(c, r, b, n + 1, res)
          <5>1. n + 1 # 0
            BY <1>1
          <5>. QED BY <2>2, <3>3, <4>1, <4>2, <5>1 DEF Started
        <4>4. res.verdict = "scanning"
          BY <3>3, <3>8
        <4>. QED BY <1>1, <2>1, <3>3, <3>4, <3>5, <3>6, <4>3, <4>4, LoopingIs
      <3>. QED BY <3>7, <3>8
    <2>. QED BY <2>5, <2>6, <2>7
  <1>. QED BY <1>6, <1>7

LEMMA RemainderLooping ==
    ASSUME NEW c, NEW r, NEW b, NEW n, NEW p, Arguments(c, r, b), Looping(c, r, b, n, p),
           p.verdict = "scanning", n = Len(b)
    PROVE  Looping(c, r, b, n, Remainder(p, c.current + r))
PROOF
  <1>. PICK dir, now, T, cut, res :
            /\ dir = c.direction /\ now = c.current /\ T = c.current + r
            /\ cut = CutAt(p, T) /\ res = Remainder(p, T)
    OBVIOUS
  <1>1. /\ n \in Nat /\ p \in Locals /\ p.start \in Int
        /\ Going(c, r) /\ T \in Instants /\ T \in Int
        /\ Chained(c, p) /\ Stops(c, r, b, n, p) /\ Ordered(c, b, n)
        /\ Uncrossed(c, r, b, n, p) /\ Started(c, r, b, n, p)
    BY Scanning
  <1>2. /\ dir \in Directions /\ now \in Int /\ r \in Int
        /\ c \in [current : Instants, direction : Directions]
        /\ \A i \in 1..n : b[i].time \in Instants
    BY ArgumentTypes
  <1>3. cut \in Locals /\ cut.start = T
    BY <1>1, CutIs
  <1>4. res = [cut EXCEPT !.verdict = "planned"]
    BY DEF Remainder
  <1>5. /\ res \in Locals /\ res.start = T /\ res.verdict = "planned"
        /\ res.steps = CutAt(p, T).steps /\ res.start = CutAt(p, T).start
    <2>1. Judged([cut EXCEPT !.verdict = "planned"], cut, "planned")
      BY <1>3, JudgedIs DEF Verdicts
    <2>. QED BY <1>3, <1>4, <2>1 DEF Judged
  <1>6. ~ Ahead(dir, p.start, now) /\ ~ Ahead(dir, T, p.start) /\ ~ Ahead(dir, T, T)
    BY <1>1, <1>2, AheadOrder DEF Started
  <1>7. Chained(c, res)
    BY <1>1, <1>2, <1>5, <1>6, CutChained
  <1>8. Stops(c, r, b, n, res)
    BY <1>1, <1>5, CutStops
  <1>9. Uncrossed(c, r, b, n, res)
    <2>1. \A i \in 1..n : ~ (Ahead(dir, p.start, b[i].time) /\ Ahead(dir, b[i].time, T))
      BY <1>1, <1>6, NothingAhead
    <2>2. p.steps = <<>> => \A i \in 1..n : Inside(c, T, b[i].time) => ~ Ahead(dir, b[i].time, T)
      <3>1. p.steps = <<>> => p.start = now
        BY <1>1 DEF Chained
      <3>. QED BY <2>1, <3>1 DEF Inside
    <2>. QED BY <1>1, <1>2, <1>5, <2>1, <2>2, CutUncrossed
  <1>10. Finished(c, r, b, n, res)
    BY <1>1, <1>5 DEF Started, Finished
  <1>11. Len(b) \in Nat /\ n <= Len(b)
    BY <1>1
  <1>. QED BY <1>1, <1>5, <1>7, <1>8, <1>9, <1>10, <1>11, LoopingIs

-----------------------------------------------------------------------------
(* The order in which the runner hands its boundaries to the planner.      *)

\* Before is a strict total order.
LEMMA BeforeOrder ==
    ASSUME NEW dir \in Directions, NEW b \in Boundaries, NEW c \in Boundaries
    PROVE  /\ ~ Before(dir, b, b)
           /\ Before(dir, b, c) => ~ Ahead(dir, c.time, b.time)
           /\ b # c => Before(dir, b, c) \/ Before(dir, c, b)
PROOF
  <1>1. b.time \in Int /\ c.time \in Int /\ b.end \in BOOLEAN /\ c.end \in BOOLEAN
    BY PlanAssumption DEF Boundaries
  <1>2. b.time = c.time /\ (b.end <=> c.end) => b = c
    <2>1. b = [time |-> b.time, end |-> b.end] /\ c = [time |-> c.time, end |-> c.end]
      BY DEF Boundaries
    <2>2. (b.end <=> c.end) => b.end = c.end
      BY <1>1
    <2>. QED BY <2>1, <2>2
  <1>3. ~ Ahead(dir, b.time, c.time) /\ ~ Ahead(dir, c.time, b.time) => b.time = c.time
    BY <1>1, AheadOrder
  <1>4. ~ Ahead(dir, b.time, b.time) /\ (Ahead(dir, b.time, c.time) => ~ Ahead(dir, c.time, b.time))
        /\ (b.time = c.time => ~ Ahead(dir, c.time, b.time))
    <2>1. ~ Ahead(dir, b.time, b.time) /\ ~ Ahead(dir, c.time, c.time)
      BY <1>1, AheadOrder
    <2>2. Ahead(dir, b.time, c.time) => ~ Ahead(dir, c.time, b.time)
      BY <1>1, AheadOrder
    <2>. QED BY <2>1, <2>2
  <1>5. ~ Before(dir, b, b)
    BY <1>4 DEF Before
  <1>6. Before(dir, b, c) => ~ Ahead(dir, c.time, b.time)
    BY <1>4 DEF Before
  <1>7. b # c => Before(dir, b, c) \/ Before(dir, c, b)
    BY <1>2, <1>3 DEF Before
  <1>. QED BY <1>5, <1>6, <1>7

LEMMA BeforeTransitive ==
    ASSUME NEW dir \in Directions, NEW b \in Boundaries, NEW c \in Boundaries,
           NEW d \in Boundaries, Before(dir, b, c), Before(dir, c, d)
    PROVE  Before(dir, b, d)
PROOF
  <1>1. b.time \in Int /\ c.time \in Int /\ d.time \in Int
    BY PlanAssumption DEF Boundaries
  <1>2. Ahead(dir, b.time, c.time) /\ Ahead(dir, c.time, d.time) => Ahead(dir, b.time, d.time)
    BY <1>1, AheadOrder
  <1>3. CASE Ahead(dir, b.time, c.time) \/ Ahead(dir, c.time, d.time)
    BY <1>2, <1>3 DEF Before
  <1>4. CASE ~ Ahead(dir, b.time, c.time) /\ ~ Ahead(dir, c.time, d.time)
    <2>1. b.time = d.time
      BY <1>4 DEF Before
    <2>2. IF dir = "Forward" THEN ~ b.end /\ c.end ELSE b.end /\ ~ c.end
      BY <1>4 DEF Before
    <2>3. IF dir = "Forward" THEN ~ c.end /\ d.end ELSE c.end /\ ~ d.end
      BY <1>4 DEF Before
    <2>. QED BY <2>2, <2>3
  <1>. QED BY <1>3, <1>4

\* The boundaries that come before one.
Below(dir, S, b) == {c \in S : Before(dir, c, b)}

LEMMA RankGrows ==
    ASSUME NEW dir \in Directions, NEW S \in SUBSET Boundaries, IsFiniteSet(S),
           NEW b \in S, NEW c \in S
    PROVE  /\ Cardinality(Below(dir, S, b)) \in Nat
           /\ Cardinality(Below(dir, S, b)) < Cardinality(S)
           /\ Before(dir, b, c) =>
                 Cardinality(Below(dir, S, b)) < Cardinality(Below(dir, S, c))
PROOF
  <1>1. b \in Boundaries /\ c \in Boundaries
    OBVIOUS
  <1>2. b \notin Below(dir, S, b)
    BY <1>1, BeforeOrder DEF Below
  <1>3. \A x \in S : IsFiniteSet(Below(dir, S, x)) /\ Below(dir, S, x) \in SUBSET S
    <2>1. \A x \in S : Below(dir, S, x) \in SUBSET S
      BY DEF Below
    <2>. QED BY <2>1, FS_Subset
  <1>4. /\ Cardinality(Below(dir, S, b)) \in Nat /\ Cardinality(Below(dir, S, c)) \in Nat
        /\ Cardinality(S) \in Nat
    BY <1>3, FS_CardinalityType
  <1>5. Cardinality(Below(dir, S, b)) < Cardinality(S)
    BY <1>2, <1>3, <1>4, FS_Subset
  <1>6. ASSUME Before(dir, b, c)
        PROVE  Cardinality(Below(dir, S, b)) < Cardinality(Below(dir, S, c))
    <2>1. Below(dir, S, b) \in SUBSET Below(dir, S, c)
      BY <1>1, <1>6, BeforeTransitive DEF Below
    <2>2. b \in Below(dir, S, c)
      BY <1>6 DEF Below
    <2>. QED BY <1>2, <1>3, <1>4, <2>1, <2>2, FS_Subset
  <1>. QED BY <1>4, <1>5, <1>6

\* Every rank is that of a boundary.
LEMMA RanksAreTaken ==
    ASSUME NEW dir \in Directions, NEW S \in SUBSET Boundaries, IsFiniteSet(S),
           NEW k \in 1..Cardinality(S)
    PROVE  \E b \in S : Cardinality(Below(dir, S, b)) = k - 1
PROOF
  <1>. PICK N : N = Cardinality(S)
    OBVIOUS
  <1>. DEFINE f == [b \in S |-> Cardinality(Below(dir, S, b)) + 1]
  <1>1. N \in Nat /\ IsFiniteSet(1..N) /\ Cardinality(1..N) = N
    <2>1. N \in Nat
      BY FS_CardinalityType
    <2>. QED BY <2>1, FS_Interval
  <1>2. f \in [S -> 1..N]
    BY <1>1, RankGrows
  <1>3. ASSUME NEW b \in S, NEW c \in S, f[b] = f[c]
        PROVE  b = c
    <2>1. Cardinality(Below(dir, S, b)) = Cardinality(Below(dir, S, c))
      BY <1>3, RankGrows
    <2>2. ~ Before(dir, b, c) /\ ~ Before(dir, c, b)
      BY <2>1, RankGrows
    <2>. QED BY <2>2, BeforeOrder
  <1>4. \A b \in S : f[b] = Cardinality(Below(dir, S, b)) + 1
    OBVIOUS
  <1>. HIDE DEF f
  <1>5. f \in Injection(S, 1..N)
    BY <1>2, <1>3 DEF Injection, IsInjective
  <1>6. f \in Surjection(S, 1..N)
    BY <1>1, <1>5, FS_Injection
  <1>7. PICK b \in S : f[b] = k
    BY <1>6 DEF Surjection
  <1>. QED BY <1>4, <1>7, RankGrows

LEMMA OrderedIs ==
    ASSUME NEW dir \in Directions, NEW S \in SUBSET Boundaries, IsFiniteSet(S),
           NEW o, o = OrderStepBoundaries(dir, S)
    PROVE  /\ Len(o) \in Nat /\ o \in [1..Len(o) -> Boundaries]
           /\ \A i \in 1..Len(o) : o[i] \in S
           /\ \A b \in S : \E i \in 1..Len(o) : o[i] = b
           /\ \A i \in 1..Len(o) : \A j \in 1..Len(o) :
                 i < j => ~ Ahead(dir, o[j].time, o[i].time)
PROOF
  <1>. PICK N : N = Cardinality(S)
    OBVIOUS
  <1>1. N \in Nat
    BY FS_CardinalityType
  <1>2. o = [k \in 1..N |-> CHOOSE b \in S : Cardinality(Below(dir, S, b)) = k - 1]
    BY DEF OrderStepBoundaries, Below
  <1>3. \A k \in 1..N : o[k] \in S /\ Cardinality(Below(dir, S, o[k])) = k - 1
    BY <1>2, RanksAreTaken
  <1>4. o \in [1..N -> Boundaries]
    BY <1>2, <1>3
  <1>5. o \in Seq(Boundaries) /\ Len(o) = N
    BY <1>1, <1>4
  <1>6. ASSUME NEW b \in S
        PROVE  \E i \in 1..N : o[i] = b
    <2>. PICK i : i = Cardinality(Below(dir, S, b)) + 1
      OBVIOUS
    <2>1. i \in 1..N /\ i - 1 = Cardinality(Below(dir, S, b))
      BY <1>1, RankGrows
    <2>2. o[i] \in S /\ Cardinality(Below(dir, S, o[i])) = Cardinality(Below(dir, S, b))
      BY <1>3, <2>1
    <2>3. ~ Before(dir, b, o[i]) /\ ~ Before(dir, o[i], b)
      BY <2>2, RankGrows
    <2>4. b = o[i]
      BY <2>2, <2>3, BeforeOrder
    <2>. QED BY <2>1, <2>4
  <1>7. ASSUME NEW i \in 1..N, NEW j \in 1..N, i < j
        PROVE  ~ Ahead(dir, o[j].time, o[i].time)
    <2>1. /\ o[i] \in S /\ o[j] \in S
          /\ Cardinality(Below(dir, S, o[i])) = i - 1 /\ Cardinality(Below(dir, S, o[j])) = j - 1
      BY <1>3
    <2>2. o[i] # o[j]
      BY <1>7, <2>1
    <2>3. ~ Before(dir, o[j], o[i])
      BY <1>7, <2>1, RankGrows
    <2>4. Before(dir, o[i], o[j])
      BY <2>1, <2>2, <2>3, BeforeOrder
    <2>. QED BY <2>1, <2>4, BeforeOrder
  <1>. QED BY <1>1, <1>3, <1>4, <1>5, <1>6, <1>7

\* The boundaries that a request reaches are finitely many.
LEMMA FoundIsFinite ==
    ASSUME NEW U \in SUBSET Instants, NEW x \in Instants
    PROVE  LET S == {[time |-> t, end |-> FALSE] : t \in U} \union {[time |-> x, end |-> TRUE]}
           IN  S \in SUBSET Boundaries /\ IsFiniteSet(S)
PROOF
  <1>. DEFINE F == {[time |-> t, end |-> FALSE] : t \in U}
              g == [t \in U |-> [time |-> t, end |-> FALSE]]
  <1>1. IsFiniteSet(U)
    BY PlanAssumption, FS_Subset
  <1>2. g \in Surjection(U, F)
    <2>1. g \in [U -> F]
      OBVIOUS
    <2>2. ASSUME NEW d \in F
          PROVE  \E t \in U : g[t] = d
      <3>1. PICK t \in U : d = [time |-> t, end |-> FALSE]
        OBVIOUS
      <3>2. g[t] = d
        BY <3>1
      <3>. QED BY <3>2
    <2>. HIDE DEF g, F
    <2>. QED BY <2>1, <2>2 DEF Surjection
  <1>3. F \in SUBSET Boundaries /\ [time |-> x, end |-> TRUE] \in Boundaries
    <2>1. \A t \in Instants : /\ [time |-> t, end |-> FALSE] \in Boundaries
                             /\ [time |-> t, end |-> TRUE] \in Boundaries
      BY DEF Boundaries
    <2>. QED BY <2>1
  <1>. HIDE DEF F, g
  <1>4. IsFiniteSet(F)
    BY <1>1, <1>2, FS_Surjection
  <1>5. IsFiniteSet(F \union {[time |-> x, end |-> TRUE]})
    BY <1>4, FS_AddElement
  <1>. QED BY <1>3, <1>5 DEF F

LEMMA CollectedIs ==
    ASSUME NEW c \in [current : Instants, direction : Directions], NEW r \in Int,
           NEW times \in SUBSET Instants, NEW end \in Instants,
           ~ Ahead(c.direction, end, c.current), Going(c, r),
           NEW b, b = CollectStepBoundaries(c, r, times, end),
           NEW e, e.times = times, e.end = end
    PROVE  Arguments(c, r, b) /\ Collected(c, r, b, e)
PROOF
  <1>. PICK dir, now, T : dir = c.direction /\ now = c.current /\ T = c.current + r
    OBVIOUS
  <1>. DEFINE U == {u \in times : Inside(c, T, u)}
              S == {[time |-> t, end |-> FALSE] : t \in U} \union {[time |-> end, end |-> TRUE]}
  <1>1. dir \in Directions /\ now \in Int /\ end \in Int /\ T \in Int
    BY PlanAssumption DEF Going
  <1>2. U \in SUBSET Instants
    OBVIOUS
  <1>3. S \in SUBSET Boundaries /\ IsFiniteSet(S)
    <2>. HIDE DEF U
    <2>. QED BY <1>2, FoundIsFinite
  <1>4. b = OrderStepBoundaries(dir, S)
    BY DEF CollectStepBoundaries
  <1>5. \A d \in S : \/ d.end = TRUE /\ d.time = end
                     \/ d.end = FALSE /\ d.time \in times /\ Inside(c, T, d.time)
    OBVIOUS
  <1>6. [time |-> end, end |-> TRUE] \in S
        /\ \A t \in times : Inside(c, T, t) => [time |-> t, end |-> FALSE] \in S
    OBVIOUS
  <1>. HIDE DEF S
  <1>7. /\ Len(b) \in Nat /\ b \in [1..Len(b) -> Boundaries]
        /\ \A i \in 1..Len(b) : b[i] \in S
        /\ \A d \in S : \E i \in 1..Len(b) : b[i] = d
        /\ \A i \in 1..Len(b) : \A j \in 1..Len(b) :
              i < j => ~ Ahead(dir, b[j].time, b[i].time)
    <2>. HIDE DEF U
    <2>. QED BY <1>1, <1>3, <1>4, OrderedIs
  <1>8. Arguments(c, r, b)
    BY <1>7 DEF Arguments
  <1>9. \A i \in 1..Len(b) : \/ b[i].end = TRUE /\ b[i].time = end
                             \/ b[i].end = FALSE /\ b[i].time \in times /\ Inside(c, T, b[i].time)
    BY <1>5, <1>7
  <1>10. ASSUME NEW i \in 1..Len(b)
         PROVE  ~ Ahead(dir, b[i].time, now)
    <2>1. CASE b[i].time = end
      BY <2>1
    <2>2. CASE Inside(c, T, b[i].time)
      <3>1. b[i].time \in Int
        BY <1>8, ArgumentTypes
      <3>. QED BY <1>1, <2>2, <3>1, AheadOrder DEF Inside
    <2>. QED BY <1>9, <2>1, <2>2
  <1>11. Ordered(c, b, Len(b))
    BY <1>7, <1>10 DEF Ordered
  <1>12. \E i \in 1..Len(b) : b[i].end
    <2>1. PICK i \in 1..Len(b) : b[i] = [time |-> end, end |-> TRUE]
      BY <1>6, <1>7
    <2>2. b[i].end = TRUE
      BY <2>1
    <2>. QED BY <2>2
  <1>13. ASSUME NEW t \in times, Inside(c, T, t)
         PROVE  \E i \in 1..Len(b) : b[i].time = t
    <2>1. PICK i \in 1..Len(b) : b[i] = [time |-> t, end |-> FALSE]
      BY <1>6, <1>7, <1>13
    <2>. QED BY <2>1
  <1>14. \A i \in 1..Len(b) : \/ b[i].end /\ b[i].time = e.end
                              \/ ~ b[i].end /\ b[i].time \in e.times
                                 /\ Inside(c, c.current + r, b[i].time)
    BY <1>9
  <1>. QED BY <1>8, <1>11, <1>12, <1>13, <1>14 DEF Collected

-----------------------------------------------------------------------------
(* The invariant.                                                          *)

LEMMA PlannerInit == PlanInit => PlannerInv
PROOF
  <1>. SUFFICES ASSUME PlanInit
                PROVE  PlannerInv
    OBVIOUS
  <1>. PICK c, r, b, e, n, p : /\ c = clock /\ r = requested /\ b = boundaries /\ e = events
                               /\ n = next /\ p = pass
    OBVIOUS
  <1>1. /\ c \in [current : Instants, direction : Directions] /\ r \in Int
        /\ n = 0 /\ p = StartPlan(c, r)
    BY PlanAssumption DEF PlanInit
  <1>2. Arguments(c, r, b) /\ (e.collected => Collected(c, r, b, e))
    <2>1. CASE RunnerCall
      <3>1. PICK times \in SUBSET Instants, end \in Instants :
                /\ ~ Ahead(c.direction, end, c.current)
                /\ Ahead(c.direction, 0, r) /\ c.current + r \in Instants
                /\ e = [times |-> times, end |-> end, collected |-> TRUE]
                /\ b = CollectStepBoundaries(c, r, times, end)
        BY <2>1 DEF RunnerCall, target
      <3>2. Going(c, r) /\ e.times = times /\ e.end = end
        BY <3>1 DEF Going
      <3>. QED BY <1>1, <3>1, <3>2, CollectedIs
    <2>2. CASE ~ RunnerCall
      <3>1. e.collected = FALSE
        BY <2>2 DEF PlanInit
      <3>2. PICK m \in 0..MaxBoundaries : b \in [1..m -> Boundaries]
        BY <2>2 DEF PlanInit
      <3>3. m \in Nat /\ b \in Seq(Boundaries) /\ Len(b) = m
        BY <3>2, PlanAssumption
      <3>4. Arguments(c, r, b)
        BY <1>1, <3>2, <3>3 DEF Arguments
      <3>. QED BY <3>1, <3>4
    <2>. QED BY <2>1, <2>2
  <1>3. Looping(c, r, b, n, p)
    BY <1>1, <1>2, StartLooping
  <1>. QED BY <1>2, <1>3 DEF PlannerInv

LEMMA PlannerNext == PlannerInv /\ [PlanNext]_planVars => PlannerInv'
PROOF
  <1>. SUFFICES ASSUME PlannerInv, [PlanNext]_planVars
                PROVE  PlannerInv'
    OBVIOUS
  <1>. PICK c, r, b, e, n, p : /\ c = clock /\ r = requested /\ b = boundaries /\ e = events
                               /\ n = next /\ p = pass
    OBVIOUS
  <1>1. /\ Arguments(c, r, b) /\ Looping(c, r, b, n, p)
        /\ e.collected => Collected(c, r, b, e)
    BY DEF PlannerInv
  <1>2. clock' = c /\ requested' = r /\ boundaries' = b /\ events' = e
    BY DEF PlanNext, Scan, Close, Planned, planVars, args
  <1>3. Looping(c, r, b, next', pass')
    <2>1. CASE Scan
      <3>1. /\ p.verdict = "scanning" /\ n < Len(b) /\ next' = n + 1
            /\ pass' = Consider(p, c, c.current + r, b[n + 1])
        BY <2>1 DEF Scan, target
      <3>. QED BY <1>1, <3>1, ConsiderLooping
    <2>2. CASE Close
      <3>1. /\ p.verdict = "scanning" /\ n = Len(b) /\ next' = n
            /\ pass' = Remainder(p, c.current + r)
        BY <2>2 DEF Close, target
      <3>. QED BY <1>1, <3>1, RemainderLooping
    <2>3. CASE UNCHANGED planVars
      BY <1>1, <2>3 DEF planVars
    <2>. QED BY <2>1, <2>2, <2>3 DEF PlanNext, Planned
  <1>. QED BY <1>1, <1>2, <1>3 DEF PlannerInv

-----------------------------------------------------------------------------
(* What follows from it.                                                   *)

\* The invariant says of the segments what the plan promises: they chain, cross no event and
\* end where they must.
LEMMA PlanChained ==
    ASSUME PlannerInv
    PROVE  PlanTypeOK /\ Chain /\ NoEventCrossed /\ PlanEndsWhereItMust
PROOF
  <1>. PICK c, r, b, n, p : /\ c = clock /\ r = requested /\ b = boundaries
                            /\ n = next /\ p = pass
    OBVIOUS
  <1>1. Arguments(c, r, b) /\ Looping(c, r, b, n, p)
    BY DEF PlannerInv
  <1>2. PlanTypeOK
    BY <1>1 DEF Looping, PlanTypeOK
  <1>3. CASE ~ Going(c, r)
    <2>1. n = 0 /\ p.steps = <<>> /\ p.start = c.current /\ (p.verdict = "planned" => r = 0)
      BY <1>1, <1>3 DEF Looping
    <2>2. Chain /\ NoEventCrossed /\ PlanEndsWhereItMust
      BY <2>1 DEF Chain, NoEventCrossed, PlanEndsWhereItMust
    <2>. QED BY <1>2, <2>2
  <1>4. CASE Going(c, r)
    <2>1. /\ Chained(c, p)
          /\ p.verdict \in {"scanning", "planned"} => Uncrossed(c, r, b, n, p)
          /\ p.verdict = "planned" => Finished(c, r, b, n, p)
      BY <1>1, <1>4 DEF Looping
    <2>2. Chain
      BY <2>1 DEF Chained, Chain
    <2>3. NoEventCrossed
      BY <2>1 DEF Uncrossed, NoEventCrossed
    <2>4. ASSUME p.verdict = "planned"
          PROVE  LET ends == {b[i].time : i \in {j \in 1..n : b[j].end}}
                 IN  \/ p.start = c.current + r
                        /\ \A x \in ends : ~ Inside(c, c.current + r, x) \/ x = c.current + r
                     \/ p.start \in ends /\ ~ Ahead(c.direction, c.current + r, p.start)
      <3>1. CASE p.start = c.current + r /\ \A i \in 1..n : b[i].end =>
                    b[i].time # c.current /\ ~ Inside(c, c.current + r, b[i].time)
        BY <3>1
      <3>2. CASE n > 0 /\ b[n].end /\ p.start = b[n].time
                 /\ ~ Ahead(c.direction, c.current + r, p.start)
        <4>1. n \in 1..n
          BY <1>1, <3>2, ArgumentTypes DEF Looping
        <4>. QED BY <3>2, <4>1
      <3>. QED BY <2>1, <2>4, <3>1, <3>2 DEF Finished
    <2>5. PlanEndsWhereItMust
      BY <2>4 DEF PlanEndsWhereItMust, target
    <2>. QED BY <1>2, <2>2, <2>3, <2>5
  <1>. QED BY <1>3, <1>4

LEMMA PlanJudged ==
    ASSUME PlannerInv
    PROVE  OrderJudged
PROOF
  <1>. PICK c, r, b, n, p : /\ c = clock /\ r = requested /\ b = boundaries
                            /\ n = next /\ p = pass
    OBVIOUS
  <1>. DEFINE late(i) == Ahead(c.direction, b[i].time, IF i = 1 THEN c.current ELSE b[i - 1].time)
  <1>1. Arguments(c, r, b) /\ Looping(c, r, b, n, p) /\ n \in Nat
    <2>1. Arguments(c, r, b) /\ Looping(c, r, b, n, p)
      BY DEF PlannerInv
    <2>2. n \in Nat
      BY <2>1, ArgumentTypes DEF Looping
    <2>. QED BY <2>1, <2>2
  <1>2. ASSUME NEW m \in Nat, Ordered(c, b, m), NEW i \in 1..m
        PROVE  ~ late(i)
    <2>1. i # 1 => i - 1 \in 1..m /\ i - 1 < i
      OBVIOUS
    <2>. QED BY <1>2, <2>1 DEF Ordered
  <1>3. CASE p.verdict = "unordered"
    <2>1. n > 0 /\ late(n)
      BY <1>1, <1>3 DEF Looping
    <2>2. n \in 1..n
      BY <1>1, <2>1
    <2>. QED BY <1>3, <2>1, <2>2 DEF OrderJudged
  <1>4. CASE p.verdict # "unordered"
    <2>1. CASE ~ Going(c, r)
      <3>1. n = 0
        BY <1>1, <2>1 DEF Looping
      <3>. QED BY <1>4, <3>1 DEF OrderJudged
    <2>2. CASE Going(c, r)
      <3>1. Ordered(c, b, n)
        BY <1>1, <1>4, <2>2 DEF Looping
      <3>2. \A i \in 1..n : ~ late(i)
        BY <1>1, <1>2, <3>1
      <3>. QED BY <1>4, <3>2 DEF OrderJudged
    <2>. QED BY <2>1, <2>2
  <1>. QED BY <1>3, <1>4

LEMMA RunnerIsNearest ==
    ASSUME PlannerInv
    PROVE  RunnerStepIsNearest
PROOF
  <1>. SUFFICES ASSUME events.collected, pass.verdict # "scanning"
                PROVE  /\ pass.verdict = "planned"
                       /\ IF clock.current = events.end THEN pass.steps = <<>>
                          ELSE LET stops == {target, events.end} \union
                                     {t \in events.times : Ahead(clock.direction, clock.current, t)}
                               IN  /\ pass.steps # <<>>
                                   /\ pass.steps[1].to \in stops
                                   /\ \A t \in stops :
                                          ~ Ahead(clock.direction, t, pass.steps[1].to)
    BY DEF RunnerStepIsNearest
  <1>. PICK c, r, b, e, n, p : /\ c = clock /\ r = requested /\ b = boundaries /\ e = events
                               /\ n = next /\ p = pass
    OBVIOUS
  <1>. PICK dir, now, T, x, s : /\ dir = c.direction /\ now = c.current /\ T = c.current + r
                                /\ x = p.start /\ s = p.steps
    OBVIOUS
  <1>1. Arguments(c, r, b) /\ Looping(c, r, b, n, p) /\ Collected(c, r, b, e)
    BY DEF PlannerInv
  <1>2. /\ Going(c, r) /\ ~ Ahead(dir, e.end, now) /\ Ordered(c, b, Len(b))
        /\ \A i \in 1..Len(b) : \/ b[i].end /\ b[i].time = e.end
                                \/ ~ b[i].end /\ b[i].time \in e.times /\ Inside(c, T, b[i].time)
        /\ \E i \in 1..Len(b) : b[i].end
        /\ e.times \subseteq Instants
        /\ \A t \in e.times : Inside(c, T, t) => \E i \in 1..Len(b) : b[i].time = t
    BY <1>1 DEF Collected
  <1>3. /\ dir \in Directions /\ now \in Int /\ T \in Int /\ Len(b) \in Nat
        /\ \A i \in 1..Len(b) : b[i].time \in Int
    BY <1>1, <1>2, PlanAssumption, ArgumentTypes DEF Going
  <1>4. /\ n \in Nat /\ n <= Len(b) /\ \A i \in 1..n : i \in 1..Len(b)
    BY <1>1, <1>3 DEF Looping
  <1>5. /\ x \in Int /\ s \in Seq(Segments)
        /\ \A k \in 1..Len(s) : s[k].from \in Int /\ s[k].to \in Int
    <2>1. p \in Locals
      BY <1>1 DEF Looping, Locals, Segments
    <2>2. x \in Int /\ s \in Seq(Segments)
      BY <2>1, PlanAssumption DEF Locals
    <2>3. \A k \in 1..Len(s) : s[k] \in Segments
      BY <2>2
    <2>. QED BY <2>2, <2>3, PlanAssumption DEF Segments
  <1>6. p.verdict # "unordered"
    <2>. SUFFICES ASSUME p.verdict = "unordered"
                  PROVE  FALSE
      OBVIOUS
    <2>1. n > 0 /\ Ahead(dir, b[n].time, IF n = 1 THEN now ELSE b[n - 1].time)
      BY <1>1, <1>2 DEF Looping
    <2>2. n \in 1..Len(b) /\ (n # 1 => n - 1 \in 1..Len(b) /\ n - 1 < n)
      BY <1>3, <1>4, <2>1
    <2>. QED BY <1>2, <2>1, <2>2 DEF Ordered
  <1>7. /\ p.verdict = "planned" /\ Chained(c, p) /\ Stops(c, r, b, n, p)
        /\ Uncrossed(c, r, b, n, p) /\ Finished(c, r, b, n, p)
    BY <1>1, <1>2, <1>6 DEF Looping
  <1>8. \/ n = Len(b) /\ x = T /\ \A i \in 1..n : b[i].end => b[i].time # now /\ ~ Inside(c, T, b[i].time)
        \/ n \in 1..Len(b) /\ b[n].end /\ x = b[n].time /\ b[n].time = e.end /\ ~ Ahead(dir, T, x)
    <2>1. n > 0 => n \in 1..Len(b)
      BY <1>3, <1>4
    <2>. QED BY <1>2, <1>7, <2>1 DEF Finished
  <1>9. PICK z \in 1..Len(b) : b[z].end /\ b[z].time = e.end
    BY <1>2
  <1>10. e.end \in Int
    BY <1>3, <1>9
  <1>11. ~ Ahead(dir, T, x) /\ Ahead(dir, now, T)
    <2>1. Ahead(dir, now, T)
      BY <1>1, <1>2, ArgumentTypes DEF Going, Ahead, Directions
    <2>. QED BY <1>3, <1>8, <2>1, AheadOrder
  <1>12. s # <<>> => /\ 1 \in 1..Len(s) /\ s[1].to \in Int /\ s[1].from = now
                     /\ Ahead(dir, now, s[1].to) /\ ~ Ahead(dir, x, s[1].to)
    <2>. SUFFICES ASSUME s # <<>>
                  PROVE  /\ 1 \in 1..Len(s) /\ s[1].to \in Int /\ s[1].from = now
                         /\ Ahead(dir, now, s[1].to) /\ ~ Ahead(dir, x, s[1].to)
      OBVIOUS
    <2>1. 1 \in 1..Len(s)
      BY <1>5
    <2>. QED BY <1>5, <1>7, <2>1 DEF Chained
  <1>13. CASE now = e.end
    <2>1. x = now
      BY <1>8, <1>9, <1>13
    <2>2. s = <<>>
      BY <1>3, <1>12, <2>1
    <2>. QED BY <1>7, <1>13, <2>2
  <1>14. CASE now # e.end
    <2>1. Ahead(dir, now, e.end)
      BY <1>2, <1>3, <1>10, <1>14, AheadOrder
    <2>2. s # <<>>
      <3>1. x # now
        BY <1>3, <1>8, <1>11, <1>14, AheadOrder
      <3>. QED BY <1>7, <3>1 DEF Chained
    <2>. PICK f : f = s[1].to
      OBVIOUS
    <2>3. f \in Int /\ Ahead(dir, now, f) /\ ~ Ahead(dir, x, f) /\ ~ Ahead(dir, T, f)
      BY <1>3, <1>5, <1>11, <1>12, <2>2, AheadOrder
    <2>4. \/ f = T \/ f = e.end
          \/ f \in e.times /\ Ahead(dir, now, f)
      <3>1. \/ f = T
            \/ \E i \in 1..n : b[i].time = f /\ Inside(c, T, b[i].time)
        BY <1>7, <1>12, <2>2 DEF Stops
      <3>2. CASE \E i \in 1..n : b[i].time = f /\ Inside(c, T, b[i].time)
        <4>1. PICK i \in 1..n : b[i].time = f /\ Inside(c, T, b[i].time)
          BY <3>2
        <4>2. b[i].time = e.end \/ b[i].time \in e.times
          BY <1>2, <1>4
        <4>. QED BY <2>3, <4>1, <4>2
      <3>. QED BY <3>1, <3>2
    <2>5. ~ Ahead(dir, e.end, f)
      <3>1. CASE x = e.end
        BY <2>3, <3>1
      <3>2. CASE n = Len(b) /\ ~ Inside(c, T, b[z].time)
        <4>1. Ahead(dir, T, e.end)
          BY <1>9, <2>1, <3>2 DEF Inside
        <4>. QED BY <1>3, <1>10, <2>3, <4>1, AheadOrder
      <3>. QED BY <1>8, <1>9, <3>1, <3>2
    <2>6. ASSUME NEW t \in e.times, Ahead(dir, now, t)
          PROVE  ~ Ahead(dir, t, f)
      <3>1. CASE ~ Inside(c, T, t)
        <4>1. Ahead(dir, T, t)
          BY <2>6, <3>1 DEF Inside
        <4>2. t \in Int
          BY <1>2, PlanAssumption
        <4>. QED BY <1>3, <2>3, <4>1, <4>2, AheadOrder
      <3>2. CASE Inside(c, T, t)
        <4>1. PICK m \in 1..Len(b) : b[m].time = t
          BY <1>2, <3>2
        <4>2. CASE m <= n
          <5>1. m \in 1..n
            BY <1>4, <4>2
          <5>. QED BY <1>7, <2>2, <3>2, <4>1, <5>1 DEF Uncrossed
        <4>3. CASE n < m
          <5>1. n \in 1..Len(b) /\ x = b[n].time
            BY <1>3, <1>8, <4>3
          <5>2. ~ Ahead(dir, t, x)
            BY <1>2, <4>1, <4>3, <5>1 DEF Ordered
          <5>3. t \in Int
            BY <1>3, <4>1
          <5>. QED BY <1>3, <1>5, <2>3, <5>2, <5>3, AheadOrder
        <4>. QED BY <1>4, <4>2, <4>3
      <3>. QED BY <3>1, <3>2
    <2>7. ~ Ahead(dir, T, f)
      BY <2>3
    <2>. QED BY <1>7, <1>14, <2>2, <2>4, <2>5, <2>6, <2>7 DEF target
  <1>. QED BY <1>13, <1>14

(***************************************************************************)
(* For every clock, request and list of boundaries, at every iteration:    *)
(* the plan is a chain that crosses no event and ends where it must, the   *)
(* order of the list is judged rightly, and the first step of a runner     *)
(* ends at the nearest stop.                                               *)
(***************************************************************************)
THEOREM PlanSound == PlanSpec => []PlanIsSound
PROOF
  <1>1. PlannerInv => PlanIsSound
    BY PlanChained, PlanJudged, RunnerIsNearest DEF PlanIsSound
  <1>. QED BY <1>1, PlannerInit, PlannerNext, PTL DEF PlanSpec
=============================================================================
