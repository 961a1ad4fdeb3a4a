------------------------------ MODULE Scheduler ------------------------------
(***************************************************************************)
(* `plan_dispatch' of src/trajecta/crates/trajecta-job/src/scheduler.rs: a *)
(* pure function from the durable FIFO queue and the reserved resources to *)
(* the rows to start and the bypass counters to store.                     *)
(*                                                                         *)
(* A resource vector is [cpu |-> .., mem |-> ..]; a queue is a sequence of *)
(* [run, need, bypass].  The local variables of the Rust loop are one      *)
(* record, a "pass", and DispatchStep is one iteration of the loop:        *)
(*   available   resources still free                                      *)
(*   remaining   the queue rows not selected yet                           *)
(*   selected    the runs selected, in dispatch order                      *)
(*   bypassed    the rows (at most one) whose bypass counter this pass     *)
(*               raised, with the new counter                              *)
(*   stop        "no" while the loop runs, else why it ended ("drained" is *)
(*               stopped_by = None)                                        *)
(***************************************************************************)
EXTENDS Integers, Sequences, SequencesExt, FiniteSetsExt

CONSTANT MaximumHeadBypass    \* MAXIMUM_HEAD_BYPASS, 3 in the code

ASSUME BypassAssumption == MaximumHeadBypass \in Nat

-----------------------------------------------------------------------------
\* Resource vectors.

Vector == [cpu : Nat, mem : Nat]

Fits(need, free) == need.cpu <= free.cpu /\ need.mem <= free.mem

Minus(free, need) == [cpu |-> free.cpu - need.cpu, mem |-> free.mem - need.mem]

Plus(a, b) == [cpu |-> a.cpu + b.cpu, mem |-> a.mem + b.mem]

Zero == [cpu |-> 0, mem |-> 0]

\* active_resource_usage of the catalog: the sum of the vectors need[r].
Total(need, runs) == FoldSet(LAMBDA r, sum : Plus(sum, need[r]), Zero, runs)

\* SchedulerCapacity::validate and ResourceRequest::validate.
Positive(v) == v.cpu > 0 /\ v.mem > 0

-----------------------------------------------------------------------------
\* The checks before the loop: any one of them failing is a SchedulerError.

PlanError(capacity, active, queue) ==
    \/ ~ Positive(capacity)
    \/ ~ Fits(active, capacity)
    \/ \E i \in 1..Len(queue) : \/ ~ Positive(queue[i].need)
                                \/ ~ Fits(queue[i].need, capacity)
                                \/ queue[i].bypass > MaximumHeadBypass

-----------------------------------------------------------------------------
\* The loop.

StartPass(capacity, active, queue) ==
    [available |-> Minus(capacity, active), remaining |-> queue,
     selected |-> <<>>, bypassed |-> {}, stop |-> "no"]

\* The first branch: the head fits and is taken off the front.
HeadFits(p) == p.remaining # <<>> /\ Fits(Head(p.remaining).need, p.available)

TakeHead(p) ==
    [p EXCEPT !.available = Minus(@, Head(p.remaining).need),
              !.remaining = Tail(@),
              !.selected  = Append(@, Head(p.remaining).run)]

\* The later rows that fit beside a blocked head.
Backfills(p) ==
    {i \in 2..Len(p.remaining) : Fits(p.remaining[i].need, p.available)}

\* Mutation of FirstBackfill: the queue is scanned from its end.
LastBackfill(p) == CHOOSE i \in Backfills(p) : \A j \in Backfills(p) : i >= j

\* The last branch: the first row that fits overtakes the head, whose counter
\* goes up by one.
FirstBackfill(p) == CHOOSE i \in Backfills(p) : \A j \in Backfills(p) : i <= j

TakeBackfillUncounted(p) ==
    LET i == FirstBackfill(p)
    IN  [p EXCEPT !.available = Minus(@, p.remaining[i].need),
                  !.remaining = RemoveAt(@, i),
                  !.selected  = Append(@, p.remaining[i].run)]

TakeBackfill(p) ==
    LET i    == FirstBackfill(p)
        rest == [RemoveAt(p.remaining, i) EXCEPT ![1].bypass = @ + 1]
    IN  [p EXCEPT !.available = Minus(@, p.remaining[i].need),
                  !.remaining = rest,
                  !.selected  = Append(@, p.remaining[i].run),
                  !.bypassed  = {[run |-> rest[1].run, bypass |-> rest[1].bypass]}]

DispatchStep(p) ==
    IF p.stop # "no" THEN p
    ELSE IF p.remaining = <<>> THEN [p EXCEPT !.stop = "drained"]
    ELSE IF HeadFits(p) THEN TakeHead(p)
    ELSE IF Head(p.remaining).bypass >= MaximumHeadBypass
         THEN [p EXCEPT !.stop = "head_reservation"]
    ELSE IF Backfills(p) = {} THEN [p EXCEPT !.stop = "insufficient_resources"]
    ELSE TakeBackfill(p)

\* plan_dispatch: under memory pressure the plan is empty; otherwise the loop
\* runs until it stops, which takes at most one iteration for each row and one
\* to notice the end.
PlanDispatch(capacity, active, pressure, queue) ==
    IF pressure
    THEN [StartPass(capacity, active, queue) EXCEPT
             !.stop = IF queue = <<>> THEN "drained" ELSE "external_memory_pressure"]
    ELSE LET pass[k \in 0..Len(queue) + 1] ==
                 IF k = 0 THEN StartPass(capacity, active, queue)
                          ELSE DispatchStep(pass[k - 1])
         IN  pass[Len(queue) + 1]
=============================================================================
