---------------------------- MODULE DispatchLoop ----------------------------
(***************************************************************************)
(* The scheduling ticks of the daemon over time: `dispatch_once' of        *)
(* src/trajecta/crates/trajecta-job/src/daemon.rs reads the queue, reads   *)
(* the reservations, plans, and applies the plan, three catalog calls      *)
(* between which the control server and the workers go on.  What is not    *)
(* about queue order and resources (leases, logs, series) is left out; it  *)
(* is in JobCatalog and DaemonRuntime.                                     *)
(*                                                                         *)
(* Run identities are taken from a finite pool and reused once a run has   *)
(* left and no plan remembers it, so that an endless stream of submissions *)
(* has finitely many states.                                               *)
(***************************************************************************)
EXTENDS Scheduler

CONSTANTS Ids,          \* the pool of run identities
          Needs,        \* the resource requests that clients submit
          Capacity,     \* the SchedulerCapacity of the daemon
          MaxFaults     \* bound on queue cancellations and daemon exits

ASSUME LoopAssumption == /\ Needs \subseteq Vector
                         /\ Capacity \in Vector /\ Positive(Capacity)
                         /\ MaxFaults \in Nat

VARIABLES
    queue,       \* the queued runs in queue_order
    need,        \* jobs.resources_json of queued and active runs
    bypass,      \* jobs.head_bypass_count
    active,      \* the runs that are starting, running or cancelling
    tick,        \* where the scheduler thread is: "idle", "queue" (it has read
                 \* the queue), "planned", or "down" (there is no daemon)
    pressure,    \* external memory pressure as this tick sampled it
    rows,        \* the queue as this tick read it
    plan,        \* the DispatchPlan of this tick, or NoPlan
    faults,      \* cancellations and exits so far
    overtaken,   \* how often a younger run started while this one was queued
    ahead        \* the runs queued ahead of this one when it was submitted

durable == <<queue, need, bypass, active>>
reads   == <<tick, pressure, rows, plan>>
ghosts  == <<faults, overtaken, ahead>>
vars    == <<durable, reads, ghosts>>

QueuedRuns == {queue[i] : i \in 1..Len(queue)}

NoPlan == [selected |-> <<>>, bypassed |-> {}, ok |-> TRUE]

\* The rows that apply_dispatch_plan updates.
Chosen  == {plan.selected[i] : i \in 1..Len(plan.selected)}
Touched == Chosen \union {b.run : b \in plan.bypassed}

\* The rows that the plan starts although r is queued before them.
Overtakers(r) ==
    {s \in Chosen : \E i, j \in 1..Len(queue) : i < j /\ queue[i] = r /\ queue[j] = s}

\* The runs that the tick remembers.
ReadRuns == {rows[i].run : i \in 1..Len(rows)} \union Touched

\* The queue without some runs, in its order.
QueueWithout(runs) ==
    LET kept[k \in 0..Len(queue)] ==
            IF k = 0 THEN <<>>
            ELSE IF queue[k] \in runs THEN kept[k - 1]
            ELSE Append(kept[k - 1], queue[k])
    IN  kept[Len(queue)]

-----------------------------------------------------------------------------
\* The clients and the workers.

\* DaemonControlBackend::submit (and rerun) refuse what can never fit.
Submit(r, q) ==
    /\ r \notin QueuedRuns \union active \union ReadRuns
    /\ tick # "down" /\ Positive(q) /\ Fits(q, Capacity)
    /\ queue' = Append(queue, r)
    /\ need' = [need EXCEPT ![r] = q]
    /\ ahead' = [ahead EXCEPT ![r] = Len(queue)]
    /\ UNCHANGED <<bypass, active, reads, faults, overtaken>>

\* cancel of a queued attempt: the row leaves the queue at once.
CancelQueued(r) ==
    /\ r \in QueuedRuns /\ tick # "down" /\ faults < MaxFaults
    /\ queue' = QueueWithout({r})
    /\ need' = [need EXCEPT ![r] = Zero]
    /\ bypass' = [bypass EXCEPT ![r] = 0]
    /\ ahead' = [ahead EXCEPT ![r] = 0]
    /\ overtaken' = [overtaken EXCEPT ![r] = 0]
    /\ faults' = faults + 1
    /\ UNCHANGED <<active, reads>>

\* An active attempt becomes terminal, in whatever way.
Finish(r) ==
    /\ r \in active
    /\ active' = active \ {r}
    /\ need' = [need EXCEPT ![r] = Zero]
    /\ UNCHANGED <<queue, bypass, reads, ghosts>>

-----------------------------------------------------------------------------
\* dispatch_once.

\* Mutation of ReadQueue: the newest row is not read.
ReadQueueShort(p) ==
    /\ tick = "idle"
    /\ tick' = "queue"
    /\ pressure' = p
    /\ rows' = [i \in 1..Len(queue) - 1 |->
                  [run |-> queue[i], need |-> need[queue[i]], bypass |-> bypass[queue[i]]]]
    /\ UNCHANGED <<durable, plan, ghosts>>

\* run_daemon samples the memory pressure, then dispatch_once reads the queue.
ReadQueue(p) ==
    /\ tick = "idle"
    /\ tick' = "queue"
    /\ pressure' = p
    /\ rows' = [i \in 1..Len(queue) |->
                  [run |-> queue[i], need |-> need[queue[i]], bypass |-> bypass[queue[i]]]]
    /\ UNCHANGED <<durable, plan, ghosts>>

\* active_resource_usage, then the pure plan; `ok' is FALSE for a SchedulerError.
MakePlan ==
    /\ tick = "queue"
    /\ tick' = "planned"
    /\ LET usage == Total(need, active)
           pass  == PlanDispatch(Capacity, usage, pressure, rows)
       IN  plan' = [selected |-> pass.selected, bypassed |-> pass.bypassed,
                    ok |-> ~ PlanError(Capacity, usage, rows)]
    /\ rows' = <<>> /\ pressure' = FALSE
    /\ UNCHANGED <<durable, ghosts>>

\* Mutation of ApplyPlan: the bypass counters are not stored.
ApplyPlanUncounted ==
    /\ tick = "planned" /\ tick' = "idle"
    /\ plan.ok /\ Touched \subseteq QueuedRuns
    /\ plan' = NoPlan
    /\ queue' = QueueWithout(Chosen)
    /\ active' = active \union Chosen
    /\ overtaken' = [r \in Ids |-> IF r \in Chosen THEN 0
                                   ELSE overtaken[r] + Cardinality(Overtakers(r))]
    /\ ahead' = [r \in Ids |-> IF r \in Chosen THEN 0 ELSE ahead[r]]
    /\ UNCHANGED <<need, bypass, pressure, rows, faults>>

\* apply_dispatch_plan: one transaction, in which every row must still be queued.
ApplyPlan ==
    /\ tick = "planned" /\ tick' = "idle"
    /\ plan.ok /\ Touched \subseteq QueuedRuns
    /\ plan' = NoPlan
    /\ queue' = QueueWithout(Chosen)
    /\ active' = active \union Chosen
    /\ bypass' = [r \in Ids |->
           IF r \in Chosen THEN 0
           ELSE IF \E b \in plan.bypassed : b.run = r
                THEN (CHOOSE b \in plan.bypassed : b.run = r).bypass
                ELSE bypass[r]]
    /\ overtaken' = [r \in Ids |-> IF r \in Chosen THEN 0
                                   ELSE overtaken[r] + Cardinality(Overtakers(r))]
    /\ ahead' = [r \in Ids |-> IF r \in Chosen THEN 0 ELSE ahead[r]]
    /\ UNCHANGED <<need, pressure, rows, faults>>

ForgetReads == rows' = <<>> /\ pressure' = FALSE /\ plan' = NoPlan

\* A row of the plan was cancelled since it was read, or plan_dispatch failed:
\* dispatch_once returns an error, the loop of run_daemon ends, the daemon exits.
TickFails ==
    /\ tick = "planned"
    /\ ~ plan.ok \/ ~ (Touched \subseteq QueuedRuns)
    /\ tick' = "down" /\ ForgetReads
    /\ UNCHANGED <<durable, ghosts>>

\* The daemon is killed at any point of its tick.
DaemonDies ==
    /\ tick # "down" /\ faults < MaxFaults
    /\ tick' = "down" /\ ForgetReads
    /\ faults' = faults + 1
    /\ UNCHANGED <<durable, overtaken, ahead>>

\* The next client command starts a daemon again.
DaemonStarts ==
    /\ tick = "down"
    /\ tick' = "idle"
    /\ UNCHANGED <<durable, pressure, rows, plan, ghosts>>

-----------------------------------------------------------------------------
Init ==
    /\ queue = <<>> /\ active = {}
    /\ need = [r \in Ids |-> Zero] /\ bypass = [r \in Ids |-> 0]
    /\ tick = "idle" /\ pressure = FALSE /\ rows = <<>> /\ plan = NoPlan
    /\ faults = 0 /\ overtaken = [r \in Ids |-> 0] /\ ahead = [r \in Ids |-> 0]

Next ==
    \/ \E r \in Ids, q \in Needs : Submit(r, q)
    \/ \E r \in Ids : CancelQueued(r)
    \/ \E r \in Ids : Finish(r)
    \/ \E p \in BOOLEAN : ReadQueue(p)
    \/ MakePlan
    \/ ApplyPlan
    \/ TickFails
    \/ DaemonDies
    \/ DaemonStarts

(***************************************************************************)
(* The loop of run_daemon keeps ticking, whatever a tick ends with; memory *)
(* pressure is not sampled at every tick from some moment on (an           *)
(* assumption on the host, hence strong fairness); every worker ends at    *)
(* last; and after a daemon exit some client command starts the next one.  *)
(***************************************************************************)
TickMoves(from, to) == tick = from /\ tick' = to

Fairness == /\ SF_vars(ReadQueue(FALSE))
            /\ WF_tick(TickMoves("queue", "planned"))
            /\ WF_vars(ApplyPlan \/ TickFails)
            /\ WF_vars(DaemonStarts)
            /\ \A r \in Ids : WF_vars(Finish(r))

Spec == Init /\ [][Next]_vars /\ Fairness

-----------------------------------------------------------------------------
TypeOK ==
    /\ queue \in Seq(Ids) /\ Cardinality(QueuedRuns) = Len(queue)
    /\ need \in [Ids -> Vector]
    /\ bypass \in [Ids -> 0..MaximumHeadBypass]
    /\ active \in SUBSET Ids
    /\ tick \in {"idle", "queue", "planned", "down"}
    /\ pressure \in BOOLEAN
    /\ faults \in 0..MaxFaults
    /\ overtaken \in [Ids -> Nat] /\ ahead \in [Ids -> Nat]

(***************************************************************************)
(* The reservations of the active runs never exceed the capacity, although *)
(* a plan is made from a queue and a usage read at two earlier moments.    *)
(***************************************************************************)
CapacityRespected == Fits(Total(need, active), Capacity)

(***************************************************************************)
(* The reads of a tick are never something plan_dispatch refuses: a daemon *)
(* does not exit because of the queue it finds in its own catalog.         *)
(***************************************************************************)
PlannerAccepts == plan.ok

(***************************************************************************)
(* Bounded overtaking of every row, not only of the front one: a run that  *)
(* was submitted behind p queued runs is overtaken by younger runs at most *)
(* MaximumHeadBypass * (p + 1) times, across ticks, cancellations and      *)
(* daemon restarts.                                                        *)
(***************************************************************************)
BoundedOvertaking ==
    \A r \in QueuedRuns : overtaken[r] <= MaximumHeadBypass * (ahead[r] + 1)

(***************************************************************************)
(* Only the front row carries a bypass count, so a row that reaches the    *)
(* front starts with its full patience.                                    *)
(***************************************************************************)
OnlyFrontIsBypassed ==
    \A i \in 2..Len(queue) : bypass[queue[i]] = 0

(***************************************************************************)
(* Over ticks, cancellations and daemon exits: the active runs fit the     *)
(* capacity although plans are made from stale reads, the planner never    *)
(* refuses what it reads, and overtaking is bounded for every row.         *)
(***************************************************************************)
DispatchIsSound == /\ TypeOK
                   /\ CapacityRespected
                   /\ PlannerAccepts
                   /\ BoundedOvertaking
                   /\ OnlyFrontIsBypassed

(***************************************************************************)
(* No starvation: every queued run leaves the queue, however many smaller  *)
(* runs keep arriving behind it.                                           *)
(***************************************************************************)
EveryRunLeavesQueue == \A r \in Ids : (r \in QueuedRuns) ~> (r \notin QueuedRuns)
=============================================================================
