----------------------------- MODULE JobCatalog -----------------------------
(***************************************************************************)
(* The durable job catalog: the SQLite tables behind `LocalJobCatalog' in  *)
(* src/trajecta/crates/trajecta-job/src/catalog.rs and the operations that *)
(* write them.  Each action is one committed SQLite transaction; a         *)
(* transaction that fails is rolled back and is a stuttering step.         *)
(*                                                                         *)
(* Three kinds of caller share the tables, each with a connection of its   *)
(* own: the control server, which serves one request at a time; the        *)
(* scheduler thread of the daemon; and one worker process for each         *)
(* dispatched attempt.  A handler that reads in one statement and writes   *)
(* in a later one is two actions, and what it remembers between them is in *)
(* `request' (the server), `recovery' (the scheduler thread) or `cleared'  *)
(* (a worker).                                                             *)
(*                                                                         *)
(* Abstractions.  A run is the queue_order of its row; a series is named   *)
(* by the run of its first attempt.  Times and messages are left out.  A   *)
(* lease stands for the one process spawned for its run, so a token check  *)
(* is "a lease is there".  The global event sequence is kept per run: the  *)
(* order between runs is not observed by any property.                     *)
(***************************************************************************)
EXTENDS Integers, Sequences, FiniteSets, JobModel

CONSTANTS MaxRuns,       \* bound on the rows of `jobs'
          MaxSeries,     \* bound on the series submitted
          MaxProgress,   \* bound on the progress events kept for one run
          MaxReattached, \* bound on the takeover warnings kept for one run
          Outcomes,      \* the terminal states that workers and manifests report
          Pressure,      \* whether the host ever signals memory pressure
          Requests,      \* the resource requests that callers submit
          Daemons,       \* identities of daemon instances
          Digests,       \* canonical output digests
          MaximumHeadBypass

ASSUME CatalogAssumption ==
    /\ MaxRuns \in Nat /\ MaxSeries \in Nat /\ MaxProgress \in Nat
    /\ MaxReattached \in Nat
    /\ MaximumHeadBypass \in Nat
    /\ Outcomes \subseteq TerminalStates /\ Pressure \in BOOLEAN

Runs == 1..MaxRuns

NoLease == [daemon |-> "none", cancel |-> "none"]
Leases  == [daemon : Daemons, cancel : {"none", "safe"}]

NoDigest == "none"

\* "none" stands for SQL NULL (no lease row, no digest).
ASSUME NoneAssumption == "none" \notin Daemons /\ "none" \notin Digests

EventKinds == {"transition", "progress", "warning", "reattached", "artifact"}
Events     == [kind : EventKinds, state : JobStates]

VARIABLES
    state,        \* jobs.state, "absent" while the row does not exist
    series,       \* jobs.job_series_id
    attempt,      \* jobs.attempt
    need,         \* jobs.resources_json
    bypass,       \* jobs.head_bypass_count
    output,       \* jobs.output_directory IS NOT NULL
    log,          \* the rows of `events' of each run, in sequence order
    lease,        \* worker_leases
    forgotten,    \* forgotten_series
    verified,     \* full_verifications: the digest recorded for a run
    superseder,   \* attempt_supersession: superseded_by, 0 when there is no row
    request,      \* the control request whose status read is done, its write not
    recovery,     \* the recovery pass of the scheduler thread and its row snapshot
    cleared       \* workers past the state check of set_output_directory

jobs    == <<state, series, attempt, need, bypass, output>>
history == <<forgotten, verified, superseder>>
callers == <<request, recovery, cleared>>
vars    == <<jobs, log, lease, history, callers>>

-----------------------------------------------------------------------------
\* Rows and queries.

Rows == {r \in Runs : state[r] # "absent"}

Terminal(r) == state[r] \in TerminalStates
Active(r)   == state[r] \in ActiveStates
Queued(r)   == state[r] = "queued"

\* ORDER BY attempt DESC LIMIT 1: the attempt that status, cancel, rerun and
\* forget address by the name of its series.
IsLatest(r) == /\ r \in Rows
               /\ \A q \in Rows : series[q] = series[r] => attempt[q] <= attempt[r]

\* The row that the next INSERT creates.
IsNext(r) == r \in Runs \ Rows /\ \A q \in Runs : q < r => q \in Rows

NoRequest  == [op |-> "none"]
NoRecovery == [daemon |-> "none", seen |-> [r \in Runs |-> NoLease], todo |-> {}]

ServerIdle    == request = NoRequest
SchedulerIdle == recovery = NoRecovery

-----------------------------------------------------------------------------
\* Building blocks of the transactions.

Event(kind, s) == [kind |-> kind, state |-> s]

\* append_event_in_transaction: the event carries the state of its row.
Emit(r, kind) == log' = [log EXCEPT ![r] = Append(@, Event(kind, state[r]))]

\* The positions of the events of one kind in the log of a run.
Logged(r, kind) == {i \in 1..Len(log[r]) : log[r][i].kind = kind}

\* Events that may repeat without end are kept up to a bound.
EmitUpTo(r, kind, bound) ==
    IF Cardinality(Logged(r, kind)) < bound THEN Emit(r, kind) ELSE UNCHANGED log

\* Mutation of Transition: the edge is not checked again in the transaction.
TransitionUnchecked(r, next) ==
    /\ r \in Rows
    /\ state' = [state EXCEPT ![r] = next]
    /\ log' = [log EXCEPT ![r] = Append(@, Event("transition", next))]
    /\ UNCHANGED <<series, attempt, need, bypass, output>>

\* transition_in_transaction: check the edge, store the state, log the event.
Transition(r, next) ==
    /\ r \in Rows
    /\ AllowsTransition(state[r], next)
    /\ state' = [state EXCEPT ![r] = next]
    /\ log' = [log EXCEPT ![r] = Append(@, Event("transition", next))]
    /\ UNCHANGED <<series, attempt, need, bypass, output>>

\* insert_queued_in_transaction.
InsertQueued(r, s, a, q) ==
    /\ state' = [state EXCEPT ![r] = "queued"]
    /\ series' = [series EXCEPT ![r] = s]
    /\ attempt' = [attempt EXCEPT ![r] = a]
    /\ need' = [need EXCEPT ![r] = q]
    /\ log' = [log EXCEPT ![r] = Append(@, Event("transition", "queued"))]
    /\ UNCHANGED <<bypass, output>>

DeleteLease(r) == lease' = [lease EXCEPT ![r] = NoLease]

-----------------------------------------------------------------------------
\* The control server.

\* submit: a new series whose first attempt is queued.
Submit(r, q) ==
    /\ ServerIdle /\ IsNext(r)
    /\ Cardinality({series[p] : p \in Rows}) < MaxSeries
    /\ InsertQueued(r, r, 1, q)
    /\ UNCHANGED <<lease, history, callers>>

\* Mutation of Rerun: any latest attempt will do.
RerunAlways(latest, r) ==
    /\ ServerIdle /\ IsNext(r) /\ IsLatest(latest)
    /\ InsertQueued(r, series[latest], attempt[latest] + 1, need[latest])
    /\ forgotten' = forgotten \ {series[latest]}
    /\ UNCHANGED <<lease, verified, superseder, callers>>

\* rerun: one immediate transaction; the new attempt copies the request of the
\* latest one and makes a forgotten series visible again.
Rerun(latest, r) ==
    /\ ServerIdle /\ IsNext(r)
    /\ IsLatest(latest) /\ Terminal(latest)
    /\ InsertQueued(r, series[latest], attempt[latest] + 1, need[latest])
    /\ forgotten' = forgotten \ {series[latest]}
    /\ UNCHANGED <<lease, verified, superseder, callers>>

\* cancel, first statement: read the latest attempt; a terminal one is a Conflict.
CancelRead(r, mode) ==
    /\ ServerIdle /\ IsLatest(r) /\ ~ Terminal(r)
    /\ ~ (state[r] = "cancelling" /\ mode = "safe")     \* answered at once
    /\ request' = [op |-> "cancel", run |-> r, mode |-> mode, seen |-> state[r]]
    /\ UNCHANGED <<jobs, log, lease, history, recovery, cleared>>

\* cancel of an attempt read as queued: `transition' to cancelled, whatever the
\* mode; the lease table is not touched.
CancelQueued(r) ==
    /\ request.op = "cancel" /\ request.run = r /\ request.seen = "queued"
    /\ Transition(r, "cancelled")
    /\ request' = NoRequest
    /\ UNCHANGED <<lease, history, recovery, cleared>>

\* Safe cancel of an attempt read as starting or running.
CancelSafely(r) ==
    /\ request.op = "cancel" /\ request.run = r /\ request.mode = "safe"
    /\ request.seen \in {"starting", "running"}
    /\ Transition(r, "cancelling")
    /\ lease' = [lease EXCEPT ![r] =
           IF @ = NoLease THEN @ ELSE [daemon |-> @.daemon, cancel |-> "safe"]]
    /\ request' = NoRequest
    /\ UNCHANGED <<history, recovery, cleared>>

\* Force cancel of an attempt read as active.
CancelForcibly(r) ==
    /\ request.op = "cancel" /\ request.run = r /\ request.mode = "force"
    /\ request.seen \in ActiveStates
    /\ Transition(r, "interrupted")
    /\ DeleteLease(r)
    /\ request' = NoRequest
    /\ UNCHANGED <<history, recovery, cleared>>

\* The target state that a pending cancel writes.
CancelTarget == CASE request.seen = "queued" -> "cancelled"
                  [] request.seen # "queued" /\ request.mode = "safe" -> "cancelling"
                  [] OTHER -> "interrupted"

\* The attempt moved on since it was read and the edge is gone: Conflict.
CancelConflict ==
    /\ request.op = "cancel"
    /\ ~ AllowsTransition(state[request.run], CancelTarget)
    /\ request' = NoRequest
    /\ UNCHANGED <<jobs, log, lease, history, recovery, cleared>>

\* forget: read the latest attempt, which must be terminal ...
ForgetRead(r) ==
    /\ ServerIdle /\ IsLatest(r) /\ Terminal(r)
    /\ request' = [op |-> "forget", run |-> r, mode |-> "none", seen |-> state[r]]
    /\ UNCHANGED <<jobs, log, lease, history, recovery, cleared>>

\* Mutation of ForgetWrite: the attempt is named, not its series.
ForgetWriteAttempt ==
    /\ request.op = "forget"
    /\ forgotten' = forgotten \union {request.run}
    /\ request' = NoRequest
    /\ UNCHANGED <<jobs, log, lease, verified, superseder, recovery, cleared>>

\* ... then INSERT OR IGNORE, without looking again.
ForgetWrite ==
    /\ request.op = "forget"
    /\ forgotten' = forgotten \union {series[request.run]}
    /\ request' = NoRequest
    /\ UNCHANGED <<jobs, log, lease, verified, superseder, recovery, cleared>>

\* Mutation of RecordFullVerification: a digest recorded earlier is replaced.
RecordVerificationAgain(r, digest) ==
    /\ ServerIdle /\ r \in Rows /\ state[r] = "complete"
    /\ verified' = [verified EXCEPT ![r] = digest]
    /\ superseder' = [q \in Runs |->
           IF /\ q \in Rows /\ series[q] = series[r] /\ attempt[q] < attempt[r]
              /\ superseder[q] = 0
           THEN r ELSE superseder[q]]
    /\ IF verified[r] = NoDigest THEN Emit(r, "artifact") ELSE UNCHANGED log
    /\ UNCHANGED <<jobs, lease, forgotten, callers>>

\* record_full_verification of a Complete attempt that has no digest yet: every
\* earlier attempt of the series that nothing supersedes is superseded by it.  A
\* second call with the same digest changes nothing, with another is a Conflict.
RecordFullVerification(r, digest) ==
    /\ ServerIdle /\ r \in Rows /\ state[r] = "complete" /\ verified[r] = NoDigest
    /\ verified' = [verified EXCEPT ![r] = digest]
    /\ superseder' = [q \in Runs |->
           IF /\ q \in Rows /\ series[q] = series[r] /\ attempt[q] < attempt[r]
              /\ superseder[q] = 0
           THEN r ELSE superseder[q]]
    /\ Emit(r, "artifact")
    /\ UNCHANGED <<jobs, lease, forgotten, callers>>

\* prune_plan: the superseded attempts that have an output directory.
PruneCandidates == {r \in Rows : superseder[r] # 0 /\ output[r]}

-----------------------------------------------------------------------------
\* The scheduler thread of the daemon.

\* apply_dispatch_plan: in one transaction the front row `head' (0 when the plan
\* has no bypass update) gets its new counter and every selected row starts.  One
\* row that is no longer queued, or a counter going down, rolls everything back.
ApplyDispatchPlan(selected, head, count) ==
    /\ SchedulerIdle
    /\ \A r \in selected : r \in Rows /\ AllowsTransition(state[r], "starting")
    /\ head # 0 => Queued(head) /\ count >= bypass[head] /\ count <= MaximumHeadBypass
    /\ state' = [r \in Runs |-> IF r \in selected THEN "starting" ELSE state[r]]
    /\ log' = [r \in Runs |-> IF r \in selected
                              THEN Append(log[r], Event("transition", "starting"))
                              ELSE log[r]]
    /\ bypass' = [r \in Runs |-> IF r = head THEN count ELSE bypass[r]]
    /\ UNCHANGED <<series, attempt, need, output, lease, history, callers>>

\* attach_worker: upsert the lease; a safe cancel that won the race is handed on.
AttachWorker(r, daemon) ==
    /\ SchedulerIdle /\ r \in Rows /\ state[r] \in {"starting", "cancelling"}
    /\ lease' = [lease EXCEPT ![r] =
           [daemon |-> daemon, cancel |-> IF state[r] = "cancelling" THEN "safe" ELSE "none"]]
    /\ UNCHANGED <<jobs, log, history, callers>>

\* dispatch_once ends an attempt whose worker it could not launch or attach.
LaunchFailed(r, terminal) ==
    /\ SchedulerIdle /\ lease[r] = NoLease /\ terminal \in {"failed", "interrupted"}
    /\ Active(r)
    /\ Transition(r, terminal)
    /\ UNCHANGED <<lease, history, callers>>

\* warn_queued_external_memory_pressure: every queued attempt without such a
\* warning gets one.
Warned(r) == Logged(r, "warning") # {}

WarnQueued ==
    /\ SchedulerIdle /\ Pressure
    /\ \E r \in Runs : Queued(r) /\ ~ Warned(r)
    /\ log' = [r \in Runs |-> IF Queued(r) /\ ~ Warned(r)
                              THEN Append(log[r], Event("warning", state[r]))
                              ELSE log[r]]
    /\ UNCHANGED <<jobs, lease, history, callers>>

\* recover_workers_with, first statement: the active rows with their leases.
RecoverRead(daemon) ==
    /\ SchedulerIdle
    /\ recovery' = [daemon |-> daemon, todo |-> {r \in Runs : Active(r)},
                    seen |-> [r \in Runs |-> IF Active(r) THEN lease[r] ELSE NoLease]]
    /\ UNCHANGED <<jobs, log, lease, history, request, cleared>>

\* The rows are handled in queue order, one transaction for each.
RecoverNext(r) == /\ recovery.daemon # "none" /\ r \in recovery.todo
                  /\ \A q \in recovery.todo : r <= q

RecoverDone(r) ==
    recovery' = [daemon |-> recovery.daemon, todo |-> recovery.todo \ {r},
                 seen |-> [recovery.seen EXCEPT ![r] = NoLease]]

\* Reattach of a lease this daemon has already: nothing is written.
RecoverKeep(r) ==
    /\ RecoverNext(r) /\ recovery.seen[r] # NoLease
    /\ recovery.seen[r].daemon = recovery.daemon
    /\ RecoverDone(r)
    /\ UNCHANGED <<jobs, log, lease, history, request, cleared>>

\* Reattach of a lease another daemon had.  The UPDATE finds no row when the
\* worker has finished since the snapshot; the warning is logged all the same.
RecoverReattach(r) ==
    /\ RecoverNext(r) /\ r \in Rows /\ recovery.seen[r] # NoLease
    /\ recovery.seen[r].daemon # recovery.daemon
    /\ lease' = [lease EXCEPT ![r] =
           IF @ = NoLease THEN @ ELSE [daemon |-> recovery.daemon, cancel |-> @.cancel]]
    /\ EmitUpTo(r, "reattached", MaxReattached)
    /\ RecoverDone(r)
    /\ UNCHANGED <<jobs, history, request, cleared>>

\* Mutation of RecoverClose: lost work goes back to the queue.
RecoverRequeue(r, terminal) ==
    /\ RecoverNext(r) /\ terminal \in TerminalStates
    /\ IF terminal = "interrupted"
       THEN /\ InsertQueued(r, series[r], attempt[r], need[r])
       ELSE Transition(r, terminal)
    /\ DeleteLease(r)
    /\ RecoverDone(r)
    /\ UNCHANGED <<history, request, cleared>>

\* ReconcileTerminal(terminal), and Interrupt with terminal = "interrupted".
RecoverClose(r, terminal) ==
    /\ RecoverNext(r) /\ terminal \in TerminalStates
    /\ Transition(r, terminal)
    /\ DeleteLease(r)
    /\ RecoverDone(r)
    /\ UNCHANGED <<history, request, cleared>>

\* A disposition that the row no longer permits ends the pass with an error and
\* leaves the rows after it as they are.
RecoverAbort ==
    /\ ~ SchedulerIdle /\ recovery.todo # {}
    /\ recovery' = NoRecovery
    /\ UNCHANGED <<jobs, log, lease, history, request, cleared>>

\* The last statement: leases of terminal rows are deleted.
RecoverSweep ==
    /\ ~ SchedulerIdle /\ recovery.todo = {}
    /\ lease' = [r \in Runs |-> IF Terminal(r) THEN NoLease ELSE lease[r]]
    /\ recovery' = NoRecovery
    /\ UNCHANGED <<jobs, log, history, request, cleared>>

\* The daemon process dies: what its threads remembered is gone.
DaemonDies ==
    /\ ~ ServerIdle \/ ~ SchedulerIdle
    /\ request' = NoRequest /\ recovery' = NoRecovery
    /\ UNCHANGED <<jobs, log, lease, history, cleared>>

-----------------------------------------------------------------------------
\* The workers.

\* Mutation of OutputCheck: any row will do.
OutputCheckAny(r) ==
    /\ r \in Rows /\ r \notin cleared
    /\ cleared' = cleared \union {r}
    /\ UNCHANGED <<jobs, log, lease, history, request, recovery>>

\* set_output_directory: the attempt is active in one statement ...
OutputCheck(r) ==
    /\ r \in Rows /\ Active(r) /\ r \notin cleared
    /\ cleared' = cleared \union {r}
    /\ UNCHANGED <<jobs, log, lease, history, request, recovery>>

\* ... and the path is stored by another.
OutputStore(r) ==
    /\ r \in cleared
    /\ output' = [output EXCEPT ![r] = TRUE]
    /\ cleared' = cleared \ {r}
    /\ UNCHANGED <<state, series, attempt, need, bypass, log, lease, history,
                   request, recovery>>

\* The worker dies between the two.
OutputLost(r) ==
    /\ r \in cleared
    /\ cleared' = cleared \ {r}
    /\ UNCHANGED <<jobs, log, lease, history, request, recovery>>

\* mark_worker_running: the token, then the transition.  The lease goes only in
\* a transaction that also makes the row terminal, so a lease lost between the
\* two statements is an edge that is gone too, and one action is enough.
MarkWorkerRunning(r) ==
    /\ lease[r] # NoLease
    /\ Transition(r, "running")
    /\ UNCHANGED <<lease, history, callers>>

\* heartbeat with its telemetry: one immediate transaction.  The progress event and
\* the resource event of one call are one event here.
Heartbeat(r) ==
    /\ lease[r] # NoLease /\ r \in Rows /\ Active(r)
    /\ EmitUpTo(r, "progress", MaxProgress)
    /\ UNCHANGED <<jobs, lease, history, callers>>

\* finish_worker: the token, the transition and the lease in one transaction.  A
\* force cancel that found a lease ends the attempt through it too.
FinishWorker(r, terminal) ==
    /\ lease[r] # NoLease /\ terminal \in TerminalStates
    /\ Transition(r, terminal)
    /\ DeleteLease(r)
    /\ UNCHANGED <<history, callers>>

-----------------------------------------------------------------------------
Init ==
    /\ state = [r \in Runs |-> "absent"]
    /\ series = [r \in Runs |-> r]
    /\ attempt = [r \in Runs |-> 0]
    /\ need = [r \in Runs |-> "none"]
    /\ bypass = [r \in Runs |-> 0]
    /\ output = [r \in Runs |-> FALSE]
    /\ log = [r \in Runs |-> <<>>]
    /\ lease = [r \in Runs |-> NoLease]
    /\ forgotten = {}
    /\ verified = [r \in Runs |-> NoDigest]
    /\ superseder = [r \in Runs |-> 0]
    /\ request = NoRequest
    /\ recovery = NoRecovery
    /\ cleared = {}

\* The transactions of each kind of caller.
ServerNext ==
    \/ \E r \in Runs, q \in Requests : Submit(r, q)
    \/ \E latest, r \in Runs : Rerun(latest, r)
    \/ \E r \in Runs, mode \in {"safe", "force"} : CancelRead(r, mode)
    \/ \E r \in Runs : CancelQueued(r)
    \/ \E r \in Runs : CancelSafely(r)
    \/ \E r \in Runs : CancelForcibly(r)
    \/ CancelConflict
    \/ \E r \in Runs : ForgetRead(r)
    \/ ForgetWrite
    \/ \E r \in Runs, digest \in Digests : RecordFullVerification(r, digest)

SchedulerNext ==
    \/ \E selected \in SUBSET Runs, head \in Runs \union {0}, count \in 0..MaximumHeadBypass :
           /\ selected # {} \/ head # 0
           /\ ApplyDispatchPlan(selected, head, count)
    \/ \E r \in Runs, daemon \in Daemons : AttachWorker(r, daemon)
    \/ \E r \in Runs, terminal \in {"failed", "interrupted"} : LaunchFailed(r, terminal)
    \/ WarnQueued
    \/ \E daemon \in Daemons : RecoverRead(daemon)
    \/ \E r \in Runs : RecoverKeep(r)
    \/ \E r \in Runs : RecoverReattach(r)
    \/ \E r \in Runs, terminal \in Outcomes \union {"interrupted"} : RecoverClose(r, terminal)
    \/ RecoverAbort
    \/ RecoverSweep

WorkerNext(r) ==
    \/ OutputCheck(r)
    \/ OutputStore(r)
    \/ OutputLost(r)
    \/ MarkWorkerRunning(r)
    \/ Heartbeat(r)
    \/ \E terminal \in Outcomes \union {"interrupted"} : FinishWorker(r, terminal)

Next == ServerNext \/ SchedulerNext \/ DaemonDies \/ \E r \in Runs : WorkerNext(r)

Spec == Init /\ [][Next]_vars

-----------------------------------------------------------------------------
\* Type invariant.

RequestType == {NoRequest} \union
    [op : {"cancel", "forget"}, run : Runs, mode : {"safe", "force", "none"}, seen : JobStates]

RecoveryType == [daemon : Daemons \union {"none"},
                 seen : [Runs -> Leases \union {NoLease}], todo : SUBSET Runs]

TypeOK ==
    /\ state \in [Runs -> JobStates \union {"absent"}]
    /\ series \in [Runs -> Runs]
    /\ attempt \in [Runs -> Nat]
    /\ need \in [Runs -> Requests \union {"none"}]
    /\ bypass \in [Runs -> 0..MaximumHeadBypass]
    /\ output \in [Runs -> BOOLEAN]
    /\ log \in [Runs -> Seq(Events)]
    /\ lease \in [Runs -> Leases \union {NoLease}]
    /\ forgotten \subseteq Runs
    /\ verified \in [Runs -> Digests \union {NoDigest}]
    /\ superseder \in [Runs -> Runs \union {0}]
    /\ request \in RequestType
    /\ recovery \in RecoveryType
    /\ cleared \subseteq Runs

-----------------------------------------------------------------------------
\* Safety.

(***************************************************************************)
(* The event log of a run tells its life: its transitions are a legal path *)
(* from queued to the present state, every other event carries the state   *)
(* in force when it was written, and telemetry is written only while the   *)
(* attempt is active.  `job events' replays this log to its followers.     *)
(***************************************************************************)
Follows(before, after) ==
    IF after.kind = "transition" THEN AllowsTransition(before.state, after.state)
    ELSE /\ after.state = before.state
         /\ after.kind = "progress" => after.state \in ActiveStates

LogTellsLife ==
    \A r \in Runs :
        IF r \notin Rows THEN log[r] = <<>>
        ELSE /\ log[r] # <<>>
             /\ log[r][1] = Event("transition", "queued")
             /\ log[r][Len(log[r])].state = state[r]
             /\ \A i \in 1..Len(log[r]) - 1 : Follows(log[r][i], log[r][i + 1])

(***************************************************************************)
(* A lease exists only for an active attempt, whatever order the workers,  *)
(* a cancel that read the state before them, and recovery run in: a lease  *)
(* on a terminal row would keep a finished process addressable.            *)
(***************************************************************************)
LeaseOnlyActive == \A r \in Runs : lease[r] # NoLease => Active(r)

(***************************************************************************)
(* A worker is told to cancel exactly when its attempt is cancelling, also *)
(* when the cancel came between dispatch and attach and when a new daemon  *)
(* took the lease over.                                                    *)
(***************************************************************************)
CancelReachesWorker ==
    \A r \in Runs : lease[r] # NoLease =>
        (lease[r].cancel = "safe") = (state[r] = "cancelling")

(***************************************************************************)
(* A series has at most one attempt that is not terminal, it is the latest *)
(* one, and no two attempts of a series share a number: the catalog never  *)
(* has two results of one series in the making.                            *)
(***************************************************************************)
OneLiveAttempt ==
    \A r, q \in Rows : series[r] = series[q] /\ r < q =>
        Terminal(r) /\ attempt[r] < attempt[q]

(***************************************************************************)
(* A forgotten series has no work in it: listings never hide a queued or   *)
(* active attempt, although forget reads the status before it writes.      *)
(***************************************************************************)
ForgottenIsSettled ==
    \A r \in Rows : series[r] \in forgotten => Terminal(r)

(***************************************************************************)
(* Whatever supersedes an attempt is a later attempt of the same series    *)
(* that completed and was fully verified.                                  *)
(***************************************************************************)
SupersededByVerified ==
    \A r \in Runs : superseder[r] # 0 =>
        LET q == superseder[r]
        IN  /\ r \in Rows /\ q \in Rows /\ series[q] = series[r]
            /\ attempt[r] < attempt[q]
            /\ state[q] = "complete" /\ verified[q] # NoDigest

(***************************************************************************)
(* Pruning keeps a verified result: if any attempt of a series was fully   *)
(* verified, the newest such attempt is not a prune candidate.             *)
(***************************************************************************)
PruneKeepsNewestVerified ==
    \A r \in Rows :
        /\ verified[r] # NoDigest
        /\ \A q \in Rows : series[q] = series[r] /\ verified[q] # NoDigest
                               => attempt[q] <= attempt[r]
        => r \notin PruneCandidates

(***************************************************************************)
(* An attempt cancelled before it started left no artifacts: an output     *)
(* directory belongs to an attempt that was dispatched.                    *)
(***************************************************************************)
OutputOnlyAfterDispatch ==
    \A r \in Runs : output[r] =>
        \E i \in 1..Len(log[r]) : log[r][i] = Event("transition", "starting")

(***************************************************************************)
(* An attempt through its life: its rows are consistent, its events tell   *)
(* its states, only an active attempt is leased, and a cancel reaches the  *)
(* worker.                                                                 *)
(***************************************************************************)
AttemptIsSound == TypeOK /\ LogTellsLife /\ LeaseOnlyActive /\ CancelReachesWorker

(***************************************************************************)
(* The attempts of a series together: one is alive, hidden work is done,   *)
(* and what supersedes a result or survives pruning was verified.          *)
(***************************************************************************)
SeriesIsSound == /\ OneLiveAttempt /\ ForgottenIsSettled
                 /\ SupersededByVerified /\ PruneKeepsNewestVerified

-----------------------------------------------------------------------------
\* Action properties.

(***************************************************************************)
(* The end of an attempt is final: its state never changes again, and what *)
(* was recorded about its result (its digest, the attempt that supersedes  *)
(* it) is never replaced.                                                  *)
(***************************************************************************)
EndIsFinal ==
    [][\A r \in Runs : Terminal(r) =>
          /\ state'[r] = state[r]
          /\ verified[r] # NoDigest => verified'[r] = verified[r]
          /\ superseder[r] # 0 => superseder'[r] = superseder[r]]_vars

-----------------------------------------------------------------------------
\* The catalog implements JobLifecycle: the history of a series is read off the
\* rows that carry its name.

AttemptsOf(s) == {r \in Rows : series[r] = s}

HistoryOf(s) ==
    [i \in 1..Cardinality(AttemptsOf(s)) |->
        state[CHOOSE r \in AttemptsOf(s) : attempt[r] = i]]

Lifecycle == INSTANCE JobLifecycle WITH
    Series <- Runs, attempts <- [s \in Runs |-> HistoryOf(s)], hidden <- forgotten

LifecycleSpec == Lifecycle!Spec
=============================================================================
