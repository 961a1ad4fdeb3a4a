---------------------------- MODULE DaemonRuntime ----------------------------
(***************************************************************************)
(* The processes around the job catalog: daemons that elect one owner,     *)
(* recover, dispatch and serve control requests (`run_daemon',             *)
(* `dispatch_once', `DaemonControlBackend'), and workers that run one      *)
(* attempt each and leave a run manifest (`run_worker').  Every write to   *)
(* the tables is an action of JobCatalog conjoined with the step of the    *)
(* process that performs it.                                               *)
(*                                                                         *)
(* Simplifications.  Which queued rows a plan picks is left open here (any *)
(* set that was queued when the plan was made); DispatchLoop has the       *)
(* planner.  A worker process is named by its run: a run is dispatched at  *)
(* most once.  A process probe tells the truth.  A manifest is its         *)
(* lifecycle status, and is replaced atomically.  History operations       *)
(* (forget, verification) are in JobCatalog only.                          *)
(***************************************************************************)
EXTENDS JobCatalog

CONSTANTS MaxCrashes,   \* bound on processes that are killed or crash
          MaxErrors,    \* bound on setup, launch and run errors
          MaxLaunches   \* bound on the worker processes that are started

\* A worker can always report that it failed or that it was cancelled.
ASSUME RuntimeAssumption == /\ MaxCrashes \in Nat /\ MaxErrors \in Nat
                            /\ MaxLaunches \in Nat
                            /\ {"failed", "cancelled"} \subseteq Outcomes

VARIABLES
    owner,       \* daemon_lease: the daemon instance that owns the catalog
    dpc,         \* where the main thread of each daemon process is
    observed,    \* the owner each daemon read before it claims
    bound,       \* the daemons whose control server is up
    decision,    \* the recovery dispositions computed so far
    picked,      \* the rows of the dispatch plan that are not launched yet
    stop,        \* the force-cancel request in progress
    wpc,         \* where the worker process of each run is
    verdict,     \* the terminal state each worker is about to report
    manifest,    \* run-manifest.json of each run: its status, or "none"
    crashes, errors

daemonVars == <<owner, dpc, observed, bound, decision, picked, stop>>
workerVars == <<wpc, verdict, manifest>>
faultVars  == <<crashes, errors>>
rvars      == <<vars, daemonVars, workerVars, faultVars>>

-----------------------------------------------------------------------------
\* Daemon processes.

\* A daemon that does not exist (yet, or any more).
Gone(d) == dpc[d] = "gone"

\* A daemon between its claim and its release.
Owning(d) == dpc[d] \in {"inspect", "inspected", "recover", "pick", "apply",
                         "launch", "attach", "closing", "release"}

NoStop == [phase |-> "no"]

\* What inspection decides about a row by default.
NoDecision == [r \in Runs |-> "interrupted"]

\* The control server answers: some daemon has bound the endpoint, and the one
\* request at a time that it serves is done.
ServerFree == bound # {} /\ ServerIdle /\ stop = NoStop

Moves(d, from, to) == dpc[d] = from /\ dpc' = [dpc EXCEPT ![d] = to]

-----------------------------------------------------------------------------
\* Worker processes.

\* Steps of run_worker at which the process exists.
WorkerSteps == {"wait", "setup", "resolve", "output", "store", "ready", "mark",
                "build", "begin", "run", "stopping", "finish"}

\* Mutation of Alive: the process id is taken for the process.
AliveByPid(r) == wpc[r] # "none"

\* process_identity_matches: an exited process still answers until it is reaped.
Alive(r) == wpc[r] \in WorkerSteps \union {"zombie"}

At(r, from, to) == wpc[r] = from /\ wpc' = [wpc EXCEPT ![r] = to]

Exit(r) == wpc' = [wpc EXCEPT ![r] = "zombie"]

HasLease(r)   == lease[r] # NoLease
SafeCancel(r) == lease[r].cancel = "safe"

\* recovery_manifest_disposition, given whether the snapshot has an output path:
\* the terminal state to adopt, and the manifest it leaves behind.
Disposition(r, out) ==
    IF ~ out \/ manifest[r] \in {"none", "running"} THEN "interrupted" ELSE manifest[r]

DisposedManifest(r, out) ==
    IF out /\ manifest[r] = "running" THEN "interrupted" ELSE manifest[r]

-----------------------------------------------------------------------------
\* A daemon starts: daemon_client found nobody listening.
StartDaemon(d) ==
    /\ bound = {} /\ Gone(d)
    /\ owner # d /\ \A e \in Daemons : observed[e] # d     \* instance ids are fresh
    /\ \A r \in Runs : lease[r].daemon # d
    /\ Moves(d, "gone", "start")
    /\ UNCHANGED <<vars, owner, observed, bound, decision, picked, stop,
                   workerVars, faultVars>>

\* run_daemon reads daemon_lease and probes the owner; a live one ends this start.
ReadOwner(d) ==
    /\ IF owner # "none" /\ ~ Gone(owner)
       THEN Moves(d, "start", "gone") /\ UNCHANGED observed
       ELSE Moves(d, "start", "claim") /\ observed' = [observed EXCEPT ![d] = owner]
    /\ UNCHANGED <<vars, owner, bound, decision, picked, stop, workerVars, faultVars>>

\* claim_daemon: insert, or replace exactly the owner that was observed.
ClaimDaemon(d) ==
    /\ IF owner \in {"none", observed[d]}
       THEN Moves(d, "claim", "inspect") /\ owner' = d
       ELSE Moves(d, "claim", "gone") /\ UNCHANGED owner
    /\ observed' = [observed EXCEPT ![d] = "none"]
    /\ UNCHANGED <<vars, bound, decision, picked, stop, workerVars, faultVars>>

\* recover_daemon_workers, first half: for every active row probe the worker and,
\* when it is dead, read (and settle) its manifest.  A dead worker stays dead and
\* its manifest stays as it is, so the rows are taken together.
Inspect(d) ==
    LET dead == {r \in Runs : Active(r) /\ ~ (HasLease(r) /\ Alive(r))}
    IN  /\ Moves(d, "inspect", "inspected")
        /\ decision' = [r \in Runs |->
               IF ~ Active(r) THEN "interrupted"
               ELSE IF r \in dead THEN Disposition(r, output[r]) ELSE "reattach"]
        /\ manifest' = [r \in Runs |->
               IF r \in dead THEN DisposedManifest(r, output[r]) ELSE manifest[r]]
        /\ UNCHANGED <<vars, owner, observed, bound, picked, stop, wpc, verdict, faultVars>>

\* Second half: recover_workers_with reads the rows again and applies decisions.
RecoveryStarts(d) ==
    /\ Moves(d, "inspected", "recover")
    /\ RecoverRead(d)
    /\ UNCHANGED <<owner, observed, bound, decision, picked, stop, workerVars, faultVars>>

RecoverRow(d, r) ==
    /\ dpc[d] = "recover"
    /\ IF decision[r] = "reattach" THEN RecoverKeep(r) \/ RecoverReattach(r)
                                   ELSE RecoverClose(r, decision[r])
    /\ UNCHANGED <<daemonVars, workerVars, faultVars>>

\* Recovery is through: during setup the control server is bound and the loop begins
\* its first tick, with recovery again; in a tick the dispatch follows.
RecoveryEnds(d) ==
    /\ Moves(d, "recover", IF d \in bound THEN "pick" ELSE "inspect")
    /\ RecoverSweep
    /\ bound' = bound \union {d}
    /\ decision' = NoDecision
    /\ UNCHANGED <<owner, observed, picked, stop, workerVars, faultVars>>

\* The catalog refuses a decision: during setup the daemon releases its lease and
\* exits, in the loop it closes.
RecoveryFails(d) ==
    /\ dpc[d] = "recover"
    /\ \E r \in Runs : /\ RecoverNext(r)
                       /\ decision[r] # "reattach"
                       /\ ~ AllowsTransition(state[r], decision[r])
    /\ RecoverAbort
    /\ dpc' = [dpc EXCEPT ![d] = IF d \in bound THEN "closing" ELSE "release"]
    /\ decision' = NoDecision
    /\ UNCHANGED <<owner, observed, bound, picked, stop, workerVars, faultVars>>

\* dispatch_once reads the queue and plans.
PickRows(d) ==
    /\ Moves(d, "pick", "apply")
    /\ \E rows \in SUBSET {r \in Runs : Queued(r)} :
           /\ Cardinality(rows) + Cardinality({r \in Runs : wpc[r] # "none"}) <= MaxLaunches
           /\ picked' = rows
    /\ UNCHANGED <<vars, owner, observed, bound, decision, stop, workerVars, faultVars>>

\* apply_dispatch_plan.
ApplyRows(d) ==
    /\ Moves(d, "apply", "launch")
    /\ ApplyDispatchPlan(picked, 0, 0)
    /\ UNCHANGED <<owner, observed, bound, decision, picked, stop, workerVars, faultVars>>

\* A picked row is not queued any more: the plan is a Conflict and the loop ends.
ApplyFails(d) ==
    /\ Moves(d, "apply", "closing")
    /\ \E r \in picked : ~ Queued(r)
    /\ picked' = {}
    /\ UNCHANGED <<vars, owner, observed, bound, decision, stop, workerVars, faultVars>>

NextPicked(r) == r \in picked /\ \A q \in picked : r <= q

\* The worker process is spawned ...
LaunchWorker(d, r) ==
    /\ Moves(d, "launch", "attach") /\ NextPicked(r)
    /\ wpc' = [wpc EXCEPT ![r] = "wait"]
    /\ UNCHANGED <<vars, owner, observed, bound, decision, picked, stop, verdict,
                   manifest, faultVars>>

\* ... or not, and the attempt has failed.  If it was force-cancelled meanwhile the
\* transition is refused and the loop ends.
LaunchFails(d, r) ==
    /\ dpc[d] = "launch" /\ NextPicked(r) /\ errors < MaxErrors
    /\ errors' = errors + 1
    /\ IF Active(r)
       THEN LaunchFailed(r, "failed") /\ picked' = picked \ {r} /\ UNCHANGED dpc
       ELSE UNCHANGED vars /\ picked' = {} /\ dpc' = [dpc EXCEPT ![d] = "closing"]
    /\ UNCHANGED <<owner, observed, bound, decision, stop, workerVars, crashes>>

Attach(d, r) ==
    /\ Moves(d, "attach", "launch") /\ NextPicked(r)
    /\ AttachWorker(r, d)
    /\ picked' = picked \ {r}
    /\ UNCHANGED <<owner, observed, bound, decision, stop, workerVars, faultVars>>

\* attach_worker refuses a row that was force-cancelled since: the spawned process
\* is killed and waited for.  Killing one that has exited by itself is an error on
\* some hosts; then the loop ends.
AttachFails(d, r) ==
    /\ dpc[d] = "attach" /\ NextPicked(r) /\ Terminal(r)
    /\ \/ /\ wpc' = [wpc EXCEPT ![r] = "gone"]
          /\ picked' = picked \ {r} /\ dpc' = [dpc EXCEPT ![d] = "launch"]
       \/ /\ wpc[r] = "zombie" /\ UNCHANGED wpc
          /\ picked' = {} /\ dpc' = [dpc EXCEPT ![d] = "closing"]
    /\ UNCHANGED <<vars, owner, observed, bound, decision, stop, verdict, manifest, faultVars>>

\* The end of a tick: the next one begins with recovery.
NextTick(d) ==
    /\ Moves(d, "launch", "inspect") /\ picked = {}
    /\ UNCHANGED <<vars, owner, observed, bound, decision, picked, stop,
                   workerVars, faultVars>>

\* The idle timeout has run out and nothing was queued or active when the loop
\* looked: the daemon shuts down.
IdleShutdown(d) ==
    /\ Moves(d, "launch", "closing") /\ picked = {}
    /\ \A r \in Runs : ~ Queued(r) /\ ~ Active(r)
    /\ UNCHANGED <<vars, owner, observed, bound, decision, picked, stop,
                   workerVars, faultVars>>

\* The shutdown request is served after the requests before it; the server thread
\* ends and is joined ...
StopServer(d) ==
    /\ Moves(d, "closing", "release")
    /\ ServerIdle /\ stop = NoStop
    /\ bound' = bound \ {d}
    /\ UNCHANGED <<vars, owner, observed, decision, picked, stop, workerVars, faultVars>>

\* Mutation of ReleaseDaemon: the worker leases of the daemon go with its own.
ReleaseDaemonAndWorkers(d) ==
    /\ Moves(d, "release", "gone") /\ owner = d
    /\ owner' = "none"
    /\ lease' = [r \in Runs |-> IF lease[r].daemon = d THEN NoLease ELSE lease[r]]
    /\ UNCHANGED <<jobs, log, history, callers, observed, bound, decision, picked, stop,
                   workerVars, faultVars>>

\* ... and release_daemon gives the lease up.
ReleaseDaemon(d) ==
    /\ Moves(d, "release", "gone") /\ owner = d
    /\ owner' = "none"
    /\ UNCHANGED <<vars, observed, bound, decision, picked, stop, workerVars, faultVars>>

\* The daemon process is killed; its lease row and its workers stay.
DaemonCrash(d) ==
    /\ ~ Gone(d) /\ crashes < MaxCrashes
    /\ crashes' = crashes + 1
    /\ dpc' = [dpc EXCEPT ![d] = "gone"]
    /\ observed' = [observed EXCEPT ![d] = "none"]
    /\ bound' = bound \ {d}
    /\ IF Owning(d)
       THEN /\ request' = NoRequest /\ recovery' = NoRecovery
            /\ decision' = NoDecision /\ picked' = {} /\ stop' = NoStop
       ELSE UNCHANGED <<request, recovery, decision, picked, stop>>
    /\ UNCHANGED <<jobs, log, lease, history, cleared, owner, workerVars, errors>>

-----------------------------------------------------------------------------
\* The control server: DaemonControlBackend in front of the catalog.

ServeSubmit(r, q) ==
    /\ ServerFree
    /\ Submit(r, q)
    /\ UNCHANGED <<daemonVars, workerVars, faultVars>>

ServeRerun(latest, r) ==
    /\ ServerFree
    /\ Rerun(latest, r)
    /\ UNCHANGED <<daemonVars, workerVars, faultVars>>

\* A safe cancel goes to the catalog as it is.
ServeSafeCancel(r) ==
    /\ ServerFree
    /\ CancelRead(r, "safe")
    /\ UNCHANGED <<daemonVars, workerVars, faultVars>>

\* The write of a cancel that the catalog has read for.
ServeCancelWrite(r) ==
    /\ CancelQueued(r) \/ CancelSafely(r) \/ CancelForcibly(r) \/ CancelConflict
    /\ UNCHANGED <<daemonVars, workerVars, faultVars>>

\* A force cancel reads the attempt and its lease.  The snapshot is kept: it says
\* later whether there is an output directory with a manifest in it.
ForceRead(r) ==
    /\ ServerFree /\ IsLatest(r) /\ ~ Terminal(r)
    /\ stop' = [phase |-> IF Active(r) /\ HasLease(r) THEN "kill" ELSE "unleased",
                run |-> r, output |-> output[r], terminal |-> "interrupted"]
    /\ UNCHANGED <<vars, owner, dpc, observed, bound, decision, picked,
                   workerVars, faultVars>>

\* No lease was seen: the catalog cancels by itself, from a second read.
ForceUnleased(r) ==
    /\ stop.phase = "unleased" /\ stop.run = r
    /\ CancelRead(r, "force") \/ (Terminal(r) /\ UNCHANGED vars)
    /\ stop' = NoStop
    /\ UNCHANGED <<owner, dpc, observed, bound, decision, picked, workerVars, faultVars>>

\* The process is gone at once, wherever it was.
Killed(r) ==
    /\ Exit(r)
    /\ IF r \in cleared THEN OutputLost(r) ELSE UNCHANGED vars

\* force_stop kills the process of the lease; an exited one may be an error, and
\* a reaped one always is (Unavailable: nothing was changed).
ForceKill(r) ==
    /\ stop.phase = "kill" /\ stop.run = r
    /\ \/ Alive(r) /\ Killed(r) /\ stop' = [stop EXCEPT !.phase = "settle"]
       \/ wpc[r] \in {"zombie", "gone"} /\ UNCHANGED <<vars, wpc>> /\ stop' = NoStop
    /\ UNCHANGED <<owner, dpc, observed, bound, decision, picked, verdict, manifest,
                   faultVars>>

\* terminal_state_after_force_stop, from the snapshot of the first read.
ForceSettle(r) ==
    /\ stop.phase = "settle" /\ stop.run = r
    /\ stop' = [stop EXCEPT !.phase = "finish", !.terminal = Disposition(r, stop.output)]
    /\ manifest' = [manifest EXCEPT ![r] = DisposedManifest(r, stop.output)]
    /\ UNCHANGED <<vars, owner, dpc, observed, bound, decision, picked, wpc, verdict,
                   faultVars>>

\* finish_worker with that state, or an error and nothing changes.
Reports(r, terminal) ==
    \/ FinishWorker(r, terminal)
    \/ (~ HasLease(r) \/ ~ AllowsTransition(state[r], terminal)) /\ UNCHANGED vars

ForceFinish(r) ==
    /\ stop.phase = "finish" /\ stop.run = r
    /\ Reports(r, stop.terminal)
    /\ stop' = NoStop
    /\ UNCHANGED <<owner, dpc, observed, bound, decision, picked, workerVars, faultVars>>

-----------------------------------------------------------------------------
\* A worker: run_worker, step by step.

\* The steps that only move the worker on.
Keeps == UNCHANGED <<daemonVars, manifest, faultVars>>

\* It will report `terminal' next.
Concludes(r, terminal) ==
    /\ wpc' = [wpc EXCEPT ![r] = "finish"]
    /\ verdict' = [verdict EXCEPT ![r] = terminal]

\* wait_for_worker_lease: the lease is attached, or the attempt has ended, or the
\* wait has taken ten seconds.
WaitForLease(r) ==
    /\ wpc[r] = "wait"
    /\ IF HasLease(r) THEN At(r, "wait", "setup") ELSE Exit(r)
    /\ UNCHANGED <<vars, verdict>> /\ Keeps

\* finish_pre_manifest_cancel_if_requested, before and after the input is resolved.
CheckCancel(r, from, to) ==
    /\ wpc[r] = from
    /\ CASE ~ HasLease(r)                 -> Exit(r) /\ UNCHANGED verdict
         [] HasLease(r) /\ SafeCancel(r)  -> Concludes(r, "cancelled")
         [] OTHER                         -> At(r, from, to) /\ UNCHANGED verdict
    /\ UNCHANGED vars /\ Keeps

\* set_output_directory, its two statements; a terminal attempt is a Conflict.
CheckOutput(r) ==
    /\ wpc[r] = "output"
    /\ IF Active(r) THEN OutputCheck(r) /\ At(r, "output", "store")
                    ELSE UNCHANGED vars /\ Exit(r)
    /\ UNCHANGED verdict /\ Keeps

StoreOutput(r) ==
    /\ At(r, "store", "ready")
    /\ OutputStore(r)
    /\ UNCHANGED verdict /\ Keeps

\* control_before_build: a worker told to cancel stays out of running.
Ready(r) ==
    /\ wpc[r] = "ready"
    /\ CASE ~ HasLease(r)                -> Exit(r)
         [] HasLease(r) /\ SafeCancel(r) -> At(r, "ready", "build")
         [] OTHER                        -> At(r, "ready", "mark")
    /\ UNCHANGED <<vars, verdict>> /\ Keeps

\* mark_worker_running_reliably: a cancel that came in between is no error.
Mark(r) ==
    /\ wpc[r] = "mark"
    /\ CASE state[r] = "starting"   -> MarkWorkerRunning(r) /\ At(r, "mark", "build")
         [] state[r] = "cancelling" -> UNCHANGED vars /\ At(r, "mark", "build")
         [] OTHER                   -> UNCHANGED vars /\ Exit(r)
    /\ UNCHANGED verdict /\ Keeps

\* The runner is built and run_with_control persists the Running manifest.
Build(r) ==
    /\ At(r, "build", "begin")
    /\ manifest' = [manifest EXCEPT ![r] = "running"]
    /\ UNCHANGED <<vars, verdict, daemonVars, faultVars>>

\* Resolving the input, building the runner or persisting the first manifest
\* fails: the attempt has failed without a manifest.
SetupFails(r) ==
    /\ wpc[r] \in {"resolve", "output", "build"} /\ errors < MaxErrors
    /\ errors' = errors + 1
    /\ Concludes(r, "failed")
    /\ UNCHANGED <<vars, daemonVars, manifest, crashes>>

\* macro_step_boundary: worker_control, then the heartbeat.  The first boundary is
\* always sampled, later ones at most once per sample interval.
Poll(r) ==
    /\ wpc[r] \in {"begin", "run"} /\ HasLease(r)
    /\ Heartbeat(r)
    /\ wpc' = [wpc EXCEPT ![r] = IF SafeCancel(r) THEN "stopping" ELSE "run"]
    /\ UNCHANGED verdict /\ Keeps

\* The last boundary is behind: nobody looks at the cancel mode any more.  The
\* manifest is final before the catalog hears of it.
NaturalOutcomes == {"complete", "completed_with_particle_errors"} \intersect Outcomes

Publishes(r, terminal) ==
    /\ Concludes(r, terminal)
    /\ manifest' = [manifest EXCEPT ![r] = terminal]
    /\ UNCHANGED <<vars, daemonVars, faultVars>>

\* Mutation of RunEnds: the outcome is reported before the manifest is final.
RunEndsUnwritten(r) ==
    /\ wpc[r] = "run"
    /\ \E terminal \in NaturalOutcomes : Concludes(r, terminal)
    /\ UNCHANGED <<vars, daemonVars, manifest, faultVars>>

RunEnds(r) ==
    /\ wpc[r] = "run"
    /\ \E terminal \in NaturalOutcomes : Publishes(r, terminal)

RunCancels(r) == wpc[r] = "stopping" /\ Publishes(r, "cancelled")

\* The lease is gone at a poll: the run fails by its own account.
RunDisowned(r) ==
    /\ wpc[r] \in {"begin", "run"} /\ ~ HasLease(r)
    /\ Publishes(r, "failed")

\* The simulation or its finalization fails; so may the failed manifest.
RunFails(r) ==
    /\ wpc[r] \in {"begin", "run", "stopping"} /\ errors < MaxErrors
    /\ errors' = errors + 1
    /\ Concludes(r, "failed")
    /\ manifest' \in {manifest, [manifest EXCEPT ![r] = "failed"]}
    /\ UNCHANGED <<vars, daemonVars, crashes>>

\* finish_worker_reliably; whatever the answer, the process ends.
Finish(r) ==
    /\ wpc[r] = "finish"
    /\ Reports(r, verdict[r])
    /\ Exit(r)
    /\ UNCHANGED verdict /\ Keeps

\* The process is killed from outside or crashes.
WorkerDies(r) ==
    /\ wpc[r] \in WorkerSteps /\ crashes < MaxCrashes
    /\ crashes' = crashes + 1
    /\ Killed(r)
    /\ UNCHANGED <<daemonVars, verdict, manifest, errors>>

\* reap_finished, or init for the orphans of a dead daemon.
Reap(r) ==
    /\ At(r, "zombie", "gone") /\ r \notin picked
    /\ UNCHANGED <<vars, verdict>> /\ Keeps

-----------------------------------------------------------------------------
RInit ==
    /\ Init
    /\ owner = "none"
    /\ dpc = [d \in Daemons |-> "gone"]
    /\ observed = [d \in Daemons |-> "none"]
    /\ bound = {}
    /\ decision = NoDecision
    /\ picked = {}
    /\ stop = NoStop
    /\ wpc = [r \in Runs |-> "none"]
    /\ verdict = [r \in Runs |-> "none"]
    /\ manifest = [r \in Runs |-> "none"]
    /\ crashes = 0 /\ errors = 0

\* Steps that a running daemon takes by itself.
DaemonStep(d) ==
    \/ ReadOwner(d)
    \/ ClaimDaemon(d)
    \/ Inspect(d)
    \/ RecoveryStarts(d)
    \/ \E r \in Runs : RecoverRow(d, r)
    \/ RecoveryEnds(d)
    \/ RecoveryFails(d)
    \/ PickRows(d)
    \/ ApplyRows(d)
    \/ ApplyFails(d)
    \/ \E r \in Runs : LaunchWorker(d, r)
    \/ \E r \in Runs : Attach(d, r)
    \/ \E r \in Runs : AttachFails(d, r)
    \/ NextTick(d)
    \/ IdleShutdown(d)
    \/ StopServer(d)
    \/ ReleaseDaemon(d)

\* Requests that arrive, and the steps that bring one to its end.
Asked ==
    \/ \E r \in Runs, q \in Requests : ServeSubmit(r, q)
    \/ \E latest, r \in Runs : ServeRerun(latest, r)
    \/ \E r \in Runs : ServeSafeCancel(r)
    \/ \E r \in Runs : ForceRead(r)

Answers ==
    \/ \E r \in Runs : ServeCancelWrite(r)
    \/ \E r \in Runs : ForceUnleased(r)
    \/ \E r \in Runs : ForceKill(r)
    \/ \E r \in Runs : ForceSettle(r)
    \/ \E r \in Runs : ForceFinish(r)

\* Steps that a worker takes by itself.
WorkerStep(r) ==
    \/ WaitForLease(r)
    \/ CheckCancel(r, "setup", "resolve")
    \/ CheckCancel(r, "resolve", "output")
    \/ CheckOutput(r)
    \/ StoreOutput(r)
    \/ Ready(r)
    \/ Mark(r)
    \/ Build(r)
    \/ Poll(r)
    \/ RunCancels(r)
    \/ RunDisowned(r)
    \/ Finish(r)
    \/ Reap(r)

Faults ==
    \/ \E d \in Daemons, r \in Runs : LaunchFails(d, r)
    \/ \E d \in Daemons : DaemonCrash(d)
    \/ \E r \in Runs : SetupFails(r)
    \/ \E r \in Runs : RunFails(r)
    \/ \E r \in Runs : WorkerDies(r)

RNext ==
    \/ \E d \in Daemons : StartDaemon(d)
    \/ \E d \in Daemons : DaemonStep(d)
    \/ Asked
    \/ Answers
    \/ \E r \in Runs : WorkerStep(r)
    \/ \E r \in Runs : RunEnds(r)
    \/ Faults

RSpec == RInit /\ [][RNext]_rvars

(***************************************************************************)
(* Fairness.  Each process keeps running; a simulation comes to its end;   *)
(* the control server answers what it has accepted; and while nobody       *)
(* listens, some client command sooner or later starts a daemon, as every  *)
(* `job' command does.  Faults and requests are never required.            *)
(***************************************************************************)
Fairness ==
    /\ WF_rvars(\E d \in Daemons : StartDaemon(d))
    /\ \A d \in Daemons : WF_rvars(DaemonStep(d))
    /\ WF_rvars(Answers)
    /\ \A r \in Runs : WF_rvars(WorkerStep(r)) /\ WF_rvars(RunEnds(r))

FairRSpec == RSpec /\ Fairness

-----------------------------------------------------------------------------
\* Type invariant.

DaemonPoints == {"gone", "start", "claim", "inspect", "inspected", "recover", "pick",
                 "apply", "launch", "attach", "closing", "release"}

StopType == {NoStop} \union
    [phase : {"kill", "unleased", "settle", "finish"}, run : Runs,
     output : BOOLEAN, terminal : TerminalStates]

RuntimeTypeOK ==
    /\ TypeOK
    /\ owner \in Daemons \union {"none"}
    /\ dpc \in [Daemons -> DaemonPoints]
    /\ observed \in [Daemons -> Daemons \union {"none"}]
    /\ bound \subseteq Daemons
    /\ decision \in [Runs -> TerminalStates \union {"reattach"}]
    /\ picked \subseteq Runs
    /\ stop \in StopType
    /\ wpc \in [Runs -> WorkerSteps \union {"none", "zombie", "gone"}]
    /\ verdict \in [Runs -> TerminalStates \union {"none"}]
    /\ manifest \in [Runs -> TerminalStates \union {"none", "running"}]
    /\ crashes \in 0..MaxCrashes /\ errors \in 0..MaxErrors

-----------------------------------------------------------------------------
\* Safety.

(***************************************************************************)
(* At most one daemon recovers, dispatches and serves: whoever is between  *)
(* its claim and its release is the recorded owner, and only the owner     *)
(* listens on the endpoint, although owners crash and starts race.         *)
(***************************************************************************)
SingleDaemon ==
    /\ \A d \in Daemons : Owning(d) => owner = d
    /\ \A d \in bound : Owning(d)

(***************************************************************************)
(* Once its recovery pass is through, every worker lease names the daemon  *)
(* that dispatches: none is left to an instance that is gone.              *)
(***************************************************************************)
LeasesTakenOver ==
    \A d \in Daemons, r \in Runs :
        dpc[d] \in {"pick", "apply", "launch", "attach"} /\ HasLease(r)
            => lease[r].daemon = d

(***************************************************************************)
(* Whenever the daemon looks at its queue, every attempt that holds        *)
(* resources has a lease: what an interrupted round of launches left       *)
(* behind was found by recovery, and no slot is lost for good.             *)
(***************************************************************************)
ActiveRowsLeased ==
    \A d \in Daemons, r \in Runs :
        dpc[d] \in {"pick", "apply"} /\ Active(r) => HasLease(r)

(***************************************************************************)
(* The catalog never contradicts the run manifest: an attempt is recorded  *)
(* complete only with that manifest on disk, cancelled never beside a      *)
(* manifest that says otherwise, failed never beside a finished one.       *)
(***************************************************************************)
CatalogMatchesManifest ==
    \A r \in Runs :
        /\ state[r] \in {"complete", "completed_with_particle_errors"}
               => manifest[r] = state[r]
        /\ state[r] = "cancelled" => manifest[r] \in {"none", "cancelled"}
        /\ state[r] = "failed" => manifest[r] \in {"none", "running", "failed", "interrupted"}

(***************************************************************************)
(* Recovery closes an attempt that holds a lease only when the process of  *)
(* the lease is gone: a live worker is never taken for a lost one.         *)
(***************************************************************************)
OnlyLostWorkersClosed ==
    \A d \in Daemons, r \in Runs :
        /\ dpc[d] \in {"inspected", "recover"} /\ HasLease(r)
        /\ decision[r] # "reattach"
        => wpc[r] = "gone"

(***************************************************************************)
(* The processes and the catalog agree: one daemon acts, it holds every    *)
(* lease, no active attempt is without one when it looks at its queue, no  *)
(* live worker is closed as lost, and no row contradicts a manifest.       *)
(***************************************************************************)
RuntimeIsSound == /\ RuntimeTypeOK /\ SingleDaemon /\ LeasesTakenOver /\ ActiveRowsLeased
                  /\ CatalogMatchesManifest /\ OnlyLostWorkersClosed

(***************************************************************************)
(* An attempt is launched at most once, whatever crashes and restarts: no  *)
(* worker starts for a run that had one.                                   *)
(***************************************************************************)
LaunchedOnce ==
    [][\A r \in Runs : wpc'[r] = "wait" => wpc[r] \in {"none", "wait"}]_rvars

(***************************************************************************)
(* The processes write the tables only as JobCatalog says.                 *)
(***************************************************************************)
ImplementsCatalog == Spec

-----------------------------------------------------------------------------
\* Liveness.

\* A safe cancel was accepted after the last boundary that the worker sampled: the
\* result is complete, and the catalog cannot record it.
Wedged(r) ==
    /\ state[r] = "cancelling"
    /\ manifest[r] \in {"complete", "completed_with_particle_errors"}
    /\ wpc[r] \notin WorkerSteps

(***************************************************************************)
(* A dispatched attempt ends, although daemons and workers crash and       *)
(* steps fail, unless some attempt is wedged.                              *)
(***************************************************************************)
ActiveEnds ==
    \A r \in Runs : Active(r) ~> (Terminal(r) \/ \E q \in Runs : Wedged(q))

(***************************************************************************)
(* The recovery table of the runtime guide: when the worker is gone and a  *)
(* valid terminal manifest is there, that state is reconciled into the     *)
(* catalog.  It is not when the attempt is wedged.                         *)
(***************************************************************************)
TerminalManifestReconciled ==
    \A r \in Runs :
        (Active(r) /\ wpc[r] = "gone" /\ manifest[r] \in TerminalStates) ~> Terminal(r)
=============================================================================
