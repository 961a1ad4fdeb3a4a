# Trajecta: TLA+ models and proofs

Trajecta computes Lagrangian particle trajectories. A user submits runs; a
background daemon queues them, starts one worker process for each dispatched
attempt, survives its own restarts and keeps a durable catalog in SQLite; a
worker reads meteorological data, fills or releases particles, moves them, and
leaves a database of rows, a provenance bundle and a manifest. The modules here
model the job runtime, which is concurrent and durable, and the algorithms of the
worker whose results are hard to test. Paths below are relative to
`src/trajecta/`; `trajecta-job` and so on are directories of `crates/`.

## 1. The system

| Part | Source | State | Operations | What makes it correct | Modules |
| --- | --- | --- | --- | --- | --- |
| Attempt lifecycle | `trajecta-job/src/model.rs` | none | the edges of `JobState` | an end is an end | `JobModel`, `JobLifecycle` |
| Dispatch planner | `scheduler.rs` | the locals of a loop | `plan_dispatch` | exact accounting, FIFO but for safe backfill, bounded overtaking | `Scheduler`, `SchedulerPass` |
| Dispatch over time | `daemon.rs`, `catalog.rs` | a plan in hand | `dispatch_once` | capacity kept although reads are stale; every run leaves the queue | `DispatchLoop` |
| Job catalog | `catalog.rs` | the tables of a SQLite file | every transaction on them | one live attempt per series, leases for active attempts only, a log that replays the life | `JobCatalog` |
| Daemon, control server, worker, process host | `trajecta-cli/src/runtime.rs`, `runtime/process.rs`, `daemon.rs` | program counters, children, `run-manifest.json` | elect, recover, tick, launch, attach, poll, finish, kill | one daemon acts, nothing is launched twice, catalog and manifest agree | `DaemonRuntime` |
| Client and local IPC | `trajecta-cli/src/runtime.rs`, `trajecta-job/src/ipc.rs` | cursor, retries, lost answers | run, wait, events, cancel, rerun | a reader is told of everything, a command has its effect | `JobClient` |
| Attempt outputs | `trajecta-core/src/output`, `manifest_store.rs`, `runner` | database, spool, bundle, manifest | closeout, abort, quarantine, recovery; rows; sort and lockstep | what is left on disk is true | `RunOutputs`, `RunLog`, `ProvenanceBundle` |
| Steps of a run | `clock.rs`, `physics`, `integrator`, `boundary`, `particle.rs` | clock, batch of particles, path | plan a step, halve it, move, judge a path, cut it | time is tiled, a row stays one particle, the first contact decides | `StepPlanner`, `MacroStep`, `ParticleAdvance`, `BoundaryPolicies`, `PathCuts` |
| Population and release | `population`, `release` | carried mass, schedule, mesh | fill a domain, release over time and area | mass is accounted for, every time and place has its share | `DomainFill`, `ReleaseBirths`, `ReleaseMesh`, `ReleaseSampling` |
| Data of a run | `trajecta-case`, `trajecta-cli/src/project.rs`, `trajecta-met/src/profile`, `frame`, `io` | locks, graph of fields, frames, open files | lock, finalize, compile, load, read | the run gets the data its documents promise | `DatasetLock`, `ProjectFinalize`, `ProfileGraph`, `FrameLoad`, `GridSources` |
| Meteorological queries | `trajecta-met/src/query`, `vertical` | resident frames and columns, pins, batches | prepare, execute, reuse, scatter | an answer is the answer to this query, from sources that are named | `MetQuery`, `TransportRoute`, `ColumnStencil`, `FieldProvenance`, `PointBatches`, `FlowSample` |
| Result products, most of `verification.rs` | `result_products.rs` | none | presentation | contract tests cover it | not modelled |

Three kinds of actors write the catalog, each through a connection of its own:
the control server thread, the scheduler thread of the same daemon, and every
worker process. They meet nowhere else, except that the daemon spawns, probes and
kills processes and reads the manifest a worker left. Clients reach the control
server through local IPC, one request per connection. Inside a worker everything
is one thread; what makes it hard is that steps are cut and retried, that rows are
regrouped and written in batches, and that every write may be the last one.
`PROJECT.json` lists the hazards, each at its line, with the properties that would
catch it.

## 2. The models

**JobCatalog.** One variable per column that matters (`state`, `series`,
`attempt`, `need`, `bypass`, `output`), one per further table (`log`, `lease`,
`forgotten`, `verified`, `superseder`). One action is one committed transaction. A
handler that reads first is two actions, and what it remembers is in `request`
(server), `recovery` (scheduler thread) or `cleared` (worker): `cancel` is
`CancelRead` followed by one of `CancelQueued`, `CancelSafely`, `CancelForcibly`,
`CancelConflict`; `recover_workers_with` is `RecoverRead`, one row action for each
row, and `RecoverSweep`; `rerun`, `heartbeat` and `record_full_verification` use
immediate transactions and are one action. A run is its queue position, a lease
stands for the one process spawned for its run, and a failed transaction is rolled
back and is a stuttering step. `JobLifecycle` is the abstract specification: a
series is a history of attempts.

**DaemonRuntime** extends `JobCatalog`; each write of a table is a catalog action
conjoined with a step of a process. `dpc[d]` is the program counter of the main
thread of daemon `d`, `wpc[r]` that of the worker of run `r`, `manifest[r]` the
status in its `run-manifest.json`, `stop` a force cancel with the snapshot it read,
`decision` what recovery decided from its first read. `DaemonCrash` and
`WorkerDies` may come at any point. Simplified: which rows a plan picks is open
here; process probes tell the truth; a killed process is gone at once; lock
timeouts, endpoint binding errors and the exit after 32 IPC errors are left out.

**Scheduler, SchedulerPass, DispatchLoop.** The locals of the planner's loop are
one record, `PlanDispatch` is the loop as a recursive function over the rows, and
`SchedulerPass` takes one iteration per step. `DispatchLoop` takes a tick as
separate steps (read the queue; read the usage and plan; apply or fail) while
submissions, cancellations and ends go on. Run identities come from a pool and are
used again, so an endless stream of small runs has finitely many states.

**JobClient.** A record per command: what was asked, the request under way, the
cursor and the printed events, the retries left. The server is the catalog reduced
to its answers; a request or its answer may be lost, and the daemon may be killed
between serving and answering.

**RunOutputs, RunLog, ProvenanceBundle.** `RunOutputs` is the closeout of one
attempt, write by write, with the failure of any step, a kill between any two, a
reader that holds a snapshot, and the recovery by a later daemon; a digest is the
content it is taken of. `RunLog` has the rows themselves, in batches; the bundle
has the spool, its external sort in rounds and the comparison with the database.

**The worker's algorithms.** Time, heights and masses are integers on a small
scale; formulas that only compute (turbulence, thermodynamics, spherical geometry)
are left out, and the control around them is kept: which sub-step is retried with
half its length, which columns are asked for together, which neighbour replaces a
masked one, which crossing counts. Each of these modules carries a reference
definition that a reader can judge, and its properties compare the code's way with
it. What a module leaves out is said in its header.

**Composites.** A run of the checker explores `MC*` modules. `MCDispatch`,
`MCAttempt`, `MCPopulation`, `MCData` and `MCQuery` hold several components that
share no state: `part` chooses one of them, and a behaviour is a behaviour of that
one. The components that theorems are about are extended (by `MCDispatch`;
`RunOutputs`, `RunLog` and `StepPlanner` by `MCAttempt`, `MetQuery` by `MCQuery`,
`ProjectFinalize` by `MCData`), the others are instances. Two small machines are
written out where they run: the seeding of a domain in `MCPopulation`, and the
building of a shared lock in `MCData`. The three runs of `DaemonRuntime` explore that
module itself.

## 3. The runs

| Run | Question | Bounds |
| --- | --- | --- |
| `dispatch` | Is a plan what the rules allow; is capacity kept, overtaking bounded, and does every run leave the queue? | calls: every queue of up to 4 rows on a host of 4 slots and 3 units, cap 2; loop: a pool of 3, 1 fault |
| `catalog` | Do state, lease, output and log agree, does a series keep its order, does the catalog implement `JobLifecycle`? | one run with progress, pressure and two daemons, or two attempts of a series without them |
| `runtime` | Does one daemon act, do catalog, leases and manifests agree? | two daemons, two attempts, 1 crash, 1 error |
| `runtime_live` | Is a worker launched once, does a dispatched attempt end, do the processes write only as the catalog permits? | two daemons, one attempt, 1 crash, 1 error, 2 launches |
| `runtime_wedge` | Is a terminal manifest always reconciled? (violated) | one run, no fault at all |
| `client` | Is a reader told of every event and of the end, does a command that answers have its effect? | two commands, pages of 2, 2 tries, 1 crash, 5 events |
| `client_live` | Does every command end? | two commands, 1 try, 1 crash, 4 events |
| `attempt` | Is time tiled, is a row one particle, is the first contact found, and does what is left on disk tell the truth? | 2 samples and 3 faults; 2 particles in batches of 2; 3 spool lines; boundaries in 5 instants; heights on a grid of 12 |
| `population` | Is mass accounted for, does every time and place get its share? | 3 layers and 3 steps; releases over 5 instants; about 70 polygons in every rotation, rings that repeat a corner among them |
| `release_by_area` | Is a polygon drawn by its area? (violated) | two polygons of two triangles |
| `data` | Does the run get the data its documents promise? | two lock groups and two processes with one edit and forced replacement; two consumers of a lock over a small data root; profiles of up to 3 fields; files of 3 formats |
| `query` | Is an answer the answer to this query? | 4 frames with room for 3, columns of two sizes under a budget of 4; 3 levels with every mask; cells of side 2 |

Why the bounds are enough. The planner looks at the front row and at the first row
that fits, so four rows hold a front row, a skipped one, a backfilled one and one
more. The catalog touches one row at a time but for the dispatch plan, the sweep
and the supersession. Two daemons are an old and a new one; one crash is enough to
hit any window, and the errors of the model leave the same states behind as further
crashes do. A closeout has failure paths of at most three failures. A step, a path
or a column is judged by neighbouring cuts, levels or instants, and the bounds hold
two neighbours on either side of a case. `MaxProgress`, `MaxReattached` and
`MaxLaunches` bound events that repeat without end and change nothing else; the
theorems of section 6 hold without any of these bounds. Deadlock is not checked
where a finite number of runs, samples or steps lets the system come to rest.

Every property has a mutation of the modelled code that violates it under the
same run; the mutated operators stand before the ones they replace. Properties
that the code does not have, and that no run checks, stand in the modules as
definitions (section 5).

## 4. Fairness

`DispatchLoop`: the loop of `run_daemon` keeps ticking and workers end (weak
fairness); a tick without memory pressure comes again and again (strong fairness
of `ReadQueue(FALSE)`), an assumption on the host; after a daemon exit some client
command starts the next one, as every job command does. `DaemonRuntime`: every
daemon and worker keeps running, the server answers what it accepted, a simulation
comes to its end, and someone starts a daemon. `JobClient`: a command goes on with
its loop, a started attempt is dispatched and reports, an idle daemon shuts down.
Crashes, errors, lost answers and requests are never required. Without these
assumptions nothing ends; with them `EveryRunLeavesQueue`, `ActiveEnds` (but for
the wedged attempts of section 5) and `CommandsEnd` hold.

## 5. What the models showed

Two disagreements are checked as violations. `runtime_wedge`: a safe cancel
accepted after the last boundary that the worker sampled makes the attempt
cancelling; the worker finishes and writes a `complete` manifest; `cancelling` to
`complete` is not an edge, so neither `finish_worker` nor recovery can adopt it,
and each later daemon fails in its first recovery pass, where
`docs/user/en/developer/runtime.md:233` promises reconciliation. `ActiveEnds` holds
with exactly this case excepted (`Wedged`). `release_by_area`: one random number
chooses the polygon and then its triangle, so some triangles are never drawn.

The modules state further properties that a document, a comment or a test
suggests and the code does not have. TLC refutes each on small instances; no run
keeps them.

| Property | What the code does | What is said |
| --- | --- | --- |
| `RunOutputs!ReadersHaveNoPart` | a result command that streams past the busy timeout makes the checkpoint fail and the run end as failed (`output/sqlite.rs:954`) | `operations/index.md:173`, `developer/runtime.md:171` |
| `RunLog!SafeCancelEndsCancelled` | a run that fails after its loop has seen the cancel ends failed (`population/mod.rs:1480`) | `runtime.md:204`, `recovery.md:123` |
| `RunLog!EventsHaveStates` | a finished run may have an event without rows (`output/sqlite.rs:532`) | audit at `verification.rs:1105` |
| `JobClient!FollowerPrintsTheEnd`, `FollowerExitFollowsState` | a follower stops on a status read after its last page (`runtime.rs:811`) | `how-to/events.md:69`, `exit-codes.md:83` |
| `JobClient!CancelAnswersATerminalJob` | a safe cancel of a terminal attempt is a conflict (`catalog.rs:1456`) | `cancel-rerun-prune.md:37` |
| `JobClient!RerunMeetsNoConflict` | the retry of a rerun whose answer was lost is a conflict (`runtime.rs:634`) | `cancel-rerun-prune.md:93` |
| `JobClient!ShutsDownIdle` | a submission accepted while the daemon shuts down stays queued (`runtime.rs:1423`) | comment at `ipc.rs:376` |
| `ProjectFinalize!RefinalizeSucceeds`, `FinalizedStays`, `RollbackSparesChanged` | an outdated lock refuses finalization; a rollback removes a lock read before it was replaced (`project.rs:1113`, `1184`, `1318`) | `documents.md:214`, `concepts/index.md:164` |
| `TransportRoute!ProbeShared` | where levels are missing the boundary probe and the query answer differently (`engine.rs:5487`, `vertical/mod.rs:1000`) | the bounds are said to be one domain for both |
| `BoundaryPolicies!DeathTimeIsContact` | a death at the top or the domain after a reflection is dated on the unreflected path (`boundary/mod.rs:319`, `366`) | `science-path.md:196` |
| `PathCuts!OneDownCrossing` | a certified segment may hold more than one crossing from above to below (`met_path.rs:2211`) | comment at `met_path.rs:847` |
| `ProfileGraph!AcyclicIsAccepted` | the static checks refuse some acyclic graphs (`profile/graph.rs:358`) | `science-path.md:46` |
| `FrameLoad!AccumulatedFieldsLoad` | an accumulated field is differenced against the preceding frame, and a run whose files all have it may not load (`frame/mod.rs:594`) | `science-path.md:71` |
| `GridSources!MissingIsMasked` | the classic reader prints a 32-bit `_FillValue` and parses it as 64-bit, so missing data becomes valid (`io/netcdf.rs:1799`, `1846`) | `io/netcdf.rs:3-5` |
| `FieldProvenance!QualityAdmitsAll`, `StrictServesNoEstimate` | above the surface layer `u`, `v`, `T`, `q` and omega are interpolated between levels found in a column of `T`, `q`, `ps` and the heights or the surface geopotential, and a wind component is turned from both, but each is recorded as taken from its own field alone (`engine.rs:2228-2280`, `4188-4224`): over an estimated height they are shown as source, and a strict plan without a surface model serves them | `query/request.rs:186` ("Whether estimated fallbacks are acceptable."), `297` ("Whether explicitly profiled estimated inputs may be used."), test `strict_transport_rejects_estimated_dependencies_not_just_outputs` at `engine.rs:10392` |
| `ProvenanceBundle!PublishedQualities` | a quality of pressure or temperature that was deleted from its row is not compared with the record (`provenance_bundle.rs:1537`) | `TRAJECTA_M4_PROVENANCE_BUNDLE_V1.md:143` |
| `ReleaseMesh!ProperIsMeshed`, `CrossedIsRefused`, `AnyMeshIsRegion` | some proper polygons with several holes have no mesh; a ring that crosses or touches itself may pass, and its triangles may lie outside it (`geometry.rs:1166`, `1446`, `1800`) | `populations.md:66` |
| `ReleaseMesh!CanonicalIsOne` | a ring that comes to a corner twice may have two canonical forms (`geometry.rs:1865`); `DistinctHasOneForm`, which the run `population` keeps, is the case of distinct corners | test `ring_rotation_and_hole_permutation_keep_canonical_geometry_sha` at `geometry.rs:3824` |
| `FlowSample!FlowIsKeptByTheGround` | levels under the ground are stacked at a made-up distance and differenced (`vertical/mod.rs:2396`) | `TRAJECTA_M3_MET_QUERY_PLAN.md:259` |

Smaller observations: a force cancel that saw no lease leaves a process running
until its next poll; a row cancelled between plan and apply ends the daemon;
unsorted release events pass case validation and are refused when the runner is
built; `terminate_proposal` with a fraction leaves the particle at the mirrored
endpoint; `vertical_velocity_field` is chosen from the frame before only; the
signature of hybrid levels hashes only one coefficient; messages before the first
coordinate table are dropped.

## 6. Proofs

Checked by TLAPS for every value of the constants that the named assumptions
allow. The assumptions say that bounds are naturals, needs are vectors within the
capacity, commands are those the client has, "none" is neither a daemon, a process nor a digest,
the instants of a time line and the cells of a grid are finite in number
(`CatalogAssumption`, `NoneAssumption`, `RuntimeAssumption`, `BypassAssumption`,
`PassAssumption`, `LoopAssumption`, `ClientAssumption`, `OutputsAssumption`,
`RunLogAssumption`, `QueryAssumption`, `FinalizeAssumption`, `PlanAssumption`); TLC
evaluates each of them on a run.

| Module | Theorem | States | Argument |
| --- | --- | --- | --- |
| `JobCatalog_proofs` | `TypeCorrect` | `[]TypeOK` | inductive by itself |
| | `LeasesAreActive`, `CancelIsDelivered` | a lease is for an active attempt; a leased worker hears of a cancel | `LeaseInv`: with `ReadAsQueued`, since a pending cancel acts on what it read |
| | `LogIsFaithful` | the log replays the life | every step keeps a log, appends its transition, or notes the state in force |
| | `OneAttemptAtATime`, `ForgottenSettled` | one live attempt per series; what is forgotten is settled | `SeriesInv`: rows are created in order (`Numbering`), and a pending forget read a settled series while the server does nothing else |
| | `SupersessionIsSound`, `PruneIsSafe` | by later verified attempts only; the newest verified one is kept | with `Numbering` |
| | `AttemptSound`, `SeriesSound` | `[]AttemptIsSound`, `[]SeriesIsSound` | what the run checks, from the above |
| | `EndsAreFinal` | `EndIsFinal` | every step that moves a state takes an edge |
| | `OutputsAreOfDispatched` | `[]OutputOnlyAfterDispatch` | `DispatchedInv`: the log shows that the row was started |
| | `CatalogImplementsLifecycle` | `LifecycleSpec` | `CountInv`: attempt numbers count the rows of a series, so each transaction is one step of the abstract histories or a stutter |
| `DaemonRuntime_proofs` | `RuntimeTypes`, `OneDaemon` | types; one daemon acts | `OwnerInv`: who is past its claim owns the row |
| | `RuntimeImplementsCatalog`, `RuntimeImplementsLifecycle` | `ImplementsCatalog` | every process step is a catalog step or leaves the tables alone |
| | `RuntimeSound`, `LaunchesOnce` | `[]RuntimeIsSound`, `LaunchedOnce` | `RInv`: ten conjuncts that follow a row from dispatch to report, with what recovery has decided, what a worker has written and what a force cancel has seen |
| `Dispatch_proofs` | `PassSound` | `[]PassIsSound` | `Good`, the loop invariant of `plan_dispatch`: the rows left and the rows chosen partition the queue in order, resources add up, whoever was jumped cannot start, every jump is counted |
| | `DispatchSound` | `[]DispatchIsSound` | `LoopInv`: a row only changes as the plan in hand knows it, room is taken by active rows and the plan, and a potential bounds how often a run is overtaken |
| `JobClient_proofs` | `ReadersTold`, `CommandsEffective` | `[]ReadersAreTold`, `[]CommandsHaveEffect` | `ClientInv`: what a command holds was true of the catalog when it was read, and stays true as the catalog grows (`Grown`) |
| `RunOutputs_proofs` | `OutputsHonest` | `[]ClosedIsHonest` | `OutputsInv`: rows of the database and of the open transaction add up to the spool, each step of the closeout has settled one thing more, and the paths of failure know that something other than their last write has failed |
| | `TerminalManifestsStay` | `TerminalManifestFinal` | the manifest says running until the runner returns |
| | `RowsSound` | `[]RowsTellLives` | `RowsInv`: the rows of a particle follow one another in events and in time, and until its end is written no event of a later instant stands before them; each phase of the loop knows which births and deaths are written and which are still to come, so a write finds its row where it expects it; what is not committed is of fewer instants than the open transaction has events |
| | `CommittedRowsStay` | `CommittedStays`, the part of `WrittenStays` about rows | the log extends what is committed, and a commit makes them equal |
| `MetQuery_proofs` | `CacheSound` | `[]CacheIsSound` | `QueryInv`: the frames held are those in time order up to the last loaded, and with a frame goes every older one; cache, session and batch agree on what is resident and pinned; the cached answer is the exact one for its key |
| `ProjectFinalize_proofs` | `FinalizeSound`, `LocksAreOwn` | `[]FinalizeRecovers`, `OnlyOwnLocks` | `FinalizeInv`: whoever has installed at a path still finds a lock there, its own or the user's; no two processes have installed at the same path; an undisturbed process knows that what it built and what it reused serves the project |
| `StepPlanner_proofs` | `PlanSound` | `[]PlanIsSound` | `PlannerInv`: while the loop runs the open segment starts at the last boundary to be cut at, and nothing considered lies beyond it; what a runner collects is in order, since every rank is the rank of some boundary (a count) |

The first part of `Dispatch_proofs` has the lemmas about the planner's operators: sums
of needs over sets of rows, the partition of a queue, the recursive functions of
`PlanDispatch` and `QueueWithout`. Where a fact needs induction (a sum over a finite
set, a function defined on `0..n`), it is done through sets: the set of counts for
which the fact holds contains zero and is closed under successors, so it is all of
`Nat`. The proofs do not go through all actions
afresh for each property: lemmas first classify what a step may do to each variable,
and the invariants are proved over those classes.

Only model-checked: everything under fairness (`EveryRunLeavesQueue`, `ActiveEnds`,
`CommandsEnd`), because the prover has neither ENABLED nor the fixpoint of a
liveness argument; and the components other than `RunOutputs`, `RunLog` and `StepPlanner`
inside `MCAttempt`, other than `ProjectFinalize` inside `MCData`, other than `MetQuery` inside
`MCQuery`, and those of `MCPopulation`. Their properties compare an algorithm with
a reference definition over small data, where a proof would be an induction over that
data.

## 7. Not modelled, and the plan

Left out for good: floating-point physics, interpolation and spherical geometry;
byte formats of NetCDF and GRIB; document schemas, their expansion and
presentation; `result_products.rs`; most of `verification.rs`, which reads a
finished directory alone; SQLite itself, whose transactions are taken to be atomic
and durable. Capacity is a constant of `DispatchLoop`: a daemon restarted with a
smaller host is a hazard without a property.

Next: a capacity that changes when a daemon restarts.
