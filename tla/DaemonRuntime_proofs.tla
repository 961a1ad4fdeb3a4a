------------------------- MODULE DaemonRuntime_proofs -------------------------
(***************************************************************************)
(* Proofs about the processes around the job catalog, for any number of    *)
(* runs, daemons, crashes and errors.                                      *)
(***************************************************************************)
EXTENDS DaemonRuntime, JobCatalog_proofs

USE CatalogAssumption, NoneAssumption, RuntimeAssumption

-----------------------------------------------------------------------------
\* Types.  What a worker or a manifest reports is one of Outcomes; "interrupted" is
\* written by recovery and by a force cancel only.

Reported == Outcomes \union {"interrupted"}

DaemonTypes ==
    /\ owner \in Daemons \union {"none"}
    /\ dpc \in [Daemons -> DaemonPoints]
    /\ observed \in [Daemons -> Daemons \union {"none"}]
    /\ bound \subseteq Daemons
    /\ decision \in [Runs -> Reported \union {"reattach"}]
    /\ picked \subseteq Runs

StopTypes == stop \in {NoStop} \union
    [phase : {"kill", "unleased", "settle", "finish"}, run : Runs,
     output : BOOLEAN, terminal : Reported]

WorkerTypes ==
    /\ wpc \in [Runs -> WorkerSteps \union {"none", "zombie", "gone"}]
    /\ verdict \in [Runs -> Outcomes \union {"none"}]
    /\ manifest \in [Runs -> Reported \union {"none", "running"}]

FaultTypes == crashes \in 0..MaxCrashes /\ errors \in 0..MaxErrors

RTypes == TypeOK /\ DaemonTypes /\ StopTypes /\ WorkerTypes /\ FaultTypes

LEMMA ReportedAreTerminal == Reported \subseteq TerminalStates
PROOF
  BY DEF Reported, TerminalStates

LEMMA TypesImply == RTypes => RuntimeTypeOK
PROOF
  <1>. SUFFICES ASSUME RTypes PROVE RuntimeTypeOK
    OBVIOUS
  <1>1. stop \in StopType
    BY ReportedAreTerminal DEF RTypes, StopTypes, StopType
  <1>2. /\ decision \in [Runs -> TerminalStates \union {"reattach"}]
        /\ verdict \in [Runs -> TerminalStates \union {"none"}]
        /\ manifest \in [Runs -> TerminalStates \union {"none", "running"}]
    BY ReportedAreTerminal DEF RTypes, DaemonTypes, WorkerTypes, Reported
  <1>. QED BY <1>1, <1>2
           DEF RTypes, DaemonTypes, WorkerTypes, FaultTypes, RuntimeTypeOK

-----------------------------------------------------------------------------
\* Every step of a process is a transaction of the catalog, or leaves it alone.

LEMMA DaemonTransacts ==
    ASSUME RTypes, NEW d \in Daemons, DaemonStep(d)
    PROVE  [Next]_vars
PROOF
  <1>1. CASE RecoveryStarts(d)
    BY <1>1 DEF RecoveryStarts, Next, SchedulerNext
  <1>2. ASSUME NEW r \in Runs, RecoverRow(d, r)
        PROVE  [Next]_vars
    <2>1. decision[r] \in Reported \union {"reattach"}
      BY DEF RTypes, DaemonTypes
    <2>. QED BY <1>2, <2>1 DEF RecoverRow, Next, SchedulerNext, Reported
  <1>3. CASE RecoveryEnds(d)
    BY <1>3 DEF RecoveryEnds, Next, SchedulerNext
  <1>4. CASE RecoveryFails(d)
    BY <1>4 DEF RecoveryFails, Next, SchedulerNext
  <1>5. CASE ApplyRows(d)
    <2>1. picked \in SUBSET Runs /\ 0 \in Runs \union {0} /\ 0 \in 0..MaximumHeadBypass
          /\ ApplyDispatchPlan(picked, 0, 0)
      BY <1>5 DEF ApplyRows, RTypes, DaemonTypes
    <2>2. CASE picked # {}
      BY <2>1, <2>2 DEF Next, SchedulerNext
    <2>3. CASE picked = {}
      <3>1. state' = state /\ log' = log /\ bypass' = bypass
        BY <2>1, <2>3 DEF ApplyDispatchPlan, RTypes, TypeOK, Runs
      <3>. QED BY <2>1, <3>1 DEF ApplyDispatchPlan, vars, jobs
    <2>. QED BY <2>2, <2>3
  <1>6. ASSUME NEW r \in Runs, Attach(d, r)
        PROVE  [Next]_vars
    BY <1>6 DEF Attach, Next, SchedulerNext
  <1>7. \/ UNCHANGED vars \/ RecoveryStarts(d) \/ \E r \in Runs : RecoverRow(d, r)
        \/ RecoveryEnds(d) \/ RecoveryFails(d) \/ ApplyRows(d) \/ \E r \in Runs : Attach(d, r)
    BY DEF DaemonStep, ReadOwner, ClaimDaemon, Inspect, PickRows, ApplyFails, LaunchWorker,
           AttachFails, NextTick, IdleShutdown, StopServer, ReleaseDaemon
  <1>. QED BY <1>1, <1>2, <1>3, <1>4, <1>5, <1>6, <1>7

LEMMA KilledTransacts ==
    ASSUME NEW r \in Runs, Killed(r)
    PROVE  [Next]_vars
PROOF
  BY DEF Killed, Next, WorkerNext

LEMMA ReportTransacts ==
    ASSUME NEW r \in Runs, NEW terminal \in Reported, Reports(r, terminal)
    PROVE  [Next]_vars
PROOF
  BY DEF Reports, Reported, Next, WorkerNext

LEMMA ServerTransacts ==
    ASSUME RTypes, Asked \/ Answers
    PROVE  [Next]_vars
PROOF
  <1>1. CASE Asked
    BY <1>1 DEF Asked, ServeSubmit, ServeRerun, ServeSafeCancel, ForceRead, Next, ServerNext
  <1>2. ASSUME NEW r \in Runs, ServeCancelWrite(r)
        PROVE  [Next]_vars
    BY <1>2 DEF ServeCancelWrite, Next, ServerNext
  <1>3. ASSUME NEW r \in Runs, ForceUnleased(r)
        PROVE  [Next]_vars
    BY <1>3 DEF ForceUnleased, Next, ServerNext
  <1>4. ASSUME NEW r \in Runs, ForceKill(r)
        PROVE  [Next]_vars
    BY <1>4, KilledTransacts DEF ForceKill
  <1>5. ASSUME NEW r \in Runs, ForceFinish(r)
        PROVE  [Next]_vars
    <2>1. stop.terminal \in Reported
      BY <1>5 DEF ForceFinish, RTypes, StopTypes, NoStop
    <2>. QED BY <1>5, <2>1, ReportTransacts DEF ForceFinish
  <1>. QED BY <1>1, <1>2, <1>3, <1>4, <1>5 DEF Answers, ForceSettle

LEMMA WorkerTransacts ==
    ASSUME RTypes, NEW r \in Runs, WorkerStep(r) \/ RunEnds(r)
    PROVE  [Next]_vars
PROOF
  <1>1. CASE CheckOutput(r)
    BY <1>1 DEF CheckOutput, Next, WorkerNext
  <1>2. CASE StoreOutput(r)
    BY <1>2 DEF StoreOutput, Next, WorkerNext
  <1>3. CASE Mark(r)
    BY <1>3 DEF Mark, Next, WorkerNext
  <1>4. CASE Poll(r)
    BY <1>4 DEF Poll, Next, WorkerNext
  <1>5. CASE Finish(r)
    <2>1. CASE verdict[r] = "none"
      BY <1>5, <2>1 DEF Finish, Reports, FinishWorker, TerminalStates
    <2>2. CASE verdict[r] # "none"
      <3>1. verdict[r] \in Reported
        BY <2>2 DEF RTypes, WorkerTypes, Reported
      <3>. QED BY <1>5, <3>1, ReportTransacts DEF Finish
    <2>. QED BY <2>1, <2>2
  <1>6. \/ UNCHANGED vars \/ CheckOutput(r) \/ StoreOutput(r) \/ Mark(r) \/ Poll(r) \/ Finish(r)
    BY DEF WorkerStep, WaitForLease, CheckCancel, Ready, Build, RunCancels, RunDisowned,
           Reap, RunEnds, Publishes
  <1>. QED BY <1>1, <1>2, <1>3, <1>4, <1>5, <1>6

LEMMA FaultTransacts ==
    ASSUME RTypes, Faults
    PROVE  [Next]_vars
PROOF
  <1>1. ASSUME NEW d \in Daemons, NEW r \in Runs, LaunchFails(d, r)
        PROVE  [Next]_vars
    BY <1>1 DEF LaunchFails, Next, SchedulerNext
  <1>2. ASSUME NEW d \in Daemons, DaemonCrash(d)
        PROVE  [Next]_vars
    <2>1. UNCHANGED <<jobs, log, lease, history, cleared>>
      BY <1>2 DEF DaemonCrash, jobs, history
    <2>2. \/ UNCHANGED <<request, recovery>>
          \/ request' = NoRequest /\ recovery' = NoRecovery
      BY <1>2 DEF DaemonCrash
    <2>. QED BY <2>1, <2>2 DEF Next, DaemonDies, ServerIdle, SchedulerIdle, vars, callers
  <1>3. ASSUME NEW r \in Runs, WorkerDies(r)
        PROVE  [Next]_vars
    BY <1>3, KilledTransacts DEF WorkerDies
  <1>. QED BY <1>1, <1>2, <1>3 DEF Faults, SetupFails, RunFails

LEMMA StepTransacts == RTypes /\ [RNext]_rvars => [Next]_vars
PROOF
  <1>1. ASSUME NEW d \in Daemons, StartDaemon(d) PROVE UNCHANGED vars
    BY <1>1 DEF StartDaemon
  <1>2. UNCHANGED rvars => UNCHANGED vars
    BY DEF rvars
  <1>. QED BY <1>1, <1>2, DaemonTransacts, ServerTransacts, WorkerTransacts, FaultTransacts
           DEF RNext

-----------------------------------------------------------------------------
\* Type correctness.

OtherTypes == DaemonTypes /\ StopTypes /\ WorkerTypes /\ FaultTypes

LEMMA DisposedTyped ==
    ASSUME RTypes, NEW r \in Runs, NEW out \in BOOLEAN
    PROVE  /\ Disposition(r, out) \in Reported
           /\ DisposedManifest(r, out) \in Reported \union {"none", "running"}
PROOF
  BY DEF RTypes, WorkerTypes, Disposition, DisposedManifest, Reported

LEMMA DaemonKeepsTypes ==
    ASSUME RTypes, NEW d \in Daemons, DaemonStep(d) \/ StartDaemon(d)
    PROVE  OtherTypes'
PROOF
  <1>. USE DEF RTypes, OtherTypes
  <1>1. ASSUME UNCHANGED <<stop, workerVars, faultVars>>, DaemonTypes' PROVE OtherTypes'
    BY <1>1 DEF StopTypes, WorkerTypes, FaultTypes, workerVars, faultVars
  <1>2. NoDecision \in [Runs -> Reported \union {"reattach"}]
    BY DEF NoDecision, Reported
  <1>3. ASSUME \/ StartDaemon(d) \/ ReadOwner(d) \/ ClaimDaemon(d) \/ RecoveryStarts(d)
               \/ \E r \in Runs : RecoverRow(d, r)
               \/ RecoveryEnds(d) \/ RecoveryFails(d) \/ StopServer(d) \/ ReleaseDaemon(d)
        PROVE  DaemonTypes' /\ UNCHANGED <<stop, workerVars, faultVars>>
    BY <1>2, <1>3
       DEF DaemonTypes, DaemonPoints, Moves, StartDaemon, ReadOwner, ClaimDaemon, RecoveryStarts,
           RecoverRow, RecoveryEnds, RecoveryFails, StopServer, ReleaseDaemon, daemonVars
  <1>4. ASSUME \/ PickRows(d) \/ ApplyRows(d) \/ ApplyFails(d)
               \/ NextTick(d) \/ IdleShutdown(d)
               \/ \E r \in Runs : Attach(d, r)
        PROVE  DaemonTypes' /\ UNCHANGED <<stop, workerVars, faultVars>>
    BY <1>4 DEF DaemonTypes, DaemonPoints, Moves, PickRows, ApplyRows, ApplyFails,
                NextTick, IdleShutdown, Attach
  <1>5. CASE Inspect(d)
    <2>. DEFINE dead == {r \in Runs : Active(r) /\ ~ (HasLease(r) /\ Alive(r))}
    <2>1. \A r \in Runs : /\ Disposition(r, output[r]) \in Reported
                          /\ DisposedManifest(r, output[r]) \in Reported \union {"none", "running"}
      BY DisposedTyped DEF TypeOK
    <2>2. decision' \in [Runs -> Reported \union {"reattach"}]
      BY <1>5, <2>1 DEF Inspect, Reported
    <2>3. manifest' \in [Runs -> Reported \union {"none", "running"}]
      BY <1>5, <2>1 DEF Inspect, WorkerTypes
    <2>4. UNCHANGED <<owner, observed, bound, picked, stop, wpc, verdict, faultVars>>
          /\ Moves(d, "inspect", "inspected")
      BY <1>5 DEF Inspect
    <2>. QED BY <2>2, <2>3, <2>4 DEF DaemonTypes, DaemonPoints, Moves, StopTypes,
                                     WorkerTypes, FaultTypes, faultVars
  <1>6. ASSUME NEW r \in Runs, LaunchWorker(d, r) \/ AttachFails(d, r)
        PROVE  OtherTypes'
    <2>1. wpc' \in [Runs -> WorkerSteps \union {"none", "zombie", "gone"}]
          /\ UNCHANGED <<verdict, manifest>>
      BY <1>6 DEF LaunchWorker, AttachFails, WorkerTypes, WorkerSteps
    <2>2. DaemonTypes' /\ UNCHANGED <<stop, faultVars>>
      BY <1>6 DEF LaunchWorker, AttachFails, DaemonTypes, DaemonPoints, Moves
    <2>. QED BY <2>1, <2>2 DEF StopTypes, WorkerTypes, FaultTypes, faultVars
  <1>. QED BY <1>1, <1>3, <1>4, <1>5, <1>6 DEF DaemonStep

LEMMA ServerKeepsTypes ==
    ASSUME RTypes, Asked \/ Answers
    PROVE  OtherTypes'
PROOF
  <1>. USE DEF RTypes, OtherTypes
  <1>1. ASSUME UNCHANGED <<daemonVars, workerVars, faultVars>> PROVE OtherTypes'
    BY <1>1 DEF DaemonTypes, StopTypes, WorkerTypes, FaultTypes, daemonVars, workerVars, faultVars
  <1>2. ASSUME UNCHANGED <<owner, dpc, observed, bound, decision, picked, faultVars>>,
               StopTypes', WorkerTypes'
        PROVE  OtherTypes'
    BY <1>2 DEF DaemonTypes, FaultTypes, faultVars
  <1>3. "interrupted" \in Reported /\ (UNCHANGED workerVars => WorkerTypes')
    BY DEF Reported, WorkerTypes, workerVars
  <1>4. ASSUME NEW r \in Runs, ForceRead(r) \/ ForceUnleased(r) \/ ForceFinish(r)
        PROVE  OtherTypes'
    <2>1. output[r] \in BOOLEAN
      BY DEF TypeOK
    <2>2. StopTypes'
      BY <1>3, <1>4, <2>1 DEF ForceRead, ForceUnleased, ForceFinish, StopTypes
    <2>. QED BY <1>2, <1>3, <1>4, <2>2 DEF ForceRead, ForceUnleased, ForceFinish
  <1>5. ASSUME NEW r \in Runs, ForceKill(r)
        PROVE  OtherTypes'
    <2>1. StopTypes'
      BY <1>5 DEF ForceKill, StopTypes, NoStop
    <2>2. WorkerTypes'
      BY <1>5 DEF ForceKill, Killed, Exit, WorkerTypes
    <2>. QED BY <1>2, <1>5, <2>1, <2>2 DEF ForceKill
  <1>6. ASSUME NEW r \in Runs, ForceSettle(r)
        PROVE  OtherTypes'
    <2>1. stop.output \in BOOLEAN /\ stop # NoStop
      BY <1>6 DEF ForceSettle, StopTypes, NoStop
    <2>2. StopTypes'
      BY <1>6, <2>1, DisposedTyped DEF ForceSettle, StopTypes
    <2>3. WorkerTypes'
      BY <1>6, <2>1, DisposedTyped DEF ForceSettle, WorkerTypes
    <2>. QED BY <1>2, <1>6, <2>2, <2>3 DEF ForceSettle
  <1>7. \/ UNCHANGED <<daemonVars, workerVars, faultVars>>
        \/ \E r \in Runs : ForceRead(r) \/ ForceUnleased(r) \/ ForceFinish(r)
        \/ \E r \in Runs : ForceKill(r) \/ ForceSettle(r)
    BY DEF Asked, Answers, ServeSubmit, ServeRerun, ServeSafeCancel, ServeCancelWrite
  <1>. QED BY <1>1, <1>4, <1>5, <1>6, <1>7

LEMMA WorkerKeepsTypes ==
    ASSUME RTypes, NEW r \in Runs, WorkerStep(r) \/ RunEnds(r)
    PROVE  OtherTypes'
PROOF
  <1>. USE DEF RTypes, OtherTypes
  <1>1. ASSUME UNCHANGED <<daemonVars, faultVars>>, WorkerTypes' PROVE OtherTypes'
    BY <1>1 DEF DaemonTypes, StopTypes, FaultTypes, daemonVars, faultVars
  <1>2. UNCHANGED <<daemonVars, faultVars>>
    BY DEF WorkerStep, WaitForLease, CheckCancel, CheckOutput, StoreOutput, Ready, Mark, Build,
           Poll, RunCancels, RunDisowned, Finish, Reap, RunEnds, Publishes, Keeps
  <1>3. ASSUME \/ WaitForLease(r) \/ CheckOutput(r) \/ StoreOutput(r) \/ Ready(r) \/ Mark(r)
               \/ Poll(r) \/ Finish(r) \/ Reap(r)
        PROVE  WorkerTypes'
    <2>1. UNCHANGED <<verdict, manifest>>
      BY <1>3 DEF WaitForLease, CheckOutput, StoreOutput, Ready, Mark, Poll, Finish, Reap, Keeps
    <2>2. wpc' \in [Runs -> WorkerSteps \union {"none", "zombie", "gone"}]
      <3>1. \E to \in WorkerSteps \union {"zombie", "gone"} : wpc' = [wpc EXCEPT ![r] = to]
        BY <1>3 DEF WaitForLease, CheckOutput, StoreOutput, Ready, Mark, Poll, Finish, Reap,
                    At, Exit, WorkerSteps
      <3>. QED BY <3>1 DEF WorkerTypes
    <2>. QED BY <2>1, <2>2 DEF WorkerTypes
  <1>4. ASSUME NEW from, NEW to \in WorkerSteps, CheckCancel(r, from, to)
        PROVE  WorkerTypes'
    <2>1. CASE Concludes(r, "cancelled") /\ UNCHANGED manifest
      BY <2>1 DEF Concludes, WorkerTypes, WorkerSteps
    <2>2. CASE (Exit(r) \/ At(r, from, to)) /\ UNCHANGED <<verdict, manifest>>
      BY <2>2 DEF Exit, At, WorkerTypes
    <2>. QED BY <1>4, <2>1, <2>2 DEF CheckCancel, Keeps
  <1>5. CASE Build(r)
    BY <1>1, <1>2, <1>5 DEF Build, At, WorkerTypes, WorkerSteps
  <1>6. ASSUME RunCancels(r) \/ RunDisowned(r) \/ RunEnds(r)
        PROVE  WorkerTypes'
    <2>1. PICK terminal \in Outcomes : Publishes(r, terminal)
      BY <1>6 DEF RunCancels, RunDisowned, RunEnds, NaturalOutcomes
    <2>. QED BY <2>1 DEF Publishes, Concludes, WorkerTypes, WorkerSteps, Reported
  <1>7. {"resolve", "output"} \subseteq WorkerSteps
    BY DEF WorkerSteps
  <1>. QED BY <1>1, <1>2, <1>3, <1>4, <1>5, <1>6, <1>7 DEF WorkerStep

LEMMA FaultKeepsTypes ==
    ASSUME RTypes, Faults
    PROVE  OtherTypes'
PROOF
  <1>. USE DEF RTypes, OtherTypes
  <1>1. ASSUME NEW d \in Daemons, NEW r \in Runs, LaunchFails(d, r)
        PROVE  OtherTypes'
    BY <1>1 DEF LaunchFails, DaemonTypes, DaemonPoints, StopTypes, WorkerTypes, FaultTypes,
                workerVars
  <1>2. ASSUME NEW d \in Daemons, DaemonCrash(d)
        PROVE  OtherTypes'
    <2>1. NoDecision \in [Runs -> Reported \union {"reattach"}]
      BY DEF NoDecision, Reported
    <2>2. DaemonTypes'
      BY <1>2, <2>1 DEF DaemonCrash, DaemonTypes, DaemonPoints
    <2>. QED BY <1>2, <2>2 DEF DaemonCrash, StopTypes, WorkerTypes, FaultTypes, workerVars
  <1>3. ASSUME NEW r \in Runs, SetupFails(r) \/ RunFails(r) \/ WorkerDies(r)
        PROVE  OtherTypes'
    <2>1. WorkerTypes'
      <3>1. wpc' \in {[wpc EXCEPT ![r] = "finish"], [wpc EXCEPT ![r] = "zombie"]}
        BY <1>3 DEF SetupFails, RunFails, WorkerDies, Concludes, Killed, Exit
      <3>2. verdict' \in {verdict, [verdict EXCEPT ![r] = "failed"]}
            /\ manifest' \in {manifest, [manifest EXCEPT ![r] = "failed"]}
        BY <1>3 DEF SetupFails, RunFails, WorkerDies, Concludes
      <3>. QED BY <3>1, <3>2 DEF WorkerTypes, WorkerSteps, Reported
    <2>2. UNCHANGED daemonVars /\ FaultTypes'
      BY <1>3 DEF SetupFails, RunFails, WorkerDies, FaultTypes
    <2>. QED BY <2>1, <2>2 DEF DaemonTypes, StopTypes, daemonVars
  <1>. QED BY <1>1, <1>2, <1>3 DEF Faults

LEMMA RTypesNext == RTypes /\ [RNext]_rvars => RTypes'
PROOF
  <1>. SUFFICES ASSUME RTypes, [RNext]_rvars PROVE TypeOK' /\ OtherTypes'
    BY DEF RTypes, OtherTypes
  <1>1. TypeOK'
    BY StepTransacts, NextType DEF RTypes
  <1>2. CASE UNCHANGED rvars
    BY <1>1, <1>2 DEF rvars, RTypes, OtherTypes, DaemonTypes, StopTypes, WorkerTypes, FaultTypes,
                daemonVars, workerVars, faultVars
  <1>3. CASE RNext
    BY <1>1, <1>3, DaemonKeepsTypes, ServerKeepsTypes, WorkerKeepsTypes, FaultKeepsTypes DEF RNext
  <1>. QED BY <1>1, <1>2, <1>3

LEMMA RTypesInit == RInit => RTypes
PROOF
  BY InitType DEF RInit, RTypes, DaemonTypes, StopTypes, WorkerTypes, FaultTypes, DaemonPoints,
     NoDecision, Reported

(***************************************************************************)
(* Every variable of the runtime keeps its type: in particular no process  *)
(* ever reports, adopts or leaves behind a state that is not terminal.     *)
(***************************************************************************)
THEOREM RuntimeTypes == RSpec => []RTypes
PROOF
  BY RTypesInit, RTypesNext, PTL DEF RSpec

(***************************************************************************)
(* Daemons, workers and the control server write the tables only as the    *)
(* catalog permits: every theorem about the catalog holds of the runtime.  *)
(***************************************************************************)
THEOREM RuntimeImplementsCatalog == RSpec => ImplementsCatalog
PROOF
  <1>1. RInit => Init
    BY DEF RInit
  <1>2. RTypes /\ [RNext]_rvars => [Next]_vars
    BY StepTransacts
  <1>. QED BY <1>1, <1>2, RuntimeTypes, PTL DEF RSpec, ImplementsCatalog, Spec

(***************************************************************************)
(* So whatever the daemons and workers do, crashes and errors included,    *)
(* each series is a history whose last attempt alone moves.                *)
(***************************************************************************)
THEOREM RuntimeImplementsLifecycle == RSpec => LifecycleSpec
PROOF
  BY RuntimeImplementsCatalog, CatalogImplementsLifecycle, PTL DEF ImplementsCatalog

\* What was proved of leases holds of the runtime.
LEMMA RuntimeLeases == RSpec => []LeaseInv
PROOF
  BY RuntimeImplementsCatalog, LeaseInvariant, PTL DEF ImplementsCatalog

-----------------------------------------------------------------------------
\* One owner.  What makes the claim safe is that a daemon claims only from an owner
\* that it has seen dead, and that the dead never come back under their name.

OwnerInv ==
    /\ SingleDaemon
    /\ \A d \in Daemons : dpc[d] = "release" => d \notin bound
    /\ \A d \in Daemons : observed[d] # "none" => dpc[d] = "claim" /\ Gone(observed[d])

LEMMA OwnerFrame ==
    ASSUME OwnerInv, UNCHANGED <<owner, dpc, observed, bound>>
    PROVE  OwnerInv'
PROOF
  BY DEF OwnerInv, SingleDaemon, Owning, Gone

\* The owner moves from one point to another that is not the end of its ownership.
LEMMA OwnerWalks ==
    ASSUME RTypes, OwnerInv, NEW d \in Daemons, Owning(d),
           NEW to \in {"inspect", "inspected", "recover", "pick", "apply", "launch", "attach",
                       "closing", "release"},
           dpc' = [dpc EXCEPT ![d] = to],
           UNCHANGED <<owner, observed>>,
           \/ bound' = bound \/ bound' = bound \union {d} \/ bound' = bound \ {d},
           to = "release" => d \notin bound'
    PROVE  OwnerInv'
PROOF
  <1>. USE DEF RTypes, DaemonTypes, OwnerInv
  <1>1. Owning(d)' /\ \A e \in Daemons \ {d} : dpc'[e] = dpc[e] /\ Owning(e)' = Owning(e)
    BY DEF Owning
  <1>2. SingleDaemon'
    BY <1>1 DEF SingleDaemon
  <1>3. \A e \in Daemons : dpc'[e] = "release" => e \notin bound'
    BY <1>1
  <1>4. ASSUME NEW e \in Daemons, observed'[e] # "none"
        PROVE  dpc'[e] = "claim" /\ Gone(observed[e])'
    <2>1. dpc[e] = "claim" /\ observed[e] \in Daemons /\ dpc[observed[e]] = "gone"
      BY <1>4 DEF Gone
    <2>2. e # d /\ observed[e] # d
      BY <2>1 DEF Owning
    <2>. QED BY <1>1, <2>1, <2>2 DEF Gone
  <1>. QED BY <1>2, <1>3, <1>4

LEMMA OwnerNext ==
    ASSUME RTypes, OwnerInv, [RNext]_rvars
    PROVE  OwnerInv'
PROOF
  <1>. USE DEF RTypes, DaemonTypes
  <1>1. ASSUME NEW d \in Daemons, StartDaemon(d)
        PROVE  OwnerInv'
    <2>1. /\ dpc[d] = "gone" /\ dpc' = [dpc EXCEPT ![d] = "start"]
          /\ \A e \in Daemons : observed[e] # d
          /\ UNCHANGED <<owner, observed, bound>>
      BY <1>1 DEF StartDaemon, Moves
    <2>. QED BY <2>1 DEF OwnerInv, SingleDaemon, Owning, Gone
  <1>2. ASSUME NEW d \in Daemons, ReadOwner(d)
        PROVE  OwnerInv'
    <2>1. dpc[d] = "start" /\ UNCHANGED <<owner, bound>>
      BY <1>2 DEF ReadOwner, Moves
    <2>2. \A e \in Daemons \ {d} : dpc'[e] = dpc[e] /\ observed'[e] = observed[e]
      BY <1>2 DEF ReadOwner, Moves
    <2>3. CASE dpc'[d] = "gone" /\ observed' = observed
      BY <2>1, <2>2, <2>3 DEF OwnerInv, SingleDaemon, Owning, Gone
    <2>4. CASE dpc'[d] = "claim" /\ observed'[d] = owner /\ (owner = "none" \/ Gone(owner))
      <3>1. owner # "none" => owner # d /\ owner \in Daemons /\ dpc'[owner] = "gone"
        BY <2>1, <2>2, <2>4 DEF Gone
      <3>2. \A e \in Daemons \ {d} : observed[e] # "none" => observed[e] # d
        BY <2>1 DEF OwnerInv, Gone
      <3>. QED BY <2>1, <2>2, <2>4, <3>1, <3>2 DEF OwnerInv, SingleDaemon, Owning, Gone
    <2>. QED BY <1>2, <2>3, <2>4 DEF ReadOwner, Moves
  <1>3. ASSUME NEW d \in Daemons, ClaimDaemon(d)
        PROVE  OwnerInv'
    <2>1. dpc[d] = "claim" /\ UNCHANGED bound /\ observed' = [observed EXCEPT ![d] = "none"]
      BY <1>3 DEF ClaimDaemon, Moves
    <2>2. \A e \in Daemons \ {d} : dpc'[e] = dpc[e]
      BY <1>3 DEF ClaimDaemon, Moves
    <2>3. \A e \in Daemons : observed'[e] # "none" =>
              e # d /\ observed[e] \in Daemons \ {d} /\ dpc'[observed[e]] = "gone"
              /\ dpc'[e] = "claim" /\ observed'[e] = observed[e]
      BY <2>1, <2>2 DEF OwnerInv, Gone
    <2>4. CASE owner' = owner /\ dpc'[d] = "gone"
      BY <2>1, <2>2, <2>3, <2>4 DEF OwnerInv, SingleDaemon, Owning, Gone
    <2>5. CASE owner \in {"none", observed[d]} /\ owner' = d /\ dpc'[d] = "inspect"
      <3>1. \A e \in Daemons : ~ Owning(e)
        BY <2>1, <2>5 DEF OwnerInv, SingleDaemon, Owning, Gone
      <3>. QED BY <2>1, <2>2, <2>3, <2>5, <3>1 DEF OwnerInv, SingleDaemon, Owning, Gone
    <2>. QED BY <1>3, <2>4, <2>5 DEF ClaimDaemon, Moves
  <1>4. ASSUME NEW d \in Daemons, ReleaseDaemon(d)
        PROVE  OwnerInv'
    <2>1. /\ dpc[d] = "release" /\ dpc' = [dpc EXCEPT ![d] = "gone"] /\ d \notin bound
          /\ UNCHANGED <<observed, bound>>
      BY <1>4 DEF ReleaseDaemon, Moves, OwnerInv
    <2>2. \A e \in Daemons : Owning(e) => e = d
      BY <2>1 DEF OwnerInv, SingleDaemon, Owning
    <2>3. bound = {}
      BY <2>1, <2>2 DEF OwnerInv, SingleDaemon
    <2>. QED BY <2>1, <2>2, <2>3 DEF OwnerInv, SingleDaemon, Owning, Gone
  <1>5. ASSUME NEW d \in Daemons, DaemonCrash(d)
        PROVE  OwnerInv'
    <2>1. /\ dpc' = [dpc EXCEPT ![d] = "gone"] /\ observed' = [observed EXCEPT ![d] = "none"]
          /\ bound' = bound \ {d} /\ owner' = owner
      BY <1>5 DEF DaemonCrash
    <2>. QED BY <2>1 DEF OwnerInv, SingleDaemon, Owning, Gone
  <1>6. ASSUME NEW d \in Daemons,
               \/ Inspect(d) \/ RecoveryStarts(d) \/ RecoveryEnds(d) \/ RecoveryFails(d)
               \/ StopServer(d)
        PROVE  OwnerInv'
    BY <1>6, OwnerWalks DEF Inspect, RecoveryStarts, RecoveryEnds, RecoveryFails, StopServer,
                            Moves, Owning
  <1>7. ASSUME NEW d \in Daemons,
               \/ PickRows(d) \/ ApplyRows(d) \/ ApplyFails(d) \/ NextTick(d) \/ IdleShutdown(d)
        PROVE  OwnerInv'
    BY <1>7, OwnerWalks DEF PickRows, ApplyRows, ApplyFails, NextTick, IdleShutdown, Moves, Owning
  <1>8. ASSUME NEW d \in Daemons, NEW r \in Runs,
               LaunchWorker(d, r) \/ Attach(d, r) \/ AttachFails(d, r)
        PROVE  OwnerInv'
    BY <1>8, OwnerWalks DEF LaunchWorker, Attach, AttachFails, Moves, Owning
  <1>9. ASSUME NEW d \in Daemons, NEW r \in Runs, RecoverRow(d, r) \/ LaunchFails(d, r)
        PROVE  OwnerInv'
    BY <1>9, OwnerWalks, OwnerFrame DEF RecoverRow, LaunchFails, Owning, daemonVars
  <1>10. CASE Asked \/ Answers
    <2>1. UNCHANGED <<owner, dpc, observed, bound>>
      BY <1>10 DEF Asked, Answers, ServeSubmit, ServeRerun, ServeSafeCancel, ForceRead,
                   ServeCancelWrite, ForceUnleased, ForceKill, ForceSettle, ForceFinish, daemonVars
    <2>. QED BY <2>1, OwnerFrame
  <1>11. ASSUME NEW r \in Runs, WorkerStep(r) \/ RunEnds(r) \/ SetupFails(r) \/ RunFails(r)
                                \/ WorkerDies(r)
         PROVE  OwnerInv'
    <2>1. UNCHANGED <<owner, dpc, observed, bound>>
      BY <1>11 DEF WorkerStep, WaitForLease, CheckCancel, CheckOutput, StoreOutput, Ready, Mark,
                   Build, Poll, RunCancels, RunDisowned, Finish, Reap, RunEnds, Publishes, Keeps,
                   SetupFails, RunFails, WorkerDies, daemonVars
    <2>. QED BY <2>1, OwnerFrame
  <1>12. CASE UNCHANGED rvars
    BY <1>12, OwnerFrame DEF rvars, daemonVars
  <1>. QED BY <1>1, <1>2, <1>3, <1>4, <1>5, <1>6, <1>7, <1>8, <1>9, <1>10, <1>11, <1>12
           DEF RNext, DaemonStep, Faults

LEMMA OwnerInvariant == RSpec => []OwnerInv
PROOF
  <1>1. RInit => OwnerInv
    BY DEF RInit, OwnerInv, SingleDaemon, Owning
  <1>2. RTypes /\ OwnerInv /\ [RNext]_rvars => OwnerInv'
    BY OwnerNext
  <1>. QED BY <1>1, <1>2, RuntimeTypes, PTL DEF RSpec

(***************************************************************************)
(* At most one daemon recovers, dispatches and serves, however many start, *)
(* race for the lease and crash.                                           *)
(***************************************************************************)
THEOREM OneDaemon == RSpec => []SingleDaemon
PROOF
  <1>1. OwnerInv => SingleDaemon
    BY DEF OwnerInv
  <1>. QED BY <1>1, OwnerInvariant, PTL

-----------------------------------------------------------------------------
\* What one step of the runtime does to one row and its lease.

RowKept(r) == state'[r] = state[r] /\ lease'[r] = lease[r]

RowOpened(r) == r \notin Rows /\ state'[r] = "queued" /\ lease'[r] = lease[r]

RowDispatched(r) == /\ \E d \in Daemons : ApplyRows(d)
                    /\ r \in picked /\ Queued(r) /\ state'[r] = "starting"
                    /\ lease'[r] = lease[r]

RowAttached(r) == \E d \in Daemons :
    /\ Attach(d, r)
    /\ state'[r] = state[r] /\ lease'[r] \in Leases /\ lease'[r].daemon = d

RowTakenOver(r) == \E d \in Daemons :
    /\ RecoverRow(d, r) /\ HasLease(r)
    /\ state'[r] = state[r] /\ lease'[r] \in Leases /\ lease'[r].daemon = recovery.daemon

\* An active row moves on to an active state, with the lease it had or without one.
RowAdvanced(r) == /\ Active(r) /\ state'[r] \in {"running", "cancelling"}
                  /\ lease'[r] = NoLease <=> lease[r] = NoLease
                  /\ lease'[r] # NoLease => lease'[r].daemon = lease[r].daemon

RowDropped(r) == Queued(r) /\ state'[r] = "cancelled" /\ lease'[r] = lease[r]

\* Who ends a row, and as what.
EndedByWorker(r)   == Finish(r) /\ HasLease(r) /\ state'[r] = verdict[r]
EndedByStop(r)     == ForceFinish(r) /\ HasLease(r) /\ state'[r] = stop.terminal
EndedByRecovery(r) == \E d \in Daemons : RecoverRow(d, r) /\ state'[r] = decision[r]
EndedByLaunch(r)   == \E d \in Daemons : LaunchFails(d, r) /\ state'[r] = "failed"

RowEnded(r) == /\ Active(r) /\ Terminal(r)' /\ lease'[r] = NoLease
               /\ \/ state'[r] = "interrupted"
                  \/ EndedByWorker(r) \/ EndedByStop(r) \/ EndedByRecovery(r) \/ EndedByLaunch(r)

RowStep(r) == \/ RowKept(r) \/ RowOpened(r) \/ RowDispatched(r) \/ RowAttached(r)
              \/ RowTakenOver(r) \/ RowAdvanced(r) \/ RowDropped(r) \/ RowEnded(r)

LEMMA TransitionOf ==
    ASSUME TypeOK, NEW r \in Runs, NEW next, Transition(r, next)
    PROVE  /\ state'[r] = next /\ AllowsTransition(state[r], next)
           /\ \A q \in Runs \ {r} : state'[q] = state[q]
PROOF
  BY DEF Transition, TypeOK

LEMMA ActiveEdge ==
    ASSUME NEW s, NEW next, AllowsTransition(s, next), next # "starting"
    PROVE  (s = "queued" /\ next = "cancelled") \/ s \in ActiveStates
PROOF
  BY DEF AllowsTransition, AllowedNext, ActiveStates

LEMMA ServerRows ==
    ASSUME RTypes, LeaseInv, Asked \/ Answers, NEW q \in Runs
    PROVE  RowStep(q)
PROOF
  <1>. USE DEF RTypes
  <1>1. ASSUME UNCHANGED <<state, lease>> PROVE RowStep(q)
    BY <1>1 DEF RowStep, RowKept
  <1>2. ASSUME NEW r \in Runs, IsNext(r), NEW s, NEW a, NEW n, InsertQueued(r, s, a, n),
               UNCHANGED lease
        PROVE  RowStep(q)
    BY <1>2 DEF InsertQueued, IsNext, TypeOK, RowStep, RowKept, RowOpened
  <1>3. ASSUME NEW r \in Runs, CancelQueued(r)
        PROVE  RowStep(q)
    <2>1. AllowsTransition(state[r], "cancelled") /\ state[r] # "cancelling"
      BY <1>3 DEF CancelQueued, Transition, LeaseInv, ReadAsQueued
    <2>2. state[r] = "queued"
      BY <2>1 DEF AllowsTransition, AllowedNext
    <2>3. UNCHANGED lease
      BY <1>3 DEF CancelQueued
    <2>4. state'[r] = "cancelled" /\ (q # r => state'[q] = state[q])
      BY <1>3, TransitionOf DEF CancelQueued
    <2>. QED BY <2>2, <2>3, <2>4 DEF RowStep, RowDropped, RowKept, Queued
  <1>4. ASSUME NEW r \in Runs, CancelSafely(r)
        PROVE  RowStep(q)
    <2>1. state'[r] = "cancelling" /\ (q # r => state'[q] = state[q]) /\ Active(r)
      BY <1>4, TransitionOf, Edges DEF CancelSafely, Active, ActiveStates
    <2>2. lease' = [lease EXCEPT ![r] =
             IF @ = NoLease THEN @ ELSE [daemon |-> @.daemon, cancel |-> "safe"]]
      BY <1>4 DEF CancelSafely
    <2>3. q # r => lease'[q] = lease[q]
      BY <2>2 DEF TypeOK
    <2>4. lease[r] = NoLease => lease'[r] = NoLease
      BY <2>2 DEF TypeOK
    <2>5. lease[r] # NoLease => /\ lease'[r].daemon = lease[r].daemon
                                /\ lease'[r].cancel = "safe"
      BY <2>2 DEF TypeOK
    <2>6. lease[r] # NoLease => lease'[r] # NoLease
      BY <2>5 DEF NoLease
    <2>. QED BY <2>1, <2>3, <2>4, <2>5, <2>6 DEF RowStep, RowAdvanced, RowKept
  <1>5. ASSUME NEW r \in Runs, CancelForcibly(r)
        PROVE  RowStep(q)
    <2>1. state'[r] = "interrupted" /\ (q # r => state'[q] = state[q])
          /\ AllowsTransition(state[r], "interrupted")
      BY <1>5, TransitionOf DEF CancelForcibly
    <2>2. Active(r)
      BY <2>1, ActiveEdge DEF Active
    <2>3. lease'[r] = NoLease /\ (q # r => lease'[q] = lease[q])
      BY <1>5 DEF CancelForcibly, DeleteLease, TypeOK
    <2>. QED BY <2>1, <2>2, <2>3 DEF RowStep, RowEnded, RowKept, Terminal, TerminalStates
  <1>6. ASSUME NEW r \in Runs, ForceFinish(r)
        PROVE  RowStep(q)
    <2>1. CASE FinishWorker(r, stop.terminal)
      <3>1. state'[r] = stop.terminal /\ (q # r => state'[q] = state[q])
            /\ stop.terminal \in TerminalStates /\ HasLease(r)
        BY <2>1, TransitionOf DEF FinishWorker, HasLease
      <3>2. Active(r)
        BY <3>1 DEF HasLease, LeaseInv, LeaseOnlyActive
      <3>3. lease'[r] = NoLease /\ (q # r => lease'[q] = lease[q])
        BY <2>1 DEF FinishWorker, DeleteLease, TypeOK
      <3>. QED BY <1>6, <3>1, <3>2, <3>3 DEF RowStep, RowEnded, RowKept, Terminal, EndedByStop
    <2>2. CASE UNCHANGED vars
      BY <1>1, <2>2 DEF vars, jobs
    <2>. QED BY <1>6, <2>1, <2>2 DEF ForceFinish, Reports
  <1>7. ASSUME NEW r \in Runs, ServeCancelWrite(r)
        PROVE  RowStep(q)
    BY <1>1, <1>3, <1>4, <1>5, <1>7 DEF ServeCancelWrite, CancelConflict, jobs
  <1>8. CASE Asked
    <2>1. ASSUME NEW r \in Runs, NEW n \in Requests, ServeSubmit(r, n)
          PROVE  RowStep(q)
      BY <1>2, <2>1 DEF ServeSubmit, Submit
    <2>2. ASSUME NEW latest \in Runs, NEW r \in Runs, ServeRerun(latest, r)
          PROVE  RowStep(q)
      BY <1>2, <2>2 DEF ServeRerun, Rerun
    <2>3. ASSUME NEW r \in Runs, ServeSafeCancel(r) \/ ForceRead(r)
          PROVE  RowStep(q)
      BY <1>1, <2>3 DEF ServeSafeCancel, ForceRead, CancelRead, vars, jobs
    <2>. QED BY <1>8, <2>1, <2>2, <2>3 DEF Asked
  <1>9. ASSUME NEW r \in Runs, ForceUnleased(r) \/ ForceKill(r) \/ ForceSettle(r)
        PROVE  RowStep(q)
    BY <1>1, <1>9 DEF ForceUnleased, ForceKill, ForceSettle, CancelRead, Killed, OutputLost,
                      vars, jobs
  <1>. QED BY <1>6, <1>7, <1>8, <1>9 DEF Answers

LEMMA DaemonRows ==
    ASSUME RTypes, LeaseInv, NEW d \in Daemons, DaemonStep(d) \/ StartDaemon(d), NEW q \in Runs
    PROVE  RowStep(q)
PROOF
  <1>. USE DEF RTypes
  <1>1. ASSUME UNCHANGED <<state, lease>> PROVE RowStep(q)
    BY <1>1 DEF RowStep, RowKept
  <1>2. ASSUME NEW r \in Runs, RecoverRow(d, r)
        PROVE  RowStep(q)
    <2>1. CASE RecoverKeep(r)
      BY <1>1, <2>1 DEF RecoverKeep, jobs
    <2>2. CASE RecoverReattach(r)
      <3>1. UNCHANGED state
        BY <2>2 DEF RecoverReattach, jobs
      <3>2. lease' = [lease EXCEPT ![r] =
               IF @ = NoLease THEN @ ELSE [daemon |-> recovery.daemon, cancel |-> @.cancel]]
        BY <2>2 DEF RecoverReattach
      <3>3. q # r \/ lease[r] = NoLease => lease'[q] = lease[q]
        BY <3>2 DEF TypeOK
      <3>4. ASSUME lease[r] # NoLease
            PROVE  lease'[r] \in Leases /\ lease'[r].daemon = recovery.daemon
        <4>1. lease'[r] = [daemon |-> recovery.daemon, cancel |-> lease[r].cancel]
          BY <3>2, <3>4 DEF TypeOK
        <4>2. recovery.daemon \in Daemons
          BY <2>2 DEF RecoverReattach, RecoverNext, TypeOK, RecoveryType
        <4>3. lease[r].cancel \in {"none", "safe"}
          BY <3>4 DEF TypeOK, Leases
        <4>. QED BY <4>1, <4>2, <4>3 DEF Leases
      <3>. QED BY <1>2, <3>1, <3>3, <3>4 DEF RowStep, RowKept, RowTakenOver, HasLease
    <2>3. CASE RecoverClose(r, decision[r])
      <3>1. /\ decision[r] \in TerminalStates
            /\ state'[r] = decision[r] /\ AllowsTransition(state[r], decision[r])
            /\ (q # r => state'[q] = state[q])
        BY <2>3, TransitionOf DEF RecoverClose
      <3>2. lease'[r] = NoLease /\ (q # r => lease'[q] = lease[q])
        BY <2>3 DEF RecoverClose, DeleteLease, TypeOK
      <3>3. CASE Active(r)
        BY <1>2, <3>1, <3>2, <3>3 DEF RowStep, RowEnded, RowKept, Terminal, EndedByRecovery
      <3>4. CASE ~ Active(r)
        <4>1. Queued(r) /\ state'[r] = "cancelled"
          BY <3>1, <3>4, ActiveEdge, StatesAreDisjoint DEF Active, Queued, TerminalStates
        <4>2. lease[r] = NoLease
          BY <3>4 DEF LeaseInv, LeaseOnlyActive
        <4>. QED BY <3>1, <3>2, <4>1, <4>2 DEF RowStep, RowDropped, RowKept
      <3>. QED BY <3>3, <3>4
    <2>. QED BY <1>2, <2>1, <2>2, <2>3 DEF RecoverRow
  <1>3. CASE RecoveryEnds(d)
    <2>1. UNCHANGED state /\ lease'[q] = IF Terminal(q) THEN NoLease ELSE lease[q]
      BY <1>3 DEF RecoveryEnds, RecoverSweep, jobs
    <2>2. Terminal(q) => lease[q] = NoLease
      BY StatesAreDisjoint DEF LeaseInv, LeaseOnlyActive, Active, Terminal
    <2>. QED BY <2>1, <2>2 DEF RowStep, RowKept
  <1>4. CASE ApplyRows(d)
    <2>1. /\ UNCHANGED lease
          /\ \A r \in picked : AllowsTransition(state[r], "starting")
          /\ state'[q] = IF q \in picked THEN "starting" ELSE state[q]
      BY <1>4 DEF ApplyRows, ApplyDispatchPlan
    <2>2. q \in picked => Queued(q)
      BY <2>1, Edges DEF Queued
    <2>. QED BY <1>4, <2>1, <2>2 DEF RowStep, RowKept, RowDispatched
  <1>5. ASSUME NEW r \in Runs, Attach(d, r)
        PROVE  RowStep(q)
    <2>1. UNCHANGED state /\ lease' = [lease EXCEPT ![r] =
             [daemon |-> d, cancel |-> IF state[r] = "cancelling" THEN "safe" ELSE "none"]]
      BY <1>5 DEF Attach, AttachWorker, jobs
    <2>2. q # r => lease'[q] = lease[q]
      BY <2>1 DEF TypeOK
    <2>3. lease'[r] \in Leases /\ lease'[r].daemon = d
      BY <2>1 DEF TypeOK, Leases
    <2>. QED BY <1>5, <2>1, <2>2, <2>3 DEF RowStep, RowKept, RowAttached
  <1>6. \/ UNCHANGED <<state, lease>> \/ \E r \in Runs : RecoverRow(d, r)
        \/ RecoveryEnds(d) \/ ApplyRows(d) \/ \E r \in Runs : Attach(d, r)
    BY DEF DaemonStep, StartDaemon, ReadOwner, ClaimDaemon, Inspect, RecoveryStarts, RecoverRead,
           RecoveryFails, RecoverAbort, PickRows, ApplyFails, LaunchWorker,
           AttachFails, NextTick, IdleShutdown, StopServer, ReleaseDaemon, vars, jobs
  <1>. QED BY <1>1, <1>2, <1>3, <1>4, <1>5, <1>6

LEMMA WorkerRows ==
    ASSUME RTypes, LeaseInv, NEW r \in Runs, WorkerStep(r) \/ RunEnds(r), NEW q \in Runs
    PROVE  RowStep(q)
PROOF
  <1>. USE DEF RTypes
  <1>1. ASSUME UNCHANGED <<state, lease>> PROVE RowStep(q)
    BY <1>1 DEF RowStep, RowKept
  <1>2. CASE Mark(r) /\ MarkWorkerRunning(r)
    <2>1. state'[r] = "running" /\ (q # r => state'[q] = state[q]) /\ Active(r)
      BY <1>2, TransitionOf, Edges DEF MarkWorkerRunning, Active, ActiveStates
    <2>2. UNCHANGED lease
      BY <1>2 DEF MarkWorkerRunning
    <2>. QED BY <2>1, <2>2 DEF RowStep, RowAdvanced, RowKept
  <1>3. CASE Finish(r) /\ FinishWorker(r, verdict[r])
    <2>1. state'[r] = verdict[r] /\ (q # r => state'[q] = state[q])
          /\ verdict[r] \in TerminalStates /\ HasLease(r)
      BY <1>3, TransitionOf DEF FinishWorker, HasLease
    <2>2. Active(r)
      BY <2>1 DEF HasLease, LeaseInv, LeaseOnlyActive
    <2>3. lease'[r] = NoLease /\ (q # r => lease'[q] = lease[q])
      BY <1>3 DEF FinishWorker, DeleteLease, TypeOK
    <2>. QED BY <1>3, <2>1, <2>2, <2>3 DEF RowStep, RowEnded, RowKept, Terminal, EndedByWorker
  <1>4. \/ UNCHANGED <<state, lease>>
        \/ Mark(r) /\ MarkWorkerRunning(r)
        \/ Finish(r) /\ FinishWorker(r, verdict[r])
    <2>1. CASE Mark(r)
      BY <2>1 DEF Mark, vars, jobs
    <2>2. CASE Finish(r)
      BY <2>2 DEF Finish, Reports, vars, jobs
    <2>3. CASE ~ Mark(r) /\ ~ Finish(r)
      BY <2>3 DEF WorkerStep, WaitForLease, CheckCancel, CheckOutput, OutputCheck, StoreOutput,
                  OutputStore, Ready, Build, Poll, Heartbeat, RunCancels, RunDisowned,
                  Reap, RunEnds, Publishes, vars, jobs
    <2>. QED BY <2>1, <2>2, <2>3
  <1>. QED BY <1>1, <1>2, <1>3, <1>4

LEMMA FaultRows ==
    ASSUME RTypes, LeaseInv, Faults, NEW q \in Runs
    PROVE  RowStep(q)
PROOF
  <1>. USE DEF RTypes
  <1>1. ASSUME UNCHANGED <<state, lease>> PROVE RowStep(q)
    BY <1>1 DEF RowStep, RowKept
  <1>2. ASSUME NEW d \in Daemons, NEW r \in Runs, LaunchFails(d, r)
        PROVE  RowStep(q)
    <2>1. CASE LaunchFailed(r, "failed") /\ Active(r)
      <3>1. state'[r] = "failed" /\ (q # r => state'[q] = state[q])
            /\ UNCHANGED lease /\ lease[r] = NoLease
        BY <2>1, TransitionOf DEF LaunchFailed
      <3>. QED BY <1>2, <2>1, <3>1 DEF RowStep, RowEnded, RowKept, Terminal, TerminalStates,
                                       EndedByLaunch
    <2>. QED BY <1>1, <1>2, <2>1 DEF LaunchFails, vars, jobs
  <1>3. ASSUME NEW d \in Daemons, DaemonCrash(d)
        PROVE  UNCHANGED <<state, lease>>
    BY <1>3 DEF DaemonCrash, jobs
  <1>4. ASSUME NEW r \in Runs, SetupFails(r) \/ RunFails(r) \/ WorkerDies(r)
        PROVE  UNCHANGED <<state, lease>>
    BY <1>4 DEF SetupFails, RunFails, WorkerDies, Killed, OutputLost, vars, jobs
  <1>. QED BY <1>1, <1>2, <1>3, <1>4 DEF Faults

LEMMA RowSteps ==
    ASSUME RTypes, LeaseInv, RNext, NEW q \in Runs
    PROVE  RowStep(q)
PROOF
  BY DaemonRows, ServerRows, WorkerRows, FaultRows DEF RNext

-----------------------------------------------------------------------------
\* What one step of the runtime does to one worker and its manifest.

\* The steps before the runner is built; no manifest has been written.
Preparing == {"setup", "resolve", "output", "store", "ready", "mark", "build"}

\* The steps at which the manifest says that the run is under way.
Running == {"begin", "run", "stopping"}

Untouched(r) == verdict'[r] = verdict[r] /\ manifest'[r] = manifest[r]

WorkerKept(r) == wpc'[r] = wpc[r] /\ Untouched(r)

WorkerLaunched(r) == /\ \E d \in Daemons : LaunchWorker(d, r)
                     /\ wpc'[r] = "wait" /\ Untouched(r)

WorkerRefused(r) == /\ \E d \in Daemons : AttachFails(d, r)
                    /\ wpc'[r] = "gone" /\ Untouched(r)

WorkerLeft(r) == /\ wpc[r] \in WorkerSteps \union {"zombie"} /\ wpc'[r] \in {"zombie", "gone"}
                 /\ Untouched(r)

WorkerPrepares(r) == /\ wpc[r] \in Preparing \/ (wpc[r] = "wait" /\ HasLease(r))
                     /\ wpc'[r] \in Preparing /\ Untouched(r)

WorkerRuns(r) == /\ wpc'[r] \in Running /\ verdict'[r] = verdict[r]
                 /\ \/ wpc[r] = "build" /\ manifest'[r] = "running"
                    \/ wpc[r] \in Running /\ manifest'[r] = manifest[r]

WorkerConcludes(r) ==
    /\ wpc'[r] = "finish"
    /\ \/ /\ wpc[r] \in Preparing /\ verdict'[r] \in {"cancelled", "failed"}
          /\ manifest'[r] = manifest[r]
       \/ wpc[r] \in Running /\ manifest'[r] = verdict'[r]
       \/ /\ wpc[r] \in Running /\ verdict'[r] = "failed"
          /\ manifest'[r] \in {manifest[r], "failed"}

\* Recovery, or a force cancel, settles the manifest of a run that was under way.
WorkerSettled(r) ==
    /\ wpc'[r] = wpc[r] /\ verdict'[r] = verdict[r]
    /\ manifest[r] = "running" /\ manifest'[r] = "interrupted"
    /\ \/ Active(r) /\ ~ (HasLease(r) /\ Alive(r))
       \/ stop.phase = "settle" /\ stop.run = r

WorkerMoves(r) == \/ WorkerKept(r) \/ WorkerLaunched(r) \/ WorkerRefused(r) \/ WorkerLeft(r)
                  \/ WorkerPrepares(r) \/ WorkerRuns(r) \/ WorkerConcludes(r) \/ WorkerSettled(r)

LEMMA WorkerMovesOwn ==
    ASSUME RTypes, NEW r \in Runs, WorkerStep(r) \/ RunEnds(r), NEW q \in Runs
    PROVE  WorkerMoves(q)
PROOF
  <1>. USE DEF RTypes, WorkerTypes
  <1>1. ASSUME NEW to, wpc' = [wpc EXCEPT ![r] = to], UNCHANGED <<verdict, manifest>>,
               \/ wpc[r] \in WorkerSteps \union {"zombie"} /\ to \in {"zombie", "gone"}
               \/ /\ wpc[r] \in Preparing \/ (wpc[r] = "wait" /\ HasLease(r))
                  /\ to \in Preparing
               \/ wpc[r] \in Running /\ to \in Running
        PROVE  WorkerMoves(q)
    BY <1>1 DEF WorkerMoves, WorkerKept, Untouched, WorkerLeft, WorkerPrepares, WorkerRuns
  <1>2. ASSUME NEW terminal, Concludes(r, terminal),
               manifest' \in {manifest, [manifest EXCEPT ![r] = terminal]},
               \/ /\ wpc[r] \in Preparing /\ terminal \in {"cancelled", "failed"}
                  /\ manifest' = manifest
               \/ wpc[r] \in Running /\ manifest' = [manifest EXCEPT ![r] = terminal]
        PROVE  WorkerMoves(q)
    BY <1>2 DEF Concludes, WorkerMoves, WorkerKept, Untouched, WorkerConcludes
  <1>3. CASE WaitForLease(r)
    BY <1>1, <1>3 DEF WaitForLease, Keeps, At, Exit, Preparing, WorkerSteps
  <1>4. ASSUME NEW from \in Preparing, NEW to \in Preparing, CheckCancel(r, from, to)
        PROVE  WorkerMoves(q)
    <2>1. wpc[r] \in Preparing /\ wpc[r] \in WorkerSteps /\ UNCHANGED manifest
      BY <1>4 DEF CheckCancel, Keeps, Preparing, WorkerSteps
    <2>2. \/ Exit(r) /\ UNCHANGED verdict
          \/ Concludes(r, "cancelled")
          \/ At(r, from, to) /\ UNCHANGED verdict
      BY <1>4 DEF CheckCancel
    <2>. QED BY <1>1, <1>2, <2>1, <2>2 DEF At, Exit
  <1>5. ASSUME CheckOutput(r) \/ StoreOutput(r) \/ Ready(r) \/ Mark(r)
        PROVE  WorkerMoves(q)
    <2>1. wpc[r] \in Preparing /\ wpc[r] \in WorkerSteps /\ UNCHANGED <<verdict, manifest>>
      BY <1>5 DEF CheckOutput, StoreOutput, Ready, Mark, At, Keeps, Preparing, WorkerSteps
    <2>2. \E to \in Preparing \union {"zombie"} : wpc' = [wpc EXCEPT ![r] = to]
      BY <1>5 DEF CheckOutput, StoreOutput, Ready, Mark, At, Exit, Preparing
    <2>. QED BY <1>1, <2>1, <2>2
  <1>6. CASE Build(r)
    BY <1>6 DEF Build, At, WorkerMoves, WorkerKept, Untouched, WorkerRuns, Running
  <1>7. CASE Poll(r)
    BY <1>1, <1>7 DEF Poll, Keeps, Running
  <1>8. CASE RunCancels(r) \/ RunDisowned(r) \/ RunEnds(r)
    <2>1. PICK terminal : Publishes(r, terminal)
      BY <1>8 DEF RunCancels, RunDisowned, RunEnds
    <2>2. wpc[r] \in Running
      BY <1>8 DEF RunCancels, RunDisowned, RunEnds, Running
    <2>. QED BY <1>2, <2>1, <2>2 DEF Publishes
  <1>9. CASE Finish(r) \/ Reap(r)
    BY <1>1, <1>9 DEF Finish, Reap, Exit, At, Keeps, WorkerSteps
  <1>10. {"setup", "resolve", "output"} \subseteq Preparing
    BY DEF Preparing
  <1>. QED BY <1>3, <1>4, <1>5, <1>6, <1>7, <1>8, <1>9, <1>10 DEF WorkerStep

LEMMA WorkerMovesByDaemon ==
    ASSUME RTypes, NEW d \in Daemons, DaemonStep(d) \/ StartDaemon(d), NEW q \in Runs
    PROVE  WorkerMoves(q)
PROOF
  <1>. USE DEF RTypes, WorkerTypes
  <1>1. ASSUME UNCHANGED workerVars PROVE WorkerMoves(q)
    BY <1>1 DEF workerVars, WorkerMoves, WorkerKept, Untouched
  <1>2. CASE Inspect(d)
    <2>. DEFINE dead == {r \in Runs : Active(r) /\ ~ (HasLease(r) /\ Alive(r))}
    <2>1. /\ UNCHANGED <<wpc, verdict>>
          /\ manifest'[q] = IF q \in dead THEN DisposedManifest(q, output[q]) ELSE manifest[q]
      BY <1>2 DEF Inspect
    <2>2. CASE q \in dead /\ manifest[q] = "running" /\ output[q]
      BY <2>1, <2>2 DEF DisposedManifest, WorkerMoves, WorkerSettled
    <2>3. CASE ~ (q \in dead /\ manifest[q] = "running" /\ output[q])
      BY <2>1, <2>3 DEF DisposedManifest, WorkerMoves, WorkerKept, Untouched
    <2>. QED BY <2>2, <2>3
  <1>3. ASSUME NEW r \in Runs, LaunchWorker(d, r)
        PROVE  WorkerMoves(q)
    BY <1>3 DEF LaunchWorker, WorkerMoves, WorkerKept, WorkerLaunched, Untouched
  <1>4. ASSUME NEW r \in Runs, AttachFails(d, r)
        PROVE  WorkerMoves(q)
    BY <1>4 DEF AttachFails, WorkerMoves, WorkerKept, WorkerRefused, Untouched
  <1>5. \/ UNCHANGED workerVars \/ Inspect(d)
        \/ \E r \in Runs : LaunchWorker(d, r) \/ AttachFails(d, r)
    BY DEF DaemonStep, StartDaemon, ReadOwner, ClaimDaemon, RecoveryStarts, RecoverRow,
           RecoveryEnds, RecoveryFails, PickRows, ApplyRows, ApplyFails, Attach, NextTick,
           IdleShutdown, StopServer, ReleaseDaemon
  <1>. QED BY <1>1, <1>2, <1>3, <1>4, <1>5

LEMMA KilledMoves ==
    ASSUME RTypes, NEW r \in Runs, wpc[r] \in WorkerSteps \union {"zombie"}, Exit(r),
           UNCHANGED <<verdict, manifest>>, NEW q \in Runs
    PROVE  WorkerMoves(q)
PROOF
  BY DEF RTypes, WorkerTypes, Exit, WorkerMoves, WorkerKept, WorkerLeft, Untouched

LEMMA WorkerMovesByServer ==
    ASSUME RTypes, Asked \/ Answers, NEW q \in Runs
    PROVE  WorkerMoves(q)
PROOF
  <1>. USE DEF RTypes, WorkerTypes
  <1>1. ASSUME UNCHANGED <<wpc, verdict, manifest>> PROVE WorkerMoves(q)
    BY <1>1 DEF WorkerMoves, WorkerKept, Untouched
  <1>2. ASSUME NEW r \in Runs, ForceKill(r)
        PROVE  WorkerMoves(q)
    BY <1>1, <1>2, KilledMoves DEF ForceKill, Killed, Alive
  <1>3. ASSUME NEW r \in Runs, ForceSettle(r)
        PROVE  WorkerMoves(q)
    <2>1. /\ UNCHANGED <<wpc, verdict>> /\ stop.phase = "settle" /\ stop.run = r
          /\ manifest' = [manifest EXCEPT ![r] = DisposedManifest(r, stop.output)]
      BY <1>3 DEF ForceSettle
    <2>2. CASE q = r /\ manifest[r] = "running" /\ stop.output
      BY <2>1, <2>2 DEF DisposedManifest, WorkerMoves, WorkerSettled
    <2>3. CASE ~ (q = r /\ manifest[r] = "running" /\ stop.output)
      <3>1. manifest'[q] = manifest[q]
        BY <2>1, <2>3 DEF DisposedManifest
      <3>. QED BY <2>1, <3>1 DEF WorkerMoves, WorkerKept, Untouched
    <2>. QED BY <2>2, <2>3
  <1>4. \/ UNCHANGED <<wpc, verdict, manifest>>
        \/ \E r \in Runs : ForceKill(r) \/ ForceSettle(r)
    BY DEF Asked, Answers, ServeSubmit, ServeRerun, ServeSafeCancel, ServeCancelWrite, ForceRead,
           ForceUnleased, ForceFinish, workerVars
  <1>. QED BY <1>1, <1>2, <1>3, <1>4

LEMMA WorkerMovesByFault ==
    ASSUME RTypes, Faults, NEW q \in Runs
    PROVE  WorkerMoves(q)
PROOF
  <1>. USE DEF RTypes, WorkerTypes
  <1>1. ASSUME UNCHANGED workerVars PROVE WorkerMoves(q)
    BY <1>1 DEF workerVars, WorkerMoves, WorkerKept, Untouched
  <1>2. ASSUME NEW r \in Runs, SetupFails(r)
        PROVE  WorkerMoves(q)
    BY <1>2 DEF SetupFails, Concludes, Preparing, WorkerMoves, WorkerKept, Untouched,
                WorkerConcludes
  <1>3. ASSUME NEW r \in Runs, RunFails(r)
        PROVE  WorkerMoves(q)
    BY <1>3 DEF RunFails, Concludes, Running, WorkerMoves, WorkerKept, Untouched,
                WorkerConcludes
  <1>4. ASSUME NEW r \in Runs, WorkerDies(r)
        PROVE  WorkerMoves(q)
    BY <1>4, KilledMoves DEF WorkerDies, Killed
  <1>5. \/ UNCHANGED workerVars
        \/ \E r \in Runs : SetupFails(r) \/ RunFails(r) \/ WorkerDies(r)
    BY DEF Faults, LaunchFails, DaemonCrash
  <1>. QED BY <1>1, <1>2, <1>3, <1>4, <1>5

LEMMA WorkerMoved ==
    ASSUME RTypes, RNext, NEW q \in Runs
    PROVE  WorkerMoves(q)
PROOF
  BY WorkerMovesByDaemon, WorkerMovesByServer, WorkerMovesOwn, WorkerMovesByFault DEF RNext

-----------------------------------------------------------------------------
\* What the owner's thread remembers changes only by its own steps.

OwnSteps(d) ==
    \/ Inspect(d) \/ RecoveryStarts(d) \/ \E r \in Runs : RecoverRow(d, r)
    \/ RecoveryEnds(d) \/ RecoveryFails(d)
    \/ PickRows(d) \/ ApplyRows(d) \/ ApplyFails(d)
    \/ \E r \in Runs : LaunchWorker(d, r) \/ Attach(d, r) \/ AttachFails(d, r) \/ LaunchFails(d, r)
    \/ NextTick(d) \/ IdleShutdown(d) \/ StopServer(d)

Undisturbed(d) == dpc'[d] = dpc[d] /\ UNCHANGED <<recovery, decision, picked>>

LEMMA OwnerActs ==
    ASSUME RTypes, OwnerInv, RNext, NEW d \in Daemons, Owning(d)', dpc'[d] # "inspect"
    PROVE  Owning(d) /\ (OwnSteps(d) \/ Undisturbed(d))
PROOF
  <1>. USE DEF RTypes, DaemonTypes
  <1>1. ASSUME NEW e \in Daemons, StartDaemon(e) \/ ReadOwner(e) \/ ClaimDaemon(e)
        PROVE  Undisturbed(d)
    <2>1. e # d
      BY <1>1 DEF StartDaemon, ReadOwner, ClaimDaemon, Moves, Owning
    <2>. QED BY <1>1, <2>1 DEF StartDaemon, ReadOwner, ClaimDaemon, Moves, Undisturbed, vars,
                               callers
  <1>2. ASSUME NEW e \in Daemons, DaemonCrash(e) \/ ReleaseDaemon(e)
        PROVE  Undisturbed(d)
    <2>1. e # d /\ dpc'[d] = dpc[d]
      BY <1>2 DEF DaemonCrash, ReleaseDaemon, Moves, Owning
    <2>2. ~ Owning(e)
      BY <2>1 DEF OwnerInv, SingleDaemon, Owning
    <2>3. DaemonCrash(e)
      BY <1>2, <2>2 DEF ReleaseDaemon, Moves, Owning
    <2>. QED BY <2>1, <2>2, <2>3 DEF DaemonCrash, Undisturbed
  <1>3. ASSUME NEW e \in Daemons, OwnSteps(e)
        PROVE  e = d
    <2>1. Owning(e) /\ \A f \in Daemons \ {e} : dpc'[f] = dpc[f]
      BY <1>3 DEF OwnSteps, Inspect, RecoveryStarts, RecoverRow, RecoveryEnds, RecoveryFails,
           PickRows, ApplyRows, ApplyFails, LaunchWorker, Attach, AttachFails, LaunchFails,
           NextTick, IdleShutdown, StopServer, Moves, Owning, daemonVars
    <2>. QED BY <2>1 DEF OwnerInv, SingleDaemon, Owning
  <1>4. ASSUME Asked \/ Answers PROVE Undisturbed(d)
    BY <1>4 DEF Asked, Answers, ServeSubmit, Submit, ServeRerun, Rerun, ServeSafeCancel, CancelRead,
                ServeCancelWrite, CancelQueued, CancelSafely, CancelForcibly, CancelConflict,
                ForceRead, ForceUnleased, ForceKill, Killed, OutputLost, ForceSettle,
                ForceFinish, Reports, FinishWorker, Undisturbed, daemonVars, vars, callers
  <1>5. ASSUME NEW r \in Runs, WorkerStep(r) \/ RunEnds(r) \/ SetupFails(r) \/ RunFails(r)
                               \/ WorkerDies(r)
        PROVE  Undisturbed(d)
    <2>1. UNCHANGED daemonVars
      BY <1>5 DEF WorkerStep, WaitForLease, CheckCancel, CheckOutput, StoreOutput, Ready, Mark,
                  Build, Poll, RunCancels, RunDisowned, Finish, Reap, RunEnds, Publishes, Keeps,
                  SetupFails, RunFails, WorkerDies
    <2>2. UNCHANGED recovery
      BY <1>5 DEF WorkerStep, WaitForLease, CheckCancel, CheckOutput, OutputCheck, StoreOutput,
                  OutputStore, Ready, Mark, MarkWorkerRunning, Build, Poll, Heartbeat,
                  RunCancels, RunDisowned, Finish, Reports, FinishWorker, Reap, RunEnds, Publishes,
                  SetupFails, RunFails, WorkerDies, Killed, OutputLost, vars, callers
    <2>. QED BY <2>1, <2>2 DEF Undisturbed, daemonVars
  <1>6. \/ \E e \in Daemons : StartDaemon(e) \/ ReadOwner(e) \/ ClaimDaemon(e) \/ DaemonCrash(e)
                              \/ ReleaseDaemon(e) \/ OwnSteps(e)
        \/ Asked \/ Answers
        \/ \E r \in Runs : WorkerStep(r) \/ RunEnds(r) \/ SetupFails(r) \/ RunFails(r)
                           \/ WorkerDies(r)
    BY DEF RNext, DaemonStep, Faults, OwnSteps
  <1>7. OwnSteps(d) \/ Undisturbed(d)
    BY <1>1, <1>2, <1>3, <1>4, <1>5, <1>6
  <1>8. OwnSteps(d) => Owning(d)
    BY DEF OwnSteps, Inspect, RecoveryStarts, RecoverRow, RecoveryEnds, RecoveryFails,
           PickRows, ApplyRows, ApplyFails, LaunchWorker, Attach, AttachFails, LaunchFails,
           NextTick, IdleShutdown, StopServer, Moves, Owning
  <1>9. Undisturbed(d) => Owning(d)
    BY DEF Undisturbed, Owning
  <1>. QED BY <1>7, <1>8, <1>9

\* Two daemons that own are one.
LEMMA OneOwner ==
    ASSUME OwnerInv, NEW d \in Daemons, NEW e \in Daemons, Owning(d), Owning(e)
    PROVE  d = e
PROOF
  BY DEF OwnerInv, SingleDaemon

-----------------------------------------------------------------------------
\* The inductive invariant.

Natural == {"complete", "completed_with_particle_errors"}

\* What the recovery pass of a daemon knows of a row: its lease is taken over or still
\* to be handled, and a row read without a lease has none to lose.
RowKnown(d, r) ==
    /\ HasLease(r) => \/ lease[r].daemon = d
                      \/ r \in recovery.todo /\ recovery.seen[r].daemon = lease[r].daemon
    /\ Active(r) => /\ r \in recovery.todo \/ HasLease(r)
                    /\ recovery.seen[r] # NoLease => HasLease(r)

RecoveryInv ==
    \A d \in Daemons : dpc[d] = "recover" =>
        recovery.daemon = d /\ \A r \in Runs : RowKnown(d, r)

DecisionInv ==
    \A d \in Daemons, r \in Runs : dpc[d] \in {"inspected", "recover"} =>
        /\ HasLease(r) /\ decision[r] # "reattach" => wpc[r] = "gone"
        /\ decision[r] \notin {"interrupted", "reattach"}
               => wpc[r] \in {"zombie", "gone"} /\ manifest[r] = decision[r]

LaunchInv ==
    \A d \in Daemons, r \in picked :
        /\ dpc[d] \in {"apply", "launch"} => wpc[r] = "none"
        /\ dpc[d] = "attach" => (wpc[r] = "none") = ~ NextPicked(r)
        /\ dpc[d] \in {"launch", "attach"} =>
               ~ HasLease(r) /\ state[r] \in ActiveStates \union {"interrupted"}

WorkerInv ==
    \A r \in Runs :
        /\ HasLease(r) => wpc[r] # "none"
        /\ Queued(r) \/ r \notin Rows => wpc[r] = "none"
        /\ wpc[r] \in Preparing \union Running \union {"finish"} => HasLease(r) \/ Terminal(r)
        /\ wpc[r] \in Preparing \union {"none", "wait"} => manifest[r] = "none"
        /\ wpc[r] \in Running => manifest[r] = "running"
        /\ wpc[r] = "finish" =>
              /\ verdict[r] \in Natural => manifest[r] = verdict[r]
              /\ verdict[r] = "cancelled" => manifest[r] \in {"none", "cancelled"}
              /\ verdict[r] = "failed" => manifest[r] \in {"none", "running", "failed"}
        /\ state[r] \in Natural \union {"cancelled", "failed"}
               => wpc[r] \in {"none", "zombie", "gone"}

StopInv ==
    /\ stop.phase \in {"settle", "finish"} => wpc[stop.run] \in {"zombie", "gone"}
    /\ stop.phase = "finish" /\ stop.terminal # "interrupted"
           => manifest[stop.run] = stop.terminal

RInv == /\ LeaseInv /\ OwnerInv /\ RecoveryInv /\ LeasesTakenOver /\ ActiveRowsLeased
        /\ DecisionInv /\ LaunchInv /\ WorkerInv /\ StopInv /\ CatalogMatchesManifest

\* No step of a daemon that is not at that point.
LEMMA AtPoint ==
    ASSUME RTypes, OwnerInv, NEW d \in Daemons, Owning(d)
    PROVE  /\ \A e \in Daemons : ApplyRows(e) => e = d /\ dpc[d] = "apply"
           /\ \A e \in Daemons, r \in Runs :
                 /\ Attach(e, r) => e = d /\ dpc[d] = "attach"
                 /\ AttachFails(e, r) => e = d /\ dpc[d] = "attach"
                 /\ LaunchWorker(e, r) => e = d /\ dpc[d] = "launch"
                 /\ LaunchFails(e, r) => e = d /\ dpc[d] = "launch"
                 /\ RecoverRow(e, r) => e = d /\ dpc[d] = "recover"
PROOF
  <1>1. \A e \in Daemons : dpc[e] \in {"apply", "attach", "launch", "recover"} => e = d
    BY OneOwner DEF Owning
  <1>. QED BY <1>1 DEF ApplyRows, Attach, AttachFails, LaunchWorker, LaunchFails, RecoverRow, Moves

-----------------------------------------------------------------------------
\* Recovery.

LEMMA RowStaysKnown ==
    ASSUME RTypes, OwnerInv, NEW d \in Daemons, dpc[d] = "recover", recovery.daemon = d,
           NEW r \in Runs, RowKnown(d, r), RowStep(r),
           recovery'.seen[r] = recovery.seen[r],
           r \in recovery'.todo <=> r \in recovery.todo
    PROVE  RowKnown(d, r)'
PROOF
  <1>. USE DEF RowKnown, HasLease, Active
  <1>1. Owning(d)
    BY DEF Owning
  <1>2. CASE RowKept(r)
    BY <1>2 DEF RowKept
  <1>3. CASE RowOpened(r) \/ RowDropped(r)
    BY <1>3 DEF RowOpened, RowDropped, ActiveStates
  <1>4. ~ RowDispatched(r) /\ ~ RowAttached(r)
    BY <1>1, AtPoint DEF RowDispatched, RowAttached
  <1>5. CASE RowTakenOver(r)
    <2>1. lease'[r].daemon = d /\ lease[r] # NoLease
      BY <1>5 DEF RowTakenOver
    <2>2. lease'[r] # NoLease
      BY <1>5 DEF RowTakenOver, Leases, NoLease
    <2>. QED BY <2>1, <2>2
  <1>6. CASE RowAdvanced(r)
    BY <1>6 DEF RowAdvanced
  <1>7. CASE RowEnded(r)
    BY <1>7, StatesAreDisjoint DEF RowEnded, Terminal
  <1>. QED BY <1>2, <1>3, <1>4, <1>5, <1>6, <1>7 DEF RowStep

LEMMA RecoveryNext ==
    ASSUME RTypes, RTypes', RInv, OwnerInv', RNext
    PROVE  RecoveryInv'
PROOF
  <1>. SUFFICES ASSUME NEW d \in Daemons, dpc'[d] = "recover"
                PROVE  recovery'.daemon = d /\ \A r \in Runs : RowKnown(d, r)'
    BY DEF RecoveryInv
  <1>. USE DEF RTypes, RInv
  <1>1. OwnSteps(d) \/ Undisturbed(d)
    BY OwnerActs DEF Owning
  <1>2. ASSUME NEW r \in Runs PROVE RowStep(r)
    BY RowSteps
  <1>3. CASE Undisturbed(d)
    <2>1. dpc[d] = "recover" /\ recovery.daemon = d /\ \A r \in Runs : RowKnown(d, r)
      BY <1>3 DEF Undisturbed, RecoveryInv
    <2>. QED BY <1>2, <1>3, <2>1, RowStaysKnown DEF Undisturbed
  <1>4. CASE RecoveryStarts(d)
    <2>1. /\ UNCHANGED <<state, lease>> /\ recovery'.daemon = d
          /\ recovery'.todo = {r \in Runs : Active(r)}
          /\ recovery'.seen = [r \in Runs |-> IF Active(r) THEN lease[r] ELSE NoLease]
      BY <1>4 DEF RecoveryStarts, RecoverRead, jobs
    <2>. QED BY <2>1 DEF LeaseInv, LeaseOnlyActive, RowKnown, HasLease, Active
  <1>5. ASSUME NEW q \in Runs, RecoverRow(d, q)
        PROVE  recovery'.daemon = d /\ \A r \in Runs : RowKnown(d, r)'
    <2>1. dpc[d] = "recover" /\ recovery.daemon = d /\ \A r \in Runs : RowKnown(d, r)
      BY <1>5 DEF RecoverRow, RecoveryInv
    <2>2. RecoverDone(q)
      BY <1>5 DEF RecoverRow, RecoverKeep, RecoverReattach, RecoverClose
    <2>3. recovery'.daemon = d /\ recovery'.todo = recovery.todo \ {q}
          /\ recovery'.seen = [recovery.seen EXCEPT ![q] = NoLease]
      BY <2>1, <2>2 DEF RecoverDone
    <2>4. ASSUME NEW r \in Runs \ {q}
          PROVE  RowKnown(d, r)'
      <3>1. recovery'.seen[r] = recovery.seen[r] /\ (r \in recovery'.todo <=> r \in recovery.todo)
        BY <2>3 DEF TypeOK, RecoveryType
      <3>. QED BY <1>2, <2>1, <3>1, RowStaysKnown
    <2>5. recovery'.seen[q] = NoLease
      BY <2>3 DEF TypeOK, RecoveryType
    <2>6. RowKnown(d, q)
      BY <2>1
    <2>7. CASE RecoverKeep(q)
      <3>1. UNCHANGED <<state, lease>> /\ recovery.seen[q] # NoLease /\ recovery.seen[q].daemon = d
        BY <2>1, <2>7 DEF RecoverKeep, jobs
      <3>. QED BY <2>3, <2>4, <2>5, <2>6, <3>1 DEF RowKnown, HasLease, Active
    <2>8. CASE RecoverReattach(q)
      <3>1. UNCHANGED state /\ recovery.seen[q] # NoLease
        BY <2>8 DEF RecoverReattach, jobs
      <3>2. lease'[q] = IF lease[q] = NoLease THEN NoLease
                        ELSE [daemon |-> d, cancel |-> lease[q].cancel]
        BY <2>1, <2>8 DEF RecoverReattach, TypeOK
      <3>3. lease[q] # NoLease => lease'[q].daemon = d /\ lease'[q] # NoLease
        BY <3>2 DEF NoLease
      <3>. QED BY <2>3, <2>4, <2>5, <2>6, <3>1, <3>2, <3>3 DEF RowKnown, HasLease, Active
    <2>9. CASE RecoverClose(q, decision[q])
      <3>1. lease'[q] = NoLease /\ state'[q] \in TerminalStates
        BY <2>9, TransitionOf DEF RecoverClose, DeleteLease, TypeOK
      <3>2. ~ Active(q)' /\ ~ HasLease(q)'
        BY <3>1, StatesAreDisjoint DEF Active, HasLease
      <3>. QED BY <2>3, <2>4, <3>2 DEF RowKnown
    <2>. QED BY <1>5, <2>7, <2>8, <2>9 DEF RecoverRow
  <1>6. OwnSteps(d) => RecoveryStarts(d) \/ \E r \in Runs : RecoverRow(d, r)
    BY DEF OwnSteps, Inspect, RecoveryEnds, RecoveryFails,
           PickRows, ApplyRows, ApplyFails, LaunchWorker, Attach, AttachFails, LaunchFails,
           NextTick, IdleShutdown, StopServer, Moves, DaemonTypes
  <1>. QED BY <1>1, <1>3, <1>4, <1>5, <1>6

\* The daemon comes to its queue only through the end of a recovery pass.
LEMMA ReachesQueue ==
    ASSUME RTypes, OwnerInv, RNext, NEW d \in Daemons,
           dpc'[d] \in {"pick", "apply", "launch", "attach"}
    PROVE  dpc[d] \in {"pick", "apply", "launch", "attach"} \/ RecoveryEnds(d)
PROOF
  <1>. USE DEF RTypes, DaemonTypes
  <1>1. OwnSteps(d) \/ Undisturbed(d)
    BY OwnerActs DEF Owning
  <1>. QED BY <1>1 DEF Undisturbed, OwnSteps, Inspect, RecoveryStarts, RecoverRow, RecoveryFails,
           PickRows, ApplyRows, ApplyFails, LaunchWorker, Attach, AttachFails, LaunchFails,
           NextTick, IdleShutdown, StopServer, Moves, daemonVars

\* At the end of a pass every lease is the daemon's own, and no active row is without.
LEMMA PassIsThrough ==
    ASSUME RTypes, RInv, NEW d \in Daemons, RecoveryEnds(d), NEW r \in Runs
    PROVE  /\ HasLease(r)' => lease'[r].daemon = d
           /\ Active(r)' => HasLease(r)'
PROOF
  <1>1. dpc[d] = "recover" /\ recovery.todo = {} /\ UNCHANGED state
        /\ lease'[r] = IF Terminal(r) THEN NoLease ELSE lease[r]
    BY DEF RecoveryEnds, Moves, RecoverSweep, jobs
  <1>2. RowKnown(d, r)
    BY <1>1 DEF RInv, RecoveryInv
  <1>. QED BY <1>1, <1>2, StatesAreDisjoint DEF RowKnown, HasLease, Active, Terminal

LEMMA TakenOverNext ==
    ASSUME RTypes, RTypes', RInv, OwnerInv', RNext
    PROVE  LeasesTakenOver'
PROOF
  <1>. SUFFICES ASSUME NEW d \in Daemons, NEW r \in Runs,
                       dpc'[d] \in {"pick", "apply", "launch", "attach"}, HasLease(r)'
                PROVE  lease'[r].daemon = d
    BY DEF LeasesTakenOver
  <1>. USE DEF RInv
  <1>1. CASE RecoveryEnds(d)
    BY <1>1, PassIsThrough
  <1>2. CASE dpc[d] \in {"pick", "apply", "launch", "attach"}
    <2>1. HasLease(r) => lease[r].daemon = d
      BY <1>2 DEF LeasesTakenOver
    <2>2. Owning(d)
      BY <1>2 DEF Owning
    <2>3. ~ RowTakenOver(r)
      BY <1>2, <2>2, AtPoint DEF RowTakenOver
    <2>4. RowAttached(r) => lease'[r].daemon = d
      BY <2>2, AtPoint DEF RowAttached
    <2>. QED BY <2>1, <2>3, <2>4, RowSteps
             DEF RowStep, RowKept, RowOpened, RowDispatched, RowAdvanced, RowDropped, RowEnded,
                 HasLease
  <1>. QED BY <1>1, <1>2, ReachesQueue

LEMMA ActiveLeasedNext ==
    ASSUME RTypes, RTypes', RInv, OwnerInv', RNext
    PROVE  ActiveRowsLeased'
PROOF
  <1>. SUFFICES ASSUME NEW d \in Daemons, NEW r \in Runs, dpc'[d] \in {"pick", "apply"}, Active(r)'
                PROVE  HasLease(r)'
    BY DEF ActiveRowsLeased
  <1>. USE DEF RInv
  <1>1. CASE RecoveryEnds(d)
    BY <1>1, PassIsThrough
  <1>2. CASE dpc[d] \in {"pick", "apply"}
    <2>1. Active(r) => HasLease(r)
      BY <1>2 DEF ActiveRowsLeased
    <2>2. ~ RowDispatched(r)
      <3>1. \A e \in Daemons : ApplyRows(e) => e = d
        BY <1>2, AtPoint DEF Owning
      <3>2. ~ ApplyRows(d)
        BY DEF ApplyRows, Moves, RTypes, DaemonTypes
      <3>. QED BY <3>1, <3>2 DEF RowDispatched
    <2>3. lease'[r] \in Leases => HasLease(r)'
      BY DEF Leases, NoLease, HasLease
    <2>. QED BY <2>1, <2>2, <2>3, RowSteps, StatesAreDisjoint
             DEF RowStep, RowKept, RowOpened, RowAttached, RowTakenOver, RowAdvanced, RowDropped,
                 RowEnded, HasLease, Active, Terminal, ActiveStates
  <1>3. CASE dpc[d] \in {"launch", "attach"}
    <2>1. OwnSteps(d) \/ Undisturbed(d)
      BY OwnerActs DEF Owning
    <2>. QED BY <1>3, <2>1 DEF Undisturbed, OwnSteps, Inspect, RecoveryStarts, RecoverRow,
           RecoveryEnds, RecoveryFails,
           PickRows, ApplyRows, ApplyFails, LaunchWorker, Attach, AttachFails, LaunchFails,
           NextTick, IdleShutdown, StopServer, Moves, daemonVars, RTypes, DaemonTypes
  <1>. QED BY <1>1, <1>2, <1>3, ReachesQueue

-----------------------------------------------------------------------------
\* Decisions about workers that are gone.

LEMMA WorkerStepsAre ==
    /\ WorkerSteps = {"wait", "finish"} \union Preparing \union Running
    /\ "zombie" \notin WorkerSteps /\ "gone" \notin WorkerSteps /\ "none" \notin WorkerSteps
PROOF
  BY DEF WorkerSteps, Preparing, Running

LEMMA RunningIsNotReported == "running" \notin Reported /\ "reattach" \notin Reported
PROOF
  BY ReportedAreTerminal DEF TerminalStates

LEMMA DecisionNext ==
    ASSUME RTypes, RTypes', RInv, OwnerInv', RNext
    PROVE  DecisionInv'
PROOF
  <1>. SUFFICES ASSUME NEW d \in Daemons, NEW r \in Runs, dpc'[d] \in {"inspected", "recover"}
                PROVE  /\ HasLease(r)' /\ decision'[r] # "reattach" => wpc'[r] = "gone"
                       /\ decision'[r] \notin {"interrupted", "reattach"}
                              => wpc'[r] \in {"zombie", "gone"} /\ manifest'[r] = decision'[r]
    BY DEF DecisionInv
  <1>. USE DEF RInv, RTypes
  <1>1. Owning(d) /\ (OwnSteps(d) \/ Undisturbed(d))
    BY OwnerActs DEF Owning
  <1>2. CASE Inspect(d)
    <2>. DEFINE dead == {q \in Runs : Active(q) /\ ~ (HasLease(q) /\ Alive(q))}
    <2>1. /\ UNCHANGED <<state, lease, wpc>>
          /\ decision'[r] = IF ~ Active(r) THEN "interrupted"
                            ELSE IF r \in dead THEN Disposition(r, output[r]) ELSE "reattach"
          /\ manifest'[r] = IF r \in dead THEN DisposedManifest(r, output[r]) ELSE manifest[r]
      BY <1>2 DEF Inspect, vars, jobs
    <2>2. ASSUME HasLease(r), decision'[r] # "reattach"
          PROVE  wpc[r] = "gone"
      <3>1. Active(r)
        BY <2>2 DEF LeaseInv, LeaseOnlyActive, HasLease
      <3>2. ~ Alive(r)
        BY <2>1, <2>2, <3>1
      <3>3. wpc[r] # "none"
        BY <2>2 DEF WorkerInv
      <3>. QED BY <3>2, <3>3 DEF Alive, WorkerTypes
    <2>3. ASSUME decision'[r] \notin {"interrupted", "reattach"}
          PROVE  wpc[r] \in {"zombie", "gone"} /\ manifest'[r] = decision'[r]
      <3>1. Active(r) /\ r \in dead
        BY <2>1, <2>3
      <3>2. decision'[r] = manifest[r] /\ manifest[r] \notin {"none", "running"}
            /\ manifest'[r] = manifest[r]
        BY <2>1, <2>3, <3>1 DEF Disposition, DisposedManifest
      <3>3. ~ Terminal(r)
        BY <3>1, StatesAreDisjoint DEF Active, Terminal
      <3>4. wpc[r] \notin Preparing \union {"none", "wait"}
        BY <3>2 DEF WorkerInv
      <3>5. wpc[r] \notin Running \union {"finish"}
        BY <3>1, <3>3, WorkerStepsAre DEF WorkerInv, Alive
      <3>. QED BY <3>2, <3>4, <3>5, WorkerStepsAre DEF WorkerTypes
    <2>. QED BY <2>1, <2>2, <2>3 DEF HasLease
  <1>3. CASE dpc[d] \in {"inspected", "recover"} /\ decision' = decision
    <2>1. /\ HasLease(r) /\ decision[r] # "reattach" => wpc[r] = "gone"
          /\ decision[r] \notin {"interrupted", "reattach"}
                 => wpc[r] \in {"zombie", "gone"} /\ manifest[r] = decision[r]
      BY <1>3 DEF DecisionInv
    <2>2. ~ RowAttached(r) /\ ~ WorkerLaunched(r) /\ ~ WorkerRefused(r)
      BY <1>1, <1>3, AtPoint DEF RowAttached, WorkerLaunched, WorkerRefused
    <2>3. HasLease(r)' => HasLease(r)
      BY <2>2, RowSteps DEF RowStep, RowKept, RowOpened, RowDispatched, RowTakenOver, RowAdvanced,
                            RowDropped, RowEnded, HasLease
    <2>4. WorkerMoves(r)
      BY WorkerMoved
    <2>5. wpc[r] = "gone" => wpc'[r] = "gone"
      BY <2>2, <2>4, WorkerStepsAre
         DEF WorkerMoves, WorkerKept, WorkerLeft, WorkerPrepares, WorkerRuns, WorkerConcludes,
             WorkerSettled
    <2>6. ASSUME wpc[r] \in {"zombie", "gone"}
          PROVE  /\ wpc'[r] \in {"zombie", "gone"}
                 /\ manifest'[r] = manifest[r] \/ manifest[r] = "running"
      BY <2>2, <2>4, <2>6, WorkerStepsAre
         DEF WorkerMoves, WorkerKept, WorkerLeft, WorkerPrepares, WorkerRuns, WorkerConcludes,
             WorkerSettled, Untouched
    <2>7. decision[r] # "running"
      BY RunningIsNotReported DEF DaemonTypes
    <2>. QED BY <1>3, <2>1, <2>3, <2>5, <2>6, <2>7
  <1>4. Undisturbed(d) => dpc[d] \in {"inspected", "recover"} /\ decision' = decision
    BY DEF Undisturbed
  <1>5. OwnSteps(d) => Inspect(d) \/ (dpc[d] \in {"inspected", "recover"} /\ decision' = decision)
    BY DEF OwnSteps, RecoveryStarts, RecoverRow, RecoveryEnds, RecoveryFails,
           PickRows, ApplyRows, ApplyFails, LaunchWorker, Attach, AttachFails, LaunchFails,
           NextTick, IdleShutdown, StopServer, Moves, DaemonTypes, daemonVars
  <1>. QED BY <1>1, <1>2, <1>3, <1>4, <1>5

-----------------------------------------------------------------------------
\* A round of launches: a picked row has no lease, and no worker until its turn.

LEMMA OneIsNext ==
    ASSUME picked \subseteq Runs, NEW q, NEW r, NextPicked(q), NextPicked(r)
    PROVE  q = r
PROOF
  BY DEF NextPicked, Runs

LEMMA RowWaits ==
    ASSUME RTypes, RInv, RNext, NEW d \in Daemons, dpc[d] \in {"launch", "attach"},
           Undisturbed(d), NEW r \in picked
    PROVE  ~ HasLease(r)' /\ state'[r] \in ActiveStates \union {"interrupted"}
PROOF
  <1>. USE DEF RTypes, DaemonTypes, RInv
  <1>1. r \in Runs /\ ~ HasLease(r) /\ state[r] \in ActiveStates \union {"interrupted"}
        /\ picked' = picked /\ dpc'[d] = dpc[d]
    BY DEF LaunchInv, Undisturbed
  <1>2. RowStep(r)
    BY <1>1, RowSteps
  <1>3. Owning(d)
    BY DEF Owning
  <1>4. r \in Rows /\ ~ Queued(r)
    BY <1>1 DEF Rows, Queued, ActiveStates
  <1>5. ~ RowDispatched(r) /\ ~ RowAttached(r) /\ ~ RowTakenOver(r) /\ ~ EndedByRecovery(r)
    <2>1. ~ RowDispatched(r) /\ ~ RowTakenOver(r) /\ ~ EndedByRecovery(r)
      BY <1>3, AtPoint DEF RowDispatched, RowTakenOver, EndedByRecovery
    <2>2. ~ Attach(d, r)
      BY <1>1 DEF Attach, Moves
    <2>. QED BY <1>1, <1>3, <2>1, <2>2, AtPoint DEF RowAttached
  <1>6. ~ EndedByLaunch(r)
    <2>1. ~ LaunchFails(d, r)
      BY <1>1 DEF LaunchFails
    <2>. QED BY <1>1, <1>3, <2>1, AtPoint DEF EndedByLaunch
  <1>7. ~ EndedByWorker(r) /\ ~ EndedByStop(r)
    BY <1>1 DEF EndedByWorker, EndedByStop
  <1>8. ~ RowOpened(r) /\ ~ RowDropped(r)
    BY <1>4 DEF RowOpened, RowDropped
  <1>9. CASE RowKept(r)
    BY <1>1, <1>9 DEF RowKept, HasLease
  <1>10. CASE RowAdvanced(r)
    BY <1>1, <1>10 DEF RowAdvanced, HasLease, ActiveStates
  <1>11. CASE RowEnded(r)
    BY <1>6, <1>5, <1>7, <1>11 DEF RowEnded, HasLease
  <1>. QED BY <1>2, <1>5, <1>8, <1>9, <1>10, <1>11 DEF RowStep

LEMMA WorkerWaits ==
    ASSUME RTypes, RInv, RNext, NEW d \in Daemons, Owning(d), Undisturbed(d), NEW r \in Runs
    PROVE  wpc'[r] = "none" <=> wpc[r] = "none"
PROOF
  <1>. USE DEF RTypes, DaemonTypes, RInv
  <1>1. \A q \in Runs : ~ LaunchWorker(d, q) /\ ~ AttachFails(d, q)
    BY DEF LaunchWorker, AttachFails, Moves, Undisturbed
  <1>2. ~ WorkerLaunched(r) /\ ~ WorkerRefused(r)
    BY <1>1, AtPoint DEF WorkerLaunched, WorkerRefused
  <1>3. WorkerMoves(r)
    BY WorkerMoved
  <1>. QED BY <1>2, <1>3, WorkerStepsAre
           DEF WorkerMoves, WorkerKept, WorkerLeft, WorkerPrepares, WorkerRuns, WorkerConcludes,
               WorkerSettled, Preparing, Running

LEMMA LaunchNext ==
    ASSUME RTypes, RTypes', RInv, OwnerInv', RNext
    PROVE  LaunchInv'
PROOF
  <1>. DEFINE Fits(d, r) ==
         /\ dpc[d] \in {"apply", "launch"} => wpc[r] = "none"
         /\ dpc[d] = "attach" => (wpc[r] = "none") = ~ NextPicked(r)
         /\ dpc[d] \in {"launch", "attach"} =>
                ~ HasLease(r) /\ state[r] \in ActiveStates \union {"interrupted"}
  <1>. SUFFICES ASSUME NEW d \in Daemons, NEW r \in picked', dpc'[d] \in {"apply", "launch", "attach"}
                PROVE  Fits(d, r)'
    BY DEF LaunchInv
  <1>. USE DEF RInv, RTypes, DaemonTypes, WorkerTypes
  <1>1. Owning(d) /\ (OwnSteps(d) \/ Undisturbed(d)) /\ r \in Runs
    BY OwnerActs DEF Owning
  <1>2. \A q \in picked : Fits(d, q)
    BY DEF LaunchInv
  <1>3. CASE Undisturbed(d)
    <2>1. r \in picked /\ dpc'[d] = dpc[d] /\ picked' = picked
      BY <1>3 DEF Undisturbed
    <2>2. wpc'[r] = "none" <=> wpc[r] = "none"
      BY <1>1, <1>3, WorkerWaits
    <2>3. NextPicked(r)' = NextPicked(r)
      BY <2>1 DEF NextPicked
    <2>4. dpc[d] \in {"launch", "attach"} =>
              ~ HasLease(r)' /\ state'[r] \in ActiveStates \union {"interrupted"}
      BY <1>3, <2>1, RowWaits
    <2>. QED BY <1>2, <2>1, <2>2, <2>3, <2>4
  <1>4. CASE PickRows(d)
    <2>1. dpc'[d] = "apply" /\ Queued(r) /\ wpc' = wpc
      BY <1>4 DEF PickRows, Moves, workerVars
    <2>. QED BY <1>1, <2>1 DEF WorkerInv
  <1>5. CASE ApplyRows(d)
    <2>1. dpc[d] = "apply" /\ dpc'[d] = "launch" /\ picked' = picked /\ UNCHANGED <<lease, wpc>>
          /\ AllowsTransition(state[r], "starting") /\ state'[r] = "starting"
      BY <1>1, <1>5 DEF ApplyRows, Moves, ApplyDispatchPlan, workerVars
    <2>2. state[r] = "queued"
      BY <2>1, Edges
    <2>3. ~ HasLease(r)
      BY <1>1, <2>2 DEF LeaseInv, LeaseOnlyActive, HasLease, Active, ActiveStates
    <2>. QED BY <1>2, <2>1, <2>3 DEF HasLease, ActiveStates
  <1>6. ASSUME NEW q \in Runs, LaunchWorker(d, q)
        PROVE  Fits(d, r)'
    <2>1. /\ dpc[d] = "launch" /\ dpc'[d] = "attach" /\ picked' = picked /\ NextPicked(q)
          /\ UNCHANGED <<state, lease>> /\ wpc' = [wpc EXCEPT ![q] = "wait"]
      BY <1>6 DEF LaunchWorker, Moves, vars, jobs
    <2>2. NextPicked(r)' <=> r = q
      BY <2>1, OneIsNext DEF NextPicked
    <2>. QED BY <1>1, <1>2, <2>1, <2>2 DEF HasLease
  <1>7. ASSUME NEW q \in Runs, Attach(d, q)
        PROVE  Fits(d, r)'
    <2>1. /\ dpc[d] = "attach" /\ dpc'[d] = "launch" /\ picked' = picked \ {q} /\ NextPicked(q)
          /\ UNCHANGED <<state, wpc>>
      BY <1>7 DEF Attach, Moves, AttachWorker, jobs, workerVars
    <2>2. lease'[r] = lease[r]
      BY <1>1, <1>7, <2>1 DEF Attach, AttachWorker, TypeOK
    <2>3. r \in picked /\ ~ NextPicked(r)
      BY <2>1, OneIsNext
    <2>. QED BY <1>2, <2>1, <2>2, <2>3 DEF HasLease
  <1>8. ASSUME NEW q \in Runs, AttachFails(d, q)
        PROVE  Fits(d, r)'
    <2>1. /\ dpc[d] = "attach" /\ dpc'[d] = "launch" /\ picked' = picked \ {q} /\ NextPicked(q)
          /\ UNCHANGED <<state, lease>> /\ wpc' = [wpc EXCEPT ![q] = "gone"]
      BY <1>8 DEF AttachFails, vars, jobs
    <2>2. r \in picked /\ ~ NextPicked(r) /\ r # q
      BY <2>1, OneIsNext
    <2>. QED BY <1>1, <1>2, <2>1, <2>2 DEF HasLease
  <1>9. ASSUME NEW q \in Runs, LaunchFails(d, q)
        PROVE  Fits(d, r)'
    <2>1. /\ dpc[d] = "launch" /\ dpc' = dpc /\ picked' = picked \ {q}
          /\ LaunchFailed(q, "failed") /\ wpc' = wpc
      BY <1>9 DEF LaunchFails, workerVars
    <2>2. lease' = lease /\ state'[r] = state[r]
      BY <1>1, <2>1, TransitionOf DEF LaunchFailed
    <2>. QED BY <1>2, <2>1, <2>2 DEF HasLease
  <1>10. OwnSteps(d) => \/ PickRows(d) \/ ApplyRows(d)
                        \/ \E q \in Runs : \/ LaunchWorker(d, q) \/ Attach(d, q)
                                           \/ AttachFails(d, q) \/ LaunchFails(d, q)
    BY DEF OwnSteps, Inspect, RecoveryStarts, RecoverRow, RecoveryEnds, RecoveryFails, ApplyFails,
           NextTick, IdleShutdown, StopServer, Moves, daemonVars
  <1>. QED BY <1>1, <1>3, <1>4, <1>5, <1>6, <1>7, <1>8, <1>9, <1>10

-----------------------------------------------------------------------------
\* Workers.

LEMMA LaunchedAfresh ==
    ASSUME RTypes, RInv, NEW r \in Runs, WorkerLaunched(r)
    PROVE  wpc[r] = "none" /\ state[r] \in ActiveStates \union {"interrupted"}
PROOF
  <1>1. PICK d \in Daemons : LaunchWorker(d, r)
    BY DEF WorkerLaunched
  <1>. QED BY <1>1 DEF LaunchWorker, Moves, NextPicked, RInv, LaunchInv

\* The lease and the end of a row decide whether a worker may be past its wait.
LEMMA LeasedOrEndedStays ==
    ASSUME RTypes, RInv, NEW r \in Runs, RowStep(r), HasLease(r) \/ Terminal(r)
    PROVE  HasLease(r)' \/ Terminal(r)'
PROOF
  <1>. USE DEF RTypes, RInv
  <1>1. Active(r) \/ Terminal(r)
    BY DEF LeaseInv, LeaseOnlyActive, HasLease
  <1>2. r \in Rows /\ ~ Queued(r)
    BY <1>1, StatesAreDisjoint DEF Rows, Queued, Active, Terminal, ActiveStates, TerminalStates
  <1>3. Terminal(r) => ~ Active(r)
    BY StatesAreDisjoint DEF Active, Terminal
  <1>4. lease'[r] \in Leases => HasLease(r)'
    BY DEF Leases, NoLease, HasLease
  <1>. QED BY <1>1, <1>2, <1>3, <1>4
           DEF RowStep, RowKept, RowOpened, RowDispatched, RowAttached, RowTakenOver, RowAdvanced,
               RowDropped, RowEnded, HasLease, Terminal

\* How a row comes to a state that only a worker, or a manifest, accounts for.
LEMMA EndIsBacked ==
    ASSUME RTypes, RInv, RNext, NEW r \in Runs,
           state'[r] \in Natural \union {"cancelled", "failed"}
    PROVE  \/ state'[r] = state[r]
           \/ Queued(r) /\ state'[r] = "cancelled"
           \/ /\ wpc'[r] \in {"none", "zombie", "gone"} /\ manifest'[r] = manifest[r]
              /\ \/ manifest[r] = state'[r]
                 \/ state'[r] = "failed" /\ manifest[r] \in {"none", "running", "failed"}
                 \/ state'[r] = "cancelled" /\ manifest[r] \in {"none", "cancelled"}
PROOF
  <1>. USE DEF RTypes, RInv, WorkerTypes, Natural
  <1>1. RowStep(r)
    BY RowSteps
  <1>2. CASE RowEnded(r) /\ EndedByWorker(r)
    <2>1. /\ wpc[r] = "finish" /\ wpc'[r] = "zombie" /\ manifest' = manifest
          /\ state'[r] = verdict[r]
      BY <1>2 DEF EndedByWorker, Finish, Exit, Keeps
    <2>. QED BY <2>1 DEF WorkerInv
  <1>3. CASE RowEnded(r) /\ EndedByStop(r)
    <2>1. stop.phase = "finish" /\ stop.run = r /\ UNCHANGED <<wpc, manifest>>
          /\ state'[r] = stop.terminal
      BY <1>3 DEF EndedByStop, ForceFinish, workerVars
    <2>. QED BY <2>1 DEF StopInv
  <1>4. CASE RowEnded(r) /\ EndedByRecovery(r)
    <2>1. PICK d \in Daemons : RecoverRow(d, r) /\ state'[r] = decision[r]
      BY <1>4 DEF EndedByRecovery
    <2>2. dpc[d] = "recover" /\ UNCHANGED <<wpc, manifest>>
      BY <2>1 DEF RecoverRow, workerVars
    <2>. QED BY <2>1, <2>2 DEF DecisionInv
  <1>5. CASE RowEnded(r) /\ EndedByLaunch(r)
    <2>1. PICK d \in Daemons : LaunchFails(d, r) /\ state'[r] = "failed"
      BY <1>5 DEF EndedByLaunch
    <2>2. dpc[d] = "launch" /\ r \in picked /\ UNCHANGED <<wpc, manifest>>
      BY <2>1 DEF LaunchFails, NextPicked, workerVars
    <2>3. wpc[r] = "none"
      BY <2>2 DEF LaunchInv
    <2>. QED BY <2>1, <2>2, <2>3 DEF WorkerInv
  <1>. QED BY <1>1, <1>2, <1>3, <1>4, <1>5
           DEF RowStep, RowKept, RowOpened, RowDispatched, RowAttached, RowTakenOver, RowAdvanced,
               RowDropped, RowEnded

LEMMA WorkerInvNext ==
    ASSUME RTypes, RTypes', RInv, RNext
    PROVE  WorkerInv'
PROOF
  <1>. USE DEF RTypes, RInv, WorkerTypes
  <1>. DEFINE W(r) == /\ HasLease(r) => wpc[r] # "none"
                      /\ Queued(r) \/ r \notin Rows => wpc[r] = "none"
                      /\ wpc[r] \in Preparing \union Running \union {"finish"}
                             => HasLease(r) \/ Terminal(r)
  <1>. DEFINE M(r) == /\ wpc[r] \in Preparing \union {"none", "wait"} => manifest[r] = "none"
                      /\ wpc[r] \in Running => manifest[r] = "running"
                      /\ wpc[r] = "finish" =>
                            /\ verdict[r] \in Natural => manifest[r] = verdict[r]
                            /\ verdict[r] = "cancelled" => manifest[r] \in {"none", "cancelled"}
                            /\ verdict[r] = "failed"
                                   => manifest[r] \in {"none", "running", "failed"}
  <1>. DEFINE E(r) == state[r] \in Natural \union {"cancelled", "failed"}
                          => wpc[r] \in {"none", "zombie", "gone"}
  <1>. SUFFICES ASSUME NEW r \in Runs PROVE W(r)' /\ M(r)' /\ E(r)'
    BY DEF WorkerInv
  <1>1. RowStep(r) /\ WorkerMoves(r)
    BY RowSteps, WorkerMoved
  <1>2. W(r) /\ M(r) /\ E(r)
    BY DEF WorkerInv
  <1>3. HasLease(r)' => wpc'[r] # "none"
    <2>1. wpc[r] # "none" => wpc'[r] # "none"
      BY <1>1, WorkerStepsAre
         DEF WorkerMoves, WorkerKept, WorkerLaunched, WorkerRefused, WorkerLeft, WorkerPrepares,
             WorkerRuns, WorkerConcludes, WorkerSettled, Preparing, Running
    <2>2. RowAttached(r) => wpc[r] # "none"
      BY DEF RowAttached, Attach, Moves, NextPicked, LaunchInv
    <2>3. wpc[r] = "none" /\ ~ RowAttached(r) => ~ HasLease(r)'
      BY <1>1, <1>2 DEF RowStep, RowKept, RowOpened, RowDispatched, RowTakenOver, RowAdvanced,
                        RowDropped, RowEnded, HasLease
    <2>. QED BY <2>1, <2>2, <2>3
  <1>4. ASSUME Queued(r)' \/ r \notin Rows'
        PROVE  wpc'[r] = "none"
    <2>1. Queued(r) \/ r \notin Rows
      BY <1>1, <1>4 DEF RowStep, RowKept, RowOpened, RowDispatched, RowAttached, RowTakenOver,
                        RowAdvanced, RowDropped, RowEnded, Queued, Rows, Terminal, TerminalStates
    <2>2. ~ WorkerLaunched(r)
      BY <2>1, LaunchedAfresh DEF Queued, Rows, ActiveStates
    <2>3. ~ WorkerRefused(r)
      BY <2>1 DEF WorkerRefused, AttachFails, Terminal, TerminalStates, Queued, Rows
    <2>. QED BY <1>1, <1>2, <2>1, <2>2, <2>3, WorkerStepsAre
             DEF WorkerMoves, WorkerKept, WorkerLeft, WorkerPrepares, WorkerRuns, WorkerConcludes,
                 WorkerSettled, Preparing, Running
  <1>5. ASSUME wpc'[r] \in Preparing \union Running \union {"finish"}
        PROVE  HasLease(r)' \/ Terminal(r)'
    <2>1. HasLease(r) \/ Terminal(r)
      BY <1>1, <1>2, <1>5
         DEF WorkerMoves, WorkerKept, WorkerLaunched, WorkerRefused, WorkerLeft, WorkerPrepares,
             WorkerRuns, WorkerConcludes, WorkerSettled, Preparing, Running
    <2>. QED BY <1>1, <2>1, LeasedOrEndedStays
  <1>6. ASSUME WorkerSettled(r)
        PROVE  wpc[r] \in {"zombie", "gone"}
    <2>1. wpc[r] \notin Preparing \union {"none", "wait"}
      BY <1>2, <1>6 DEF WorkerSettled
    <2>2. CASE Active(r) /\ ~ (HasLease(r) /\ Alive(r))
      <3>1. ~ Terminal(r)
        BY <2>2, StatesAreDisjoint DEF Active, Terminal
      <3>. QED BY <1>2, <2>1, <2>2, <3>1, WorkerStepsAre DEF Alive
    <2>3. CASE stop.phase = "settle" /\ stop.run = r
      BY <2>3 DEF StopInv
    <2>. QED BY <1>6, <2>2, <2>3 DEF WorkerSettled
  <1>7. M(r)'
    <2>1. CASE WorkerKept(r) \/ WorkerLeft(r) \/ WorkerRefused(r)
      BY <1>2, <2>1 DEF WorkerKept, WorkerLeft, WorkerRefused, Untouched, Preparing, Running
    <2>2. CASE WorkerSettled(r)
      BY <1>6, <2>2 DEF WorkerSettled, Preparing, Running
    <2>3. CASE WorkerLaunched(r)
      BY <1>2, <2>3, LaunchedAfresh DEF WorkerLaunched, Untouched, Running
    <2>4. CASE WorkerPrepares(r)
      BY <1>2, <2>4 DEF WorkerPrepares, Untouched, Preparing, Running
    <2>5. CASE WorkerRuns(r)
      BY <1>2, <2>5 DEF WorkerRuns, Preparing, Running
    <2>6. CASE WorkerConcludes(r)
      BY <1>2, <2>6 DEF WorkerConcludes, Preparing, Running, Natural
    <2>. QED BY <1>1, <2>1, <2>2, <2>3, <2>4, <2>5, <2>6 DEF WorkerMoves
  <1>8. ASSUME state'[r] \in Natural \union {"cancelled", "failed"}
        PROVE  wpc'[r] \in {"none", "zombie", "gone"}
    <2>1. ASSUME wpc[r] \in {"none", "zombie", "gone"}, ~ WorkerLaunched(r)
          PROVE  wpc'[r] \in {"none", "zombie", "gone"}
      BY <1>1, <2>1 DEF WorkerMoves, WorkerKept, WorkerRefused, WorkerLeft, WorkerPrepares,
                        WorkerRuns, WorkerConcludes, WorkerSettled, Preparing, Running
    <2>2. CASE state'[r] = state[r]
      <3>1. ~ WorkerLaunched(r)
        BY <1>8, <2>2, LaunchedAfresh DEF Natural, ActiveStates
      <3>. QED BY <1>2, <1>8, <2>1, <2>2, <3>1
    <2>3. CASE Queued(r)
      BY <1>2, <2>1, <2>3, LaunchedAfresh DEF Queued, ActiveStates
    <2>. QED BY <1>8, <2>2, <2>3, EndIsBacked
  <1>. QED BY <1>3, <1>4, <1>5, <1>7, <1>8

\* A process that has exited does not come back, and its manifest is final.
LEMMA ExitedStays ==
    ASSUME RTypes, RInv, RNext, NEW r \in Runs, wpc[r] \in {"zombie", "gone"}
    PROVE  /\ wpc'[r] \in {"zombie", "gone"}
           /\ manifest'[r] = manifest[r] \/ (manifest[r] = "running" /\ manifest'[r] = "interrupted")
PROOF
  <1>1. WorkerMoves(r)
    BY WorkerMoved
  <1>2. ~ WorkerLaunched(r)
    BY LaunchedAfresh
  <1>. QED BY <1>1, <1>2
           DEF WorkerMoves, WorkerKept, WorkerRefused, WorkerLeft, WorkerPrepares, WorkerRuns,
               WorkerConcludes, WorkerSettled, Untouched, Preparing, Running

LEMMA StopNext ==
    ASSUME RTypes, RTypes', RInv, RNext
    PROVE  StopInv'
PROOF
  <1>. USE DEF RTypes, RInv, StopTypes
  <1>1. CASE stop' = stop /\ stop.phase \in {"settle", "finish"}
    <2>1. stop.run \in Runs /\ stop.terminal \in Reported
      BY <1>1 DEF NoStop
    <2>2. wpc[stop.run] \in {"zombie", "gone"}
      BY <1>1 DEF StopInv
    <2>3. /\ wpc'[stop.run] \in {"zombie", "gone"}
          /\ \/ manifest'[stop.run] = manifest[stop.run]
             \/ manifest[stop.run] = "running"
      BY <2>1, <2>2, ExitedStays
    <2>. QED BY <1>1, <2>1, <2>3, RunningIsNotReported DEF StopInv
  <1>2. CASE stop'.phase \notin {"settle", "finish"}
    BY <1>2 DEF StopInv
  <1>3. ASSUME NEW r \in Runs, ForceKill(r)
        PROVE  StopInv' \/ stop'.phase \notin {"settle", "finish"}
    BY <1>3 DEF ForceKill, Killed, Exit, StopInv, NoStop, WorkerTypes
  <1>4. ASSUME NEW r \in Runs, ForceSettle(r)
        PROVE  StopInv'
    <2>1. /\ stop.phase = "settle" /\ stop.run = r /\ wpc' = wpc
          /\ stop' = [stop EXCEPT !.phase = "finish", !.terminal = Disposition(r, stop.output)]
          /\ manifest' = [manifest EXCEPT ![r] = DisposedManifest(r, stop.output)]
      BY <1>4 DEF ForceSettle
    <2>2. stop'.phase = "finish" /\ stop'.run = r /\ stop'.terminal = Disposition(r, stop.output)
          /\ manifest'[r] = DisposedManifest(r, stop.output)
      BY <2>1 DEF NoStop, WorkerTypes
    <2>3. wpc[r] \in {"zombie", "gone"}
      BY <2>1 DEF StopInv
    <2>4. Disposition(r, stop.output) # "interrupted"
              => DisposedManifest(r, stop.output) = Disposition(r, stop.output)
      BY DEF Disposition, DisposedManifest
    <2>. QED BY <2>1, <2>2, <2>3, <2>4 DEF StopInv
  <1>5. ASSUME NEW r \in Runs, ForceRead(r) \/ ForceUnleased(r) \/ ForceFinish(r)
        PROVE  stop'.phase \notin {"settle", "finish"}
    BY <1>5 DEF ForceRead, ForceUnleased, ForceFinish, NoStop
  <1>6. \/ stop' = stop \/ stop' = NoStop
        \/ \E r \in Runs : \/ ForceRead(r) \/ ForceUnleased(r) \/ ForceKill(r) \/ ForceSettle(r)
                           \/ ForceFinish(r)
    <2>1. ASSUME NEW d \in Daemons, StartDaemon(d) \/ DaemonStep(d) PROVE stop' = stop
      BY <2>1 DEF DaemonStep, StartDaemon, ReadOwner, ClaimDaemon, Inspect, RecoveryStarts,
           RecoverRow, RecoveryEnds, RecoveryFails, PickRows, ApplyRows, ApplyFails, LaunchWorker,
           Attach, AttachFails, NextTick, IdleShutdown, StopServer, ReleaseDaemon, daemonVars
    <2>2. ASSUME NEW r \in Runs, WorkerStep(r) \/ RunEnds(r) PROVE stop' = stop
      BY <2>2 DEF WorkerStep, WaitForLease, CheckCancel, CheckOutput, StoreOutput, Ready, Mark,
                  Build, Poll, RunCancels, RunDisowned, Finish, Reap, RunEnds, Publishes, Keeps,
                  daemonVars
    <2>3. ASSUME Faults PROVE stop' \in {stop, NoStop}
      BY <2>3 DEF Faults, LaunchFails, DaemonCrash, SetupFails, RunFails, WorkerDies, daemonVars
    <2>4. Asked => stop' = stop \/ \E r \in Runs : ForceRead(r)
      BY DEF Asked, ServeSubmit, ServeRerun, ServeSafeCancel, daemonVars
    <2>5. Answers => stop' = stop \/ \E r \in Runs : \/ ForceUnleased(r) \/ ForceKill(r)
                                                     \/ ForceSettle(r) \/ ForceFinish(r)
      BY DEF Answers, ServeCancelWrite, daemonVars
    <2>. QED BY <2>1, <2>2, <2>3, <2>4, <2>5 DEF RNext
  <1>7. NoStop.phase \notin {"settle", "finish"}
    BY DEF NoStop
  <1>. QED BY <1>1, <1>2, <1>3, <1>4, <1>5, <1>6, <1>7

LEMMA CatalogMatchesNext ==
    ASSUME RTypes, RTypes', RInv, RNext
    PROVE  CatalogMatchesManifest'
PROOF
  <1>. DEFINE Matches(r) ==
         /\ state[r] \in {"complete", "completed_with_particle_errors"} => manifest[r] = state[r]
         /\ state[r] = "cancelled" => manifest[r] \in {"none", "cancelled"}
         /\ state[r] = "failed" => manifest[r] \in {"none", "running", "failed", "interrupted"}
  <1>. SUFFICES ASSUME NEW r \in Runs, state'[r] \in Natural \union {"cancelled", "failed"}
                PROVE  Matches(r)'
    BY DEF CatalogMatchesManifest, Natural
  <1>. USE DEF RTypes, RInv
  <1>1. WorkerMoves(r)
    BY WorkerMoved
  <1>2. CASE state'[r] = state[r]
    <2>1. Matches(r)
      BY DEF CatalogMatchesManifest
    <2>2. wpc[r] \in {"none", "zombie", "gone"}
      BY <1>2 DEF WorkerInv
    <2>3. ~ WorkerLaunched(r)
      BY <1>2, LaunchedAfresh DEF Natural, ActiveStates
    <2>4. \/ manifest'[r] = manifest[r]
          \/ manifest[r] = "running" /\ manifest'[r] = "interrupted"
      BY <1>1, <2>2, <2>3
         DEF WorkerMoves, WorkerKept, WorkerRefused, WorkerLeft, WorkerPrepares, WorkerRuns,
             WorkerConcludes, WorkerSettled, Untouched, Preparing, Running
    <2>. QED BY <1>2, <2>1, <2>4
  <1>3. CASE Queued(r) /\ state'[r] = "cancelled"
    <2>1. wpc[r] = "none" /\ manifest[r] = "none"
      BY <1>3 DEF WorkerInv
    <2>2. manifest'[r] = "none"
      BY <1>1, <2>1
         DEF WorkerMoves, WorkerKept, WorkerLaunched, WorkerRefused, WorkerLeft, WorkerPrepares,
             WorkerRuns, WorkerConcludes, WorkerSettled, Untouched, Preparing, Running, WorkerSteps
    <2>. QED BY <1>3, <2>2
  <1>. QED BY <1>2, <1>3, EndIsBacked DEF Natural

-----------------------------------------------------------------------------
\* The invariant holds of every behaviour, and what it says.

LEMMA RInvInit == RInit => RInv
PROOF
  <1>. SUFFICES ASSUME RInit PROVE RInv
    OBVIOUS
  <1>1. LeaseInv
    BY LeaseInit DEF RInit
  <1>2. /\ lease = [r \in Runs |-> NoLease] /\ \A r \in Runs : state[r] = "absent"
        /\ \A r \in Runs : r \notin Rows
    BY DEF RInit, Init, Rows
  <1>3. OwnerInv
    BY DEF RInit, OwnerInv, SingleDaemon, Owning
  <1>4. WorkerInv /\ CatalogMatchesManifest
    BY <1>2 DEF RInit, WorkerInv, CatalogMatchesManifest, HasLease, Preparing, Running, Natural
  <1>5. RecoveryInv /\ LeasesTakenOver /\ ActiveRowsLeased /\ DecisionInv /\ LaunchInv /\ StopInv
    BY DEF RInit, RecoveryInv, LeasesTakenOver, ActiveRowsLeased, DecisionInv, LaunchInv, StopInv,
           NoStop
  <1>. QED BY <1>1, <1>3, <1>4, <1>5 DEF RInv

LEMMA RInvFrame ==
    ASSUME RTypes, RInv, UNCHANGED rvars
    PROVE  RInv'
PROOF
  <1>1. /\ UNCHANGED <<state, lease, recovery, request, series, attempt, output, cleared, bypass>>
        /\ UNCHANGED <<owner, dpc, observed, bound, decision, picked, stop, wpc, verdict, manifest>>
        /\ UNCHANGED vars
    BY DEF rvars, vars, jobs, callers, daemonVars, workerVars
  <1>2. LeaseInv'
    BY <1>1, LeaseNext DEF RInv, RTypes
  <1>3. OwnerInv'
    BY <1>1, OwnerFrame DEF RInv
  <1>4. RecoveryInv' /\ LeasesTakenOver' /\ ActiveRowsLeased'
    BY <1>1 DEF RInv, RecoveryInv, LeasesTakenOver, ActiveRowsLeased, RowKnown, HasLease, Active
  <1>5. DecisionInv' /\ LaunchInv' /\ StopInv'
    BY <1>1 DEF RInv, DecisionInv, LaunchInv, StopInv, HasLease, NextPicked
  <1>6. WorkerInv' /\ CatalogMatchesManifest'
    BY <1>1 DEF RInv, WorkerInv, CatalogMatchesManifest, HasLease, Queued, Terminal, Rows
  <1>. QED BY <1>2, <1>3, <1>4, <1>5, <1>6 DEF RInv

LEMMA RInvNext ==
    ASSUME RTypes, RTypes', RInv, [RNext]_rvars
    PROVE  RInv'
PROOF
  <1>1. CASE UNCHANGED rvars
    BY <1>1, RInvFrame
  <1>2. CASE RNext
    <2>1. LeaseInv'
      BY <1>2, StepTransacts, LeaseNext DEF RInv, RTypes
    <2>2. OwnerInv'
      BY OwnerNext DEF RInv
    <2>. QED BY <1>2, <2>1, <2>2, RecoveryNext, TakenOverNext, ActiveLeasedNext, DecisionNext,
                LaunchNext, WorkerInvNext, StopNext, CatalogMatchesNext DEF RInv
  <1>. QED BY <1>1, <1>2

LEMMA RInvariant == RSpec => []RInv
PROOF
  <1>1. RTypes /\ RTypes' /\ RInv /\ [RNext]_rvars => RInv'
    BY RInvNext
  <1>. QED BY <1>1, RInvInit, RuntimeTypes, PTL DEF RSpec

(***************************************************************************)
(* Through daemon crashes, restarts and takeovers, failed launches, dying  *)
(* workers and force cancels: one daemon acts, once its recovery is        *)
(* through it holds every lease and no active row is without, no live      *)
(* worker is closed as lost, and no row contradicts its run manifest.      *)
(***************************************************************************)
THEOREM RuntimeSound == RSpec => []RuntimeIsSound
PROOF
  <1>1. RTypes /\ RInv => RuntimeIsSound
    <2>. SUFFICES ASSUME RTypes, RInv PROVE RuntimeIsSound
      OBVIOUS
    <2>1. SingleDaemon
      BY DEF RInv, OwnerInv
    <2>2. OnlyLostWorkersClosed
      BY DEF RInv, DecisionInv, OnlyLostWorkersClosed
    <2>. QED BY <2>1, <2>2, TypesImply DEF RInv, RuntimeIsSound
  <1>. QED BY <1>1, RuntimeTypes, RInvariant, PTL

(***************************************************************************)
(* No worker process is ever started for a run that had one, whatever the  *)
(* daemons forget when they crash between two launches.                    *)
(***************************************************************************)
THEOREM LaunchesOnce == RSpec => LaunchedOnce
PROOF
  <1>. DEFINE Once == \A r \in Runs : wpc'[r] = "wait" => wpc[r] \in {"none", "wait"}
  <1>1. RTypes /\ RInv /\ [RNext]_rvars => [Once]_rvars
    <2>. SUFFICES ASSUME RTypes, RInv, RNext, NEW r \in Runs, wpc'[r] = "wait"
                  PROVE  wpc[r] \in {"none", "wait"}
      OBVIOUS
    <2>1. WorkerMoves(r)
      BY WorkerMoved
    <2>. QED BY <2>1, LaunchedAfresh
             DEF WorkerMoves, WorkerKept, WorkerRefused, WorkerLeft, WorkerPrepares, WorkerRuns,
                 WorkerConcludes, WorkerSettled, Preparing, Running
  <1>2. RSpec => [][Once]_rvars
    BY <1>1, RuntimeTypes, RInvariant, PTL DEF RSpec
  <1>. QED BY <1>2 DEF LaunchedOnce
=============================================================================
