------------------------- MODULE JobCatalog_proofs -------------------------
(***************************************************************************)
(* Proofs about the job catalog, for tables of any size.                   *)
(***************************************************************************)
EXTENDS JobCatalog, FiniteSetTheorems, TLAPS

USE CatalogAssumption, NoneAssumption

-----------------------------------------------------------------------------
\* The states and their edges.

LEMMA StatesAreDisjoint ==
    /\ TerminalStates \intersect ActiveStates = {}
    /\ "queued" \notin TerminalStates \union ActiveStates
    /\ "absent" \notin JobStates
    /\ TerminalStates \subseteq JobStates /\ ActiveStates \subseteq JobStates
PROOF
  BY DEF TerminalStates, ActiveStates, JobStates

LEMMA Edges ==
    ASSUME NEW s, NEW next, AllowsTransition(s, next)
    PROVE  /\ s \in JobStates \ TerminalStates /\ next \in JobStates
           /\ next # "queued"
           /\ next = "starting" => s = "queued"
           /\ next = "running" => s = "starting"
           /\ next = "cancelling" => s \in {"starting", "running"}
PROOF
  BY DEF AllowsTransition, AllowedNext, JobStates, TerminalStates, ActiveStates

-----------------------------------------------------------------------------
\* Type correctness.

LEMMA EventIsTyped ==
    ASSUME NEW kind \in EventKinds, NEW s \in JobStates
    PROVE  Event(kind, s) \in Events
PROOF
  BY DEF Event, Events

LEMMA TransitionType ==
    ASSUME TypeOK, NEW r \in Runs, NEW next \in JobStates, Transition(r, next)
    PROVE  /\ state' \in [Runs -> JobStates \union {"absent"}]
           /\ log' \in [Runs -> Seq(Events)]
           /\ UNCHANGED <<series, attempt, need, bypass, output>>
PROOF
  <1>1. state' \in [Runs -> JobStates \union {"absent"}]
    BY DEF TypeOK, Transition
  <1>2. Event("transition", next) \in Events
    BY EventIsTyped DEF EventKinds
  <1>3. log' \in [Runs -> Seq(Events)]
    BY <1>2 DEF TypeOK, Transition
  <1>. QED BY <1>1, <1>3 DEF Transition

LEMMA EmitType ==
    ASSUME TypeOK, NEW r \in Rows, NEW kind \in EventKinds,
           Emit(r, kind) \/ UNCHANGED log
    PROVE  log' \in [Runs -> Seq(Events)]
PROOF
  <1>1. r \in Runs /\ state[r] \in JobStates
    BY DEF TypeOK, Rows
  <1>2. Event(kind, state[r]) \in Events
    BY <1>1, EventIsTyped
  <1>3. log \in [Runs -> Seq(Events)]
    BY DEF TypeOK
  <1>4. Append(log[r], Event(kind, state[r])) \in Seq(Events)
    BY <1>1, <1>2, <1>3
  <1>. QED BY <1>1, <1>3, <1>4 DEF Emit

LEMMA InsertQueuedType ==
    ASSUME TypeOK, NEW r \in Runs, NEW s \in Runs, NEW a \in Nat,
           NEW q \in Requests \union {"none"}, InsertQueued(r, s, a, q)
    PROVE  /\ state' \in [Runs -> JobStates \union {"absent"}]
           /\ series' \in [Runs -> Runs]
           /\ attempt' \in [Runs -> Nat]
           /\ need' \in [Runs -> Requests \union {"none"}]
           /\ log' \in [Runs -> Seq(Events)]
           /\ UNCHANGED <<bypass, output>>
PROOF
  <1>1. Event("transition", "queued") \in Events
    BY EventIsTyped DEF EventKinds, JobStates
  <1>2. "queued" \in JobStates
    BY DEF JobStates
  <1>. QED BY <1>1, <1>2 DEF TypeOK, InsertQueued

LEMMA RequestReset == TypeOK => NoRequest \in RequestType /\ NoRecovery \in RecoveryType
PROOF
  BY DEF TypeOK, RequestType, RecoveryType, NoRecovery

LEMMA ServerType ==
    ASSUME TypeOK, ServerNext
    PROVE  TypeOK'
PROOF
  <1>1. ASSUME NEW r \in Runs, NEW q \in Requests, Submit(r, q)
        PROVE  TypeOK'
    BY <1>1, InsertQueuedType DEF Submit, TypeOK, history, callers
  <1>2. ASSUME NEW latest \in Runs, NEW r \in Runs, Rerun(latest, r)
        PROVE  TypeOK'
    <2>1. series[latest] \in Runs /\ attempt[latest] + 1 \in Nat
          /\ need[latest] \in Requests \union {"none"}
      BY DEF TypeOK
    <2>. QED BY <1>2, <2>1, InsertQueuedType DEF Rerun, TypeOK, callers
  <1>3. ASSUME NEW r \in Runs, NEW mode \in {"safe", "force"}, CancelRead(r, mode)
        PROVE  TypeOK'
    <2>1. state[r] \in JobStates
      BY <1>3 DEF CancelRead, IsLatest, Rows, TypeOK
    <2>2. request' \in RequestType
      BY <1>3, <2>1 DEF CancelRead, RequestType
    <2>. QED BY <1>3, <2>2 DEF CancelRead, TypeOK, jobs, history
  <1>4. ASSUME NEW r \in Runs, CancelQueued(r)
        PROVE  TypeOK'
    <2>1. "cancelled" \in JobStates
      BY DEF JobStates, TerminalStates
    <2>. QED BY <1>4, <2>1, TransitionType, RequestReset
             DEF CancelQueued, TypeOK, history
  <1>5. ASSUME NEW r \in Runs, CancelSafely(r)
        PROVE  TypeOK'
    <2>1. "cancelling" \in JobStates
      BY DEF JobStates, ActiveStates
    <2>2. lease' \in [Runs -> Leases \union {NoLease}]
      <3>. DEFINE told == IF lease[r] = NoLease THEN lease[r]
                          ELSE [daemon |-> lease[r].daemon, cancel |-> "safe"]
      <3>1. told \in Leases \union {NoLease}
        BY DEF TypeOK, Leases
      <3>2. lease' = [lease EXCEPT ![r] = told]
        BY <1>5 DEF CancelSafely
      <3>. HIDE DEF told
      <3>. QED BY <3>1, <3>2 DEF TypeOK
    <2>3. /\ Transition(r, "cancelling") /\ request' = NoRequest
          /\ UNCHANGED <<history, recovery, cleared>>
      BY <1>5 DEF CancelSafely
    <2>. QED BY <2>1, <2>2, <2>3, TransitionType, RequestReset DEF TypeOK, history
  <1>6. ASSUME NEW r \in Runs, CancelForcibly(r)
        PROVE  TypeOK'
    <2>1. "interrupted" \in JobStates
      BY DEF JobStates, TerminalStates
    <2>. QED BY <1>6, <2>1, TransitionType, RequestReset
             DEF CancelForcibly, DeleteLease, TypeOK, history
  <1>7. CASE CancelConflict
    BY <1>7, RequestReset DEF CancelConflict, TypeOK, jobs, history
  <1>8. ASSUME NEW r \in Runs, ForgetRead(r)
        PROVE  TypeOK'
    <2>1. state[r] \in JobStates
      BY <1>8 DEF ForgetRead, IsLatest, Rows, TypeOK
    <2>2. request' \in RequestType
      BY <1>8, <2>1 DEF ForgetRead, RequestType
    <2>. QED BY <1>8, <2>2 DEF ForgetRead, TypeOK, jobs, history
  <1>9. CASE ForgetWrite
    <2>1. request.run \in Runs
      BY <1>9 DEF ForgetWrite, TypeOK, RequestType, NoRequest
    <2>. QED BY <1>9, <2>1, RequestReset DEF ForgetWrite, TypeOK, jobs
  <1>10. ASSUME NEW r \in Runs, NEW digest \in Digests, RecordFullVerification(r, digest)
         PROVE  TypeOK'
    <2>1. log' \in [Runs -> Seq(Events)]
      BY <1>10, EmitType DEF RecordFullVerification, EventKinds
    <2>. QED BY <1>10, <2>1 DEF RecordFullVerification, TypeOK, jobs, callers
  <1>. QED BY <1>1, <1>2, <1>3, <1>4, <1>5, <1>6, <1>7, <1>8, <1>9, <1>10 DEF ServerNext

LEMMA SchedulerType ==
    ASSUME TypeOK, SchedulerNext
    PROVE  TypeOK'
PROOF
  <1>1. ASSUME NEW selected \in SUBSET Runs, NEW head \in Runs \union {0},
               NEW count \in 0..MaximumHeadBypass,
               ApplyDispatchPlan(selected, head, count)
        PROVE  TypeOK'
    <2>1. "starting" \in JobStates
      BY DEF JobStates, ActiveStates
    <2>2. Event("transition", "starting") \in Events
      BY <2>1, EventIsTyped DEF EventKinds
    <2>3. log' \in [Runs -> Seq(Events)]
      BY <1>1, <2>2 DEF ApplyDispatchPlan, TypeOK
    <2>. QED BY <1>1, <2>1, <2>3 DEF ApplyDispatchPlan, TypeOK, history, callers
  <1>2. ASSUME NEW r \in Runs, NEW daemon \in Daemons, AttachWorker(r, daemon)
        PROVE  TypeOK'
    <2>1. [daemon |-> daemon, cancel |-> IF state[r] = "cancelling" THEN "safe" ELSE "none"]
             \in Leases
      BY DEF Leases
    <2>. QED BY <1>2, <2>1 DEF AttachWorker, TypeOK, jobs, history, callers
  <1>3. ASSUME NEW r \in Runs, NEW terminal \in {"failed", "interrupted"},
               LaunchFailed(r, terminal)
        PROVE  TypeOK'
    <2>1. terminal \in JobStates
      BY DEF JobStates, TerminalStates
    <2>. QED BY <1>3, <2>1, TransitionType DEF LaunchFailed, TypeOK, history, callers
  <1>4. CASE WarnQueued
    <2>1. \A r \in Runs : Queued(r) => Event("warning", state[r]) \in Events
      BY EventIsTyped DEF EventKinds, Queued, JobStates
    <2>2. log' \in [Runs -> Seq(Events)]
      BY <1>4, <2>1 DEF WarnQueued, TypeOK
    <2>. QED BY <1>4, <2>2 DEF WarnQueued, TypeOK, jobs, history, callers
  <1>5. ASSUME NEW daemon \in Daemons, RecoverRead(daemon)
        PROVE  TypeOK'
    <2>1. recovery' \in RecoveryType
      BY <1>5 DEF RecoverRead, RecoveryType, TypeOK
    <2>. QED BY <1>5, <2>1 DEF RecoverRead, TypeOK, jobs, history
  <1>6. ASSUME NEW r \in Runs, RecoverDone(r)
        PROVE  recovery' \in RecoveryType
    BY <1>6 DEF RecoverDone, RecoveryType, TypeOK
  <1>7. ASSUME NEW r \in Runs, RecoverKeep(r)
        PROVE  TypeOK'
    BY <1>6, <1>7 DEF RecoverKeep, TypeOK, jobs, history
  <1>8. ASSUME NEW r \in Runs, RecoverReattach(r)
        PROVE  TypeOK'
    <2>1. lease' \in [Runs -> Leases \union {NoLease}]
      <3>1. recovery.daemon \in Daemons
        BY <1>8 DEF RecoverReattach, RecoverNext, TypeOK, RecoveryType
      <3>2. lease[r] # NoLease =>
               [daemon |-> recovery.daemon, cancel |-> lease[r].cancel] \in Leases
        BY <3>1 DEF TypeOK, Leases
      <3>. QED BY <1>8, <3>2 DEF RecoverReattach, TypeOK
    <2>2. r \in Rows
      BY <1>8 DEF RecoverReattach
    <2>3. log' \in [Runs -> Seq(Events)]
      BY <1>8, <2>2, EmitType DEF RecoverReattach, EmitUpTo, EventKinds
    <2>. QED BY <1>6, <1>8, <2>1, <2>3 DEF RecoverReattach, TypeOK, jobs, history
  <1>9. ASSUME NEW r \in Runs, NEW terminal \in Outcomes \union {"interrupted"},
               RecoverClose(r, terminal)
        PROVE  TypeOK'
    <2>1. terminal \in JobStates
      BY <1>9 DEF RecoverClose, JobStates
    <2>. QED BY <1>6, <1>9, <2>1, TransitionType
             DEF RecoverClose, DeleteLease, TypeOK, history
  <1>10. CASE RecoverAbort
    BY <1>10, RequestReset DEF RecoverAbort, TypeOK, jobs, history
  <1>11. CASE RecoverSweep
    BY <1>11, RequestReset DEF RecoverSweep, TypeOK, jobs, history
  <1>. QED BY <1>1, <1>2, <1>3, <1>4, <1>5, <1>7, <1>8, <1>9, <1>10, <1>11
           DEF SchedulerNext

LEMMA WorkerType ==
    ASSUME TypeOK, NEW r \in Runs, WorkerNext(r)
    PROVE  TypeOK'
PROOF
  <1>1. CASE OutputCheck(r)
    BY <1>1 DEF OutputCheck, TypeOK, jobs, history
  <1>2. CASE OutputStore(r)
    BY <1>2 DEF OutputStore, TypeOK, history
  <1>3. CASE OutputLost(r)
    BY <1>3 DEF OutputLost, TypeOK, jobs, history
  <1>4. CASE MarkWorkerRunning(r)
    <2>1. "running" \in JobStates
      BY DEF JobStates, ActiveStates
    <2>. QED BY <1>4, <2>1, TransitionType DEF MarkWorkerRunning, TypeOK, history, callers
  <1>5. CASE Heartbeat(r)
    <2>1. log' \in [Runs -> Seq(Events)]
      BY <1>5, EmitType DEF Heartbeat, EmitUpTo, EventKinds
    <2>. QED BY <1>5, <2>1 DEF Heartbeat, TypeOK, jobs, history, callers
  <1>6. ASSUME NEW terminal \in Outcomes \union {"interrupted"}, FinishWorker(r, terminal)
        PROVE  TypeOK'
    <2>1. terminal \in JobStates
      BY <1>6 DEF FinishWorker, JobStates
    <2>. QED BY <1>6, <2>1, TransitionType
             DEF FinishWorker, DeleteLease, TypeOK, history, callers
  <1>. QED BY <1>1, <1>2, <1>3, <1>4, <1>5, <1>6 DEF WorkerNext

LEMMA InitType == Init => TypeOK
PROOF
  BY RequestReset DEF Init, TypeOK, NoRequest, RequestType, NoRecovery, RecoveryType

LEMMA NextType == TypeOK /\ [Next]_vars => TypeOK'
PROOF
  <1>. SUFFICES ASSUME TypeOK, [Next]_vars PROVE TypeOK'
    OBVIOUS
  <1>1. CASE DaemonDies
    BY <1>1, RequestReset DEF DaemonDies, TypeOK, jobs, history
  <1>2. CASE UNCHANGED vars
    BY <1>2 DEF TypeOK, vars, jobs, history, callers
  <1>. QED BY <1>1, <1>2, ServerType, SchedulerType, WorkerType DEF Next

(***************************************************************************)
(* Every column of every table, and what the callers remember, keep their  *)
(* types, for any number of runs, daemons and requests.                    *)
(***************************************************************************)
THEOREM TypeCorrect == Spec => []TypeOK
PROOF
  BY InitType, NextType, PTL DEF Spec

-----------------------------------------------------------------------------
\* What a step may do to the rows.

\* No row appears, and every state that changes goes along an edge of JobModel.
OnlyMoves ==
    /\ UNCHANGED <<series, attempt>>
    /\ \A r \in Runs : state'[r] = state[r] \/ AllowsTransition(state[r], state'[r])

LEMMA TransitionMoves ==
    ASSUME TypeOK, NEW r, NEW next, Transition(r, next)
    PROVE  OnlyMoves
PROOF
  BY DEF Transition, TypeOK, OnlyMoves

LEMMA MovesKeepRows ==
    ASSUME TypeOK, TypeOK', OnlyMoves
    PROVE  /\ Rows' = Rows
           /\ \A r \in Runs : Terminal(r) => state'[r] = state[r]
           /\ \A r \in Runs : Terminal(r) => Terminal(r)'
PROOF
  <1>1. \A r \in Runs : Terminal(r) => state'[r] = state[r]
    BY Edges DEF OnlyMoves, Terminal
  <1>2. \A r \in Runs : state[r] = "absent" <=> state'[r] = "absent"
    <2>. TAKE r \in Runs
    <2>. QED BY Edges, StatesAreDisjoint DEF OnlyMoves
  <1>3. Rows' = Rows
    BY <1>2 DEF Rows
  <1>. QED BY <1>1, <1>3 DEF Terminal

LEMMA StepKinds ==
    ASSUME TypeOK, [Next]_vars
    PROVE  \/ OnlyMoves
           \/ \E r \in Runs, q \in Requests : Submit(r, q)
           \/ \E latest, r \in Runs : Rerun(latest, r)
PROOF
  <1>1. ASSUME UNCHANGED jobs PROVE OnlyMoves
    BY <1>1 DEF OnlyMoves, jobs
  <1>2. ASSUME ServerNext
        PROVE  \/ OnlyMoves
               \/ \E r \in Runs, q \in Requests : Submit(r, q)
               \/ \E latest, r \in Runs : Rerun(latest, r)
    BY <1>1, <1>2, TransitionMoves
       DEF ServerNext, CancelRead, CancelQueued, CancelSafely, CancelForcibly,
           CancelConflict, ForgetRead, ForgetWrite, RecordFullVerification
  <1>3. ASSUME SchedulerNext PROVE OnlyMoves
    <2>1. ASSUME NEW selected \in SUBSET Runs, NEW head, NEW count,
                 ApplyDispatchPlan(selected, head, count)
          PROVE  OnlyMoves
      BY <2>1 DEF ApplyDispatchPlan, OnlyMoves
    <2>. QED BY <1>1, <1>3, <2>1, TransitionMoves
             DEF SchedulerNext, AttachWorker, LaunchFailed, WarnQueued, RecoverRead,
                 RecoverKeep, RecoverReattach, RecoverClose, RecoverAbort, RecoverSweep
  <1>4. ASSUME NEW r \in Runs, WorkerNext(r) PROVE OnlyMoves
    BY <1>1, <1>4, TransitionMoves
       DEF WorkerNext, OutputCheck, OutputLost, MarkWorkerRunning, Heartbeat,
           FinishWorker, OutputStore, OnlyMoves
  <1>5. CASE DaemonDies
    BY <1>1, <1>5 DEF DaemonDies
  <1>6. CASE UNCHANGED vars
    BY <1>1, <1>6 DEF vars
  <1>. QED BY <1>2, <1>3, <1>4, <1>5, <1>6 DEF Next

-----------------------------------------------------------------------------
\* Leases.  A cancel that read its attempt as queued writes "cancelled" without a
\* look at the lease table.  That is safe only because nobody but the control
\* server, which is busy with that cancel, makes an attempt cancelling.

ReadAsQueued == request.op = "cancel" /\ request.seen = "queued"
                    => state[request.run] # "cancelling"

LeaseInv == LeaseOnlyActive /\ CancelReachesWorker /\ ReadAsQueued

\* What the leases and a pending cancel do to the invariant when the rows move
\* without becoming cancelling and without ending under a lease.
LEMMA QuietMoves ==
    ASSUME TypeOK, LeaseInv, OnlyMoves,
           \A r \in Runs : state'[r] = "cancelling" => state[r] = "cancelling",
           \A r \in Runs : state'[r] # state[r] /\ state[r] = "cancelling"
                              => lease'[r] = NoLease,
           \A r \in Runs : state'[r] \in TerminalStates => lease'[r] = NoLease,
           \A r \in Runs : lease'[r] # NoLease =>
                              lease[r] # NoLease /\ lease'[r].cancel = lease[r].cancel,
           request' = request \/ request'.op # "cancel"
    PROVE  LeaseInv'
PROOF
  <1>1. ASSUME NEW r \in Runs, lease'[r] # NoLease
        PROVE  state'[r] \in ActiveStates
    <2>1. lease[r] # NoLease /\ state[r] \in ActiveStates
      BY <1>1 DEF LeaseInv, LeaseOnlyActive, Active
    <2>2. state'[r] = state[r] \/ AllowsTransition(state[r], state'[r])
      BY DEF OnlyMoves
    <2>3. state'[r] \notin TerminalStates
      BY <1>1
    <2>. QED BY <2>1, <2>2, <2>3, Edges DEF JobStates
  <1>2. ASSUME NEW r \in Runs, lease'[r] # NoLease
        PROVE  (lease'[r].cancel = "safe") = (state'[r] = "cancelling")
    <2>1. lease[r] # NoLease /\ lease'[r].cancel = lease[r].cancel
      BY <1>2
    <2>2. (lease[r].cancel = "safe") = (state[r] = "cancelling")
      BY <2>1 DEF LeaseInv, CancelReachesWorker
    <2>3. (state'[r] = "cancelling") = (state[r] = "cancelling")
      BY <1>2
    <2>. QED BY <2>1, <2>2, <2>3
  <1>3. ReadAsQueued'
    <2>. SUFFICES ASSUME request'.op = "cancel", request'.seen = "queued"
                  PROVE  state'[request'.run] # "cancelling"
      BY DEF ReadAsQueued
    <2>1. request' = request
      OBVIOUS
    <2>2. request.run \in Runs
      BY <2>1 DEF TypeOK, RequestType, NoRequest
    <2>3. state[request.run] # "cancelling"
      BY <2>1 DEF LeaseInv, ReadAsQueued
    <2>. QED BY <2>1, <2>2, <2>3
  <1>. QED BY <1>1, <1>2, <1>3 DEF LeaseInv, LeaseOnlyActive, CancelReachesWorker, Active

\* The transitions that are quiet: a row ends and its lease goes with it, or there
\* was none; or a starting row runs.
LEMMA QuietTransition ==
    ASSUME TypeOK, LeaseInv, NEW r \in Runs, NEW next \in JobStates, next # "cancelling",
           Transition(r, next),
           next \in TerminalStates => lease'[r] = NoLease,
           state[r] = "cancelling" => lease'[r] = NoLease,
           lease' = lease \/ DeleteLease(r),
           request' = request \/ request'.op # "cancel"
    PROVE  LeaseInv'
PROOF
  <1>1. OnlyMoves
    BY TransitionMoves
  <1>2. state' = [state EXCEPT ![r] = next]
    BY DEF Transition
  <1>3. \A q \in Runs : q # r => state'[q] = state[q]
    BY <1>2 DEF TypeOK
  <1>4. state'[r] = next
    BY <1>2 DEF TypeOK
  <1>5. \A q \in Runs : lease'[q] # NoLease => lease[q] # NoLease /\ lease'[q] = lease[q]
    BY DEF DeleteLease, TypeOK
  <1>6. \A q \in Runs : state[q] \in TerminalStates => lease[q] = NoLease
    BY StatesAreDisjoint DEF LeaseInv, LeaseOnlyActive, Active
  <1>7. \A q \in Runs : state'[q] \in TerminalStates => lease'[q] = NoLease
    BY <1>3, <1>4, <1>5, <1>6
  <1>8. \A q \in Runs : state'[q] = "cancelling" => state[q] = "cancelling"
    BY <1>3, <1>4
  <1>9. \A q \in Runs : state'[q] # state[q] /\ state[q] = "cancelling"
                              => lease'[q] = NoLease
    BY <1>3
  <1>. QED BY <1>1, <1>5, <1>7, <1>8, <1>9, QuietMoves

\* Steps that leave the states alone.
LEMMA QuietSteps ==
    ASSUME TypeOK, LeaseInv, UNCHANGED state, OnlyMoves,
           \A r \in Runs : lease'[r] # NoLease =>
                              lease[r] # NoLease /\ lease'[r].cancel = lease[r].cancel,
           request' = request \/ request'.op # "cancel"
    PROVE  LeaseInv'
PROOF
  <1>1. \A q \in Runs : state[q] \in TerminalStates => lease[q] = NoLease
    BY StatesAreDisjoint DEF LeaseInv, LeaseOnlyActive, Active
  <1>. QED BY <1>1, QuietMoves

\* A new row is queued and has no lease.
LEMMA InsertKeepsLeases ==
    ASSUME TypeOK, LeaseInv, ServerIdle, NEW r \in Runs, IsNext(r),
           NEW s, NEW a, NEW q, InsertQueued(r, s, a, q), UNCHANGED <<lease, request>>
    PROVE  LeaseInv'
PROOF
  <1>1. state[r] = "absent"
    BY DEF IsNext, Rows
  <1>2. lease[r] = NoLease
    BY <1>1, StatesAreDisjoint DEF LeaseInv, LeaseOnlyActive, Active, JobStates
  <1>3. \A p \in Runs : p # r => state'[p] = state[p]
    BY DEF InsertQueued, TypeOK
  <1>4. request'.op # "cancel"
    BY DEF ServerIdle, NoRequest
  <1>. QED BY <1>2, <1>3, <1>4
           DEF LeaseInv, LeaseOnlyActive, CancelReachesWorker, ReadAsQueued, Active

LEMMA LeaseServer ==
    ASSUME TypeOK, LeaseInv, ServerNext
    PROVE  LeaseInv'
PROOF
  <1>. USE DEF NoRequest
  <1>1. ASSUME NEW r \in Runs, NEW q \in Requests, Submit(r, q)
        PROVE  LeaseInv'
    BY <1>1, InsertKeepsLeases DEF Submit, callers
  <1>2. ASSUME NEW latest \in Runs, NEW r \in Runs, Rerun(latest, r)
        PROVE  LeaseInv'
    BY <1>2, InsertKeepsLeases DEF Rerun, callers
  <1>3. ASSUME NEW r \in Runs, NEW mode \in {"safe", "force"}, CancelRead(r, mode)
        PROVE  LeaseInv'
    <2>1. request'.seen = state[r] /\ request'.run = r /\ UNCHANGED <<state, lease>>
      BY <1>3 DEF CancelRead, jobs
    <2>2. ReadAsQueued'
      BY <2>1 DEF ReadAsQueued
    <2>. QED BY <2>1, <2>2 DEF LeaseInv, LeaseOnlyActive, CancelReachesWorker, Active
  <1>4. ASSUME NEW r \in Runs, CancelQueued(r)
        PROVE  LeaseInv'
    <2>1. state[r] \in {"queued"}
      <3>1. AllowsTransition(state[r], "cancelled")
        BY <1>4 DEF CancelQueued, Transition
      <3>2. state[r] # "cancelling"
        BY <1>4 DEF CancelQueued, LeaseInv, ReadAsQueued
      <3>. QED BY <3>1, <3>2 DEF AllowsTransition, AllowedNext
    <2>2. lease[r] = NoLease
      BY <2>1, StatesAreDisjoint DEF LeaseInv, LeaseOnlyActive, Active
    <2>3. "cancelled" \in TerminalStates /\ "cancelled" \in JobStates
      BY DEF TerminalStates, JobStates
    <2>. QED BY <1>4, <2>2, <2>3, QuietTransition DEF CancelQueued
  <1>5. ASSUME NEW r \in Runs, CancelSafely(r)
        PROVE  LeaseInv'
    <2>1. state' = [state EXCEPT ![r] = "cancelling"]
      BY <1>5 DEF CancelSafely, Transition
    <2>2. ReadAsQueued'
      BY <1>5 DEF CancelSafely, ReadAsQueued
    <2>3. "cancelling" \in ActiveStates
      BY DEF ActiveStates
    <2>4. lease' = [lease EXCEPT ![r] =
             IF @ = NoLease THEN @ ELSE [daemon |-> @.daemon, cancel |-> "safe"]]
      BY <1>5 DEF CancelSafely
    <2>5. lease'[r] # NoLease => lease'[r].cancel = "safe"
      BY <2>4 DEF TypeOK
    <2>6. \A q \in Runs : q # r => lease'[q] = lease[q] /\ state'[q] = state[q]
      BY <2>1, <2>4 DEF TypeOK
    <2>7. state'[r] = "cancelling"
      BY <2>1 DEF TypeOK
    <2>. QED BY <2>2, <2>3, <2>5, <2>6, <2>7
             DEF LeaseInv, LeaseOnlyActive, CancelReachesWorker, Active
  <1>6. ASSUME NEW r \in Runs, CancelForcibly(r)
        PROVE  LeaseInv'
    <2>1. "interrupted" \in TerminalStates /\ "interrupted" \in JobStates
      BY DEF TerminalStates, JobStates
    <2>2. lease'[r] = NoLease
      BY <1>6 DEF CancelForcibly, DeleteLease, TypeOK
    <2>. QED BY <1>6, <2>1, <2>2, QuietTransition DEF CancelForcibly
  <1>7. ASSUME UNCHANGED <<jobs, lease>>, request' = request \/ request'.op # "cancel"
        PROVE  LeaseInv'
    BY <1>7, QuietSteps DEF jobs, OnlyMoves
  <1>. QED BY <1>1, <1>2, <1>3, <1>4, <1>5, <1>6, <1>7
           DEF ServerNext, CancelConflict, ForgetRead, ForgetWrite,
               RecordFullVerification, callers

LEMMA LeaseScheduler ==
    ASSUME TypeOK, LeaseInv, SchedulerNext
    PROVE  LeaseInv'
PROOF
  <1>1. ASSUME NEW selected \in SUBSET Runs, NEW head, NEW count,
               ApplyDispatchPlan(selected, head, count)
        PROVE  LeaseInv'
    <2>1. \A r \in selected : state[r] = "queued"
      BY <1>1, Edges DEF ApplyDispatchPlan
    <2>2. \A r \in selected : lease[r] = NoLease
      BY <2>1, StatesAreDisjoint DEF LeaseInv, LeaseOnlyActive, Active
    <2>3. \A r \in Runs : r \in selected \/ state'[r] = state[r]
      BY <1>1 DEF ApplyDispatchPlan
    <2>4. \A r \in selected : state'[r] = "starting"
      BY <1>1 DEF ApplyDispatchPlan
    <2>5. ReadAsQueued'
      <3>. SUFFICES ASSUME request.op = "cancel", request.seen = "queued"
                    PROVE  state'[request.run] # "cancelling"
        BY <1>1 DEF ReadAsQueued, ApplyDispatchPlan, callers
      <3>1. request.run \in Runs
        BY DEF TypeOK, RequestType, NoRequest
      <3>. QED BY <2>3, <2>4, <3>1 DEF LeaseInv, ReadAsQueued
    <2>6. lease' = lease
      BY <1>1 DEF ApplyDispatchPlan
    <2>. QED BY <2>2, <2>3, <2>5, <2>6
             DEF LeaseInv, LeaseOnlyActive, CancelReachesWorker, Active
  <1>2. ASSUME NEW r \in Runs, NEW daemon \in Daemons, AttachWorker(r, daemon)
        PROVE  LeaseInv'
    <2>1. \A q \in Runs : q # r => lease'[q] = lease[q]
      BY <1>2 DEF AttachWorker, TypeOK
    <2>2. (lease'[r].cancel = "safe") = (state[r] = "cancelling")
      BY <1>2 DEF AttachWorker, TypeOK
    <2>3. state[r] \in ActiveStates
      BY <1>2 DEF AttachWorker, ActiveStates
    <2>4. UNCHANGED <<state, request>>
      BY <1>2 DEF AttachWorker, jobs, callers
    <2>. QED BY <2>1, <2>2, <2>3, <2>4
             DEF LeaseInv, LeaseOnlyActive, CancelReachesWorker, ReadAsQueued, Active
  <1>3. ASSUME NEW r \in Runs, NEW terminal \in {"failed", "interrupted"},
               LaunchFailed(r, terminal)
        PROVE  LeaseInv'
    <2>1. terminal \in TerminalStates /\ terminal \in JobStates /\ terminal # "cancelling"
      BY DEF TerminalStates, JobStates
    <2>. QED BY <1>3, <2>1, QuietTransition DEF LaunchFailed, callers
  <1>4. ASSUME NEW r \in Runs, RecoverReattach(r)
        PROVE  LeaseInv'
    <2>1. lease' = [lease EXCEPT ![r] =
             IF @ = NoLease THEN @ ELSE [daemon |-> recovery.daemon, cancel |-> @.cancel]]
      BY <1>4 DEF RecoverReattach
    <2>2. \A q \in Runs : lease'[q] # NoLease =>
             lease[q] # NoLease /\ lease'[q].cancel = lease[q].cancel
      BY <2>1 DEF TypeOK
    <2>. QED BY <1>4, <2>2, QuietSteps DEF RecoverReattach, jobs, OnlyMoves
  <1>5. ASSUME NEW r \in Runs, NEW terminal, RecoverClose(r, terminal)
        PROVE  LeaseInv'
    <2>1. terminal \in JobStates /\ terminal # "cancelling"
      BY <1>5, StatesAreDisjoint DEF RecoverClose, TerminalStates
    <2>2. lease'[r] = NoLease
      BY <1>5 DEF RecoverClose, DeleteLease, TypeOK
    <2>. QED BY <1>5, <2>1, <2>2, QuietTransition DEF RecoverClose
  <1>6. CASE RecoverSweep
    <2>1. \A q \in Runs : lease'[q] # NoLease => lease'[q] = lease[q]
      BY <1>6 DEF RecoverSweep
    <2>. QED BY <1>6, <2>1, QuietSteps DEF RecoverSweep, jobs, OnlyMoves
  <1>7. ASSUME UNCHANGED <<jobs, lease, request>>
        PROVE  LeaseInv'
    BY <1>7, QuietSteps DEF jobs, OnlyMoves
  <1>. QED BY <1>1, <1>2, <1>3, <1>4, <1>5, <1>6, <1>7
           DEF SchedulerNext, WarnQueued, RecoverRead, RecoverKeep, RecoverAbort, callers

LEMMA LeaseWorker ==
    ASSUME TypeOK, LeaseInv, NEW r \in Runs, WorkerNext(r)
    PROVE  LeaseInv'
PROOF
  <1>1. CASE MarkWorkerRunning(r)
    <2>1. state[r] = "starting"
      BY <1>1, Edges DEF MarkWorkerRunning, Transition
    <2>2. "running" \in JobStates \ TerminalStates
      BY DEF JobStates, ActiveStates, TerminalStates
    <2>. QED BY <1>1, <2>1, <2>2, QuietTransition DEF MarkWorkerRunning, callers
  <1>2. ASSUME NEW terminal, FinishWorker(r, terminal)
        PROVE  LeaseInv'
    <2>1. terminal \in JobStates /\ terminal # "cancelling"
      BY <1>2, StatesAreDisjoint DEF FinishWorker, TerminalStates
    <2>2. lease'[r] = NoLease
      BY <1>2 DEF FinishWorker, DeleteLease, TypeOK
    <2>. QED BY <1>2, <2>1, <2>2, QuietTransition DEF FinishWorker, callers
  <1>3. CASE OutputStore(r)
    BY <1>3, QuietSteps DEF OutputStore, OnlyMoves
  <1>4. ASSUME UNCHANGED <<jobs, lease, request>>
        PROVE  LeaseInv'
    BY <1>4, QuietSteps DEF jobs, OnlyMoves
  <1>. QED BY <1>1, <1>2, <1>3, <1>4
           DEF WorkerNext, OutputCheck, OutputLost, Heartbeat, callers

LEMMA LeaseNext == TypeOK /\ LeaseInv /\ [Next]_vars => LeaseInv'
PROOF
  <1>. SUFFICES ASSUME TypeOK, LeaseInv, [Next]_vars PROVE LeaseInv'
    OBVIOUS
  <1>1. CASE DaemonDies
    BY <1>1, QuietSteps DEF DaemonDies, NoRequest, jobs, OnlyMoves
  <1>2. CASE UNCHANGED vars
    BY <1>2, QuietSteps DEF vars, callers, jobs, OnlyMoves
  <1>. QED BY <1>1, <1>2, LeaseServer, LeaseScheduler, LeaseWorker DEF Next

LEMMA LeaseInit == Init => LeaseInv
PROOF
  BY DEF Init, LeaseInv, LeaseOnlyActive, CancelReachesWorker, ReadAsQueued, NoRequest

LEMMA LeaseInvariant == Spec => []LeaseInv
PROOF
  BY TypeCorrect, LeaseInit, LeaseNext, PTL DEF Spec

(***************************************************************************)
(* No lease outlives its attempt: a terminal or queued row has none, in    *)
(* every interleaving of workers, cancels and recovery.                    *)
(***************************************************************************)
THEOREM LeasesAreActive == Spec => []LeaseOnlyActive
PROOF
  <1>1. LeaseInv => LeaseOnlyActive
    BY DEF LeaseInv
  <1>. QED BY <1>1, LeaseInvariant, PTL

(***************************************************************************)
(* A worker is told to cancel exactly when its attempt is cancelling, also *)
(* across attach races and a takeover by another daemon.                   *)
(***************************************************************************)
THEOREM CancelIsDelivered == Spec => []CancelReachesWorker
PROOF
  <1>1. LeaseInv => CancelReachesWorker
    BY DEF LeaseInv
  <1>. QED BY <1>1, LeaseInvariant, PTL

-----------------------------------------------------------------------------
\* Series.  Rows are numbered without gaps and a series is named by its first row,
\* so a fresh row names a fresh series.  A forget that has read its series as
\* settled stays right because the server, which alone adds rows, is busy with it.

Numbering ==
    /\ \A r \in Rows, q \in Runs : q < r => q \in Rows
    /\ \A r \in Rows : series[r] \in Rows
    /\ forgotten \subseteq Rows

ReadAsSettled ==
    request.op = "forget" =>
        /\ request.run \in Rows
        /\ \A q \in Rows : series[q] = series[request.run] => Terminal(q)

SeriesInv == Numbering /\ OneLiveAttempt /\ ForgottenIsSettled /\ ReadAsSettled

LEMMA RunsAreOrdered ==
    \A r, q \in Runs : r \in Int /\ (r < q \/ q < r \/ r = q)
PROOF
  BY DEF Runs

\* The latest attempt being terminal, all attempts of its series are.
LEMMA LatestSettles ==
    ASSUME TypeOK, SeriesInv, NEW latest \in Runs, IsLatest(latest), Terminal(latest)
    PROVE  \A q \in Rows : series[q] = series[latest] =>
              Terminal(q) /\ attempt[q] <= attempt[latest]
PROOF
  <1>. TAKE q \in Rows
  <1>. HAVE series[q] = series[latest]
  <1>1. latest \in Rows /\ attempt[q] <= attempt[latest]
    BY DEF IsLatest
  <1>2. q \in Runs /\ attempt[q] \in Nat /\ attempt[latest] \in Nat
    BY DEF Rows, TypeOK
  <1>3. CASE q < latest
    BY <1>1, <1>3 DEF SeriesInv, OneLiveAttempt
  <1>4. CASE latest < q
    <2>1. attempt[latest] < attempt[q]
      BY <1>1, <1>4 DEF SeriesInv, OneLiveAttempt
    <2>. QED BY <1>1, <1>2, <2>1
  <1>5. CASE q = latest
    BY <1>1, <1>5
  <1>. QED BY <1>2, <1>3, <1>4, <1>5, RunsAreOrdered

\* The row that is inserted comes after all others.
LEMMA FreshRow ==
    ASSUME TypeOK, Numbering, NEW r \in Runs, IsNext(r), NEW s, NEW a, NEW q,
           InsertQueued(r, s, a, q)
    PROVE  /\ r \notin Rows /\ Rows' = Rows \union {r}
           /\ \A p \in Rows : p < r /\ series[p] # r
           /\ series'[r] = s /\ attempt'[r] = a /\ state'[r] = "queued"
           /\ \A p \in Rows : /\ series'[p] = series[p] /\ attempt'[p] = attempt[p]
                             /\ state'[p] = state[p]
PROOF
  <1>1. r \notin Rows
    BY DEF IsNext
  <1>2. \A p \in Rows : p < r
    BY <1>1, RunsAreOrdered DEF Numbering, Rows
  <1>3. \A p \in Rows : series[p] # r
    BY <1>1 DEF Numbering
  <1>4. state' = [state EXCEPT ![r] = "queued"] /\ series' = [series EXCEPT ![r] = s]
        /\ attempt' = [attempt EXCEPT ![r] = a]
    BY DEF InsertQueued
  <1>5. Rows' = Rows \union {r}
    BY <1>4 DEF Rows, TypeOK
  <1>6. series'[r] = s /\ attempt'[r] = a /\ state'[r] = "queued"
    BY <1>4 DEF TypeOK
  <1>7. \A p \in Rows : /\ series'[p] = series[p] /\ attempt'[p] = attempt[p]
                       /\ state'[p] = state[p]
    BY <1>1, <1>4 DEF TypeOK, Rows
  <1>. QED BY <1>1, <1>2, <1>3, <1>5, <1>6, <1>7

LEMMA SubmitKeepsSeries ==
    ASSUME TypeOK, SeriesInv, NEW r \in Runs, NEW q \in Requests, Submit(r, q)
    PROVE  SeriesInv'
PROOF
  <1>. USE DEF SeriesInv
  <1>1. /\ IsNext(r) /\ InsertQueued(r, r, 1, q) /\ request = NoRequest
        /\ request' = NoRequest /\ forgotten' = forgotten
    BY DEF Submit, ServerIdle, callers, history
  <1>2. /\ r \notin Rows /\ Rows' = Rows \union {r}
        /\ \A p \in Rows : p < r /\ series[p] # r
        /\ series'[r] = r /\ attempt'[r] = 1 /\ state'[r] = "queued"
        /\ \A p \in Rows : /\ series'[p] = series[p] /\ attempt'[p] = attempt[p]
                          /\ state'[p] = state[p]
    BY <1>1, FreshRow
  <1>3. Numbering'
    <2>1. \A p \in Runs : p < r => p \in Rows
      BY <1>1 DEF IsNext
    <2>. QED BY <1>1, <1>2, <2>1 DEF Numbering
  <1>4. OneLiveAttempt'
    BY <1>2, RunsAreOrdered DEF OneLiveAttempt, Terminal, Rows
  <1>5. ForgottenIsSettled'
    BY <1>1, <1>2 DEF ForgottenIsSettled, Numbering, Terminal
  <1>6. ReadAsSettled'
    BY <1>1 DEF ReadAsSettled, NoRequest
  <1>. QED BY <1>3, <1>4, <1>5, <1>6

LEMMA RerunKeepsSeries ==
    ASSUME TypeOK, SeriesInv, NEW latest \in Runs, NEW r \in Runs, Rerun(latest, r)
    PROVE  SeriesInv'
PROOF
  <1>. USE DEF SeriesInv
  <1>1. /\ IsNext(r) /\ IsLatest(latest) /\ Terminal(latest)
        /\ InsertQueued(r, series[latest], attempt[latest] + 1, need[latest])
        /\ request = NoRequest /\ request' = NoRequest
        /\ forgotten' = forgotten \ {series[latest]}
    BY DEF Rerun, ServerIdle, callers
  <1>2. /\ r \notin Rows /\ Rows' = Rows \union {r}
        /\ \A p \in Rows : p < r /\ series[p] # r
        /\ series'[r] = series[latest] /\ attempt'[r] = attempt[latest] + 1
        /\ state'[r] = "queued"
        /\ \A p \in Rows : /\ series'[p] = series[p] /\ attempt'[p] = attempt[p]
                          /\ state'[p] = state[p]
    BY <1>1, FreshRow
  <1>3. \A q \in Rows : series[q] = series[latest] =>
            Terminal(q) /\ attempt[q] <= attempt[latest]
    BY <1>1, LatestSettles
  <1>4. \A q \in Rows : attempt[q] \in Nat
    BY DEF TypeOK, Rows
  <1>5. latest \in Rows
    BY <1>1 DEF IsLatest
  <1>6. Numbering'
    <2>1. \A p \in Runs : p < r => p \in Rows
      BY <1>1 DEF IsNext
    <2>. QED BY <1>1, <1>2, <1>5, <2>1 DEF Numbering
  <1>7. OneLiveAttempt'
    <2>. SUFFICES ASSUME NEW p \in Rows', NEW q \in Rows', series'[p] = series'[q], p < q
                  PROVE  Terminal(p)' /\ attempt'[p] < attempt'[q]
      BY DEF OneLiveAttempt
    <2>1. CASE q = r
      <3>1. p \in Rows
        BY <1>2, <2>1, RunsAreOrdered
      <3>2. Terminal(p) /\ attempt[p] <= attempt[latest]
        BY <1>2, <1>3, <2>1, <3>1
      <3>. QED BY <1>2, <1>4, <1>5, <2>1, <3>1, <3>2 DEF Terminal
    <2>2. CASE q # r
      <3>1. q \in Rows /\ q < r
        BY <1>2, <2>2
      <3>2. p \in Rows
        BY <1>2, <3>1, RunsAreOrdered DEF Rows
      <3>. QED BY <1>2, <3>1, <3>2 DEF OneLiveAttempt, Terminal
    <2>. QED BY <2>1, <2>2
  <1>8. ForgottenIsSettled'
    BY <1>1, <1>2 DEF ForgottenIsSettled, Terminal
  <1>9. ReadAsSettled'
    BY <1>1 DEF ReadAsSettled, NoRequest
  <1>. QED BY <1>6, <1>7, <1>8, <1>9

\* Who writes the table of forgotten series and the pending forget.
LEMMA ForgetKinds ==
    ASSUME TypeOK, [Next]_vars
    PROVE  \/ \E r \in Runs, q \in Requests : Submit(r, q)
           \/ \E latest, r \in Runs : Rerun(latest, r)
           \/ /\ forgotten' = forgotten \/ ForgetWrite
              /\ request' = request \/ request'.op # "forget" \/ \E r \in Runs : ForgetRead(r)
PROOF
  <1>. USE DEF history, callers, NoRequest
  <1>1. CASE ServerNext
    BY <1>1 DEF ServerNext, CancelRead, CancelQueued, CancelSafely, CancelForcibly,
                CancelConflict, ForgetRead, ForgetWrite, RecordFullVerification
  <1>2. CASE SchedulerNext
    BY <1>2 DEF SchedulerNext, ApplyDispatchPlan, AttachWorker, LaunchFailed, WarnQueued,
                RecoverRead, RecoverKeep, RecoverReattach, RecoverClose, RecoverAbort,
                RecoverSweep
  <1>3. ASSUME NEW r \in Runs, WorkerNext(r)
        PROVE  UNCHANGED <<forgotten, request>>
    BY <1>3 DEF WorkerNext, OutputCheck, OutputStore, OutputLost, MarkWorkerRunning,
                Heartbeat, FinishWorker
  <1>4. CASE DaemonDies
    BY <1>4 DEF DaemonDies
  <1>5. CASE UNCHANGED vars
    BY <1>5 DEF vars
  <1>. QED BY <1>1, <1>2, <1>3, <1>4, <1>5 DEF Next

LEMMA MovesKeepSeries ==
    ASSUME TypeOK, TypeOK', SeriesInv, OnlyMoves,
           forgotten' = forgotten \/ ForgetWrite,
           request' = request \/ request'.op # "forget" \/ \E r \in Runs : ForgetRead(r)
    PROVE  SeriesInv'
PROOF
  <1>. USE DEF SeriesInv
  <1>1. /\ Rows' = Rows /\ series' = series /\ attempt' = attempt
        /\ \A r \in Runs : Terminal(r) => Terminal(r)'
        /\ Rows \subseteq Runs
    BY MovesKeepRows DEF OnlyMoves, Rows
  <1>2. Numbering'
    <2>1. CASE ForgetWrite
      <3>1. forgotten' = forgotten \union {series[request.run]} /\ request.run \in Rows
        BY <2>1 DEF ForgetWrite, ReadAsSettled
      <3>. QED BY <1>1, <3>1 DEF Numbering
    <2>2. CASE forgotten' = forgotten
      BY <1>1, <2>2 DEF Numbering
    <2>. QED BY <2>1, <2>2
  <1>3. OneLiveAttempt'
    BY <1>1 DEF OneLiveAttempt
  <1>4. ForgottenIsSettled'
    <2>1. CASE ForgetWrite
      <3>1. /\ forgotten' = forgotten \union {series[request.run]}
            /\ \A q \in Rows : series[q] = series[request.run] => Terminal(q)
        BY <2>1 DEF ForgetWrite, ReadAsSettled
      <3>. QED BY <1>1, <3>1 DEF ForgottenIsSettled
    <2>2. CASE forgotten' = forgotten
      BY <1>1, <2>2 DEF ForgottenIsSettled
    <2>. QED BY <2>1, <2>2
  <1>5. ReadAsSettled'
    <2>1. ASSUME NEW r \in Runs, ForgetRead(r)
          PROVE  ReadAsSettled'
      <3>1. /\ IsLatest(r) /\ Terminal(r) /\ request'.run = r /\ state' = state
        BY <2>1 DEF ForgetRead, jobs
      <3>2. r \in Rows /\ \A q \in Rows : series[q] = series[r] => Terminal(q)
        BY <3>1, LatestSettles DEF IsLatest
      <3>. QED BY <1>1, <3>1, <3>2 DEF ReadAsSettled, Terminal
    <2>2. CASE request' = request
      BY <1>1, <2>2 DEF ReadAsSettled
    <2>3. CASE request'.op # "forget"
      BY <2>3 DEF ReadAsSettled
    <2>. QED BY <2>1, <2>2, <2>3
  <1>. QED BY <1>2, <1>3, <1>4, <1>5

LEMMA SeriesNext == TypeOK /\ SeriesInv /\ [Next]_vars => SeriesInv'
PROOF
  <1>. SUFFICES ASSUME TypeOK, SeriesInv, [Next]_vars PROVE SeriesInv'
    OBVIOUS
  <1>1. TypeOK'
    BY NextType
  <1>2. ASSUME NEW r \in Runs, NEW q \in Requests, Submit(r, q)
        PROVE  SeriesInv'
    BY <1>2, SubmitKeepsSeries
  <1>3. ASSUME NEW latest \in Runs, NEW r \in Runs, Rerun(latest, r)
        PROVE  SeriesInv'
    BY <1>3, RerunKeepsSeries
  <1>. QED BY <1>1, <1>2, <1>3, StepKinds, ForgetKinds, MovesKeepSeries

LEMMA SeriesInit == Init => SeriesInv
PROOF
  BY DEF Init, SeriesInv, Numbering, OneLiveAttempt, ForgottenIsSettled, ReadAsSettled,
         Rows, NoRequest

LEMMA SeriesInvariant == Spec => []SeriesInv
PROOF
  BY TypeCorrect, SeriesInit, SeriesNext, PTL DEF Spec

(***************************************************************************)
(* A series never has two attempts that could run, whatever reruns race    *)
(* with dispatch and recovery.                                             *)
(***************************************************************************)
THEOREM OneAttemptAtATime == Spec => []OneLiveAttempt
PROOF
  <1>1. SeriesInv => OneLiveAttempt
    BY DEF SeriesInv
  <1>. QED BY <1>1, SeriesInvariant, PTL

(***************************************************************************)
(* Listings never hide live work: forget reads first and writes later, and *)
(* still only hides settled series.                                        *)
(***************************************************************************)
THEOREM ForgottenSettled == Spec => []ForgottenIsSettled
PROOF
  <1>1. SeriesInv => ForgottenIsSettled
    BY DEF SeriesInv
  <1>. QED BY <1>1, SeriesInvariant, PTL

-----------------------------------------------------------------------------
\* Verification and the end of an attempt.

\* Digests and supersession are written by the verification alone.
LEMMA VerifyKinds ==
    ASSUME TypeOK, [Next]_vars
    PROVE  \/ UNCHANGED <<verified, superseder>>
           \/ \E r \in Runs, digest \in Digests : RecordFullVerification(r, digest)
PROOF
  <1>. USE DEF history
  <1>1. CASE ServerNext
    BY <1>1 DEF ServerNext, Submit, Rerun, CancelRead, CancelQueued, CancelSafely,
                CancelForcibly, CancelConflict, ForgetRead, ForgetWrite
  <1>2. CASE SchedulerNext
    BY <1>2 DEF SchedulerNext, ApplyDispatchPlan, AttachWorker, LaunchFailed, WarnQueued,
                RecoverRead, RecoverKeep, RecoverReattach, RecoverClose, RecoverAbort,
                RecoverSweep
  <1>3. ASSUME NEW r \in Runs, WorkerNext(r)
        PROVE  UNCHANGED <<verified, superseder>>
    BY <1>3 DEF WorkerNext, OutputCheck, OutputStore, OutputLost, MarkWorkerRunning,
                Heartbeat, FinishWorker
  <1>4. CASE DaemonDies
    BY <1>4 DEF DaemonDies
  <1>5. CASE UNCHANGED vars
    BY <1>5 DEF vars
  <1>. QED BY <1>1, <1>2, <1>3, <1>4, <1>5 DEF Next

LEMMA TerminalStays ==
    ASSUME TypeOK, TypeOK', Numbering, [Next]_vars, NEW r \in Runs, Terminal(r)
    PROVE  state'[r] = state[r]
PROOF
  <1>1. r \in Rows
    BY StatesAreDisjoint DEF Terminal, Rows, JobStates
  <1>2. CASE OnlyMoves
    BY <1>2, MovesKeepRows
  <1>3. ASSUME NEW p \in Runs, NEW q \in Requests, Submit(p, q)
        PROVE  state'[r] = state[r]
    BY <1>1, <1>3, FreshRow DEF Submit
  <1>4. ASSUME NEW latest \in Runs, NEW p \in Runs, Rerun(latest, p)
        PROVE  state'[r] = state[r]
    BY <1>1, <1>4, FreshRow DEF Rerun
  <1>. QED BY <1>2, <1>3, <1>4, StepKinds

(***************************************************************************)
(* The end of an attempt is final: no step of any caller changes a         *)
(* terminal state, a recorded digest, or the attempt that supersedes it.   *)
(***************************************************************************)
THEOREM EndsAreFinal == Spec => EndIsFinal
PROOF
  <1>1. ASSUME TypeOK, SeriesInv, [Next]_vars, NEW r \in Runs, Terminal(r)
        PROVE  /\ state'[r] = state[r]
               /\ verified[r] # NoDigest => verified'[r] = verified[r]
               /\ superseder[r] # 0 => superseder'[r] = superseder[r]
    <2>1. state'[r] = state[r]
      BY <1>1, TerminalStays, NextType DEF SeriesInv
    <2>2. ASSUME NEW q \in Runs, NEW digest \in Digests, RecordFullVerification(q, digest)
          PROVE  /\ verified[r] # NoDigest => verified'[r] = verified[r]
                 /\ superseder[r] # 0 => superseder'[r] = superseder[r]
      BY <1>1, <2>2 DEF RecordFullVerification, TypeOK
    <2>. QED BY <1>1, <2>1, <2>2, VerifyKinds
  <1>2. TypeOK /\ SeriesInv /\ [Next]_vars =>
           [\A r \in Runs : Terminal(r) =>
              /\ state'[r] = state[r]
              /\ verified[r] # NoDigest => verified'[r] = verified[r]
              /\ superseder[r] # 0 => superseder'[r] = superseder[r]]_vars
    BY <1>1
  <1>. QED BY <1>2, TypeCorrect, SeriesInvariant, PTL DEF Spec, EndIsFinal

LEMMA SupersessionNext ==
    ASSUME TypeOK, TypeOK', SeriesInv, SupersededByVerified, [Next]_vars
    PROVE  SupersededByVerified'
PROOF
  <1>. Rows \subseteq Runs
    BY DEF Rows
  <1>1. ASSUME NEW r \in Runs, NEW digest \in Digests, RecordFullVerification(r, digest)
        PROVE  SupersededByVerified'
    <2>1. UNCHANGED jobs
      BY <1>1 DEF RecordFullVerification
    <2>2. Rows' = Rows
      BY <2>1 DEF Rows, jobs
    <2>3. r \in Rows /\ state[r] = "complete" /\ verified'[r] # NoDigest
      BY <1>1 DEF RecordFullVerification, TypeOK, NoDigest
    <2>4. \A q \in Runs : verified[q] # NoDigest => verified'[q] # NoDigest
      BY <1>1, <2>3 DEF RecordFullVerification, TypeOK
    <2>5. \A q \in Runs : \/ superseder'[q] = superseder[q]
                         \/ /\ superseder'[q] = r /\ q \in Rows
                            /\ series[q] = series[r] /\ attempt[q] < attempt[r]
      BY <1>1 DEF RecordFullVerification
    <2>6. \A q \in Runs : superseder[q] # 0 => superseder[q] \in Runs
      BY DEF TypeOK
    <2>. QED BY <2>1, <2>2, <2>3, <2>4, <2>5, <2>6 DEF SupersededByVerified, jobs
  <1>2. ASSUME UNCHANGED <<verified, superseder>>, Rows \subseteq Rows',
               \A r \in Rows : series'[r] = series[r] /\ attempt'[r] = attempt[r],
               \A r \in Rows : Terminal(r) => state'[r] = state[r]
        PROVE  SupersededByVerified'
    <2>1. "complete" \in TerminalStates
      BY DEF TerminalStates
    <2>. QED BY <1>2, <2>1 DEF SupersededByVerified, Terminal
  <1>3. CASE UNCHANGED <<verified, superseder>>
    <2>1. CASE OnlyMoves
      BY <1>2, <1>3, <2>1, MovesKeepRows DEF OnlyMoves
    <2>2. ASSUME NEW r \in Runs, NEW q \in Requests, Submit(r, q)
          PROVE  SupersededByVerified'
      BY <1>2, <1>3, <2>2, FreshRow DEF Submit, SeriesInv
    <2>3. ASSUME NEW latest \in Runs, NEW r \in Runs, Rerun(latest, r)
          PROVE  SupersededByVerified'
      BY <1>2, <1>3, <2>3, FreshRow DEF Rerun, SeriesInv
    <2>. QED BY <2>1, <2>2, <2>3, StepKinds
  <1>. QED BY <1>1, <1>3, VerifyKinds

(***************************************************************************)
(* An attempt is superseded only by a later attempt of its own series that *)
(* completed and was fully verified, and stays so.                         *)
(***************************************************************************)
THEOREM SupersessionIsSound == Spec => []SupersededByVerified
PROOF
  <1>1. Init => SupersededByVerified
    BY DEF Init, SupersededByVerified
  <1>2. TypeOK /\ TypeOK' /\ SeriesInv /\ SupersededByVerified /\ [Next]_vars
           => SupersededByVerified'
    BY SupersessionNext
  <1>. QED BY <1>1, <1>2, TypeCorrect, SeriesInvariant, PTL DEF Spec

(***************************************************************************)
(* Pruning never takes the newest verified result of a series.             *)
(***************************************************************************)
THEOREM PruneIsSafe == Spec => []PruneKeepsNewestVerified
PROOF
  <1>1. TypeOK /\ SupersededByVerified => PruneKeepsNewestVerified
    <2>. SUFFICES ASSUME TypeOK, SupersededByVerified, NEW r \in Rows, verified[r] # NoDigest,
                         \A q \in Rows : series[q] = series[r] /\ verified[q] # NoDigest
                                              => attempt[q] <= attempt[r],
                         superseder[r] # 0
                  PROVE  FALSE
      BY DEF PruneKeepsNewestVerified, PruneCandidates
    <2>1. r \in Runs
      BY DEF Rows
    <2>. DEFINE q == superseder[r]
    <2>2. q \in Rows /\ series[q] = series[r] /\ attempt[r] < attempt[q]
          /\ verified[q] # NoDigest
      BY <2>1 DEF SupersededByVerified
    <2>3. attempt[q] <= attempt[r]
      BY <2>2
    <2>4. attempt[q] \in Nat /\ attempt[r] \in Nat
      BY <2>1, <2>2 DEF TypeOK, Rows
    <2>. QED BY <2>2, <2>3, <2>4
  <1>. QED BY <1>1, TypeCorrect, SupersessionIsSound, PTL

-----------------------------------------------------------------------------
\* The event log.  Whatever a step does to the row of a run, the log of that run
\* grows by exactly the event that says so.

LogKept(r)  == log'[r] = log[r] /\ state'[r] = state[r]

LogMoved(r) == /\ log'[r] = Append(log[r], Event("transition", state'[r]))
               /\ AllowsTransition(state[r], state'[r])

LogNoted(r) == /\ state'[r] = state[r] /\ r \in Rows
               /\ \E kind \in EventKinds :
                     /\ log'[r] = Append(log[r], Event(kind, state[r]))
                     /\ kind # "transition"
                     /\ kind = "progress" => Active(r)

LogOpened(r) == /\ r \notin Rows /\ state'[r] = "queued"
                /\ log'[r] = Append(log[r], Event("transition", "queued"))

LogStep(r) == LogKept(r) \/ LogMoved(r) \/ LogNoted(r) \/ LogOpened(r)

LEMMA TransitionLogs ==
    ASSUME TypeOK, NEW r \in Runs, NEW next, Transition(r, next), NEW q \in Runs
    PROVE  LogStep(q)
PROOF
  BY DEF Transition, TypeOK, LogStep, LogKept, LogMoved

LEMMA EmitLogs ==
    ASSUME TypeOK, NEW r \in Rows, NEW kind \in EventKinds \ {"transition"},
           kind = "progress" => Active(r),
           Emit(r, kind) \/ UNCHANGED log, UNCHANGED state, NEW q \in Runs
    PROVE  LogStep(q)
PROOF
  <1>1. CASE UNCHANGED log
    BY <1>1 DEF LogStep, LogKept
  <1>2. CASE Emit(r, kind)
    <2>1. log' = [log EXCEPT ![r] = Append(@, Event(kind, state[r]))]
      BY <1>2 DEF Emit
    <2>2. CASE q = r
      BY <2>1, <2>2 DEF TypeOK, LogStep, LogNoted
    <2>3. CASE q # r
      BY <2>1, <2>3 DEF TypeOK, LogStep, LogKept
    <2>. QED BY <2>2, <2>3
  <1>. QED BY <1>1, <1>2

LEMMA InsertLogs ==
    ASSUME TypeOK, NEW r \in Runs, IsNext(r), NEW s, NEW a, NEW n,
           InsertQueued(r, s, a, n), NEW q \in Runs
    PROVE  LogStep(q)
PROOF
  BY DEF InsertQueued, IsNext, TypeOK, LogStep, LogKept, LogOpened

LEMMA LogSteps ==
    ASSUME TypeOK, [Next]_vars, NEW q \in Runs
    PROVE  LogStep(q)
PROOF
  <1>1. ASSUME UNCHANGED <<state, log>> PROVE LogStep(q)
    BY <1>1 DEF LogStep, LogKept
  <1>. USE DEF jobs
  <1>2. CASE ServerNext
    <2>1. ASSUME NEW r \in Runs, NEW digest \in Digests, RecordFullVerification(r, digest)
          PROVE  LogStep(q)
      BY <2>1, EmitLogs DEF RecordFullVerification, EventKinds
    <2>2. ASSUME NEW r \in Runs, NEW n \in Requests, Submit(r, n)
          PROVE  LogStep(q)
      BY <2>2, InsertLogs DEF Submit
    <2>3. ASSUME NEW latest \in Runs, NEW r \in Runs, Rerun(latest, r)
          PROVE  LogStep(q)
      BY <2>3, InsertLogs DEF Rerun
    <2>. QED BY <1>1, <1>2, <2>1, <2>2, <2>3, TransitionLogs
             DEF ServerNext, CancelRead, CancelQueued, CancelSafely, CancelForcibly,
                 CancelConflict, ForgetRead, ForgetWrite
  <1>3. CASE SchedulerNext
    <2>1. ASSUME NEW selected \in SUBSET Runs, NEW head, NEW count,
                 ApplyDispatchPlan(selected, head, count)
          PROVE  LogStep(q)
      BY <2>1 DEF ApplyDispatchPlan, LogStep, LogKept, LogMoved
    <2>2. CASE WarnQueued
      <3>1. log'[q] = log[q] \/ (Queued(q) /\ log'[q] = Append(log[q], Event("warning", state[q])))
        BY <2>2 DEF WarnQueued
      <3>2. Queued(q) => q \in Rows
        BY DEF Queued, Rows
      <3>3. state' = state
        BY <2>2 DEF WarnQueued
      <3>. QED BY <3>1, <3>2, <3>3 DEF LogStep, LogKept, LogNoted, EventKinds
    <2>3. ASSUME NEW r \in Runs, RecoverReattach(r)
          PROVE  LogStep(q)
      BY <2>3, EmitLogs DEF RecoverReattach, EmitUpTo, EventKinds
    <2>. QED BY <1>1, <1>3, <2>1, <2>2, <2>3, TransitionLogs
             DEF SchedulerNext, AttachWorker, LaunchFailed, RecoverRead, RecoverKeep,
                 RecoverClose, RecoverAbort, RecoverSweep
  <1>4. ASSUME NEW r \in Runs, WorkerNext(r)
        PROVE  LogStep(q)
    <2>1. ASSUME Heartbeat(r)
          PROVE  LogStep(q)
      BY <2>1, EmitLogs DEF Heartbeat, EmitUpTo, EventKinds
    <2>. QED BY <1>1, <1>4, <2>1, TransitionLogs
             DEF WorkerNext, OutputCheck, OutputStore, OutputLost, MarkWorkerRunning,
                 FinishWorker
  <1>5. CASE DaemonDies
    BY <1>1, <1>5 DEF DaemonDies
  <1>6. CASE UNCHANGED vars
    BY <1>1, <1>6 DEF vars
  <1>. QED BY <1>2, <1>3, <1>4, <1>5, <1>6 DEF Next

\* What LogTellsLife says of one run that has a row.
Tells(events, now) ==
    /\ events # <<>>
    /\ events[1] = Event("transition", "queued")
    /\ events[Len(events)].state = now
    /\ \A i \in 1..Len(events) - 1 : Follows(events[i], events[i + 1])

LEMMA LogTellsEach ==
    LogTellsLife <=>
        \A r \in Runs : IF r \notin Rows THEN log[r] = <<>> ELSE Tells(log[r], state[r])
PROOF
  BY DEF LogTellsLife, Tells

LEMMA TellsOn ==
    ASSUME NEW events \in Seq(Events), NEW now, NEW e \in Events,
           Tells(events, now), Follows(events[Len(events)], e)
    PROVE  Tells(Append(events, e), e.state)
PROOF
  <1>. DEFINE longer == Append(events, e)
  <1>1. /\ Len(longer) = Len(events) + 1
        /\ longer[Len(events) + 1] = e
        /\ \A i \in 1..Len(events) : longer[i] = events[i]
    OBVIOUS
  <1>2. Len(events) \in Nat /\ Len(events) >= 1
    BY DEF Tells
  <1>3. longer # <<>> /\ longer[1] = Event("transition", "queued")
    BY <1>1, <1>2 DEF Tells
  <1>4. ASSUME NEW i \in 1..Len(longer) - 1
        PROVE  Follows(longer[i], longer[i + 1])
    <2>1. CASE i = Len(events)
      BY <1>1, <1>2, <2>1
    <2>2. CASE i # Len(events)
      <3>1. i \in 1..Len(events) - 1 /\ i \in 1..Len(events) /\ i + 1 \in 1..Len(events)
        BY <1>1, <1>2, <2>2
      <3>. QED BY <1>1, <3>1 DEF Tells
    <2>. QED BY <2>1, <2>2
  <1>. QED BY <1>1, <1>2, <1>3, <1>4 DEF Tells

LEMMA LogNext ==
    ASSUME TypeOK, TypeOK', LogTellsLife, [Next]_vars
    PROVE  LogTellsLife'
PROOF
  <1>. SUFFICES ASSUME NEW r \in Runs
                PROVE  IF state'[r] = "absent" THEN log'[r] = <<>> ELSE Tells(log'[r], state'[r])
    BY DEF LogTellsLife, Tells, Rows
  <1>1. IF r \notin Rows THEN log[r] = <<>> ELSE Tells(log[r], state[r])
    BY LogTellsEach
  <1>2. log[r] \in Seq(Events) /\ state[r] \in JobStates \union {"absent"}
    BY DEF TypeOK
  <1>3. CASE LogKept(r)
    BY <1>1, <1>3 DEF LogKept, Rows
  <1>4. CASE LogMoved(r)
    <2>1. state[r] \in JobStates /\ state'[r] \in JobStates
      BY <1>4, Edges DEF LogMoved
    <2>2. Tells(log[r], state[r])
      BY <1>1, <2>1, StatesAreDisjoint DEF Rows
    <2>. DEFINE e == Event("transition", state'[r])
    <2>3. e \in Events /\ e.kind = "transition" /\ e.state = state'[r]
      BY <2>1, EventIsTyped DEF EventKinds, Event
    <2>4. Follows(log[r][Len(log[r])], e)
      BY <1>4, <2>2, <2>3 DEF Follows, LogMoved, Tells
    <2>. HIDE DEF e
    <2>5. Tells(Append(log[r], e), e.state)
      BY <1>2, <2>2, <2>3, <2>4, TellsOn
    <2>6. log'[r] = Append(log[r], e)
      BY <1>4 DEF LogMoved, e
    <2>. QED BY <2>1, <2>3, <2>5, <2>6, StatesAreDisjoint
  <1>5. CASE LogNoted(r)
    <2>1. state[r] \in JobStates /\ state'[r] = state[r] /\ r \in Rows
      BY <1>2, <1>5 DEF LogNoted, Rows
    <2>2. Tells(log[r], state[r])
      BY <1>1, <2>1
    <2>3. PICK kind \in EventKinds :
             /\ log'[r] = Append(log[r], Event(kind, state[r]))
             /\ kind # "transition"
             /\ kind = "progress" => Active(r)
      BY <1>5 DEF LogNoted
    <2>. DEFINE e == Event(kind, state[r])
    <2>4. e \in Events /\ e.kind = kind /\ e.state = state[r]
      BY <2>1, EventIsTyped DEF Event
    <2>5. log'[r] = Append(log[r], e)
      BY <2>3
    <2>. HIDE DEF e
    <2>6. log[r][Len(log[r])].state = e.state
      BY <2>2, <2>4 DEF Tells
    <2>7. e.kind # "transition" /\ (e.kind = "progress" => e.state \in ActiveStates)
      BY <2>3, <2>4 DEF Active
    <2>8. Follows(log[r][Len(log[r])], e)
      BY <2>6, <2>7 DEF Follows
    <2>9. Tells(Append(log[r], e), e.state)
      BY <1>2, <2>2, <2>4, <2>8, TellsOn
    <2>. QED BY <2>1, <2>4, <2>5, <2>9, StatesAreDisjoint
  <1>6. CASE LogOpened(r)
    <2>1. log[r] = <<>> /\ state'[r] = "queued"
      BY <1>1, <1>6 DEF LogOpened
    <2>. DEFINE e == Event("transition", "queued")
    <2>2. log'[r] = Append(<<>>, e)
      BY <1>6, <2>1 DEF LogOpened
    <2>3. e.state = "queued"
      BY DEF Event
    <2>. HIDE DEF e
    <2>4. log'[r] = <<e>> /\ Len(<<e>>) = 1 /\ <<e>>[1] = e /\ <<e>> # <<>>
      BY <2>2
    <2>5. Tells(log'[r], "queued")
      BY <2>3, <2>4 DEF Tells, e
    <2>. QED BY <2>1, <2>5
  <1>. QED BY <1>3, <1>4, <1>5, <1>6, LogSteps DEF LogStep

(***************************************************************************)
(* The events of a run replay its life: a follower that reads them all     *)
(* knows the state, and no telemetry is recorded for an attempt that has   *)
(* ended.                                                                  *)
(***************************************************************************)
THEOREM LogIsFaithful == Spec => []LogTellsLife
PROOF
  <1>1. Init => LogTellsLife
    BY DEF Init, LogTellsLife, Rows
  <1>2. TypeOK /\ TypeOK' /\ LogTellsLife /\ [Next]_vars => LogTellsLife'
    BY LogNext
  <1>. QED BY <1>1, <1>2, TypeCorrect, PTL DEF Spec

(***************************************************************************)
(* What the runs check of one attempt holds for any number of runs,        *)
(* daemons, callers and control requests.                                  *)
(***************************************************************************)
THEOREM AttemptSound == Spec => []AttemptIsSound
PROOF
  <1>1. TypeOK /\ LogTellsLife /\ LeaseOnlyActive /\ CancelReachesWorker => AttemptIsSound
    BY DEF AttemptIsSound
  <1>. QED BY <1>1, TypeCorrect, LogIsFaithful, LeasesAreActive, CancelIsDelivered, PTL

(***************************************************************************)
(* And so does what they check of the attempts of a series together.       *)
(***************************************************************************)
THEOREM SeriesSound == Spec => []SeriesIsSound
PROOF
  <1>1. OneLiveAttempt /\ ForgottenIsSettled /\ SupersededByVerified /\ PruneKeepsNewestVerified
          => SeriesIsSound
    BY DEF SeriesIsSound
  <1>. QED BY <1>1, OneAttemptAtATime, ForgottenSettled, SupersessionIsSound, PruneIsSafe, PTL
-----------------------------------------------------------------------------
\* Output directories.  Between the state check of set_output_directory and the
\* write the attempt may end, but it has been dispatched all the same.

WasStarted(events) == \E i \in 1..Len(events) : events[i] = Event("transition", "starting")

DispatchedInv == \A r \in Runs : Active(r) \/ r \in cleared \/ output[r] => WasStarted(log[r])

LEMMA StartedGrows ==
    ASSUME NEW events \in Seq(Events), NEW e \in Events,
           WasStarted(events) \/ e = Event("transition", "starting")
    PROVE  WasStarted(Append(events, e))
PROOF
  <1>. DEFINE longer == Append(events, e)
  <1>1. /\ Len(events) \in Nat /\ Len(longer) = Len(events) + 1
        /\ longer[Len(events) + 1] = e
        /\ \A i \in 1..Len(events) : longer[i] = events[i] /\ i \in 1..Len(longer)
    OBVIOUS
  <1>2. CASE WasStarted(events)
    BY <1>1, <1>2 DEF WasStarted
  <1>3. CASE e = Event("transition", "starting")
    <2>1. Len(events) + 1 \in 1..Len(longer)
      BY <1>1
    <2>. QED BY <1>1, <1>3, <2>1 DEF WasStarted
  <1>. QED BY <1>2, <1>3

\* Who writes the paths of outputs.
LEMMA OutputKinds ==
    ASSUME TypeOK, [Next]_vars, NEW r \in Runs
    PROVE  /\ r \in cleared' => r \in cleared \/ Active(r)
           /\ output'[r] => output[r] \/ r \in cleared
PROOF
  <1>. USE DEF jobs, callers
  <1>1. ASSUME UNCHANGED <<output, cleared>>
        PROVE  /\ r \in cleared' => r \in cleared \/ Active(r)
               /\ output'[r] => output[r] \/ r \in cleared
    BY <1>1
  <1>2. ASSUME ServerNext PROVE UNCHANGED <<output, cleared>>
    BY <1>2 DEF ServerNext, Submit, Rerun, InsertQueued, CancelRead, CancelQueued,
                CancelSafely, CancelForcibly, CancelConflict, ForgetRead, ForgetWrite,
                RecordFullVerification, Transition
  <1>3. ASSUME SchedulerNext PROVE UNCHANGED <<output, cleared>>
    BY <1>3 DEF SchedulerNext, ApplyDispatchPlan, AttachWorker, LaunchFailed, WarnQueued,
                RecoverRead, RecoverKeep, RecoverReattach, RecoverClose, RecoverAbort,
                RecoverSweep, Transition
  <1>4. ASSUME NEW q \in Runs, WorkerNext(q)
        PROVE  /\ r \in cleared' => r \in cleared \/ Active(r)
               /\ output'[r] => output[r] \/ r \in cleared
    <2>1. CASE OutputCheck(q)
      BY <2>1 DEF OutputCheck
    <2>2. CASE OutputStore(q)
      BY <2>2 DEF OutputStore, TypeOK
    <2>3. CASE OutputLost(q)
      BY <2>3 DEF OutputLost
    <2>. QED BY <1>4, <2>1, <2>2, <2>3
             DEF WorkerNext, MarkWorkerRunning, Heartbeat, FinishWorker, Transition
  <1>5. ASSUME DaemonDies PROVE UNCHANGED <<output, cleared>>
    BY <1>5 DEF DaemonDies
  <1>6. ASSUME UNCHANGED vars PROVE UNCHANGED <<output, cleared>>
    BY <1>6 DEF vars
  <1>. QED BY <1>1, <1>2, <1>3, <1>4, <1>5, <1>6 DEF Next

LEMMA DispatchedNext ==
    ASSUME TypeOK, TypeOK', DispatchedInv, [Next]_vars
    PROVE  DispatchedInv'
PROOF
  <1>. SUFFICES ASSUME NEW r \in Runs, Active(r)' \/ r \in cleared' \/ output'[r]
                PROVE  WasStarted(log'[r])
    BY DEF DispatchedInv
  <1>1. log[r] \in Seq(Events) /\ state[r] \in JobStates \union {"absent"}
    BY DEF TypeOK
  <1>2. Active(r) \/ r \in cleared \/ output[r] => WasStarted(log[r])
    BY DEF DispatchedInv
  <1>3. r \in cleared' \/ output'[r] => WasStarted(log[r])
    BY <1>2, OutputKinds
  <1>4. ASSUME NEW e \in Events, log'[r] = Append(log[r], e),
               WasStarted(log[r]) \/ e = Event("transition", "starting")
        PROVE  WasStarted(log'[r])
    BY <1>1, <1>4, StartedGrows
  <1>5. CASE LogKept(r)
    BY <1>2, <1>3, <1>5 DEF LogKept, Active
  <1>6. CASE LogMoved(r)
    <2>1. state'[r] \in JobStates /\ log'[r] = Append(log[r], Event("transition", state'[r]))
      BY <1>6, Edges DEF LogMoved
    <2>2. Event("transition", state'[r]) \in Events
      BY <2>1, EventIsTyped DEF EventKinds
    <2>3. Active(r)' => Active(r) \/ state'[r] = "starting"
      BY <1>6 DEF LogMoved, Active, ActiveStates, AllowsTransition, AllowedNext
    <2>. QED BY <1>2, <1>3, <1>4, <2>1, <2>2, <2>3
  <1>7. CASE LogNoted(r)
    <2>1. state'[r] = state[r] /\ state[r] \in JobStates
      BY <1>1, <1>7 DEF LogNoted, Rows
    <2>2. PICK kind \in EventKinds : log'[r] = Append(log[r], Event(kind, state[r]))
      BY <1>7 DEF LogNoted
    <2>3. Event(kind, state[r]) \in Events
      BY <2>1, EventIsTyped
    <2>. QED BY <1>2, <1>3, <1>4, <2>1, <2>2, <2>3 DEF Active
  <1>8. CASE LogOpened(r)
    <2>1. ~ Active(r)'
      BY <1>8, StatesAreDisjoint DEF LogOpened, Active
    <2>2. Event("transition", "queued") \in Events
      BY EventIsTyped DEF EventKinds, JobStates
    <2>. QED BY <1>3, <1>4, <1>8, <2>1, <2>2 DEF LogOpened
  <1>. QED BY <1>5, <1>6, <1>7, <1>8, LogSteps DEF LogStep

(***************************************************************************)
(* Only an attempt that was dispatched has an output directory, although   *)
(* the check of its state and the write are two statements.                *)
(***************************************************************************)
THEOREM OutputsAreOfDispatched == Spec => []OutputOnlyAfterDispatch
PROOF
  <1>1. Init => DispatchedInv
    BY DEF Init, DispatchedInv, Active, ActiveStates
  <1>2. TypeOK /\ TypeOK' /\ DispatchedInv /\ [Next]_vars => DispatchedInv'
    BY DispatchedNext
  <1>3. DispatchedInv => OutputOnlyAfterDispatch
    BY DEF DispatchedInv, OutputOnlyAfterDispatch, WasStarted
  <1>. QED BY <1>1, <1>2, <1>3, TypeCorrect, PTL DEF Spec

-----------------------------------------------------------------------------
\* The history of a series.  Its attempts are numbered from one without a gap, so
\* the states of its rows, in the order of their numbers, are a sequence.

CountInv ==
    \A s \in Runs :
        /\ \A r \in AttemptsOf(s) : attempt[r] \in 1..Cardinality(AttemptsOf(s))
        /\ \A i \in 1..Cardinality(AttemptsOf(s)) : \E r \in AttemptsOf(s) : attempt[r] = i

LEMMA AttemptsAreFinite ==
    ASSUME NEW s
    PROVE  /\ IsFiniteSet(AttemptsOf(s)) /\ Cardinality(AttemptsOf(s)) \in Nat
           /\ AttemptsOf(s) \subseteq Rows /\ Rows \subseteq Runs
PROOF
  <1>1. IsFiniteSet(Runs)
    BY FS_Interval DEF Runs
  <1>2. AttemptsOf(s) \in SUBSET Runs /\ Rows \subseteq Runs /\ AttemptsOf(s) \subseteq Rows
    BY DEF AttemptsOf, Rows
  <1>3. IsFiniteSet(AttemptsOf(s))
    BY <1>1, <1>2, FS_Subset
  <1>. QED BY <1>2, <1>3, FS_CardinalityType

\* A row added to a series is its next attempt.
LEMMA CountGrows ==
    ASSUME TypeOK, CountInv, NEW s \in Runs, NEW r, r \notin Rows,
           AttemptsOf(s)' = AttemptsOf(s) \union {r},
           attempt'[r] = Cardinality(AttemptsOf(s)) + 1,
           \A p \in Rows : attempt'[p] = attempt[p]
    PROVE  /\ Cardinality(AttemptsOf(s)') = Cardinality(AttemptsOf(s)) + 1
           /\ \A p \in AttemptsOf(s)' : attempt'[p] \in 1..Cardinality(AttemptsOf(s)')
           /\ \A i \in 1..Cardinality(AttemptsOf(s)') :
                 \E p \in AttemptsOf(s)' : attempt'[p] = i
PROOF
  <1>. DEFINE n == Cardinality(AttemptsOf(s))
  <1>1. /\ IsFiniteSet(AttemptsOf(s)) /\ n \in Nat
        /\ AttemptsOf(s) \subseteq Rows
    BY AttemptsAreFinite
  <1>2. Cardinality(AttemptsOf(s)') = n + 1
    BY <1>1, FS_AddElement
  <1>3. /\ \A p \in AttemptsOf(s) : attempt[p] \in 1..n
        /\ \A i \in 1..n : \E p \in AttemptsOf(s) : attempt[p] = i
    BY DEF CountInv
  <1>. HIDE DEF n
  <1>4. \A p \in AttemptsOf(s)' : attempt'[p] \in 1..n + 1
    BY <1>1, <1>3 DEF n
  <1>5. \A i \in 1..n + 1 : \E p \in AttemptsOf(s)' : attempt'[p] = i
    <2>. TAKE i \in 1..n + 1
    <2>1. CASE i = n + 1
      BY <2>1 DEF n
    <2>2. CASE i # n + 1
      <3>1. i \in 1..n
        BY <1>1, <2>2
      <3>. QED BY <1>1, <1>3, <3>1
    <2>. QED BY <2>1, <2>2
  <1>. QED BY <1>2, <1>4, <1>5 DEF n

\* A submitted row is the first attempt of a series of its own; a rerun is the next of its series.
LEMMA SubmitCounts ==
    ASSUME TypeOK, SeriesInv, CountInv, NEW r \in Runs, NEW q \in Requests, Submit(r, q)
    PROVE  /\ AttemptsOf(r) = {} /\ AttemptsOf(r)' = {r} /\ attempt'[r] = 1
           /\ \A s \in Runs \ {r} : AttemptsOf(s)' = AttemptsOf(s)
           /\ \A p \in Rows : attempt'[p] = attempt[p] /\ state'[p] = state[p]
           /\ r \notin Rows /\ state'[r] = "queued" /\ forgotten' = forgotten
PROOF
  <1>1. IsNext(r) /\ InsertQueued(r, r, 1, q) /\ forgotten' = forgotten
    BY DEF Submit, history
  <1>2. /\ r \notin Rows /\ Rows' = Rows \union {r}
        /\ \A p \in Rows : series[p] # r
        /\ series'[r] = r /\ attempt'[r] = 1 /\ state'[r] = "queued"
        /\ \A p \in Rows : /\ series'[p] = series[p] /\ attempt'[p] = attempt[p]
                          /\ state'[p] = state[p]
    BY <1>1, FreshRow DEF SeriesInv
  <1>3. AttemptsOf(r) = {} /\ AttemptsOf(r)' = {r}
    BY <1>2 DEF AttemptsOf
  <1>4. \A s \in Runs \ {r} : AttemptsOf(s)' = AttemptsOf(s)
    BY <1>2 DEF AttemptsOf
  <1>. QED BY <1>1, <1>2, <1>3, <1>4

LEMMA RerunCounts ==
    ASSUME TypeOK, SeriesInv, CountInv, NEW latest \in Runs, NEW r \in Runs, Rerun(latest, r),
           NEW s, s = series[latest]
    PROVE  /\ s \in Runs /\ r \notin Rows
           /\ AttemptsOf(s)' = AttemptsOf(s) \union {r}
           /\ attempt'[r] = Cardinality(AttemptsOf(s)) + 1
           /\ \A p \in AttemptsOf(s) : Terminal(p)
           /\ \A q \in Runs \ {s} : AttemptsOf(q)' = AttemptsOf(q)
           /\ \A p \in Rows : attempt'[p] = attempt[p] /\ state'[p] = state[p]
           /\ state'[r] = "queued" /\ forgotten' = forgotten \ {s}
PROOF
  <1>. DEFINE n == Cardinality(AttemptsOf(s))
  <1>1. /\ IsNext(r) /\ IsLatest(latest) /\ Terminal(latest)
        /\ InsertQueued(r, s, attempt[latest] + 1, need[latest])
        /\ forgotten' = forgotten \ {s}
    BY DEF Rerun
  <1>2. /\ r \notin Rows /\ Rows' = Rows \union {r}
        /\ series'[r] = s /\ attempt'[r] = attempt[latest] + 1 /\ state'[r] = "queued"
        /\ \A p \in Rows : /\ series'[p] = series[p] /\ attempt'[p] = attempt[p]
                          /\ state'[p] = state[p]
    BY <1>1, FreshRow DEF SeriesInv
  <1>3. s \in Runs /\ latest \in Rows /\ latest \in AttemptsOf(s)
    BY <1>1 DEF IsLatest, TypeOK, AttemptsOf
  <1>4. AttemptsOf(s)' = AttemptsOf(s) \union {r}
    BY <1>2 DEF AttemptsOf
  <1>5. \A q \in Runs \ {s} : AttemptsOf(q)' = AttemptsOf(q)
    BY <1>2 DEF AttemptsOf
  <1>6. attempt[latest] = n
    <2>1. n \in Nat /\ attempt[latest] \in 1..n
      BY <1>3, AttemptsAreFinite DEF CountInv
    <2>2. PICK p \in AttemptsOf(s) : attempt[p] = n
      BY <1>3, <2>1 DEF CountInv
    <2>3. attempt[p] <= attempt[latest]
      BY <1>1, <2>2 DEF IsLatest, AttemptsOf
    <2>4. attempt[latest] \in 1..n
      BY <2>1
    <2>. QED BY <2>1, <2>2, <2>3
  <1>7. \A p \in AttemptsOf(s) : Terminal(p)
    BY <1>1, LatestSettles DEF AttemptsOf
  <1>. QED BY <1>1, <1>2, <1>3, <1>4, <1>5, <1>6, <1>7

LEMMA CountNext ==
    ASSUME TypeOK, TypeOK', SeriesInv, CountInv, [Next]_vars
    PROVE  CountInv'
PROOF
  <1>1. ASSUME NEW s \in Runs, AttemptsOf(s)' = AttemptsOf(s),
               \A p \in Rows : attempt'[p] = attempt[p]
        PROVE  /\ \A p \in AttemptsOf(s)' : attempt'[p] \in 1..Cardinality(AttemptsOf(s)')
               /\ \A i \in 1..Cardinality(AttemptsOf(s)') :
                     \E p \in AttemptsOf(s)' : attempt'[p] = i
    BY <1>1, AttemptsAreFinite DEF CountInv
  <1>2. CASE OnlyMoves
    <2>1. attempt' = attempt /\ \A s \in Runs : AttemptsOf(s)' = AttemptsOf(s)
      BY <1>2, MovesKeepRows DEF OnlyMoves, AttemptsOf
    <2>. QED BY <1>1, <2>1 DEF CountInv
  <1>3. ASSUME NEW r \in Runs, NEW q \in Requests, Submit(r, q)
        PROVE  CountInv'
    <2>1. /\ AttemptsOf(r) = {} /\ AttemptsOf(r)' = {r} /\ attempt'[r] = 1
          /\ \A s \in Runs \ {r} : AttemptsOf(s)' = AttemptsOf(s)
          /\ \A p \in Rows : attempt'[p] = attempt[p]
          /\ r \notin Rows
      BY <1>3, SubmitCounts
    <2>2. Cardinality(AttemptsOf(r)) = 0
      BY <2>1, FS_EmptySet
    <2>3. /\ \A p \in AttemptsOf(r)' : attempt'[p] \in 1..Cardinality(AttemptsOf(r)')
          /\ \A i \in 1..Cardinality(AttemptsOf(r)') : \E p \in AttemptsOf(r)' : attempt'[p] = i
      BY <2>1, <2>2, CountGrows
    <2>. QED BY <1>1, <2>1, <2>3 DEF CountInv
  <1>4. ASSUME NEW latest \in Runs, NEW r \in Runs, Rerun(latest, r)
        PROVE  CountInv'
    <2>. PICK mine : mine = series[latest]
      OBVIOUS
    <2>1. /\ mine \in Runs /\ r \notin Rows
          /\ AttemptsOf(mine)' = AttemptsOf(mine) \union {r}
          /\ attempt'[r] = Cardinality(AttemptsOf(mine)) + 1
          /\ \A s \in Runs \ {mine} : AttemptsOf(s)' = AttemptsOf(s)
          /\ \A p \in Rows : attempt'[p] = attempt[p]
      BY <1>4, RerunCounts
    <2>2. /\ \A p \in AttemptsOf(mine)' : attempt'[p] \in 1..Cardinality(AttemptsOf(mine)')
          /\ \A i \in 1..Cardinality(AttemptsOf(mine)') :
                \E p \in AttemptsOf(mine)' : attempt'[p] = i
      BY <2>1, CountGrows
    <2>. QED BY <1>1, <2>1, <2>2 DEF CountInv
  <1>. QED BY <1>2, <1>3, <1>4, StepKinds

LEMMA CountInvariant == Spec => []CountInv
PROOF
  <1>1. Init => CountInv
    <2>. SUFFICES ASSUME Init, NEW s \in Runs PROVE Cardinality(AttemptsOf(s)) = 0
                                                    /\ AttemptsOf(s) = {}
      BY DEF CountInv
    <2>1. AttemptsOf(s) = {}
      BY DEF Init, AttemptsOf, Rows
    <2>. QED BY <2>1, FS_EmptySet
  <1>2. TypeOK /\ TypeOK' /\ SeriesInv /\ CountInv /\ [Next]_vars => CountInv'
    BY CountNext
  <1>. QED BY <1>1, <1>2, TypeCorrect, SeriesInvariant, PTL DEF Spec

\* The history is a sequence of the states of its rows, and all but the last of
\* them have ended.
HistorySays(s) ==
    /\ Cardinality(AttemptsOf(s)) \in Nat
    /\ HistoryOf(s) \in Seq(JobStates)
    /\ Len(HistoryOf(s)) = Cardinality(AttemptsOf(s))
    /\ \A r \in AttemptsOf(s) : HistoryOf(s)[attempt[r]] = state[r]

LEMMA HistoryTells == TypeOK /\ SeriesInv /\ CountInv => \A s \in Runs : HistorySays(s)
PROOF
  <1>. SUFFICES ASSUME TypeOK, SeriesInv, CountInv, NEW s \in Runs PROVE HistorySays(s)
    OBVIOUS
  <1>. DEFINE n == Cardinality(AttemptsOf(s))
              row(i) == CHOOSE r \in AttemptsOf(s) : attempt[r] = i
  <1>1. n \in Nat /\ AttemptsOf(s) \subseteq Rows /\ Rows \subseteq Runs
    BY AttemptsAreFinite
  <1>2. \A i \in 1..n : row(i) \in AttemptsOf(s) /\ attempt[row(i)] = i
    BY DEF CountInv
  <1>3. \A r, q \in AttemptsOf(s) : attempt[r] = attempt[q] => r = q
    <2>. SUFFICES ASSUME NEW r \in AttemptsOf(s), NEW q \in AttemptsOf(s),
                         attempt[r] = attempt[q], r < q
                  PROVE  FALSE
      BY <1>1, RunsAreOrdered
    <2>1. attempt[r] < attempt[q]
      BY <1>1 DEF AttemptsOf, SeriesInv, OneLiveAttempt
    <2>2. attempt[r] \in Nat
      BY <1>1 DEF TypeOK
    <2>. QED BY <2>1, <2>2
  <1>4. HistoryOf(s) = [i \in 1..n |-> state[row(i)]]
    BY DEF HistoryOf
  <1>5. \A r \in Rows : state[r] \in JobStates
    BY <1>1 DEF TypeOK, Rows
  <1>. HIDE DEF n, row
  <1>6. \A i \in 1..n : state[row(i)] \in JobStates
    BY <1>1, <1>2, <1>5
  <1>7. HistoryOf(s) \in Seq(JobStates) /\ Len(HistoryOf(s)) = n
    BY <1>1, <1>4, <1>6
  <1>8. ASSUME NEW r \in AttemptsOf(s)
        PROVE  HistoryOf(s)[attempt[r]] = state[r]
    <2>1. attempt[r] \in 1..n
      BY DEF CountInv, n
    <2>2. row(attempt[r]) = r
      BY <1>2, <1>3, <2>1
    <2>. QED BY <1>4, <2>1, <2>2
  <1>. QED BY <1>1, <1>7, <1>8 DEF n, HistorySays

LEMMA HistoryTellsNext ==
    (TypeOK /\ SeriesInv /\ CountInv)' => (\A s \in Runs : HistorySays(s))'
PROOF
  BY HistoryTells, PTL

LEMMA HistorySame ==
    ASSUME TypeOK, TypeOK', SeriesInv, SeriesInv', CountInv, CountInv', NEW s \in Runs,
           AttemptsOf(s)' = AttemptsOf(s),
           \A p \in Rows : attempt'[p] = attempt[p] /\ state'[p] = state[p]
    PROVE  HistoryOf(s)' = HistoryOf(s)
PROOF
  <1>. DEFINE n == Cardinality(AttemptsOf(s))
              h == HistoryOf(s)
              k == HistoryOf(s)'
  <1>1. /\ n \in Nat /\ h \in Seq(JobStates) /\ Len(h) = n
        /\ \A r \in AttemptsOf(s) : h[attempt[r]] = state[r]
    BY HistoryTells DEF HistorySays
  <1>2. /\ k \in Seq(JobStates) /\ Len(k) = n
        /\ \A r \in AttemptsOf(s) : k[attempt'[r]] = state'[r]
    BY HistoryTellsNext DEF HistorySays
  <1>3. AttemptsOf(s) \subseteq Rows
    BY AttemptsAreFinite
  <1>4. \A i \in 1..n : \E r \in AttemptsOf(s) : attempt[r] = i
    BY DEF CountInv
  <1>. HIDE DEF n, h, k
  <1>5. \A i \in 1..n : k[i] = h[i]
    BY <1>1, <1>2, <1>3, <1>4
  <1>6. k = h
    BY <1>1, <1>2, <1>5
  <1>. QED BY <1>6 DEF h, k

\* When the rows only move, only the last attempt of a series does.
LEMMA HistoryMoves ==
    ASSUME TypeOK, TypeOK', SeriesInv, SeriesInv', CountInv, CountInv', OnlyMoves,
           NEW s \in Runs
    PROVE  /\ HistoryOf(s)' \in Lifecycle!Successors(HistoryOf(s))
           /\ Len(HistoryOf(s)') = Len(HistoryOf(s))
PROOF
  <1>. DEFINE n == Cardinality(AttemptsOf(s))
              h == HistoryOf(s)
              k == HistoryOf(s)'
  <1>0. /\ attempt' = attempt /\ AttemptsOf(s)' = AttemptsOf(s)
        /\ \A r \in Runs : Terminal(r) => state'[r] = state[r]
        /\ \A r \in Runs : state'[r] = state[r] \/ AllowsTransition(state[r], state'[r])
    BY MovesKeepRows DEF OnlyMoves, AttemptsOf
  <1>1. /\ n \in Nat /\ h \in Seq(JobStates) /\ Len(h) = n
        /\ \A r \in AttemptsOf(s) : h[attempt[r]] = state[r]
    BY HistoryTells DEF HistorySays
  <1>2. /\ k \in Seq(JobStates) /\ Len(k) = n
        /\ \A r \in AttemptsOf(s) : k[attempt[r]] = state'[r]
    BY <1>0, HistoryTellsNext DEF HistorySays
  <1>3. AttemptsOf(s) \subseteq Rows /\ Rows \subseteq Runs
    BY AttemptsAreFinite
  <1>4. /\ \A i \in 1..n : \E r \in AttemptsOf(s) : attempt[r] = i
        /\ \A r \in AttemptsOf(s) : attempt[r] \in 1..n
    BY DEF CountInv
  <1>5. ASSUME NEW r \in AttemptsOf(s), attempt[r] < n
        PROVE  Terminal(r)
    <2>1. PICK q \in AttemptsOf(s) : attempt[q] = n
      BY <1>1, <1>4, <1>5
    <2>2. ~ (q < r)
      BY <1>1, <1>3, <1>4, <1>5, <2>1 DEF SeriesInv, OneLiveAttempt, AttemptsOf
    <2>3. q # r
      BY <1>1, <1>4, <1>5, <2>1
    <2>4. r < q
      BY <1>3, <2>2, <2>3, RunsAreOrdered
    <2>. QED BY <2>4 DEF SeriesInv, OneLiveAttempt, AttemptsOf
  <1>6. \A i \in 1..n : i < n => k[i] = h[i]
    BY <1>0, <1>1, <1>2, <1>3, <1>4, <1>5
  <1>. HIDE DEF n, h, k
  <1>7. CASE n = 0
    <2>1. k = h
      BY <1>1, <1>2, <1>7
    <2>. QED BY <1>1, <1>2, <2>1 DEF Lifecycle!Successors, h, k
  <1>8. CASE n # 0
    <2>1. n \in 1..n
      BY <1>1, <1>8
    <2>2. PICK last \in AttemptsOf(s) : attempt[last] = n
      BY <1>4, <2>1
    <2>3. h[n] = state[last] /\ k[n] = state'[last] /\ last \in Runs
      BY <1>1, <1>2, <1>3, <2>2
    <2>4. CASE state'[last] = state[last]
      <3>1. \A i \in 1..n : k[i] = h[i]
        BY <1>1, <1>6, <2>3, <2>4
      <3>2. k = h
        BY <1>1, <1>2, <3>1
      <3>. QED BY <1>1, <1>2, <3>2 DEF Lifecycle!Successors, h, k
    <2>5. CASE AllowsTransition(state[last], state'[last])
      <3>1. k = [h EXCEPT ![n] = state'[last]]
        BY <1>1, <1>2, <1>6, <2>1, <2>3
      <3>2. h # <<>>
        BY <1>1, <1>8
      <3>3. Lifecycle!Last(h) = state[last]
        BY <1>1, <2>3 DEF Lifecycle!Last
      <3>4. k = Lifecycle!ReplaceAt(h, Len(h), state'[last])
        BY <1>1, <3>1 DEF Lifecycle!ReplaceAt
      <3>5. state'[last] \in Lifecycle!AllowedNext(Lifecycle!Last(h))
        BY <2>5, <3>3 DEF AllowsTransition, AllowedNext, Lifecycle!AllowedNext
      <3>6. k \in Lifecycle!Moved(h)
        BY <3>2, <3>4, <3>5 DEF Lifecycle!Moved
      <3>. QED BY <1>1, <1>2, <3>6 DEF Lifecycle!Successors, h, k
    <2>. QED BY <1>0, <2>3, <2>4, <2>5
  <1>. QED BY <1>7, <1>8

\* A row added to a series whose attempts have all ended starts its next attempt.
LEMMA HistoryStarts ==
    ASSUME TypeOK, TypeOK', SeriesInv, SeriesInv', CountInv, CountInv', NEW s \in Runs,
           NEW r, r \notin Rows, AttemptsOf(s)' = AttemptsOf(s) \union {r},
           attempt'[r] = Cardinality(AttemptsOf(s)) + 1, state'[r] = "queued",
           \A p \in Rows : attempt'[p] = attempt[p] /\ state'[p] = state[p],
           \A p \in AttemptsOf(s) : attempt[p] = Cardinality(AttemptsOf(s)) => Terminal(p)
    PROVE  /\ HistoryOf(s)' \in Lifecycle!Successors(HistoryOf(s))
           /\ Len(HistoryOf(s)') > Len(HistoryOf(s))
PROOF
  <1>. DEFINE n == Cardinality(AttemptsOf(s))
              h == HistoryOf(s)
              k == HistoryOf(s)'
  <1>1. /\ n \in Nat /\ h \in Seq(JobStates) /\ Len(h) = n
        /\ \A p \in AttemptsOf(s) : h[attempt[p]] = state[p]
    BY HistoryTells DEF HistorySays
  <1>2. Cardinality(AttemptsOf(s)') = n + 1
    BY CountGrows
  <1>3. /\ k \in Seq(JobStates) /\ Len(k) = n + 1
        /\ \A p \in AttemptsOf(s)' : k[attempt'[p]] = state'[p]
    BY <1>2, HistoryTellsNext DEF HistorySays
  <1>4. AttemptsOf(s) \subseteq Rows /\ Rows \subseteq Runs
    BY AttemptsAreFinite
  <1>5. \A i \in 1..n : \E p \in AttemptsOf(s) : attempt[p] = i
    BY DEF CountInv
  <1>6. n # 0 => h[n] \in TerminalStates
    <2>. HAVE n # 0
    <2>1. PICK p \in AttemptsOf(s) : attempt[p] = n
      BY <1>1, <1>5
    <2>. QED BY <1>1, <2>1 DEF Terminal
  <1>7. \A i \in 1..n : k[i] = h[i]
    BY <1>1, <1>3, <1>4, <1>5
  <1>8. k[n + 1] = "queued"
    BY <1>3
  <1>. HIDE DEF n, h, k
  <1>9. k = Append(h, "queued")
    BY <1>1, <1>3, <1>7, <1>8
  <1>10. h = <<>> \/ Lifecycle!Settled(h)
    BY <1>1, <1>6 DEF Lifecycle!Settled, Lifecycle!Last, TerminalStates, Lifecycle!TerminalStates
  <1>11. k \in Lifecycle!Successors(h)
    BY <1>9, <1>10 DEF Lifecycle!Started, Lifecycle!Successors
  <1>. QED BY <1>1, <1>3, <1>11 DEF h, k

\* One step of the catalog is one step of the histories.
Histories == [s \in Runs |-> HistoryOf(s)]

LEMMA HistoryNext ==
    ASSUME TypeOK, TypeOK', SeriesInv, SeriesInv', CountInv, CountInv', [Next]_vars
    PROVE  Lifecycle!Next \/ UNCHANGED <<Histories, forgotten>>
PROOF
  <1>. USE DEF Histories
  <1>1. ASSUME NEW r \in Runs, NEW q \in Requests, Submit(r, q)
        PROVE  Lifecycle!Advance
    <2>1. /\ AttemptsOf(r) = {} /\ AttemptsOf(r)' = {r} /\ attempt'[r] = 1
          /\ \A s \in Runs \ {r} : AttemptsOf(s)' = AttemptsOf(s)
          /\ \A p \in Rows : attempt'[p] = attempt[p] /\ state'[p] = state[p]
          /\ r \notin Rows /\ state'[r] = "queued" /\ forgotten' = forgotten
      BY <1>1, SubmitCounts
    <2>2. Cardinality(AttemptsOf(r)) = 0
      BY <2>1, FS_EmptySet
    <2>7. AttemptsOf(r)' = AttemptsOf(r) \union {r} /\ attempt'[r] = Cardinality(AttemptsOf(r)) + 1
      BY <2>1, <2>2
    <2>3. /\ HistoryOf(r)' \in Lifecycle!Successors(HistoryOf(r))
          /\ Len(HistoryOf(r)') > Len(HistoryOf(r))
      BY <2>1, <2>7, HistoryStarts
    <2>4. \A s \in Runs \ {r} : HistoryOf(s)' = HistoryOf(s)
      BY <2>1, HistorySame
    <2>5. r \notin forgotten
      BY <2>1 DEF SeriesInv, Numbering
    <2>6. \A s \in Runs : Len(HistoryOf(s)) \in Nat
      BY HistoryTells DEF HistorySays
    <2>. QED BY <2>1, <2>3, <2>4, <2>5, <2>6 DEF Lifecycle!Advance, Lifecycle!Successors
  <1>2. ASSUME NEW latest \in Runs, NEW r \in Runs, Rerun(latest, r)
        PROVE  Lifecycle!Advance
    <2>. PICK mine : mine = series[latest]
      OBVIOUS
    <2>1. /\ mine \in Runs /\ r \notin Rows
          /\ AttemptsOf(mine)' = AttemptsOf(mine) \union {r}
          /\ attempt'[r] = Cardinality(AttemptsOf(mine)) + 1
          /\ \A p \in AttemptsOf(mine) : Terminal(p)
          /\ \A s \in Runs \ {mine} : AttemptsOf(s)' = AttemptsOf(s)
          /\ \A p \in Rows : attempt'[p] = attempt[p] /\ state'[p] = state[p]
          /\ state'[r] = "queued" /\ forgotten' = forgotten \ {mine}
      BY <1>2, RerunCounts
    <2>3. /\ HistoryOf(mine)' \in Lifecycle!Successors(HistoryOf(mine))
          /\ Len(HistoryOf(mine)') > Len(HistoryOf(mine))
      BY <2>1, HistoryStarts
    <2>4. \A s \in Runs \ {mine} : HistoryOf(s)' = HistoryOf(s)
      BY <2>1, HistorySame
    <2>5. \A s \in Runs : Len(HistoryOf(s)) \in Nat
      BY HistoryTells DEF HistorySays
    <2>. QED BY <2>1, <2>3, <2>4, <2>5 DEF Lifecycle!Advance, Lifecycle!Successors
  <1>3. CASE OnlyMoves /\ forgotten' = forgotten
    <2>1. \A s \in Runs : /\ HistoryOf(s)' \in Lifecycle!Successors(HistoryOf(s))
                          /\ Len(HistoryOf(s)') = Len(HistoryOf(s))
      BY <1>3, HistoryMoves
    <2>2. \A s \in Runs : Len(HistoryOf(s)) \in Nat
      BY HistoryTells DEF HistorySays
    <2>. QED BY <1>3, <2>1, <2>2 DEF Lifecycle!Advance, Lifecycle!Next
  <1>4. CASE ForgetWrite
    <2>. PICK mine : mine = series[request.run]
      OBVIOUS
    <2>1. /\ request.run \in Rows /\ mine \in Runs
          /\ \A q \in Rows : series[q] = mine => Terminal(q)
          /\ forgotten' = forgotten \union {mine} /\ UNCHANGED jobs
      BY <1>4 DEF ForgetWrite, SeriesInv, ReadAsSettled, TypeOK, Rows
    <2>2. \A s \in Runs : AttemptsOf(s)' = AttemptsOf(s)
      BY <2>1 DEF jobs, AttemptsOf, Rows
    <2>3. \A s \in Runs : HistoryOf(s)' = HistoryOf(s)
      BY <2>1, <2>2, HistorySame DEF jobs
    <2>4. request.run \in AttemptsOf(mine)
      BY <2>1 DEF AttemptsOf
    <2>. DEFINE n == Cardinality(AttemptsOf(mine))
    <2>5. /\ n \in Nat /\ HistoryOf(mine) \in Seq(JobStates) /\ Len(HistoryOf(mine)) = n
          /\ \A r \in AttemptsOf(mine) : HistoryOf(mine)[attempt[r]] = state[r]
      BY <2>1, HistoryTells DEF HistorySays
    <2>6. n \in 1..n
      BY <2>1, <2>4, <2>5 DEF CountInv
    <2>7. PICK last \in AttemptsOf(mine) : attempt[last] = n
      BY <2>1, <2>6 DEF CountInv
    <2>8. HistoryOf(mine)[n] \in TerminalStates
      BY <2>1, <2>5, <2>7 DEF AttemptsOf, Terminal
    <2>9. Lifecycle!Settled(HistoryOf(mine))
      BY <2>5, <2>6, <2>8 DEF Lifecycle!Settled, Lifecycle!Last, TerminalStates, Lifecycle!TerminalStates
    <2>10. Lifecycle!Hide
      BY <2>1, <2>3, <2>9 DEF Lifecycle!Hide
    <2>. QED BY <2>10 DEF Lifecycle!Next
  <1>5. (\E r \in Runs, q \in Requests : Submit(r, q)) \/ (\E latest, r \in Runs : Rerun(latest, r))
           => Lifecycle!Next
    BY <1>1, <1>2 DEF Lifecycle!Next
  <1>6. ForgetWrite => Lifecycle!Next \/ UNCHANGED <<Histories, forgotten>>
    BY <1>4
  <1>7. OnlyMoves /\ forgotten' = forgotten => Lifecycle!Next \/ UNCHANGED <<Histories, forgotten>>
    BY <1>3
  <1>. QED BY <1>5, <1>6, <1>7, StepKinds, ForgetKinds

(***************************************************************************)
(* The tables implement the abstract life of attempts: every transaction   *)
(* of every caller moves histories as JobLifecycle permits, one attempt of *)
(* a series at a time, or leaves them.                                     *)
(***************************************************************************)
THEOREM CatalogImplementsLifecycle == Spec => LifecycleSpec
PROOF
  <1>1. Init => Lifecycle!Init
    <2>. SUFFICES ASSUME Init, NEW s \in Runs PROVE HistoryOf(s) = <<>>
      BY DEF Init, Lifecycle!Init
    <2>1. AttemptsOf(s) = {}
      BY DEF Init, AttemptsOf, Rows
    <2>2. Cardinality(AttemptsOf(s)) = 0
      BY <2>1, FS_EmptySet
    <2>. QED BY <2>2 DEF HistoryOf
  <1>2. TypeOK /\ TypeOK' /\ SeriesInv /\ SeriesInv' /\ CountInv /\ CountInv' /\ [Next]_vars
           => [Lifecycle!Next]_<<[s \in Runs |-> HistoryOf(s)], forgotten>>
    BY HistoryNext DEF Histories
  <1>. QED BY <1>1, <1>2, TypeCorrect, SeriesInvariant, CountInvariant, PTL
           DEF Spec, LifecycleSpec, Lifecycle!Spec
=============================================================================
