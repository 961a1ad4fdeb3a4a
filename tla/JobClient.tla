------------------------------ MODULE JobClient ------------------------------
(***************************************************************************)
(* The commands a user runs against the local daemon (`execute_run',       *)
(* `execute_job' in the CLI and `LocalJobClient'): each is a sequence of   *)
(* calls, one connection and one request each, between which the daemon,   *)
(* the workers and the other commands go on.  A call is answered, refused  *)
(* (no daemon), or executed with its answer lost (the daemon is killed     *)
(* before it writes the response).                                         *)
(*                                                                         *)
(* Simplifications.  The catalog is its promise (JobLifecycle): a history  *)
(* of attempt states per series and one log of events, in which every      *)
(* transition is an event and a running attempt reports progress.  Workers *)
(* survive the daemon and report by themselves.  Output writing, the       *)
(* sleeps between polls and the JSON form of a wait (which only polls the  *)
(* status) are left out; the 10 s of `cancel_reliably' are MaxTries tries. *)
(***************************************************************************)
EXTENDS Naturals, Sequences, SequencesExt, FiniteSets, JobModel

CONSTANTS Clients,      \* one command each
          Commands,     \* the commands they may be
          Page,         \* the limit of one event query (10 000 in the code)
          MaxTries,     \* cancel attempts before cancel_reliably gives up
          MaxCrashes,   \* daemons that are killed
          Outcomes,     \* the terminal states that runs come to
          MaxLog        \* progress is reported while the log is shorter

ASSUME ClientAssumption == /\ Commands \subseteq {"run", "wait", "events", "cancel", "rerun"}
                           /\ {Page, MaxTries} \subseteq Nat \ {0}
                           /\ {MaxCrashes, MaxLog} \subseteq Nat
                           /\ Outcomes \subseteq TerminalStates

VARIABLES attempts,   \* for each series, its attempts' states, oldest first
          log,        \* the durable events, by sequence number
          daemon,     \* "down", "up", or "closing": it has found itself idle
          orphaned,   \* a shutdown left a queued attempt behind (history)
          cl,         \* the commands
          crashes

catalog == <<attempts, log>>
vars    == <<catalog, daemon, orphaned, cl, crashes>>

\* The series that the commands are typed for, unless they submit their own.
Job == 2

Latest(s) == Last(attempts[s])
Settled(s) == Latest(s) \in TerminalStates
Event(s, a, state) == [series |-> s, attempt |-> a, state |-> state]

\* One transition of the latest attempt, with its event.
Becomes(s, state) ==
    /\ attempts' = [attempts EXCEPT ![s] = ReplaceAt(@, Len(@), state)]
    /\ log' = Append(log, Event(s, Len(attempts[s]), state))

-----------------------------------------------------------------------------
\* The requests, as the server executes them.

\* A new series with its first attempt.
SubmitRequest ==
    /\ attempts' = Append(attempts, <<"queued">>)
    /\ log' = Append(log, Event(Len(attempts) + 1, 1, "queued"))

\* The next attempt, or Conflict while the latest one is active.
RerunRequest(s) ==
    IF Settled(s)
    THEN /\ attempts' = [attempts EXCEPT ![s] = Append(@, "queued")]
         /\ log' = Append(log, Event(s, Len(attempts[s]) + 1, "queued"))
    ELSE UNCHANGED catalog

\* DaemonControlBackend::cancel in front of the catalog's: force stops the worker
\* and adopts what it had finished.
CancelRequest(s, mode) ==
    CASE Settled(s)             -> UNCHANGED catalog
      [] Latest(s) = "queued"   -> Becomes(s, "cancelled")
      [] ~ Settled(s) /\ Latest(s) # "queued" /\ mode = "force" ->
             \E t \in AllowedNext(Latest(s)) \intersect Outcomes : Becomes(s, t)
      [] Latest(s) \in {"starting", "running"} /\ mode = "safe" -> Becomes(s, "cancelling")
      [] OTHER                  -> UNCHANGED catalog

\* The events of a query, by sequence number: those of the series after the cursor, a page
\* of them.
PageAfter(s, after) ==
    LET page[i \in 0 .. Len(log)] ==
            IF i = 0 THEN <<>>
            ELSE IF i > after /\ log[i].series = s /\ Len(page[i - 1]) < Page
                 THEN Append(page[i - 1], i)
                 ELSE page[i - 1]
    IN  page[Len(log)]

-----------------------------------------------------------------------------
\* Where a command goes on from, after each call.

At(c, pc) == cl[c].pc = pc
Goes(c, pc) == cl' = [cl EXCEPT ![c].pc = pc]

\* The exit code: wait_exit_code for a wait and a foreground run, else whether the
\* command had an answer.
ExitCode(cmd, answer) ==
    IF answer \notin JobStates \/ (cmd \in {"run", "wait"} /\ answer # "complete")
    THEN 1 ELSE 0

Ends(c, answer) == cl' = [cl EXCEPT ![c].pc = "done", ![c].answer = answer,
                                    ![c].exit = ExitCode(cl[c].cmd, answer)]

\* Mutation of ReachedBy: any answer to the status query will do.
ReachedAnyway(mode, state) == TRUE

\* cancel_reliably: what a failed cancel may turn out to have done.
ReachedBy(mode, state) == IF mode = "safe" THEN state \in {"cancelling", "cancelled"}
                                           ELSE state = "interrupted"

\* A cancel has answered: `job cancel' is done, `job rerun' waits for the end.
CancelOk(c, state) ==
    IF cl[c].cmd = "rerun" THEN Goes(c, "poll") ELSE Ends(c, state)

\* Mutation of CancelFailed: there is no deadline.
CancelFailedAgain(c) ==
    IF cl[c].error = "unavailable" THEN Goes(c, "cancel") ELSE Ends(c, cl[c].error)

\* cancel_reliably after the status query: give up, or sleep and cancel again.
CancelFailed(c) ==
    IF cl[c].error = "unavailable" /\ cl[c].tries < MaxTries
    THEN cl' = [cl EXCEPT ![c].pc = "cancel", ![c].tries = @ + 1]
    ELSE Ends(c, cl[c].error)

\* The call gave no answer: reads and submissions fail the command.
Unanswered(c) ==
    CASE At(c, "cancel") -> cl' = [cl EXCEPT ![c].pc = "check", ![c].error = "unavailable"]
      [] At(c, "check")  -> CancelFailed(c)
      [] OTHER           -> Ends(c, "unavailable")

\* The first call of each command.
FirstCall(cmd) == CASE cmd = "run"             -> "submit"
                    [] cmd \in {"wait", "events"} -> "page"
                    [] cmd = "cancel"          -> "cancel"
                    [] cmd = "rerun"           -> "first"

Calls == {"submit", "page", "status", "first", "cancel", "check", "poll", "rerun"}

\* What the request of a call does to the catalog.
Executes(c) ==
    CASE At(c, "submit") -> SubmitRequest
      [] At(c, "cancel") -> CancelRequest(cl[c].series, cl[c].mode)
      [] At(c, "rerun")  -> RerunRequest(cl[c].series)
      [] OTHER           -> UNCHANGED catalog

\* Mutation of TakesPage: the cursor counts events instead of naming the last.
TakesPageCounted(c) ==
    LET s == cl[c].series  page == PageAfter(s, cl[c].cursor)
    IN  cl' = [cl EXCEPT ![c].pc = "status", ![c].out = @ \o page,
                         ![c].full = Len(page) = Page, ![c].read = Len(log),
                         ![c].cursor = @ + Len(page)]

\* Print a page and move the cursor to its last event.
TakesPage(c) ==
    LET s == cl[c].series  page == PageAfter(s, cl[c].cursor)
    IN  cl' = [cl EXCEPT ![c].pc = "status", ![c].out = @ \o page,
                         ![c].full = Len(page) = Page, ![c].read = Len(log),
                         ![c].cursor = IF page = <<>> THEN @ ELSE Last(page)]

\* wait_for_job and stream_events after a page; a follower that printed a full
\* page reads on.
PollsStatus(c) ==
    IF Settled(cl[c].series) /\ ~ (cl[c].cmd = "events" /\ cl[c].full)
    THEN Ends(c, Latest(cl[c].series)) ELSE Goes(c, "page")

\* What the command does with the answer of a call; the request is executed in
\* the same step, so the snapshot in it is the state after.
Answered(c) ==
    LET s == cl[c].series IN
    CASE At(c, "submit") ->
             cl' = [cl EXCEPT ![c].pc = "page", ![c].series = Len(attempts'),
                              ![c].base = 1, ![c].receipt = 1]
      [] At(c, "page")   -> TakesPage(c)
      [] At(c, "status") -> PollsStatus(c)
      [] At(c, "first")  -> Goes(c, IF Settled(s) THEN "rerun" ELSE "cancel")
      [] At(c, "cancel") ->
             IF Settled(s) THEN cl' = [cl EXCEPT ![c].pc = "check", ![c].error = "conflict"]
             ELSE CancelOk(c, Last(attempts'[s]))
      [] At(c, "check")  ->
             IF ReachedBy(cl[c].mode, Latest(s)) THEN CancelOk(c, Latest(s))
             ELSE CancelFailed(c)
      [] At(c, "poll")   -> Goes(c, IF Settled(s) THEN "rerun" ELSE "poll")
      [] At(c, "rerun")  ->
             IF Settled(s) THEN cl' = [cl EXCEPT ![c].pc = "done", ![c].answer = "queued", ![c].exit = 0,
                                                 ![c].receipt = Len(attempts'[s])]
             ELSE Ends(c, "conflict")

-----------------------------------------------------------------------------
\* Steps.

\* daemon_client: ping, and start a daemon where nobody answers.
Connect(c) ==
    /\ At(c, "connect")
    /\ daemon' = IF daemon = "down" THEN "up" ELSE daemon
    /\ cl' = [cl EXCEPT ![c].pc = FirstCall(cl[c].cmd),
                        ![c].base = IF cl[c].cmd = "run" THEN 0 ELSE Len(attempts[Job])]
    /\ UNCHANGED <<catalog, orphaned, crashes>>

Call(c) ==
    /\ cl[c].pc \in Calls /\ daemon # "down"
    /\ Executes(c) /\ Answered(c)
    /\ UNCHANGED <<daemon, orphaned, crashes>>

Refused(c) ==
    /\ cl[c].pc \in Calls /\ daemon = "down"
    /\ Unanswered(c)
    /\ UNCHANGED <<catalog, daemon, orphaned, crashes>>

\* The daemon is killed with the request done and its answer not written.
AnswerLost(c) ==
    /\ cl[c].pc \in Calls /\ daemon # "down" /\ crashes < MaxCrashes
    /\ Executes(c) /\ Unanswered(c)
    /\ daemon' = "down" /\ crashes' = crashes + 1
    /\ UNCHANGED orphaned

\* The catalog is locked, or the stop of a worker fails: an error, no change.
CancelLocked(c) ==
    /\ At(c, "cancel") /\ daemon # "down"
    /\ Unanswered(c)
    /\ UNCHANGED <<catalog, daemon, orphaned, crashes>>

\* run_daemon: dispatch starts a worker for a queued attempt.
Dispatch(s) ==
    /\ daemon = "up" /\ Latest(s) = "queued"
    /\ Becomes(s, "starting")
    /\ UNCHANGED <<daemon, orphaned, cl, crashes>>

IdleNow == \A s \in 1 .. Len(attempts) : Settled(s)

\* run_daemon: no queued row, no active one, the timeout over ...
FindsIdle ==
    /\ daemon = "up" /\ IdleNow
    /\ daemon' = "closing"
    /\ UNCHANGED <<catalog, orphaned, cl, crashes>>

\* ... and, after the requests served in between, its own shutdown request.
ShutsDown ==
    /\ daemon = "closing"
    /\ daemon' = "down"
    /\ orphaned' = (orphaned \/ ~ IdleNow)
    /\ UNCHANGED <<catalog, cl, crashes>>

\* A worker reports: running, a terminal state, or the end of a cancelled run.
Reports(s) ==
    /\ Latest(s) \in ActiveStates
    /\ \E t \in AllowedNext(Latest(s)) \intersect ({"running"} \union Outcomes) : Becomes(s, t)
    /\ UNCHANGED <<daemon, orphaned, cl, crashes>>

Progress(s) ==
    /\ Latest(s) = "running" /\ Len(log) < MaxLog
    /\ log' = Append(log, Event(s, Len(attempts[s]), "running"))
    /\ UNCHANGED <<attempts, daemon, orphaned, cl, crashes>>

-----------------------------------------------------------------------------

Command == [cmd : Commands, mode : {"safe", "force"}, since : {0, 3}]

\* One series is over and, unless the commands only submit, a second one, which
\* they are about, is queued; a daemon is up, and the commands are typed.
Init ==
    /\ daemon = "up" /\ orphaned = FALSE /\ crashes = 0
    /\ \E typed \in [Clients -> Command] :
          /\ \A c \in Clients : /\ typed[c].mode = "force" => typed[c].cmd = "cancel"
                                /\ typed[c].since = 3 => typed[c].cmd = "events"
          /\ attempts = IF \A c \in Clients : typed[c].cmd = "run"
                        THEN << <<"cancelled">> >> ELSE << <<"cancelled">>, <<"queued">> >>
          /\ log = <<Event(1, 1, "queued"), Event(1, 1, "cancelled")>> \o
                   (IF Len(attempts) = Job THEN <<Event(Job, 1, "queued")>> ELSE <<>>)
          /\ cl = [c \in Clients |->
                     [cmd |-> typed[c].cmd, mode |-> typed[c].mode, since |-> typed[c].since,
                      pc |-> "connect", series |-> IF typed[c].cmd = "run" THEN 1 ELSE Job,
                      cursor |-> typed[c].since,
                      out |-> <<>>, full |-> FALSE, read |-> 0, base |-> 0, receipt |-> 0,
                      tries |-> 0, error |-> "none", answer |-> "none", exit |-> 1]]

CommandStep(c) == Connect(c) \/ Call(c) \/ Refused(c) \/ AnswerLost(c) \/ CancelLocked(c)

Done == /\ \A c \in Clients : At(c, "done")
        /\ \A s \in 1 .. Len(attempts) : Settled(s) \/ Latest(s) = "queued"
        /\ daemon = "down"
        /\ UNCHANGED vars

Next == \/ \E c \in Clients : CommandStep(c)
        \/ \E s \in 1 .. Len(attempts) : Dispatch(s) \/ Reports(s) \/ Progress(s)
        \/ FindsIdle \/ ShutsDown
        \/ Done

\* A command that is not blocked goes on; the main loop of a daemon that is up
\* goes on; a worker comes to its end.
Fairness ==
    /\ \A c \in Clients : WF_vars(Connect(c) \/ Call(c) \/ Refused(c))
    /\ WF_vars(\E s \in 1 .. Len(attempts) : Dispatch(s))
    /\ WF_vars(\E s \in 1 .. Len(attempts) : Reports(s))
    /\ WF_vars(ShutsDown)

Spec == Init /\ [][Next]_vars /\ Fairness
-----------------------------------------------------------------------------
\* Properties.

\* Every piece of state has the shape the code gives it.
TypeOK ==
    /\ attempts \in Seq(Seq(JobStates))
    /\ daemon \in {"down", "up", "closing"} /\ orphaned \in BOOLEAN
    /\ \A e \in Range(log) : e.state \in JobStates /\ e.series \in 1 .. Len(attempts)
    /\ \A c \in Clients :
          /\ cl[c].pc \in Calls \union {"connect", "done"}
          /\ cl[c].series \in 1 .. Len(attempts)
          /\ cl[c].tries <= MaxTries /\ cl[c].cursor <= Len(log)

\* A reader of events (`job events', `job wait', a foreground `run') has printed
\* each event of its series between its start and its cursor, once, in order,
\* whatever was logged in between: pages neither overlap nor leave a gap.
PrintsWithoutGap ==
    \A c \in Clients : cl[c].cmd \in {"run", "wait", "events"} /\ cl[c].read > 0 =>
        /\ Range(cl[c].out) = {i \in cl[c].since + 1 .. cl[c].cursor :
                                  log[i].series = cl[c].series}
        /\ \A j, k \in DOMAIN cl[c].out : j < k => cl[c].out[j] < cl[c].out[k]

\* A follower that ended by itself has printed everything there was when it read
\* its last page, even when the backlog took more than one page.
FollowerDrainsBacklog ==
    \A c \in Clients :
        cl[c].cmd = "events" /\ At(c, "done") /\ cl[c].answer \in TerminalStates =>
            \A i \in (cl[c].since + 1) .. cl[c].read :
                log[i].series = cl[c].series => \E j \in DOMAIN cl[c].out : cl[c].out[j] = i

\* A cancel that reports success has stopped the attempt it was typed for: the
\* attempt that was the latest then is terminal or on its way there, across lost
\* answers, retries, reruns by others and restarts of the daemon.
CancelStops ==
    \A c \in Clients :
        (cl[c].cmd = "cancel" /\ At(c, "done") /\ cl[c].answer \in JobStates)
        \/ (cl[c].cmd = "rerun" /\ At(c, "poll")) =>
            attempts[cl[c].series][cl[c].base] \in TerminalStates \union
                (IF cl[c].mode = "safe" THEN {"cancelling"} ELSE {})

\* The exit state of a wait or a foreground run is the end of some attempt of its
\* series, at or after the one it was started for.
WaitTellsTheTruth ==
    \A c \in Clients :
        cl[c].cmd \in {"run", "wait"} /\ At(c, "done") /\ cl[c].answer \in JobStates =>
            \E a \in cl[c].base .. Len(attempts[cl[c].series]) :
                attempts[cl[c].series][a] = cl[c].answer

\* However the calls of several reruns and cancels interleave, an attempt is
\* queued only when every earlier one of the series is over.
OneLiveAttempt ==
    \A s \in 1 .. Len(attempts) : \A a \in 1 .. Len(attempts[s]) - 1 :
        attempts[s][a] \in TerminalStates

\* Two commands never hold a receipt for the same attempt.
ReceiptsAreDistinct ==
    \A c, d \in Clients : c # d /\ cl[c].receipt # 0 /\ cl[d].receipt # 0 =>
        <<cl[c].series, cl[c].receipt>> # <<cl[d].series, cl[d].receipt>>

(***************************************************************************)
(* A reader of events prints every event once, in order, and everything    *)
(* there was when it read its last page; what a wait or a foreground run   *)
(* answers is the end of an attempt it was started for.                    *)
(***************************************************************************)
ReadersAreTold == TypeOK /\ PrintsWithoutGap /\ FollowerDrainsBacklog /\ WaitTellsTheTruth

(***************************************************************************)
(* However cancels, reruns and submits interleave, over lost answers,      *)
(* retries and killed daemons: a cancel that reports success has stopped   *)
(* the attempt it was typed for, one attempt of a series is alive, and no  *)
(* two commands hold a receipt for the same one.                           *)
(***************************************************************************)
CommandsHaveEffect == CancelStops /\ OneLiveAttempt /\ ReceiptsAreDistinct

\* Every command comes to an end: a wait sees the end of the job or fails, a
\* cancel gives up, a follower does not chase its backlog for ever.
CommandsEnd == \A c \in Clients : cl[c].pc # "done" ~> cl[c].pc = "done"

\* What the documents and comments say, and runs refute.

\* docs: "The stream ends after that job's current attempt reaches a terminal
\* state and all persisted events through that point have been emitted."
FollowerPrintsTheEnd ==
    \A c \in Clients :
        cl[c].cmd = "events" /\ At(c, "done") /\ cl[c].answer \in TerminalStates =>
            \E j \in DOMAIN cl[c].out : LET e == log[cl[c].out[j]]
                                        IN  e.state = cl[c].answer

\* docs: a cancel of a terminal state "Returns the existing terminal snapshot".
CancelAnswersATerminalJob ==
    \A c \in Clients : cl[c].cmd = "cancel" /\ At(c, "done") => cl[c].answer # "conflict"

\* docs: a rerun of an active attempt "first requests safe cancellation and waits
\* for a terminal state. It then creates the next queued attempt."
RerunMeetsNoConflict ==
    \A c \in Clients : cl[c].cmd = "rerun" /\ At(c, "done") => cl[c].answer # "conflict"

\* docs: of a follower, "The process exit follows the selected attempt's terminal
\* state."
FollowerExitFollowsState ==
    \A c \in Clients :
        cl[c].cmd = "events" /\ At(c, "done") /\ cl[c].answer \in TerminalStates =>
            (cl[c].exit = 0) = (cl[c].answer = "complete")

\* comment in ipc.rs: the daemon shuts down "only after it has independently
\* established that the queue and worker set are idle".
ShutsDownIdle == ~ orphaned
=============================================================================
