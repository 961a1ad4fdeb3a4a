------------------------------ MODULE JobModel ------------------------------
(***************************************************************************)
(* The lifecycle of one job attempt, shared by every module of the job     *)
(* runtime: the states of `JobState' in                                    *)
(* src/trajecta/crates/trajecta-job/src/model.rs and the edges that        *)
(* `allows_transition_to' permits.  There are no variables here.           *)
(***************************************************************************)

\* JobState::is_terminal: an attempt in one of these is never dispatched again.
TerminalStates == {"complete", "completed_with_particle_errors",
                   "failed", "cancelled", "interrupted"}

\* The states whose attempts hold resources (active_resource_usage,
\* active_rows_with_leases and the guards of the worker operations).
ActiveStates == {"starting", "running", "cancelling"}

JobStates == {"queued"} \union ActiveStates \union TerminalStates

\* JobState::allows_transition_to, one set of successors for each state.
AllowedNext(s) ==
    CASE s = "queued"     -> {"starting", "cancelled"}
      [] s = "starting"   -> {"running", "cancelling", "failed", "interrupted"}
      [] s = "running"    -> {"cancelling", "complete",
                              "completed_with_particle_errors",
                              "failed", "interrupted"}
      [] s = "cancelling" -> {"cancelled", "failed", "interrupted"}
      [] OTHER            -> {}

AllowsTransition(s, next) == next \in AllowedNext(s)
=============================================================================
