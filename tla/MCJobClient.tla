---------------------------- MODULE MCJobClient ----------------------------
(***************************************************************************)
(* Two commands of every kind against one series and what they add to it,  *)
(* or two foreground runs while no daemon is killed.                       *)
(***************************************************************************)
EXTENDS JobClient

Foreground == \E c \in Clients : cl[c].cmd = "run"

\* Foreground runs are short, and both complete.
Quick(event) == event.series = 1 \/ event.state \in ActiveStates \union {"queued", "complete"}

MCSpec == /\ Init /\ (Foreground => \A c \in Clients : cl[c].cmd = "run")
          /\ [][Next /\ (Foreground => crashes' = 0 /\ \A i \in DOMAIN log' : Quick(log'[i]))]_vars
          /\ Fairness
=============================================================================
