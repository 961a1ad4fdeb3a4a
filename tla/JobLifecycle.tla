---------------------------- MODULE JobLifecycle ----------------------------
(***************************************************************************)
(* What the job catalog promises to its users, with no tables, leases or   *)
(* callers: a series is a history of attempts.  Only the last attempt of a *)
(* history moves, along the edges of JobModel; a new attempt is appended   *)
(* only when the last one is terminal; and a series may be hidden from     *)
(* listings only between its attempts.                                     *)
(***************************************************************************)
EXTENDS Sequences, SequencesExt, JobModel

CONSTANT Series

VARIABLES attempts,    \* for each series the states of its attempts, oldest first
          hidden       \* the series left out of listings

Settled(h) == h # <<>> /\ Last(h) \in TerminalStates

\* What one step may make of a history.
Started(h)    == IF h = <<>> \/ Settled(h) THEN {Append(h, "queued")} ELSE {}
Moved(h)      == IF h = <<>> THEN {}
                 ELSE {ReplaceAt(h, Len(h), s) : s \in AllowedNext(Last(h))}
Successors(h) == {h} \union Started(h) \union Moved(h)

Init == attempts = [s \in Series |-> <<>>] /\ hidden = {}

\* One transaction may move several series (a dispatch plan starts many).
Advance ==
    /\ DOMAIN attempts' = Series
    /\ \A s \in Series : attempts'[s] \in Successors(attempts[s])
    /\ hidden' = hidden \ {s \in Series : Len(attempts'[s]) > Len(attempts[s])}

Hide == /\ attempts' = attempts
        /\ \E s \in Series : Settled(attempts[s]) /\ hidden' = hidden \union {s}

Next == Advance \/ Hide

Spec == Init /\ [][Next]_<<attempts, hidden>>
=============================================================================
