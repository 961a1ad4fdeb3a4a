---------------------------- MODULE SchedulerPass ----------------------------
(***************************************************************************)
(* One call of `plan_dispatch' as a state machine: every iteration of its  *)
(* loop is a step, from any queue the catalog can hold.  The module states *)
(* what the loop maintains and what the finished plan guarantees.  Its     *)
(* names differ from those of DispatchLoop, so that a model can hold both. *)
(***************************************************************************)
EXTENDS Scheduler, FiniteSets

CONSTANTS Capacities,    \* the SchedulerCapacity values considered
          Usages,        \* the reservations of active attempts considered
          Queues         \* the queues considered, sequences of [run, need, bypass]

\* What the catalog hands over: rows of different runs, with natural numbers.
Runs(q) == {q[i].run : i \in 1..Len(q)}

ASSUME PassAssumption ==
    /\ Capacities \subseteq Vector /\ Usages \subseteq Vector
    /\ \A q \in Queues :
          /\ q \in Seq([run : Runs(q), need : Vector, bypass : Nat])
          /\ \A i, j \in 1..Len(q) : q[i].run = q[j].run => i = j

VARIABLES capacity, reserved, line,    \* the arguments of the call
          pass                         \* the locals of the loop

passVars == <<capacity, reserved, line, pass>>

PassInit == /\ capacity \in Capacities
            /\ reserved \in Usages
            /\ line \in Queues
            /\ ~ PlanError(capacity, reserved, line)
            /\ pass = StartPass(capacity, reserved, line)

Iterate == /\ pass.stop = "no"
           /\ pass' = DispatchStep(pass)
           /\ UNCHANGED <<capacity, reserved, line>>

\* The finished call; keeps TLC from reporting its end as a deadlock.
Returned == pass.stop # "no" /\ UNCHANGED passVars

PassNext == Iterate \/ Returned

PassSpec == PassInit /\ [][PassNext]_passVars /\ WF_passVars(Iterate)

-----------------------------------------------------------------------------
\* The queue positions of a set of runs; run identities are unique.
Positions(runs) == {i \in 1..Len(line) : line[i].run \in runs}

Selected == Positions({pass.selected[k] : k \in 1..Len(pass.selected)})

Left == Positions({pass.remaining[k].run : k \in 1..Len(pass.remaining)})

NeedAt == [i \in 1..Len(line) |-> line[i].need]

PassTypeOK ==
    /\ capacity \in Vector /\ reserved \in Vector /\ pass.available \in Vector
    /\ pass.stop \in {"no", "drained", "head_reservation", "insufficient_resources"}
    /\ Cardinality(Selected) = Len(pass.selected)
    /\ Cardinality(Left) = Len(pass.remaining)
    /\ Selected \union Left = 1..Len(line)
    /\ Selected \intersect Left = {}

(***************************************************************************)
(* Resources are accounted for exactly at every iteration: what was        *)
(* reserved before, what the plan reserves and what is left add up to the  *)
(* capacity, in both dimensions.                                           *)
(***************************************************************************)
ExactAccounting ==
    capacity = Plus(Plus(reserved, Total(NeedAt, Selected)), pass.available)

(***************************************************************************)
(* A row is overtaken only because it cannot start: whenever a younger row *)
(* is selected and an older one is left behind, the older one does not fit *)
(* beside what is already reserved, so FIFO order is broken only by safe   *)
(* backfill.                                                               *)
(***************************************************************************)
OvertakenRowCannotStart ==
    \A i \in Left, j \in Selected : i < j => ~ Fits(NeedAt[i], pass.available)

(***************************************************************************)
(* Every row that the plan starts ahead of the row left at the front costs *)
(* that front row one bypass, and the counter never passes the cap, so a   *)
(* pass may overtake the front row at most MaximumHeadBypass times minus   *)
(* what earlier passes used.                                               *)
(***************************************************************************)
EveryOvertakeIsCounted ==
    Left # {} =>
        LET head  == Min(Left)
            count == Head(pass.remaining).bypass
        IN  /\ count = line[head].bypass + Cardinality({j \in Selected : j > head})
            /\ count <= MaximumHeadBypass
            /\ pass.bypassed = IF count = line[head].bypass THEN {}
                               ELSE {[run |-> line[head].run, bypass |-> count]}

(***************************************************************************)
(* A finished plan leaves nothing startable behind, except what it holds   *)
(* back for a front row that has been overtaken as often as is allowed.    *)
(***************************************************************************)
MaximalUnlessReserved ==
    pass.stop # "no" =>
        \/ \A i \in Left : ~ Fits(NeedAt[i], pass.available)
        \/ Head(pass.remaining).bypass = MaximumHeadBypass

(***************************************************************************)
(* PlanDispatch, which runs the loop a bounded number of times, is what it *)
(* returns.                                                                *)
(***************************************************************************)
PassIsThePlan == pass.stop # "no" => pass = PlanDispatch(capacity, reserved, FALSE, line)

(***************************************************************************)
(* One call of the planner, at every iteration: every row is either left   *)
(* or selected, once; resources are accounted for exactly; a row is        *)
(* overtaken only because it cannot start; every overtaking of the front   *)
(* row is counted, up to the cap; a finished plan leaves nothing startable *)
(* behind, except for an exhausted front row; and it is what PlanDispatch  *)
(* returns.                                                                *)
(***************************************************************************)
PassIsSound == /\ PassTypeOK
               /\ ExactAccounting
               /\ OvertakenRowCannotStart
               /\ EveryOvertakeIsCounted
               /\ MaximalUnlessReserved
               /\ PassIsThePlan
=============================================================================
