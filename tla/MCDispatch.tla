----------------------------- MODULE MCDispatch -----------------------------
(***************************************************************************)
(* The planner on its own and in its loop.  The two share no state: a      *)
(* behaviour of this model is either one call of plan_dispatch, from every *)
(* queue of up to MaxQueue rows, or the ticks of DispatchLoop.             *)
(***************************************************************************)
EXTENDS DispatchLoop, SchedulerPass

CONSTANTS MaxQueue, MaxCpu, MaxMem

VARIABLE part    \* "call" or "loop"

\* The loop has room for one large run, which takes every CPU slot, or for two
\* small ones, which take all the memory: small runs can go on past a large one
\* for ever unless something holds them back.
MCCapacity == [cpu |-> 3, mem |-> 2]
MCNeeds == {[cpu |-> 1, mem |-> 1], [cpu |-> 3, mem |-> 1]}

CallNeeds == [cpu : 1..2, mem : 1..2] \union {[cpu |-> 3, mem |-> 1]}
CallRows(run) == [run : {run}, need : CallNeeds, bypass : 0..MaximumHeadBypass]

\* Only rows that have been at the front carry a counter; a counter left on a
\* later row would need the rows before it to have come back, so the queues
\* here put it on the first row only.
CallRow(i) == {row \in CallRows(i) : i > 1 => row.bypass = 0}
CallQueues == UNION {{q \in [1..n -> UNION {CallRow(i) : i \in 1..n}] :
                        \A i \in 1..n : q[i].run = i} : n \in 0..MaxQueue}

MCCapacities == {[cpu |-> MaxCpu, mem |-> MaxMem]}
MCUsages == [cpu : 0..MaxCpu, mem : 0..MaxMem]

MCInit == \/ /\ part = "loop" /\ Init
             /\ capacity = Zero /\ reserved = Zero /\ line = <<>>
             /\ pass = StartPass(Zero, Zero, <<>>)
          \/ part = "call" /\ PassInit /\ Init

MCNext == \/ part = "loop" /\ Next /\ UNCHANGED <<part, passVars>>
          \/ part = "call" /\ PassNext /\ UNCHANGED <<part, vars>>

MCSpec == MCInit /\ [][MCNext]_<<part, vars, passVars>> /\ Fairness
=============================================================================
