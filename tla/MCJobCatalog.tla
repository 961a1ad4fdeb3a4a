---------------------------- MODULE MCJobCatalog ----------------------------
(***************************************************************************)
(* JobCatalog on small tables: one run with progress, memory pressure and  *)
(* two daemons, or two runs of a series without those.                     *)
(***************************************************************************)
EXTENDS JobCatalog

OneIsRich ==
    Cardinality(Rows) > 1 =>
        /\ recovery.daemon # "d2"
        /\ \A r \in Runs : /\ bypass[r] = 0 /\ lease[r].daemon # "d2"
                           /\ Logged(r, "progress") \union Logged(r, "warning")
                                \union Logged(r, "reattached") = {}

MCSpec == Init /\ [][Next /\ OneIsRich']_vars
=============================================================================
