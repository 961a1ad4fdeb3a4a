-------------------------- MODULE ProjectFinalize --------------------------
(***************************************************************************)
(* `project finalize', and the finalize that a submission and a worker run *)
(* on their own (`resolve_runtime_run'): several processes on one project, *)
(* while its user edits documents and data and replaces locks.             *)
(*                                                                         *)
(* Simplifications.  Every dataset of the project has the same data root   *)
(* and one output root, which stays empty.  A validation reads everything  *)
(* in one step; installing a lock is one step (`hard_link'), a rollback    *)
(* reads and removes in two.                                               *)
(***************************************************************************)
EXTENDS DatasetLock

CONSTANTS Procs,      \* the processes
          Resolvers,  \* those that prepare a run; the others are `project finalize'
          Groups,     \* how many locks the project has: a lock path is a place in their order
          Worlds,     \* what may lie in the data root
          Documents,  \* the project's documents: complete, and the interval of each group
          MaxEdits,   \* how often the user edits
          Replacing   \* whether the user also runs `data lock --replace'

ASSUME FinalizeAssumption ==
    /\ Groups \in Nat /\ MaxEdits \in Nat
    /\ {"none", "user"} \cap Procs = {}
    /\ \A d \in Documents : d.complete \in BOOLEAN

VARIABLES data, docs, edits,
          locks,    \* the file at each lock path, or NoLock
          owner,    \* history: which process installed it
          root,     \* whether the output root exists
          proc,     \* the processes
          calm      \* history: whether nobody else has acted since a process began

vars == <<data, docs, edits, locks, owner, root, proc, calm>>

Paths == 1 .. Groups
Ended == {"finalized", "failed", "refused", "unresolved", "crashed"}

SpecIn(coverage, g) == [dataset |-> g, root |-> "root", profile |-> "p",
                        coverage |-> coverage[g], capabilities |-> Provides["p"]]
SpecOf(g) == SpecIn(docs.coverage, g)

\* What a process holds: the coverage it read, the paths that it is to fill, the lock it
\* has built for a path, and the paths where it has installed one.
Idle == [at |-> "idle", coverage |-> CHOOSE c \in {d.coverage : d \in Documents} : TRUE,
         todo |-> {}, built |-> [g \in {} |-> NoLock], installed |-> {},
         madeRoot |-> FALSE, spoiled |-> FALSE]

Init ==
    /\ data \in Worlds /\ docs \in Documents /\ edits = 0
    /\ locks = [g \in Paths |-> NoLock] /\ owner = [g \in Paths |-> "none"]
    /\ root = FALSE /\ proc = [p \in Procs |-> Idle]
    /\ calm = [p \in Procs |-> [alone |-> FALSE, current |-> FALSE]]

-----------------------------------------------------------------------------
\* validate_project.

HasErrors == docs.complete /\ \E g \in Paths : locks[g] # NoLock /\ ~ Serves(locks[g], SpecOf(g), data)
Ready == docs.complete /\ root /\ \A g \in Paths : Serves(locks[g], SpecOf(g), data)
Configured == docs.complete /\ ~ Ready /\ ~ HasErrors

\* The data root holds all that finalization needs.
DataReady ==
    docs.complete /\ \A g \in Paths : Serves(BuildLock(data, SpecOf(g)), SpecOf(g), data)

-----------------------------------------------------------------------------
\* One process.

\* p moves on; the calm of the others is over.
Move(p, changed) ==
    /\ proc' = [proc EXCEPT ![p] = changed]
    /\ calm' = [q \in Procs |-> IF q = p \/ proc[q].at \in Ended THEN calm[q]
                                ELSE [calm[q] EXCEPT !.alone = FALSE]]
    /\ UNCHANGED <<data, docs, edits>>

To(p, at) == Move(p, [proc[p] EXCEPT !.at = at])
KeepDisk == UNCHANGED <<locks, owner, root>>

\* A submission or a worker with a finalized project does not finalize; any other begins.
Begin(p) ==
    /\ proc[p].at = "idle"
    /\ proc' = [proc EXCEPT ![p].at =
                  IF p \notin Resolvers \/ Configured THEN "preflight"
                  ELSE IF Ready THEN "finalized" ELSE "unresolved"]
    /\ calm' = [q \in Procs |->
                  IF q = p THEN [alone |-> (p \notin Resolvers \/ Configured) /\ DataReady
                                           /\ \A r \in Procs \ {p} : proc[r].at \in Ended \union {"idle"},
                                 current |-> ~ HasErrors]
                  ELSE IF proc[q].at \in Ended THEN calm[q] ELSE [calm[q] EXCEPT !.alone = FALSE]]
    /\ UNCHANGED <<data, docs, edits, locks, owner, root>>

\* Locks that do not serve, and incomplete documents, end it before anything is changed.
Preflight(p) ==
    /\ proc[p].at = "preflight" /\ KeepDisk
    /\ To(p, IF HasErrors \/ ~ docs.complete THEN "refused" ELSE "partition")

\* The lock paths that have no file.
Missing == {g \in Paths : locks[g] = NoLock}

\* Existing locks are checked again and reused, missing ones are to be built.
Partition(p) ==
    /\ proc[p].at = "partition" /\ KeepDisk
    /\ IF HasErrors \/ ~ docs.complete THEN To(p, "refused")
       ELSE Move(p, [proc[p] EXCEPT !.at = "build", !.coverage = docs.coverage,
                                    !.todo = Missing])

WithLock(built, g, l) ==
    [h \in DOMAIN built \union {g} |-> IF h = g THEN l ELSE built[h]]

\* build_lock of the next group; after the last one comes the output root.
Build(p) ==
    LET r == proc[p]
    IN  /\ r.at = "build" /\ KeepDisk
        /\ IF DOMAIN r.built = r.todo THEN To(p, "roots")
           ELSE LET g == Min(r.todo \ DOMAIN r.built)
                    l == BuildLock(data, SpecIn(r.coverage, g))
                IN  IF l # NoLock THEN Move(p, [r EXCEPT !.built = WithLock(@, g, l)])
                    ELSE To(p, "refused")

\* prepare_output_roots: what it created is removed again when the probe fails.
PrepareRoots(p) ==
    /\ proc[p].at = "roots" /\ UNCHANGED <<locks, owner>>
    /\ \/ root' = TRUE /\ Move(p, [proc[p] EXCEPT !.at = "persist", !.madeRoot = ~ root])
       \/ root' = root /\ Move(p, [proc[p] EXCEPT !.at = "failed", !.spoiled = TRUE])

NextLock(r) == Min(r.todo \ r.installed)
LastLock(r) == Max(r.installed)

\* Mutation of Installs: the file is written whether or not one is there.
InstallsOver(p, g) == TRUE

\* The link is made only where no file is.
Installs(p, g) == locks[g] = NoLock

\* persist_lock without replacement: the next lock appears complete or not at all, and
\* when the temporary cannot be removed after that, it stays although the call fails.
Persist(p) ==
    LET r == proc[p]
    IN  /\ r.at = "persist" /\ root' = root
        /\ IF r.installed = r.todo
           THEN To(p, "postflight") /\ UNCHANGED <<locks, owner>>
           ELSE \/ /\ Installs(p, NextLock(r))
                   /\ locks' = [locks EXCEPT ![NextLock(r)] = r.built[NextLock(r)]]
                   /\ owner' = [owner EXCEPT ![NextLock(r)] = p]
                   /\ \/ Move(p, [r EXCEPT !.installed = @ \union {NextLock(r)}])
                      \/ Move(p, [r EXCEPT !.at = "rollback", !.spoiled = TRUE])
                \/ /\ ~ Installs(p, NextLock(r)) /\ To(p, "rollback") /\ UNCHANGED <<locks, owner>>
                \/ /\ Move(p, [r EXCEPT !.at = "rollback", !.spoiled = TRUE])
                   /\ UNCHANGED <<locks, owner>>

\* Mutation of Failing: what was installed stays.
FailingWithout(p) == "failed"

\* Where a process goes that cannot finish.
Failing(p) == "rollback"

\* The project must now be finalized; a run validates it once more.
Postflight(p) ==
    /\ proc[p].at = "postflight" /\ KeepDisk
    /\ To(p, IF ~ Ready THEN Failing(p) ELSE IF p \in Resolvers THEN "recheck" ELSE "finalized")

Recheck(p) ==
    /\ proc[p].at = "recheck" /\ KeepDisk
    /\ To(p, IF Ready THEN "finalized" ELSE "unresolved")

\* rollback_created_locks reads the last lock: it is kept when others have changed it.
RollbackRead(p) ==
    LET r == proc[p]
        g == LastLock(r)
    IN  /\ r.at = "rollback" /\ KeepDisk
        /\ IF r.installed = {} THEN To(p, "cleanup")
           ELSE IF locks[g] = r.built[g] THEN To(p, "remove")
           ELSE Move(p, [r EXCEPT !.installed = @ \ {g}])

\* ... and removes it, or fails to.
RollbackRemove(p) ==
    LET r == proc[p]
        g == LastLock(r)
    IN  /\ r.at = "remove" /\ root' = root
        /\ \/ /\ locks' = [locks EXCEPT ![g] = NoLock]
              /\ owner' = [owner EXCEPT ![g] = "none"]
              /\ Move(p, [r EXCEPT !.at = "rollback", !.installed = @ \ {g}])
           \/ /\ Move(p, [r EXCEPT !.at = "rollback", !.installed = @ \ {g}, !.spoiled = TRUE])
              /\ UNCHANGED <<locks, owner>>

\* cleanup_created_output_roots.
Cleanup(p) ==
    /\ proc[p].at = "cleanup" /\ UNCHANGED <<locks, owner>>
    /\ root' = (root /\ ~ proc[p].madeRoot)
    /\ To(p, "failed")

Crash(p) == proc[p].at \notin Ended \union {"idle"} /\ To(p, "crashed") /\ KeepDisk

-----------------------------------------------------------------------------
\* The user.

Disturb ==
    /\ edits < MaxEdits /\ edits' = edits + 1
    /\ calm' = [q \in Procs |-> IF proc[q].at \in Ended THEN calm[q] ELSE [calm[q] EXCEPT !.alone = FALSE]]
    /\ UNCHANGED <<root, proc>>

ChangeData == data' \in Worlds \ {data} /\ Disturb /\ UNCHANGED <<docs, locks, owner>>
ChangeDocs == docs' \in Documents \ {docs} /\ Disturb /\ UNCHANGED <<data, locks, owner>>

\* `data lock --replace': an atomic rename over whatever is there.
Replace(g) ==
    /\ Replacing /\ docs.complete /\ Disturb
    /\ BuildLock(data, SpecOf(g)) # NoLock
    /\ locks' = [locks EXCEPT ![g] = BuildLock(data, SpecOf(g))]
    /\ owner' = [owner EXCEPT ![g] = "user"]
    /\ UNCHANGED <<data, docs>>

ProcStep(p) ==
    \/ Begin(p) \/ Preflight(p) \/ Partition(p) \/ Build(p) \/ PrepareRoots(p)
    \/ Persist(p) \/ Postflight(p) \/ Recheck(p)
    \/ RollbackRead(p) \/ RollbackRemove(p) \/ Cleanup(p) \/ Crash(p)

Next ==
    \/ \E p \in Procs : ProcStep(p)
    \/ ChangeData \/ ChangeDocs \/ \E g \in Paths : Replace(g)

Spec == Init /\ [][Next]_vars

-----------------------------------------------------------------------------
\* The type invariant: a process builds in the order of the paths, installs in that order
\* what it has built, and has built all of it by then.
IsPrefixOf(done, all) ==
    done \subseteq all /\ \A g \in done, h \in all : h < g => h \in done

TypeOK ==
    /\ data \in Worlds /\ docs \in Documents /\ edits \in 0 .. MaxEdits /\ root \in BOOLEAN
    /\ \A g \in Paths : owner[g] \in Procs \union {"none", "user"} /\ (owner[g] = "none") = (locks[g] = NoLock)
    /\ \A p \in Procs : LET r == proc[p] IN
          /\ r.todo \subseteq Paths
          /\ IsPrefixOf(DOMAIN r.built, r.todo) /\ IsPrefixOf(r.installed, r.todo)
          /\ (r.installed # {} => DOMAIN r.built = r.todo)

\* A process never changes or removes a lock that another process has installed, whatever
\* the others install or roll back around it; and one of the user only in a rollback, where
\* it had installed a lock itself.
OwnLocksMove ==
    \A p \in Procs : proc[p] # proc'[p] =>
        \A g \in Paths : locks'[g] # locks[g] =>
            \/ owner[g] \in {"none", p}
            \/ owner[g] = "user" /\ proc[p].at = "remove" /\ g \in proc[p].installed
OnlyOwnLocks == [][OwnLocksMove]_vars

\* A finalization that fails leaves no lock of its own, unless the file system failed
\* under it or it was killed.
FailedLeavesNothing ==
    \A p \in Procs : proc[p].at \in {"failed", "refused"} /\ ~ proc[p].spoiled =>
        \A g \in Paths : owner[g] # p

\* A process that is alone on a project with complete documents, complete data and no
\* outdated lock finalizes it, whatever crashed processes have left there.
QuietSucceeds ==
    \A p \in Procs : calm[p].alone /\ calm[p].current /\ ~ proc[p].spoiled =>
        proc[p].at \notin {"failed", "refused", "unresolved"}

\* A finalization that fails undoes its own locks, and one that nobody disturbs succeeds,
\* whatever a killed process left.
FinalizeRecovers == TypeOK /\ FailedLeavesNothing /\ QuietSucceeds

\* The manual: after a change of documents or data the user finalizes again, and the
\* locks are replaced once the preflight has succeeded.
RefinalizeSucceeds ==
    \A p \in Procs : calm[p].alone /\ ~ proc[p].spoiled =>
        proc[p].at \notin {"failed", "refused", "unresolved"}

\* The manual: a project that was finalized, and that nobody edits, has its documents,
\* data and locks in agreement (the file system working).
FinalizedStays ==
    /\ edits = 0 /\ \A p \in Procs : ~ proc[p].spoiled
    /\ \E p \in Procs : proc[p].at = "finalized"
    => Ready

\* The message of the rollback: it refuses to remove a lock that was changed concurrently.
RollbackSparesChanged ==
    [][\A p \in Procs : LET r == proc[p] IN
          r.at = "remove" /\ proc'[p] # r =>
             \A g \in Paths : locks'[g] # locks[g] => locks[g] = r.built[g]]_vars
=============================================================================
