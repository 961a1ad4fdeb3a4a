------------------------ MODULE ProjectFinalize_proofs ------------------------
(***************************************************************************)
(* Finalization of a project, for any number of processes, locks and       *)
(* edits: a process that fails undoes what it installed, one that nobody   *)
(* disturbs succeeds, and no process touches a lock that another one has   *)
(* installed.                                                              *)
(***************************************************************************)
EXTENDS ProjectFinalize, NaturalsInduction, WellFoundedInduction, TLAPS

-----------------------------------------------------------------------------
\* The inductive invariant.

Coverages == {d.coverage : d \in Documents}
Locks == {BuildLock(w, SpecIn(c, g)) : w \in Worlds, c \in Coverages, g \in Paths}
Places == {"idle", "preflight", "partition", "build", "roots", "persist", "postflight",
           "recheck", "rollback", "remove", "cleanup"} \union Ended
Processes == [at : Places, coverage : Coverages, todo : SUBSET Paths,
              built : UNION {[D -> Locks] : D \in SUBSET Paths}, installed : SUBSET Paths,
              madeRoot : BOOLEAN, spoiled : BOOLEAN]

\* What the variables hold.
Typed ==
    /\ data \in Worlds /\ docs \in Documents /\ edits \in 0 .. MaxEdits /\ root \in BOOLEAN
    /\ locks \in [Paths -> Locks \union {NoLock}]
    /\ owner \in [Paths -> Procs \union {"none", "user"}]
    /\ proc \in [Procs -> Processes]
    /\ calm \in [Procs -> [alone : BOOLEAN, current : BOOLEAN]]

\* How far a process is: before it builds it holds nothing, before it installs it has built
\* everything, and a rollback ends when nothing is left.
Progress(r) ==
    /\ IsPrefixOf(DOMAIN r.built, r.todo) /\ IsPrefixOf(r.installed, r.todo)
    /\ \A g \in DOMAIN r.built : r.built[g] # NoLock
    /\ r.at \in {"idle", "preflight", "partition"} => r.todo = {}
    /\ r.at \in {"idle", "preflight", "partition", "build", "roots", "cleanup", "failed", "refused"}
          => r.installed = {}
    /\ r.at \in {"roots", "persist", "postflight", "recheck", "rollback", "remove"} \/ r.installed # {}
          => DOMAIN r.built = r.todo
    /\ r.at \in {"postflight", "recheck"} => r.installed = r.todo
    /\ r.at = "remove" => r.installed # {}

\* Whoever has installed at a path still finds a lock there, its own or one the user has put
\* over it; and a lock of its own is the one it has built, or its call has failed half way.
Owned(p) ==
    /\ \A g \in proc[p].installed : owner[g] \in {p, "user"}
    /\ \A g \in Paths : owner[g] = p /\ ~ proc[p].spoiled =>
          g \in proc[p].installed /\ locks[g] = proc[p].built[g]
    /\ \A q \in Procs \ {p} : proc[p].installed \cap proc[q].installed = {}

OwnerTells == \A g \in Paths : owner[g] = "none" <=> locks[g] = NoLock

\* What a process that nobody has disturbed knows of the project.
Kept(r) == \A g \in Paths \ r.todo : Serves(locks[g], SpecOf(g), data)
Fresh(r) == \A g \in DOMAIN r.built : r.built[g] = BuildLock(data, SpecOf(g))
Ahead(r) == \A g \in r.todo \ r.installed : locks[g] = NoLock
Done(r) == \A g \in r.installed : locks[g] = r.built[g]

Knows(r) ==
    /\ r.at \notin {"rollback", "remove", "cleanup", "failed", "refused", "unresolved"}
    /\ r.at \in {"preflight", "partition", "build", "roots", "persist", "postflight"} => DataReady
    /\ r.at \in {"preflight", "partition"} => ~ HasErrors
    /\ r.at \in {"build", "roots", "persist", "postflight"} =>
          r.coverage = docs.coverage /\ Kept(r) /\ Fresh(r) /\ Ahead(r) /\ Done(r)
    /\ r.at \in {"persist", "postflight"} => root
    /\ r.at = "recheck" => Ready

Quiet(p) == calm[p].alone /\ calm[p].current /\ ~ proc[p].spoiled => Knows(proc[p])

FinalizeInv ==
    /\ Typed /\ OwnerTells
    /\ \A p \in Procs : Progress(proc[p]) /\ Owned(p) /\ Quiet(p)
-----------------------------------------------------------------------------
\* The first and the last of a set of paths.

LEMMA LowestExists ==
    ASSUME NEW S \in SUBSET Nat, S # {}
    PROVE  \E l \in S : \A j \in S : l <= j
PROOF
  <1>1. IsWellFoundedOn({ss \in Nat \X Nat : ss[1] < ss[2]}, Nat)
    BY NatLessThanWellFounded DEF OpToRel
  <1>2. PICK l \in S : \A j \in S : ~ (<<j, l>> \in {ss \in Nat \X Nat : ss[1] < ss[2]})
    <2>1. \A R : IsWellFoundedOn(R, Nat) => \E x \in S : \A y \in S : ~ (<<y, x>> \in R)
      BY WFMin
    <2>. QED BY <1>1, <2>1
  <1>3. \A j \in S : ~ (j < l) /\ j \in Nat /\ l \in Nat
    BY <1>2
  <1>. QED BY <1>3

LEMMA MinIs ==
    ASSUME NEW S \in SUBSET Paths, S # {}
    PROVE  Min(S) \in S /\ \A h \in S : Min(S) <= h
PROOF
  <1>1. S \in SUBSET Nat
    BY FinalizeAssumption DEF Paths
  <1>2. \E x \in S : \A y \in S : x <= y
    BY <1>1, LowestExists
  <1>. QED BY <1>2 DEF Min

LEMMA MaxIs ==
    ASSUME NEW S \in SUBSET Paths, S # {}
    PROVE  Max(S) \in S /\ \A h \in S : h <= Max(S)
PROOF
  <1>1. \A h \in S : h \in Nat /\ Groups - h \in Nat
    BY FinalizeAssumption DEF Paths
  <1>2. PICK T : T = {Groups - h : h \in S}
    OBVIOUS
  <1>3. T \in SUBSET Nat /\ T # {}
    BY <1>1, <1>2
  <1>4. PICK l \in T : \A j \in T : l <= j
    BY <1>3, LowestExists
  <1>5. PICK g \in S : l = Groups - g
    BY <1>2, <1>4
  <1>6. \A h \in S : Groups - g <= Groups - h
    BY <1>2, <1>4, <1>5
  <1>7. \A h \in S : h <= g
    BY <1>1, <1>6, FinalizeAssumption
  <1>8. \E x \in S : \A y \in S : x >= y
    BY <1>1, <1>7
  <1>9. Max(S) \in S /\ \A y \in S : Max(S) >= y
    BY <1>8 DEF Max
  <1>. QED BY <1>1, <1>9

\* What is done in order stays so with the next of the rest, and without the last.
LEMMA PrefixGrows ==
    ASSUME NEW all \in SUBSET Paths, NEW done, IsPrefixOf(done, all), done # all
    PROVE  /\ Min(all \ done) \in all \ done
           /\ IsPrefixOf(done \union {Min(all \ done)}, all)
PROOF
  <1>1. done \subseteq all /\ (\A g \in done, h \in all : h < g => h \in done)
    BY DEF IsPrefixOf
  <1>2. PICK rest : rest = all \ done
    OBVIOUS
  <1>3. rest \in SUBSET Paths /\ rest # {}
    BY <1>1, <1>2
  <1>4. PICK m \in rest : m = Min(rest) /\ \A h \in rest : m <= h
    BY <1>3, MinIs
  <1>5. ASSUME NEW h \in all, h < m
        PROVE  h \in done
    BY <1>2, <1>4, <1>5, FinalizeAssumption DEF Paths
  <1>6. IsPrefixOf(done \union {m}, all)
    BY <1>1, <1>2, <1>4, <1>5 DEF IsPrefixOf
  <1>. QED BY <1>2, <1>4, <1>6

LEMMA PrefixShrinks ==
    ASSUME NEW all \in SUBSET Paths, NEW done, IsPrefixOf(done, all), done # {}
    PROVE  /\ Max(done) \in done
           /\ IsPrefixOf(done \ {Max(done)}, all)
PROOF
  <1>1. done \in SUBSET Paths /\ done \subseteq all /\ (\A g \in done, h \in all : h < g => h \in done)
    BY DEF IsPrefixOf
  <1>2. PICK m \in done : m = Max(done) /\ \A h \in done : h <= m
    BY <1>1, MaxIs
  <1>3. ASSUME NEW g \in done \ {m}, NEW h \in all, h < g
        PROVE  h \in done \ {m}
    <2>1. g <= m /\ g \in Nat /\ h \in Nat /\ m \in Nat
      BY <1>1, <1>2, FinalizeAssumption DEF Paths
    <2>. QED BY <1>1, <1>2, <1>3, <2>1
  <1>4. IsPrefixOf(done \ {m}, all)
    BY <1>1, <1>3 DEF IsPrefixOf
  <1>. QED BY <1>2, <1>4

-----------------------------------------------------------------------------
\* A step of one process.

LEMMA MoveIs ==
    ASSUME Typed, NEW p \in Procs, NEW c \in Processes, Move(p, c)
    PROVE  /\ proc' \in [Procs -> Processes] /\ proc'[p] = c
           /\ calm' \in [Procs -> [alone : BOOLEAN, current : BOOLEAN]] /\ calm'[p] = calm[p]
           /\ \A q \in Procs \ {p} :
                 /\ proc'[q] = proc[q]
                 /\ \/ proc[q].at \in Ended /\ calm'[q] = calm[q]
                    \/ calm'[q].alone = FALSE
           /\ data' = data /\ docs' = docs /\ edits' = edits
PROOF
  <1>1. proc \in [Procs -> Processes] /\ calm \in [Procs -> [alone : BOOLEAN, current : BOOLEAN]]
    BY DEF Typed
  <1>2. proc' = [proc EXCEPT ![p] = c] /\ data' = data /\ docs' = docs /\ edits' = edits
    BY DEF Move
  <1>3. proc' \in [Procs -> Processes] /\ proc'[p] = c
        /\ \A q \in Procs \ {p} : proc'[q] = proc[q]
    BY <1>1, <1>2
  <1>4. calm' = [q \in Procs |-> IF q = p \/ proc[q].at \in Ended THEN calm[q]
                                 ELSE [calm[q] EXCEPT !.alone = FALSE]]
    BY DEF Move
  <1>5. \A q \in Procs : /\ [calm[q] EXCEPT !.alone = FALSE] \in [alone : BOOLEAN, current : BOOLEAN]
                         /\ [calm[q] EXCEPT !.alone = FALSE].alone = FALSE
    BY <1>1
  <1>6. calm' \in [Procs -> [alone : BOOLEAN, current : BOOLEAN]]
    BY <1>1, <1>4, <1>5
  <1>7. calm'[p] = calm[p]
    BY <1>4
  <1>8. \A q \in Procs \ {p} : \/ proc[q].at \in Ended /\ calm'[q] = calm[q]
                               \/ calm'[q].alone = FALSE
    BY <1>4, <1>5
  <1>. QED BY <1>2, <1>3, <1>6, <1>7, <1>8

\* Who has ended is past all that a change of the project can touch.
LEMMA EndedStays ==
    ASSUME NEW q \in Procs, Quiet(q), proc'[q] = proc[q],
           \/ proc[q].at \in Ended /\ calm'[q] = calm[q]
           \/ calm'[q].alone = FALSE
    PROVE  Quiet(q)'
PROOF
  <1>1. CASE calm'[q].alone = FALSE
    BY <1>1 DEF Quiet
  <1>2. CASE proc[q].at \in Ended /\ calm'[q] = calm[q]
    BY <1>2 DEF Quiet, Knows, Ended
  <1>. QED BY <1>1, <1>2

\* What a process may change, for those who watch.
Touches(p) ==
    \A g \in Paths :
        \/ locks'[g] = locks[g] /\ owner'[g] = owner[g]
        \/ owner[g] = "none" /\ owner'[g] = p
        \/ g \in proc[p].installed /\ owner'[g] = "none"

LEMMA OthersKeep ==
    ASSUME NEW p \in Procs, NEW q \in Procs \ {p}, Owned(q), Touches(p), Progress(proc[q]),
           proc[q] \in Processes, proc'[q] = proc[q],
           proc'[p].installed \subseteq proc[p].installed \union {g \in Paths : owner[g] = "none"}
    PROVE  /\ \A g \in proc'[q].installed : owner'[g] \in {q, "user"}
           /\ \A g \in Paths : owner'[g] = q /\ ~ proc'[q].spoiled =>
                 g \in proc'[q].installed /\ locks'[g] = proc'[q].built[g]
           /\ proc'[q].installed \cap proc'[p].installed = {}
PROOF
  <1>1. p # q /\ q \notin {"none", "user"} /\ p \notin {"none", "user"}
    BY FinalizeAssumption
  <1>2. PICK r \in Processes : r = proc[q] /\ r = proc'[q]
    OBVIOUS
  <1>3. /\ \A g \in r.installed : owner[g] \in {q, "user"}
        /\ \A g \in Paths : owner[g] = q /\ ~ r.spoiled => g \in r.installed /\ locks[g] = r.built[g]
        /\ r.installed \cap proc[p].installed = {}
        /\ r.installed \subseteq Paths
    BY <1>2 DEF Owned, Processes
  <1>4. \A g \in r.installed : owner'[g] = owner[g]
    BY <1>1, <1>3 DEF Touches
  <1>5. \A g \in Paths : owner'[g] = q => owner[g] = q /\ locks'[g] = locks[g]
    BY <1>1 DEF Touches
  <1>6. r.installed \cap proc'[p].installed = {}
    BY <1>1, <1>3
  <1>. QED BY <1>2, <1>3, <1>4, <1>5, <1>6

\* A step of p keeps the invariant when p does.
LEMMA Stepped ==
    ASSUME FinalizeInv, NEW p \in Procs, NEW c \in Processes, Touches(p),
           proc' \in [Procs -> Processes], proc'[p] = c,
           calm' \in [Procs -> [alone : BOOLEAN, current : BOOLEAN]],
           \A q \in Procs \ {p} : /\ proc'[q] = proc[q]
                                 /\ \/ proc[q].at \in Ended /\ calm'[q] = calm[q]
                                    \/ calm'[q].alone = FALSE,
           data' = data, docs' = docs, edits' = edits,
           root' \in BOOLEAN, locks' \in [Paths -> Locks \union {NoLock}],
           owner' \in [Paths -> Procs \union {"none", "user"}], OwnerTells',
           Progress(c), c.installed \subseteq proc[p].installed \union {g \in Paths : owner[g] = "none"},
           \A g \in c.installed : owner'[g] \in {p, "user"},
           \A g \in Paths : owner'[g] = p /\ ~ c.spoiled => g \in c.installed /\ locks'[g] = c.built[g],
           calm'[p].alone /\ calm'[p].current /\ ~ c.spoiled => Knows(proc[p])'
    PROVE  FinalizeInv'
PROOF
  <1>1. /\ Typed /\ \A q \in Procs : Progress(proc[q]) /\ Owned(q) /\ Quiet(q)
    BY DEF FinalizeInv
  <1>2. Typed'
    BY <1>1 DEF Typed
  <1>3. \A q \in Procs \ {p} : proc[q] \in Processes
    BY <1>1 DEF Typed
  <1>4. \A q \in Procs \ {p} :
           /\ \A g \in proc'[q].installed : owner'[g] \in {q, "user"}
           /\ \A g \in Paths : owner'[g] = q /\ ~ proc'[q].spoiled =>
                 g \in proc'[q].installed /\ locks'[g] = proc'[q].built[g]
           /\ proc'[q].installed \cap proc'[p].installed = {}
    <2>. TAKE q \in Procs \ {p}
    <2>. QED BY <1>1, <1>3, OthersKeep
  <1>5. \A a, b \in Procs \ {p} : a # b => proc'[a].installed \cap proc'[b].installed = {}
    BY <1>1 DEF Owned
  <1>6. \A q \in Procs : Owned(q)'
    <2>. TAKE q \in Procs
    <2>1. CASE q = p
      BY <1>4, <2>1 DEF Owned
    <2>2. CASE q # p
      BY <1>4, <1>5, <2>2 DEF Owned
    <2>. QED BY <2>1, <2>2
  <1>7. \A q \in Procs : Progress(proc[q])'
    <2>. TAKE q \in Procs
    <2>1. PICK r : r = proc'[q]
      OBVIOUS
    <2>2. Progress(r)
      BY <1>1, <2>1
    <2>. QED BY <2>1, <2>2 DEF Progress, IsPrefixOf
  <1>8. \A q \in Procs : Quiet(q)'
    <2>. TAKE q \in Procs
    <2>1. CASE q = p
      BY <2>1 DEF Quiet
    <2>2. CASE q # p
      BY <1>1, <2>2, EndedStays
    <2>. QED BY <2>1, <2>2
  <1>. QED BY <1>2, <1>6, <1>7, <1>8 DEF FinalizeInv

\* The same for a step that leaves the calm of p as it was.
LEMMA Moved ==
    ASSUME FinalizeInv, NEW p \in Procs, NEW c \in Processes, Move(p, c), Touches(p),
           root' \in BOOLEAN, locks' \in [Paths -> Locks \union {NoLock}],
           owner' \in [Paths -> Procs \union {"none", "user"}], OwnerTells',
           Progress(c), c.installed \subseteq proc[p].installed \union {g \in Paths : owner[g] = "none"},
           \A g \in c.installed : owner'[g] \in {p, "user"},
           \A g \in Paths : owner'[g] = p /\ ~ c.spoiled => g \in c.installed /\ locks'[g] = c.built[g],
           calm[p].alone /\ calm[p].current /\ ~ c.spoiled => Knows(proc[p])'
    PROVE  FinalizeInv'
PROOF
  <1>1. Typed
    BY DEF FinalizeInv
  <1>2. /\ proc' \in [Procs -> Processes] /\ proc'[p] = c
        /\ calm' \in [Procs -> [alone : BOOLEAN, current : BOOLEAN]] /\ calm'[p] = calm[p]
        /\ \A q \in Procs \ {p} : /\ proc'[q] = proc[q]
                                  /\ \/ proc[q].at \in Ended /\ calm'[q] = calm[q]
                                     \/ calm'[q].alone = FALSE
        /\ data' = data /\ docs' = docs /\ edits' = edits
    BY <1>1, MoveIs
  <1>. QED BY <1>2, Stepped

\* A step of p that leaves the locks alone.
LEMMA KeepsLocks ==
    ASSUME FinalizeInv, NEW p \in Procs, NEW c \in Processes, Move(p, c),
           locks' = locks, owner' = owner, root' \in BOOLEAN,
           c.installed = proc[p].installed, c.built = proc[p].built \/ c.installed = {},
           c.spoiled = proc[p].spoiled \/ c.spoiled = TRUE, Progress(c),
           calm[p].alone /\ calm[p].current /\ ~ c.spoiled => Knows(proc[p])'
    PROVE  FinalizeInv'
PROOF
  <1>1. Typed /\ OwnerTells /\ Owned(p)
    BY DEF FinalizeInv
  <1>2. Touches(p)
    BY DEF Touches
  <1>3. locks' \in [Paths -> Locks \union {NoLock}] /\ owner' \in [Paths -> Procs \union {"none", "user"}]
    BY <1>1 DEF Typed
  <1>4. OwnerTells'
    BY <1>1 DEF OwnerTells
  <1>5. \A g \in c.installed : owner'[g] \in {p, "user"}
    BY <1>1 DEF Owned
  <1>6. \A g \in Paths : owner'[g] = p /\ ~ c.spoiled => g \in c.installed /\ locks'[g] = c.built[g]
    <2>1. CASE c.spoiled = TRUE
      BY <2>1
    <2>2. CASE c.spoiled = proc[p].spoiled
      BY <1>1, <2>2 DEF Owned
    <2>. QED BY <2>1, <2>2
  <1>7. c.installed \subseteq proc[p].installed \union {g \in Paths : owner[g] = "none"}
    OBVIOUS
  <1>. QED BY <1>2, <1>3, <1>4, <1>5, <1>6, <1>7, Moved

\* What becomes of a process of which one thing changes.
LEMMA AtIs ==
    ASSUME NEW r \in Processes, NEW x \in Places, NEW c, c = [r EXCEPT !.at = x]
    PROVE  /\ c \in Processes /\ c.at = x /\ c.coverage = r.coverage /\ c.todo = r.todo
           /\ c.built = r.built /\ c.installed = r.installed /\ c.spoiled = r.spoiled
PROOF
  <1>1. PICK B : B = UNION {[D -> Locks] : D \in SUBSET Paths}
    OBVIOUS
  <1>2. Processes = [at : Places, coverage : Coverages, todo : SUBSET Paths, built : B,
                     installed : SUBSET Paths, madeRoot : BOOLEAN, spoiled : BOOLEAN]
    BY <1>1 DEF Processes
  <1>. QED BY <1>2

LEMMA InstalledIs ==
    ASSUME NEW r \in Processes, NEW S \in SUBSET Paths, NEW c, c = [r EXCEPT !.installed = S]
    PROVE  /\ c \in Processes /\ c.at = r.at /\ c.coverage = r.coverage /\ c.todo = r.todo
           /\ c.built = r.built /\ c.installed = S /\ c.spoiled = r.spoiled
PROOF
  <1>1. PICK B : B = UNION {[D -> Locks] : D \in SUBSET Paths}
    OBVIOUS
  <1>2. Processes = [at : Places, coverage : Coverages, todo : SUBSET Paths, built : B,
                     installed : SUBSET Paths, madeRoot : BOOLEAN, spoiled : BOOLEAN]
    BY <1>1 DEF Processes
  <1>. QED BY <1>2

LEMMA BuiltIs ==
    ASSUME NEW r \in Processes, NEW f \in UNION {[D -> Locks] : D \in SUBSET Paths},
           NEW c, c = [r EXCEPT !.built = f]
    PROVE  /\ c \in Processes /\ c.at = r.at /\ c.coverage = r.coverage /\ c.todo = r.todo
           /\ c.built = f /\ c.installed = r.installed /\ c.spoiled = r.spoiled
PROOF
  <1>1. PICK B : B = UNION {[D -> Locks] : D \in SUBSET Paths}
    OBVIOUS
  <1>2. Processes = [at : Places, coverage : Coverages, todo : SUBSET Paths, built : B,
                     installed : SUBSET Paths, madeRoot : BOOLEAN, spoiled : BOOLEAN]
    BY <1>1 DEF Processes
  <1>. QED BY <1>1, <1>2

-----------------------------------------------------------------------------
\* The actions of a process.

LEMMA HereIs ==
    ASSUME FinalizeInv, NEW p \in Procs
    PROVE  \E r \in Processes :
              /\ r = proc[p] /\ Progress(r)
              /\ calm[p].alone /\ calm[p].current /\ ~ r.spoiled => Knows(r)
PROOF
  <1>1. proc[p] \in Processes /\ Progress(proc[p]) /\ Quiet(p)
    BY DEF FinalizeInv, Typed
  <1>. QED BY <1>1 DEF Quiet

\* What is known of the project stays known while nothing changes.
LEMMA KnowsOn ==
    ASSUME NEW p \in Procs, NEW c, proc'[p] = c, data' = data, docs' = docs, locks' = locks,
           root' = root, Knows(c)
    PROVE  Knows(proc[p])'
PROOF
  <1>1. DataReady' = DataReady /\ HasErrors' = HasErrors /\ Ready' = Ready
    BY DEF DataReady, HasErrors, Ready, SpecOf
  <1>2. /\ Kept(c) => Kept(proc[p])'
        /\ Fresh(c) => Fresh(proc[p])'
        /\ Ahead(c) => Ahead(proc[p])'
        /\ Done(c) => Done(proc[p])'
    BY DEF Kept, Fresh, Ahead, Done, SpecOf
  <1>. QED BY <1>1, <1>2 DEF Knows

\* A step that only moves p on.
LEMMA ToKeeps ==
    ASSUME FinalizeInv, NEW p \in Procs, NEW x \in Places, To(p, x), KeepDisk,
           NEW c, c = [proc[p] EXCEPT !.at = x], Progress(c),
           calm[p].alone /\ calm[p].current /\ ~ c.spoiled => Knows(c)
    PROVE  FinalizeInv'
PROOF
  <1>1. PICK r \in Processes : r = proc[p]
    BY HereIs
  <1>2. c \in Processes /\ c.built = r.built /\ c.installed = r.installed /\ c.spoiled = r.spoiled
    BY <1>1, AtIs
  <1>3. Move(p, c)
    BY DEF To
  <1>4. Typed
    BY DEF FinalizeInv
  <1>5. proc'[p] = c /\ data' = data /\ docs' = docs
    BY <1>2, <1>3, <1>4, MoveIs
  <1>6. locks' = locks /\ owner' = owner /\ root' = root /\ root \in BOOLEAN
    BY <1>4 DEF KeepDisk, Typed
  <1>7. calm[p].alone /\ calm[p].current /\ ~ c.spoiled => Knows(proc[p])'
    BY <1>5, <1>6, KnowsOn
  <1>8. root' \in BOOLEAN
    BY <1>6
  <1>. QED BY <1>1, <1>2, <1>3, <1>6, <1>7, <1>8, KeepsLocks

LEMMA PreflightKeeps ==
    ASSUME FinalizeInv, NEW p \in Procs, Preflight(p)
    PROVE  FinalizeInv'
PROOF
  <1>1. PICK r \in Processes : /\ r = proc[p] /\ Progress(r)
                               /\ calm[p].alone /\ calm[p].current /\ ~ r.spoiled => Knows(r)
    BY HereIs
  <1>2. r.at = "preflight" /\ KeepDisk
    BY <1>1 DEF Preflight
  <1>3. PICK x : x = IF HasErrors \/ ~ docs.complete THEN "refused" ELSE "partition"
    OBVIOUS
  <1>4. x \in Places /\ x \in {"refused", "partition"}
    BY <1>3 DEF Places, Ended
  <1>5. To(p, x)
    BY <1>3 DEF Preflight
  <1>6. PICK c : c = [r EXCEPT !.at = x]
    OBVIOUS
  <1>7. /\ c.at = x /\ c.todo = r.todo /\ c.built = r.built /\ c.installed = r.installed
        /\ c.spoiled = r.spoiled
    BY <1>4, <1>6, AtIs
  <1>8. Progress(c)
    BY <1>1, <1>2, <1>4, <1>7 DEF Progress
  <1>9. ASSUME Knows(r) PROVE Knows(c)
    <2>1. DataReady /\ ~ HasErrors
      BY <1>2, <1>9 DEF Knows
    <2>2. x = "partition"
      BY <1>3, <2>1 DEF DataReady
    <2>. QED BY <1>7, <2>1, <2>2 DEF Knows
  <1>10. calm[p].alone /\ calm[p].current /\ ~ c.spoiled => Knows(c)
    BY <1>1, <1>7, <1>9
  <1>. QED BY <1>1, <1>2, <1>4, <1>5, <1>6, <1>8, <1>10, ToKeeps

LEMMA PostflightKeeps ==
    ASSUME FinalizeInv, NEW p \in Procs, Postflight(p)
    PROVE  FinalizeInv'
PROOF
  <1>1. PICK r \in Processes : /\ r = proc[p] /\ Progress(r)
                               /\ calm[p].alone /\ calm[p].current /\ ~ r.spoiled => Knows(r)
    BY HereIs
  <1>2. r.at = "postflight" /\ KeepDisk
    BY <1>1 DEF Postflight
  <1>3. PICK x : x = IF ~ Ready THEN Failing(p) ELSE IF p \in Resolvers THEN "recheck" ELSE "finalized"
    OBVIOUS
  <1>4. x \in Places /\ x \in {"rollback", "recheck", "finalized"}
    BY <1>3 DEF Places, Ended, Failing
  <1>5. To(p, x)
    BY <1>3 DEF Postflight
  <1>6. PICK c : c = [r EXCEPT !.at = x]
    OBVIOUS
  <1>7. /\ c.at = x /\ c.todo = r.todo /\ c.built = r.built /\ c.installed = r.installed
        /\ c.spoiled = r.spoiled
    BY <1>4, <1>6, AtIs
  <1>8. Progress(c)
    BY <1>1, <1>2, <1>4, <1>7 DEF Progress
  <1>9. ASSUME Knows(r) PROVE Knows(c)
    <2>1. /\ DataReady /\ root /\ Kept(r) /\ Fresh(r) /\ Done(r)
          /\ r.installed = r.todo /\ DOMAIN r.built = r.todo
      BY <1>1, <1>2, <1>9 DEF Knows, Progress
    <2>2. \A g \in Paths : Serves(locks[g], SpecOf(g), data)
      <3>. TAKE g \in Paths
      <3>1. CASE g \in r.todo
        BY <2>1, <3>1 DEF Fresh, Done, DataReady
      <3>2. CASE g \notin r.todo
        BY <2>1, <3>2 DEF Kept
      <3>. QED BY <3>1, <3>2
    <2>3. Ready
      BY <2>1, <2>2 DEF Ready, DataReady
    <2>4. x \in {"recheck", "finalized"}
      BY <1>3, <2>3
    <2>. QED BY <1>7, <2>3, <2>4 DEF Knows
  <1>10. calm[p].alone /\ calm[p].current /\ ~ c.spoiled => Knows(c)
    BY <1>1, <1>7, <1>9
  <1>. QED BY <1>1, <1>2, <1>4, <1>5, <1>6, <1>8, <1>10, ToKeeps

LEMMA RecheckKeeps ==
    ASSUME FinalizeInv, NEW p \in Procs, Recheck(p)
    PROVE  FinalizeInv'
PROOF
  <1>1. PICK r \in Processes : /\ r = proc[p] /\ Progress(r)
                               /\ calm[p].alone /\ calm[p].current /\ ~ r.spoiled => Knows(r)
    BY HereIs
  <1>2. r.at = "recheck" /\ KeepDisk
    BY <1>1 DEF Recheck
  <1>3. PICK x : x = IF Ready THEN "finalized" ELSE "unresolved"
    OBVIOUS
  <1>4. x \in Places /\ x \in {"finalized", "unresolved"}
    BY <1>3 DEF Places, Ended
  <1>5. To(p, x)
    BY <1>3 DEF Recheck
  <1>6. PICK c : c = [r EXCEPT !.at = x]
    OBVIOUS
  <1>7. /\ c.at = x /\ c.todo = r.todo /\ c.built = r.built /\ c.installed = r.installed
        /\ c.spoiled = r.spoiled
    BY <1>4, <1>6, AtIs
  <1>8. Progress(c)
    BY <1>1, <1>2, <1>4, <1>7 DEF Progress
  <1>9. ASSUME Knows(r) PROVE Knows(c)
    <2>1. x = "finalized"
      BY <1>2, <1>3, <1>9 DEF Knows
    <2>. QED BY <1>7, <2>1 DEF Knows
  <1>10. calm[p].alone /\ calm[p].current /\ ~ c.spoiled => Knows(c)
    BY <1>1, <1>7, <1>9
  <1>. QED BY <1>1, <1>2, <1>4, <1>5, <1>6, <1>8, <1>10, ToKeeps

LEMMA RollbackReadKeeps ==
    ASSUME FinalizeInv, NEW p \in Procs, RollbackRead(p)
    PROVE  FinalizeInv'
PROOF
  <1>1. PICK r \in Processes : /\ r = proc[p] /\ Progress(r)
                               /\ calm[p].alone /\ calm[p].current /\ ~ r.spoiled => Knows(r)
    BY HereIs
  <1>2. r.at = "rollback" /\ KeepDisk
    BY <1>1 DEF RollbackRead
  <1>3. ~ (calm[p].alone /\ calm[p].current /\ ~ r.spoiled)
    BY <1>1, <1>2 DEF Knows
  <1>4. ASSUME NEW x \in {"cleanup", "remove"}, To(p, x), x = "cleanup" <=> r.installed = {}
        PROVE  FinalizeInv'
    <2>1. PICK c : c = [r EXCEPT !.at = x]
      OBVIOUS
    <2>2. x \in Places
      BY DEF Places
    <2>3. /\ c.at = x /\ c.todo = r.todo /\ c.built = r.built /\ c.installed = r.installed
          /\ c.spoiled = r.spoiled
      BY <2>1, <2>2, AtIs
    <2>4. Progress(c)
      BY <1>1, <1>2, <1>4, <2>3 DEF Progress
    <2>5. calm[p].alone /\ calm[p].current /\ ~ c.spoiled => Knows(c)
      BY <1>3, <2>3
    <2>. QED BY <1>1, <1>2, <1>4, <2>1, <2>2, <2>4, <2>5, ToKeeps
  <1>5. PICK g : g = LastLock(r)
    OBVIOUS
  <1>6. \/ r.installed = {} /\ To(p, "cleanup")
        \/ r.installed # {} /\ To(p, "remove")
        \/ r.installed # {} /\ locks[g] # r.built[g] /\ Move(p, [r EXCEPT !.installed = r.installed \ {g}])
    BY <1>1, <1>5 DEF RollbackRead
  <1>7. ASSUME r.installed # {}, locks[g] # r.built[g], Move(p, [r EXCEPT !.installed = r.installed \ {g}])
        PROVE  FinalizeInv'
    <2>1. PICK c : c = [r EXCEPT !.installed = r.installed \ {g}]
      OBVIOUS
    <2>2. r.installed \ {g} \in SUBSET Paths /\ r.todo \in SUBSET Paths
      BY <1>1 DEF Processes
    <2>3. /\ c \in Processes /\ c.at = r.at /\ c.todo = r.todo
          /\ c.built = r.built /\ c.installed = r.installed \ {g} /\ c.spoiled = r.spoiled
      BY <2>1, <2>2, InstalledIs
    <2>4. IsPrefixOf(r.installed, r.todo)
      BY <1>1 DEF Progress
    <2>5. IsPrefixOf(c.installed, c.todo)
      BY <1>5, <1>7, <2>2, <2>3, <2>4, PrefixShrinks DEF LastLock
    <2>6. Progress(c)
      BY <1>1, <1>2, <2>3, <2>5 DEF Progress
    <2>7. Typed /\ OwnerTells /\ Owned(p)
      BY DEF FinalizeInv
    <2>8. locks' = locks /\ owner' = owner /\ root' = root
      BY <1>2 DEF KeepDisk
    <2>9. Touches(p)
      BY <2>8 DEF Touches
    <2>10. /\ root' \in BOOLEAN /\ locks' \in [Paths -> Locks \union {NoLock}]
           /\ owner' \in [Paths -> Procs \union {"none", "user"}]
      BY <2>7, <2>8 DEF Typed
    <2>11. OwnerTells'
      BY <2>7, <2>8 DEF OwnerTells
    <2>12. \A h \in c.installed : owner'[h] \in {p, "user"}
      BY <1>1, <2>3, <2>7, <2>8 DEF Owned
    <2>13. \A h \in Paths : owner'[h] = p /\ ~ c.spoiled => h \in c.installed /\ locks'[h] = c.built[h]
      BY <1>1, <1>7, <2>3, <2>7, <2>8 DEF Owned
    <2>14. c.installed \subseteq proc[p].installed \union {h \in Paths : owner[h] = "none"}
      BY <1>1, <2>3
    <2>15. calm[p].alone /\ calm[p].current /\ ~ c.spoiled => Knows(proc[p])'
      BY <1>3, <2>3
    <2>16. Move(p, c)
      BY <1>7, <2>1
    <2>. QED BY <2>3, <2>6, <2>9, <2>10, <2>11, <2>12, <2>13, <2>14, <2>15, <2>16, Moved
  <1>. QED BY <1>4, <1>6, <1>7

LEMMA CleanupKeeps ==
    ASSUME FinalizeInv, NEW p \in Procs, Cleanup(p)
    PROVE  FinalizeInv'
PROOF
  <1>1. PICK r \in Processes : /\ r = proc[p] /\ Progress(r)
                               /\ calm[p].alone /\ calm[p].current /\ ~ r.spoiled => Knows(r)
    BY HereIs
  <1>2. /\ r.at = "cleanup" /\ To(p, "failed") /\ locks' = locks /\ owner' = owner
        /\ root' = (root /\ ~ r.madeRoot)
    BY <1>1 DEF Cleanup
  <1>3. PICK c : c = [r EXCEPT !.at = "failed"]
    OBVIOUS
  <1>4. "failed" \in Places
    BY DEF Places, Ended
  <1>5. /\ c \in Processes /\ c.at = "failed" /\ c.todo = r.todo /\ c.built = r.built
        /\ c.installed = r.installed /\ c.spoiled = r.spoiled
    BY <1>3, <1>4, AtIs
  <1>6. Progress(c)
    BY <1>1, <1>2, <1>5 DEF Progress
  <1>7. ~ (calm[p].alone /\ calm[p].current /\ ~ c.spoiled)
    BY <1>1, <1>2, <1>5 DEF Knows
  <1>8. Move(p, c)
    BY <1>1, <1>2, <1>3 DEF To
  <1>9. root' \in BOOLEAN
    BY <1>2
  <1>. QED BY <1>1, <1>2, <1>5, <1>6, <1>7, <1>8, <1>9, KeepsLocks

LEMMA CrashKeeps ==
    ASSUME FinalizeInv, NEW p \in Procs, Crash(p)
    PROVE  FinalizeInv'
PROOF
  <1>1. PICK r \in Processes : /\ r = proc[p] /\ Progress(r)
                               /\ calm[p].alone /\ calm[p].current /\ ~ r.spoiled => Knows(r)
    BY HereIs
  <1>2. To(p, "crashed") /\ KeepDisk
    BY DEF Crash
  <1>3. PICK c : c = [r EXCEPT !.at = "crashed"]
    OBVIOUS
  <1>4. "crashed" \in Places
    BY DEF Places, Ended
  <1>5. /\ c.at = "crashed" /\ c.todo = r.todo /\ c.built = r.built
        /\ c.installed = r.installed /\ c.spoiled = r.spoiled
    BY <1>3, <1>4, AtIs
  <1>6. Progress(c)
    BY <1>1, <1>5 DEF Progress
  <1>7. Knows(c)
    BY <1>5 DEF Knows
  <1>. QED BY <1>1, <1>2, <1>3, <1>4, <1>6, <1>7, ToKeeps

LEMMA PartitionKeeps ==
    ASSUME FinalizeInv, NEW p \in Procs, Partition(p)
    PROVE  FinalizeInv'
PROOF
  <1>1. PICK r \in Processes : /\ r = proc[p] /\ Progress(r)
                               /\ calm[p].alone /\ calm[p].current /\ ~ r.spoiled => Knows(r)
    BY HereIs
  <1>2. r.at = "partition" /\ KeepDisk
    BY <1>1 DEF Partition
  <1>3. CASE HasErrors \/ ~ docs.complete
    <2>1. To(p, "refused")
      BY <1>3 DEF Partition
    <2>2. PICK c : c = [r EXCEPT !.at = "refused"]
      OBVIOUS
    <2>3. "refused" \in Places
      BY DEF Places, Ended
    <2>4. /\ c.at = "refused" /\ c.todo = r.todo /\ c.built = r.built
          /\ c.installed = r.installed /\ c.spoiled = r.spoiled
      BY <2>2, <2>3, AtIs
    <2>5. Progress(c)
      BY <1>1, <1>2, <2>4 DEF Progress
    <2>6. ~ (calm[p].alone /\ calm[p].current /\ ~ c.spoiled)
      BY <1>1, <1>2, <1>3, <2>4 DEF Knows, DataReady
    <2>. QED BY <1>1, <1>2, <2>1, <2>2, <2>3, <2>5, <2>6, ToKeeps
  <1>4. CASE ~ HasErrors /\ docs.complete
    <2>1. PICK S : S = Missing
      OBVIOUS
    <2>2. PICK v : v = docs.coverage
      OBVIOUS
    <2>3. PICK c : c = [r EXCEPT !.at = "build", !.coverage = v, !.todo = S]
      OBVIOUS
    <2>4. Typed
      BY DEF FinalizeInv
    <2>5. v \in Coverages /\ S \in SUBSET Paths
      BY <2>1, <2>2, <2>4 DEF Typed, Coverages, Missing
    <2>6. /\ c \in Processes /\ c.at = "build" /\ c.coverage = v /\ c.todo = S
          /\ c.built = r.built /\ c.installed = r.installed /\ c.spoiled = r.spoiled
      <3>1. PICK B : B = UNION {[D -> Locks] : D \in SUBSET Paths}
        OBVIOUS
      <3>2. Processes = [at : Places, coverage : Coverages, todo : SUBSET Paths, built : B,
                         installed : SUBSET Paths, madeRoot : BOOLEAN, spoiled : BOOLEAN]
        BY <3>1 DEF Processes
      <3>3. "build" \in Places
        BY DEF Places
      <3>. QED BY <2>3, <2>5, <3>2, <3>3
    <2>7. Move(p, c)
      BY <1>1, <1>4, <2>1, <2>2, <2>3 DEF Partition
    <2>8. DOMAIN r.built = {} /\ r.installed = {} /\ r.todo = {}
      BY <1>1, <1>2 DEF Progress, IsPrefixOf
    <2>9. Progress(c)
      BY <2>6, <2>8 DEF Progress, IsPrefixOf
    <2>10. ASSUME Knows(r) PROVE Knows(c)
      <3>1. DataReady
        BY <1>2, <2>10 DEF Knows
      <3>2. Kept(c)
        BY <1>4, <2>1, <2>6 DEF Kept, Missing, HasErrors
      <3>3. Fresh(c) /\ Done(c)
        BY <2>6, <2>8 DEF Fresh, Done
      <3>4. Ahead(c)
        BY <2>1, <2>6 DEF Ahead, Missing
      <3>. QED BY <2>2, <2>6, <3>1, <3>2, <3>3, <3>4 DEF Knows
    <2>11. proc'[p] = c /\ data' = data /\ docs' = docs
      BY <2>4, <2>6, <2>7, MoveIs
    <2>12. locks' = locks /\ owner' = owner /\ root' = root /\ root \in BOOLEAN
      BY <1>2, <2>4 DEF KeepDisk, Typed
    <2>13. calm[p].alone /\ calm[p].current /\ ~ c.spoiled => Knows(proc[p])'
      BY <1>1, <2>6, <2>10, <2>11, <2>12, KnowsOn
    <2>14. root' \in BOOLEAN
      BY <2>12
    <2>. QED BY <1>1, <2>6, <2>7, <2>8, <2>9, <2>12, <2>13, <2>14, KeepsLocks
  <1>. QED BY <1>3, <1>4

LEMMA BuildKeeps ==
    ASSUME FinalizeInv, NEW p \in Procs, Build(p)
    PROVE  FinalizeInv'
PROOF
  <1>1. PICK r \in Processes : /\ r = proc[p] /\ Progress(r)
                               /\ calm[p].alone /\ calm[p].current /\ ~ r.spoiled => Knows(r)
    BY HereIs
  <1>2. r.at = "build" /\ KeepDisk /\ r.installed = {}
    BY <1>1 DEF Build, Progress
  <1>3. r.todo \in SUBSET Paths /\ r.coverage \in Coverages /\ Typed
    BY DEF Processes, FinalizeInv
  <1>4. PICK g : g = Min(r.todo \ DOMAIN r.built)
    OBVIOUS
  <1>5. PICK l : l = BuildLock(data, SpecIn(r.coverage, g))
    OBVIOUS
  <1>6. CASE DOMAIN r.built = r.todo
    <2>1. To(p, "roots")
      BY <1>1, <1>6 DEF Build
    <2>2. PICK c : c = [r EXCEPT !.at = "roots"]
      OBVIOUS
    <2>3. "roots" \in Places
      BY DEF Places
    <2>4. /\ c.at = "roots" /\ c.coverage = r.coverage /\ c.todo = r.todo /\ c.built = r.built
          /\ c.installed = r.installed /\ c.spoiled = r.spoiled
      BY <2>2, <2>3, AtIs
    <2>5. Progress(c)
      BY <1>1, <1>2, <1>6, <2>4 DEF Progress
    <2>6. ASSUME Knows(r) PROVE Knows(c)
      BY <1>2, <2>4, <2>6 DEF Knows, Kept, Fresh, Ahead, Done
    <2>7. calm[p].alone /\ calm[p].current /\ ~ c.spoiled => Knows(c)
      BY <1>1, <2>4, <2>6
    <2>. QED BY <1>1, <1>2, <2>1, <2>2, <2>3, <2>5, <2>7, ToKeeps
  <1>7. ASSUME DOMAIN r.built # r.todo
        PROVE  g \in r.todo \ DOMAIN r.built /\ IsPrefixOf(DOMAIN r.built \union {g}, r.todo)
    <2>1. IsPrefixOf(DOMAIN r.built, r.todo)
      BY <1>1 DEF Progress
    <2>2. PICK D : D = DOMAIN r.built
      OBVIOUS
    <2>. QED BY <1>3, <1>4, <1>7, <2>1, <2>2, PrefixGrows
  <1>8. CASE DOMAIN r.built # r.todo /\ l = NoLock
    <2>1. To(p, "refused")
      BY <1>1, <1>4, <1>5, <1>8 DEF Build
    <2>2. PICK c : c = [r EXCEPT !.at = "refused"]
      OBVIOUS
    <2>3. "refused" \in Places
      BY DEF Places, Ended
    <2>4. /\ c.at = "refused" /\ c.todo = r.todo /\ c.built = r.built
          /\ c.installed = r.installed /\ c.spoiled = r.spoiled
      BY <2>2, <2>3, AtIs
    <2>5. Progress(c)
      BY <1>1, <1>2, <2>4 DEF Progress
    <2>6. ASSUME Knows(r) PROVE FALSE
      <3>1. r.coverage = docs.coverage /\ DataReady
        BY <1>2, <2>6 DEF Knows
      <3>2. Serves(l, SpecOf(g), data)
        BY <1>3, <1>5, <1>7, <1>8, <3>1 DEF DataReady, SpecOf
      <3>. QED BY <1>8, <3>2 DEF Serves
    <2>7. calm[p].alone /\ calm[p].current /\ ~ c.spoiled => Knows(c)
      BY <1>1, <2>4, <2>6
    <2>. QED BY <1>1, <1>2, <2>1, <2>2, <2>3, <2>5, <2>7, ToKeeps
  <1>9. CASE DOMAIN r.built # r.todo /\ l # NoLock
    <2>1. PICK f : f = WithLock(r.built, g, l)
      OBVIOUS
    <2>2. PICK c : c = [r EXCEPT !.built = f]
      OBVIOUS
    <2>3. Move(p, c)
      BY <1>1, <1>4, <1>5, <1>9, <2>1, <2>2 DEF Build
    <2>4. g \in Paths /\ l \in Locks
      BY <1>3, <1>5, <1>7, <1>9 DEF Locks, Typed
    <2>5. r.built \in UNION {[D -> Locks] : D \in SUBSET Paths}
      BY DEF Processes
    <2>6. PICK D \in SUBSET Paths : r.built \in [D -> Locks]
      BY <2>5
    <2>7. /\ DOMAIN f = D \union {g} /\ f[g] = l
          /\ \A h \in D \ {g} : f[h] = r.built[h]
          /\ f \in [D \union {g} -> Locks] /\ DOMAIN r.built = D
      BY <2>1, <2>4, <2>6 DEF WithLock
    <2>8. f \in UNION {[E -> Locks] : E \in SUBSET Paths}
      <3>1. D \union {g} \in SUBSET Paths
        BY <2>4
      <3>. QED BY <2>7, <3>1
    <2>9. /\ c \in Processes /\ c.at = r.at /\ c.coverage = r.coverage /\ c.todo = r.todo
          /\ c.built = f /\ c.installed = r.installed /\ c.spoiled = r.spoiled
      BY <2>2, <2>8, BuiltIs
    <2>10. \A h \in DOMAIN f : f[h] # NoLock
      BY <1>1, <1>9, <2>7 DEF Progress
    <2>11. Progress(c)
      BY <1>1, <1>2, <1>7, <1>9, <2>7, <2>9, <2>10 DEF Progress
    <2>12. ASSUME Knows(r) PROVE Knows(c)
      <3>1. /\ r.coverage = docs.coverage /\ DataReady /\ Kept(r) /\ Fresh(r) /\ Ahead(r) /\ Done(r)
        BY <1>2, <2>12 DEF Knows
      <3>2. Fresh(c)
        BY <1>5, <2>7, <2>9, <3>1 DEF Fresh, SpecOf
      <3>3. Kept(c) /\ Ahead(c)
        BY <2>9, <3>1 DEF Kept, Ahead
      <3>4. Done(c)
        BY <1>2, <2>9 DEF Done
      <3>. QED BY <1>2, <2>9, <3>1, <3>2, <3>3, <3>4 DEF Knows
    <2>13. proc'[p] = c /\ data' = data /\ docs' = docs
      BY <1>3, <2>3, <2>9, MoveIs
    <2>14. locks' = locks /\ owner' = owner /\ root' = root /\ root \in BOOLEAN
      BY <1>2, <1>3 DEF KeepDisk, Typed
    <2>15. calm[p].alone /\ calm[p].current /\ ~ c.spoiled => Knows(proc[p])'
      BY <1>1, <2>9, <2>12, <2>13, <2>14, KnowsOn
    <2>16. root' \in BOOLEAN
      BY <2>14
    <2>. QED BY <1>1, <1>2, <2>3, <2>9, <2>11, <2>14, <2>15, <2>16, KeepsLocks
  <1>. QED BY <1>6, <1>8, <1>9

LEMMA PrepareRootsKeeps ==
    ASSUME FinalizeInv, NEW p \in Procs, PrepareRoots(p)
    PROVE  FinalizeInv'
PROOF
  <1>1. PICK r \in Processes : /\ r = proc[p] /\ Progress(r)
                               /\ calm[p].alone /\ calm[p].current /\ ~ r.spoiled => Knows(r)
    BY HereIs
  <1>2. r.at = "roots" /\ locks' = locks /\ owner' = owner /\ Typed
    BY <1>1 DEF PrepareRoots, FinalizeInv
  <1>3. CASE root' = root /\ Move(p, [r EXCEPT !.at = "failed", !.spoiled = TRUE])
    <2>1. PICK c : c = [r EXCEPT !.at = "failed", !.spoiled = TRUE]
      OBVIOUS
    <2>2. "failed" \in Places
      BY DEF Places, Ended
    <2>3. /\ c \in Processes /\ c.at = "failed" /\ c.todo = r.todo /\ c.built = r.built
          /\ c.installed = r.installed /\ c.spoiled = TRUE
      <3>1. PICK B : B = UNION {[D -> Locks] : D \in SUBSET Paths}
        OBVIOUS
      <3>2. Processes = [at : Places, coverage : Coverages, todo : SUBSET Paths, built : B,
                         installed : SUBSET Paths, madeRoot : BOOLEAN, spoiled : BOOLEAN]
        BY <3>1 DEF Processes
      <3>. QED BY <2>1, <2>2, <3>2
    <2>4. Progress(c)
      BY <1>1, <1>2, <2>3 DEF Progress
    <2>5. root' \in BOOLEAN
      BY <1>2, <1>3 DEF Typed
    <2>. QED BY <1>1, <1>2, <1>3, <2>1, <2>3, <2>4, <2>5, KeepsLocks
  <1>4. CASE root' = TRUE /\ Move(p, [r EXCEPT !.at = "persist", !.madeRoot = ~ root])
    <2>1. PICK b \in BOOLEAN : b = ~ root
      OBVIOUS
    <2>2. PICK c : c = [r EXCEPT !.at = "persist", !.madeRoot = b]
      OBVIOUS
    <2>3. "persist" \in Places
      BY DEF Places
    <2>4. /\ c \in Processes /\ c.at = "persist" /\ c.coverage = r.coverage /\ c.todo = r.todo
          /\ c.built = r.built /\ c.installed = r.installed /\ c.spoiled = r.spoiled
      <3>1. PICK B : B = UNION {[D -> Locks] : D \in SUBSET Paths}
        OBVIOUS
      <3>2. Processes = [at : Places, coverage : Coverages, todo : SUBSET Paths, built : B,
                         installed : SUBSET Paths, madeRoot : BOOLEAN, spoiled : BOOLEAN]
        BY <3>1 DEF Processes
      <3>. QED BY <2>2, <2>3, <3>2
    <2>5. Progress(c)
      BY <1>1, <1>2, <2>4 DEF Progress
    <2>6. Move(p, c)
      BY <1>4, <2>1, <2>2
    <2>7. proc'[p] = c /\ data' = data /\ docs' = docs
      BY <1>2, <2>4, <2>6, MoveIs
    <2>8. ASSUME Knows(r) PROVE Knows(proc[p])'
      <3>1. DataReady /\ r.coverage = docs.coverage /\ Kept(r) /\ Fresh(r) /\ Ahead(r) /\ Done(r)
        BY <1>2, <2>8 DEF Knows
      <3>2. DataReady'
        BY <2>7, <3>1 DEF DataReady, SpecOf
      <3>3. Kept(proc[p])'
        BY <1>2, <2>4, <2>7, <3>1 DEF Kept, SpecOf
      <3>4. Fresh(proc[p])'
        BY <2>4, <2>7, <3>1 DEF Fresh, SpecOf
      <3>5. Ahead(proc[p])' /\ Done(proc[p])'
        BY <1>2, <2>4, <2>7, <3>1 DEF Ahead, Done
      <3>. QED BY <1>4, <2>4, <2>7, <3>1, <3>2, <3>3, <3>4, <3>5 DEF Knows
    <2>9. calm[p].alone /\ calm[p].current /\ ~ c.spoiled => Knows(proc[p])'
      BY <1>1, <2>4, <2>8
    <2>10. root' \in BOOLEAN
      BY <1>4
    <2>. QED BY <1>1, <1>2, <2>4, <2>5, <2>6, <2>9, <2>10, KeepsLocks
  <1>. QED BY <1>1, <1>3, <1>4 DEF PrepareRoots

LEMMA PersistKeeps ==
    ASSUME FinalizeInv, NEW p \in Procs, Persist(p)
    PROVE  FinalizeInv'
PROOF
  <1>1. PICK r \in Processes : /\ r = proc[p] /\ Progress(r)
                               /\ calm[p].alone /\ calm[p].current /\ ~ r.spoiled => Knows(r)
    BY HereIs
  <1>2. r.at = "persist" /\ root' = root /\ DOMAIN r.built = r.todo /\ Typed /\ OwnerTells /\ Owned(p)
    BY <1>1 DEF Persist, Progress, FinalizeInv
  <1>3. r.todo \in SUBSET Paths /\ root' \in BOOLEAN
    BY <1>2 DEF Processes, Typed
  <1>4. PICK g : g = NextLock(r)
    OBVIOUS
  <1>5. ASSUME r.installed # r.todo
        PROVE  g \in r.todo \ r.installed /\ IsPrefixOf(r.installed \union {g}, r.todo)
    <2>1. IsPrefixOf(r.installed, r.todo)
      BY <1>1 DEF Progress
    <2>. QED BY <1>3, <1>4, <1>5, <2>1, PrefixGrows DEF NextLock
  <1>6. CASE r.installed = r.todo
    <2>1. To(p, "postflight") /\ KeepDisk
      BY <1>1, <1>6 DEF Persist, KeepDisk
    <2>2. PICK c : c = [r EXCEPT !.at = "postflight"]
      OBVIOUS
    <2>3. "postflight" \in Places
      BY DEF Places
    <2>4. /\ c.at = "postflight" /\ c.coverage = r.coverage /\ c.todo = r.todo /\ c.built = r.built
          /\ c.installed = r.installed /\ c.spoiled = r.spoiled
      BY <2>2, <2>3, AtIs
    <2>5. Progress(c)
      BY <1>1, <1>2, <1>6, <2>4 DEF Progress
    <2>6. ASSUME Knows(r) PROVE Knows(c)
      BY <1>2, <2>4, <2>6 DEF Knows, Kept, Fresh, Ahead, Done
    <2>7. calm[p].alone /\ calm[p].current /\ ~ c.spoiled => Knows(c)
      BY <1>1, <2>4, <2>6
    <2>. QED BY <1>1, <2>1, <2>2, <2>3, <2>5, <2>7, ToKeeps
  <1>7. CASE /\ r.installed # r.todo /\ ~ Installs(p, g) /\ To(p, "rollback")
             /\ UNCHANGED <<locks, owner>>
    <2>1. PICK c : c = [r EXCEPT !.at = "rollback"]
      OBVIOUS
    <2>2. "rollback" \in Places
      BY DEF Places
    <2>3. /\ c.at = "rollback" /\ c.coverage = r.coverage /\ c.todo = r.todo /\ c.built = r.built
          /\ c.installed = r.installed /\ c.spoiled = r.spoiled
      BY <2>1, <2>2, AtIs
    <2>4. Progress(c)
      BY <1>1, <1>2, <2>3 DEF Progress
    <2>5. ASSUME Knows(r) PROVE FALSE
      BY <1>2, <1>5, <1>7, <2>5 DEF Knows, Ahead, Installs
    <2>6. calm[p].alone /\ calm[p].current /\ ~ c.spoiled => Knows(c)
      BY <1>1, <2>3, <2>5
    <2>7. KeepDisk
      BY <1>2, <1>7 DEF KeepDisk
    <2>. QED BY <1>1, <1>7, <2>1, <2>2, <2>4, <2>6, <2>7, ToKeeps
  <1>8. PICK l : l = r.built[g]
    OBVIOUS
  <1>9. ASSUME r.installed # r.todo, Installs(p, g),
               locks' = [locks EXCEPT ![g] = l], owner' = [owner EXCEPT ![g] = p]
        PROVE  /\ locks' \in [Paths -> Locks \union {NoLock}]
               /\ owner' \in [Paths -> Procs \union {"none", "user"}]
               /\ OwnerTells' /\ Touches(p) /\ owner[g] = "none" /\ g \in Paths
               /\ locks'[g] = l /\ owner'[g] = p /\ locks[g] = NoLock
               /\ \A h \in Paths \ {g} : locks'[h] = locks[h] /\ owner'[h] = owner[h]
    <2>1. g \in Paths /\ l \in Locks /\ l # NoLock
      <3>1. g \in r.todo
        BY <1>5, <1>9
      <3>2. PICK D \in SUBSET Paths : r.built \in [D -> Locks]
        BY DEF Processes
      <3>. QED BY <1>1, <1>2, <1>3, <1>8, <3>1, <3>2 DEF Progress
    <2>2. locks \in [Paths -> Locks \union {NoLock}] /\ owner \in [Paths -> Procs \union {"none", "user"}]
      BY <1>2 DEF Typed
    <2>3. /\ locks' \in [Paths -> Locks \union {NoLock}]
          /\ owner' \in [Paths -> Procs \union {"none", "user"}]
          /\ locks'[g] = l /\ owner'[g] = p
          /\ \A h \in Paths \ {g} : locks'[h] = locks[h] /\ owner'[h] = owner[h]
      BY <1>9, <2>1, <2>2
    <2>4. owner[g] = "none" /\ locks[g] = NoLock
      BY <1>2, <1>9, <2>1 DEF Installs, OwnerTells
    <2>5. Touches(p)
      BY <2>3, <2>4 DEF Touches
    <2>6. p # "none"
      BY FinalizeAssumption
    <2>7. OwnerTells'
      <3>. SUFFICES ASSUME NEW h \in Paths PROVE owner'[h] = "none" <=> locks'[h] = NoLock
        BY DEF OwnerTells
      <3>1. CASE h = g
        BY <2>1, <2>3, <2>6, <3>1
      <3>2. CASE h # g
        BY <1>2, <2>3, <3>2 DEF OwnerTells
      <3>. QED BY <3>1, <3>2
    <2>. QED BY <2>1, <2>3, <2>4, <2>5, <2>7
  <1>10. CASE /\ r.installed # r.todo /\ Installs(p, g)
              /\ locks' = [locks EXCEPT ![g] = l] /\ owner' = [owner EXCEPT ![g] = p]
              /\ Move(p, [r EXCEPT !.installed = r.installed \union {g}])
    <2>1. PICK S : S = r.installed \union {g}
      OBVIOUS
    <2>2. PICK c : c = [r EXCEPT !.installed = S]
      OBVIOUS
    <2>3. S \in SUBSET Paths
      BY <1>9, <1>10, <2>1 DEF Processes
    <2>4. /\ c \in Processes /\ c.at = r.at /\ c.coverage = r.coverage /\ c.todo = r.todo
          /\ c.built = r.built /\ c.installed = S /\ c.spoiled = r.spoiled
      BY <2>2, <2>3, InstalledIs
    <2>5. Progress(c)
      BY <1>1, <1>2, <1>5, <1>10, <2>1, <2>4 DEF Progress
    <2>6. Move(p, c)
      BY <1>10, <2>1, <2>2
    <2>7. \A h \in c.installed : owner'[h] \in {p, "user"}
      BY <1>1, <1>2, <1>9, <1>10, <2>1, <2>3, <2>4 DEF Owned
    <2>8. \A h \in Paths : owner'[h] = p /\ ~ c.spoiled => h \in c.installed /\ locks'[h] = c.built[h]
      BY <1>1, <1>2, <1>8, <1>9, <1>10, <2>1, <2>4 DEF Owned
    <2>9. c.installed \subseteq proc[p].installed \union {h \in Paths : owner[h] = "none"}
      BY <1>1, <1>9, <1>10, <2>1, <2>4
    <2>10. proc'[p] = c /\ data' = data /\ docs' = docs
      BY <1>2, <2>4, <2>6, MoveIs
    <2>11. ASSUME Knows(r) PROVE Knows(proc[p])'
      <3>1. /\ DataReady /\ r.coverage = docs.coverage /\ Kept(r) /\ Fresh(r) /\ Ahead(r) /\ Done(r)
            /\ root
        BY <1>2, <2>11 DEF Knows
      <3>2. DataReady'
        BY <2>10, <3>1 DEF DataReady, SpecOf
      <3>3. Kept(proc[p])'
        <4>1. \A h \in Paths \ r.todo : locks'[h] = locks[h]
          BY <1>5, <1>9, <1>10
        <4>. QED BY <2>4, <2>10, <3>1, <4>1 DEF Kept, SpecOf
      <3>4. Fresh(proc[p])'
        BY <2>4, <2>10, <3>1 DEF Fresh, SpecOf
      <3>5. Ahead(proc[p])'
        BY <1>3, <1>9, <1>10, <2>1, <2>4, <2>10, <3>1 DEF Ahead
      <3>6. Done(proc[p])'
        BY <1>8, <1>9, <1>10, <2>1, <2>3, <2>4, <2>10, <3>1 DEF Done
      <3>. QED BY <1>2, <2>4, <2>10, <3>1, <3>2, <3>3, <3>4, <3>5, <3>6 DEF Knows
    <2>12. calm[p].alone /\ calm[p].current /\ ~ c.spoiled => Knows(proc[p])'
      BY <1>1, <2>4, <2>11
    <2>. QED BY <1>3, <1>9, <1>10, <2>4, <2>5, <2>6, <2>7, <2>8, <2>9, <2>12, Moved
  <1>11. PICK c : c = [r EXCEPT !.at = "rollback", !.spoiled = TRUE]
    OBVIOUS
  <1>12. /\ c \in Processes /\ c.at = "rollback" /\ c.coverage = r.coverage /\ c.todo = r.todo
         /\ c.built = r.built /\ c.installed = r.installed /\ c.spoiled = TRUE
    <2>1. PICK B : B = UNION {[D -> Locks] : D \in SUBSET Paths}
      OBVIOUS
    <2>2. Processes = [at : Places, coverage : Coverages, todo : SUBSET Paths, built : B,
                       installed : SUBSET Paths, madeRoot : BOOLEAN, spoiled : BOOLEAN]
      BY <2>1 DEF Processes
    <2>3. "rollback" \in Places
      BY DEF Places
    <2>. QED BY <1>11, <2>2, <2>3
  <1>13. Progress(c)
    BY <1>1, <1>2, <1>12 DEF Progress
  <1>14. CASE /\ r.installed # r.todo /\ Installs(p, g)
              /\ locks' = [locks EXCEPT ![g] = l] /\ owner' = [owner EXCEPT ![g] = p]
              /\ Move(p, [r EXCEPT !.at = "rollback", !.spoiled = TRUE])
    <2>1. Move(p, c)
      BY <1>11, <1>14
    <2>2. \A h \in c.installed : owner'[h] \in {p, "user"}
      <3>. TAKE h \in c.installed
      <3>1. h # g /\ h \in Paths
        BY <1>5, <1>12, <1>14 DEF Processes
      <3>. QED BY <1>1, <1>2, <1>9, <1>12, <1>14, <3>1 DEF Owned
    <2>3. \A h \in Paths : owner'[h] = p /\ ~ c.spoiled => h \in c.installed /\ locks'[h] = c.built[h]
      BY <1>12
    <2>4. c.installed \subseteq proc[p].installed \union {h \in Paths : owner[h] = "none"}
      BY <1>1, <1>12
    <2>5. ~ (calm[p].alone /\ calm[p].current /\ ~ c.spoiled)
      BY <1>12
    <2>. QED BY <1>3, <1>9, <1>12, <1>13, <1>14, <2>1, <2>2, <2>3, <2>4, <2>5, Moved
  <1>15. CASE /\ r.installed # r.todo /\ UNCHANGED <<locks, owner>>
              /\ Move(p, [r EXCEPT !.at = "rollback", !.spoiled = TRUE])
    <2>1. Move(p, c)
      BY <1>11, <1>15
    <2>2. ~ (calm[p].alone /\ calm[p].current /\ ~ c.spoiled)
      BY <1>12
    <2>. QED BY <1>1, <1>3, <1>12, <1>13, <1>15, <2>1, <2>2, KeepsLocks
  <1>16. r.installed # r.todo =>
           \/ /\ Installs(p, g) /\ locks' = [locks EXCEPT ![g] = l] /\ owner' = [owner EXCEPT ![g] = p]
              /\ \/ Move(p, [r EXCEPT !.installed = r.installed \union {g}])
                 \/ Move(p, [r EXCEPT !.at = "rollback", !.spoiled = TRUE])
           \/ ~ Installs(p, g) /\ To(p, "rollback") /\ UNCHANGED <<locks, owner>>
           \/ Move(p, [r EXCEPT !.at = "rollback", !.spoiled = TRUE]) /\ UNCHANGED <<locks, owner>>
    BY <1>1, <1>4, <1>8 DEF Persist
  <1>. QED BY <1>6, <1>7, <1>10, <1>14, <1>15, <1>16

LEMMA RollbackRemoveKeeps ==
    ASSUME FinalizeInv, NEW p \in Procs, RollbackRemove(p)
    PROVE  FinalizeInv'
PROOF
  <1>1. PICK r \in Processes : /\ r = proc[p] /\ Progress(r)
                               /\ calm[p].alone /\ calm[p].current /\ ~ r.spoiled => Knows(r)
    BY HereIs
  <1>2. r.at = "remove" /\ root' = root /\ Typed /\ OwnerTells /\ Owned(p) /\ r.installed # {}
    BY <1>1 DEF RollbackRemove, Progress, FinalizeInv
  <1>3. PICK g : g = LastLock(r)
    OBVIOUS
  <1>4. PICK S : S = r.installed \ {g}
    OBVIOUS
  <1>5. r.todo \in SUBSET Paths /\ S \in SUBSET Paths /\ root' \in BOOLEAN
    BY <1>2, <1>4 DEF Processes, Typed
  <1>6. g \in r.installed /\ IsPrefixOf(S, r.todo) /\ g \in Paths
    <2>1. IsPrefixOf(r.installed, r.todo)
      BY <1>1 DEF Progress
    <2>2. g \in r.installed /\ IsPrefixOf(S, r.todo)
      BY <1>2, <1>3, <1>4, <1>5, <2>1, PrefixShrinks DEF LastLock
    <2>. QED BY <2>2 DEF Processes
  <1>7. ~ (calm[p].alone /\ calm[p].current /\ ~ r.spoiled)
    BY <1>1, <1>2 DEF Knows
  <1>8. CASE /\ locks' = [locks EXCEPT ![g] = NoLock] /\ owner' = [owner EXCEPT ![g] = "none"]
             /\ Move(p, [r EXCEPT !.at = "rollback", !.installed = S])
    <2>1. PICK c : c = [r EXCEPT !.at = "rollback", !.installed = S]
      OBVIOUS
    <2>2. /\ c \in Processes /\ c.at = "rollback" /\ c.coverage = r.coverage /\ c.todo = r.todo
          /\ c.built = r.built /\ c.installed = S /\ c.spoiled = r.spoiled
      <3>1. PICK B : B = UNION {[D -> Locks] : D \in SUBSET Paths}
        OBVIOUS
      <3>2. Processes = [at : Places, coverage : Coverages, todo : SUBSET Paths, built : B,
                         installed : SUBSET Paths, madeRoot : BOOLEAN, spoiled : BOOLEAN]
        BY <3>1 DEF Processes
      <3>3. "rollback" \in Places
        BY DEF Places
      <3>. QED BY <1>5, <2>1, <3>2, <3>3
    <2>3. Progress(c)
      BY <1>1, <1>2, <1>6, <2>2 DEF Progress
    <2>4. locks \in [Paths -> Locks \union {NoLock}] /\ owner \in [Paths -> Procs \union {"none", "user"}]
      BY <1>2 DEF Typed
    <2>5. /\ locks' \in [Paths -> Locks \union {NoLock}]
          /\ owner' \in [Paths -> Procs \union {"none", "user"}]
          /\ locks'[g] = NoLock /\ owner'[g] = "none"
          /\ \A h \in Paths \ {g} : locks'[h] = locks[h] /\ owner'[h] = owner[h]
      BY <1>6, <1>8, <2>4
    <2>6. Touches(p)
      BY <1>1, <1>6, <2>5 DEF Touches
    <2>7. OwnerTells'
      BY <1>2, <2>5 DEF OwnerTells
    <2>8. \A h \in c.installed : owner'[h] \in {p, "user"}
      BY <1>1, <1>2, <1>4, <1>5, <2>2, <2>5 DEF Owned
    <2>9. \A h \in Paths : owner'[h] = p /\ ~ c.spoiled => h \in c.installed /\ locks'[h] = c.built[h]
      <3>1. p # "none"
        BY FinalizeAssumption
      <3>. QED BY <1>1, <1>2, <1>4, <2>2, <2>5, <3>1 DEF Owned
    <2>10. c.installed \subseteq proc[p].installed \union {h \in Paths : owner[h] = "none"}
      BY <1>1, <1>4, <2>2
    <2>11. Move(p, c)
      BY <1>8, <2>1
    <2>12. ~ (calm[p].alone /\ calm[p].current /\ ~ c.spoiled)
      BY <1>7, <2>2
    <2>. QED BY <1>5, <2>2, <2>3, <2>5, <2>6, <2>7, <2>8, <2>9, <2>10, <2>11, <2>12, Moved
  <1>9. CASE /\ UNCHANGED <<locks, owner>>
             /\ Move(p, [r EXCEPT !.at = "rollback", !.installed = S, !.spoiled = TRUE])
    <2>1. PICK c : c = [r EXCEPT !.at = "rollback", !.installed = S, !.spoiled = TRUE]
      OBVIOUS
    <2>2. /\ c \in Processes /\ c.at = "rollback" /\ c.coverage = r.coverage /\ c.todo = r.todo
          /\ c.built = r.built /\ c.installed = S /\ c.spoiled = TRUE
      <3>1. PICK B : B = UNION {[D -> Locks] : D \in SUBSET Paths}
        OBVIOUS
      <3>2. Processes = [at : Places, coverage : Coverages, todo : SUBSET Paths, built : B,
                         installed : SUBSET Paths, madeRoot : BOOLEAN, spoiled : BOOLEAN]
        BY <3>1 DEF Processes
      <3>3. "rollback" \in Places
        BY DEF Places
      <3>. QED BY <1>5, <2>1, <3>2, <3>3
    <2>3. Progress(c)
      BY <1>1, <1>2, <1>6, <2>2 DEF Progress
    <2>4. /\ locks' \in [Paths -> Locks \union {NoLock}]
          /\ owner' \in [Paths -> Procs \union {"none", "user"}]
      BY <1>2, <1>9 DEF Typed
    <2>5. Touches(p)
      BY <1>9 DEF Touches
    <2>6. OwnerTells'
      BY <1>2, <1>9 DEF OwnerTells
    <2>7. \A h \in c.installed : owner'[h] \in {p, "user"}
      BY <1>1, <1>2, <1>4, <1>9, <2>2 DEF Owned
    <2>8. \A h \in Paths : owner'[h] = p /\ ~ c.spoiled => h \in c.installed /\ locks'[h] = c.built[h]
      BY <2>2
    <2>9. c.installed \subseteq proc[p].installed \union {h \in Paths : owner[h] = "none"}
      BY <1>1, <1>4, <2>2
    <2>10. Move(p, c)
      BY <1>9, <2>1
    <2>11. ~ (calm[p].alone /\ calm[p].current /\ ~ c.spoiled)
      BY <2>2
    <2>. QED BY <1>5, <2>2, <2>3, <2>4, <2>5, <2>6, <2>7, <2>8, <2>9, <2>10, <2>11, Moved
  <1>. QED BY <1>1, <1>3, <1>4, <1>8, <1>9 DEF RollbackRemove

LEMMA BeginKeeps ==
    ASSUME FinalizeInv, NEW p \in Procs, Begin(p)
    PROVE  FinalizeInv'
PROOF
  <1>1. PICK r \in Processes : /\ r = proc[p] /\ Progress(r)
                               /\ calm[p].alone /\ calm[p].current /\ ~ r.spoiled => Knows(r)
    BY HereIs
  <1>2. /\ r.at = "idle" /\ locks' = locks /\ owner' = owner /\ root' = root
        /\ data' = data /\ docs' = docs /\ edits' = edits /\ Typed /\ OwnerTells /\ Owned(p)
    BY <1>1 DEF Begin, FinalizeInv
  <1>3. PICK x : x = IF p \notin Resolvers \/ Configured THEN "preflight"
                     ELSE IF Ready THEN "finalized" ELSE "unresolved"
    OBVIOUS
  <1>4. x \in Places /\ x \in {"preflight", "finalized", "unresolved"}
    BY <1>3 DEF Places, Ended
  <1>5. PICK c : c = [r EXCEPT !.at = x]
    OBVIOUS
  <1>6. /\ c \in Processes /\ c.at = x /\ c.coverage = r.coverage /\ c.todo = r.todo
        /\ c.built = r.built /\ c.installed = r.installed /\ c.spoiled = r.spoiled
    BY <1>4, <1>5, AtIs
  <1>7. proc \in [Procs -> Processes] /\ calm \in [Procs -> [alone : BOOLEAN, current : BOOLEAN]]
        /\ root \in BOOLEAN /\ locks \in [Paths -> Locks \union {NoLock}]
        /\ owner \in [Paths -> Procs \union {"none", "user"}]
    BY <1>2 DEF Typed
  <1>8. /\ proc' \in [Procs -> Processes] /\ proc'[p] = c
        /\ \A q \in Procs \ {p} : proc'[q] = proc[q]
    <2>1. proc' = [proc EXCEPT ![p] = c]
      BY <1>1, <1>3, <1>5, <1>7 DEF Begin
    <2>. QED BY <1>6, <1>7, <2>1
  <1>9. PICK a \in BOOLEAN : a = ((p \notin Resolvers \/ Configured) /\ DataReady
                                  /\ \A q \in Procs \ {p} : proc[q].at \in Ended \union {"idle"})
    OBVIOUS
  <1>10. PICK b \in BOOLEAN : b = (~ HasErrors)
    OBVIOUS
  <1>11. calm' = [q \in Procs |-> IF q = p THEN [alone |-> a, current |-> b]
                                  ELSE IF proc[q].at \in Ended THEN calm[q]
                                  ELSE [calm[q] EXCEPT !.alone = FALSE]]
    BY <1>9, <1>10 DEF Begin
  <1>12. \A q \in Procs : /\ [calm[q] EXCEPT !.alone = FALSE] \in [alone : BOOLEAN, current : BOOLEAN]
                          /\ [calm[q] EXCEPT !.alone = FALSE].alone = FALSE
    BY <1>7
  <1>13. calm' \in [Procs -> [alone : BOOLEAN, current : BOOLEAN]]
    BY <1>7, <1>9, <1>10, <1>11, <1>12
  <1>14. \A q \in Procs \ {p} : \/ proc[q].at \in Ended /\ calm'[q] = calm[q]
                                \/ calm'[q].alone = FALSE
    BY <1>11, <1>12
  <1>15. calm'[p].alone = a /\ calm'[p].current = b
    BY <1>11
  <1>16. Progress(c)
    BY <1>1, <1>2, <1>4, <1>6 DEF Progress
  <1>17. ASSUME a, b PROVE Knows(c)
    <2>1. x = "preflight" /\ DataReady /\ ~ HasErrors
      BY <1>3, <1>9, <1>10, <1>17
    <2>. QED BY <1>6, <2>1 DEF Knows
  <1>18. calm'[p].alone /\ calm'[p].current /\ ~ c.spoiled => Knows(proc[p])'
    BY <1>2, <1>8, <1>15, <1>17, KnowsOn
  <1>19. Touches(p)
    BY <1>2 DEF Touches
  <1>20. OwnerTells'
    BY <1>2 DEF OwnerTells
  <1>21. \A g \in c.installed : owner'[g] \in {p, "user"}
    BY <1>1, <1>2, <1>6 DEF Owned
  <1>22. \A g \in Paths : owner'[g] = p /\ ~ c.spoiled => g \in c.installed /\ locks'[g] = c.built[g]
    BY <1>1, <1>2, <1>6 DEF Owned
  <1>23. c.installed \subseteq proc[p].installed \union {g \in Paths : owner[g] = "none"}
    BY <1>1, <1>6
  <1>24. /\ root' \in BOOLEAN /\ locks' \in [Paths -> Locks \union {NoLock}]
         /\ owner' \in [Paths -> Procs \union {"none", "user"}]
    BY <1>2, <1>7
  <1>. QED BY <1>2, <1>6, <1>8, <1>13, <1>14, <1>16, <1>18, <1>19, <1>20, <1>21, <1>22, <1>23, <1>24, Stepped

-----------------------------------------------------------------------------
\* The actions of the user.

LEMMA Disturbed ==
    ASSUME FinalizeInv, Disturb, data' \in Worlds, docs' \in Documents,
           locks' \in [Paths -> Locks \union {NoLock}],
           owner' \in [Paths -> Procs \union {"none", "user"}], OwnerTells',
           \A g \in Paths : \/ locks'[g] = locks[g] /\ owner'[g] = owner[g]
                            \/ owner'[g] = "user"
    PROVE  FinalizeInv'
PROOF
  <1>1. Typed /\ \A q \in Procs : Progress(proc[q]) /\ Owned(q) /\ Quiet(q)
    BY DEF FinalizeInv
  <1>2. /\ edits < MaxEdits /\ edits' = edits + 1 /\ root' = root /\ proc' = proc
        /\ calm' = [q \in Procs |-> IF proc[q].at \in Ended THEN calm[q] ELSE [calm[q] EXCEPT !.alone = FALSE]]
    BY DEF Disturb
  <1>3. proc \in [Procs -> Processes] /\ calm \in [Procs -> [alone : BOOLEAN, current : BOOLEAN]]
        /\ root \in BOOLEAN /\ edits \in 0 .. MaxEdits
    BY <1>1 DEF Typed
  <1>4. \A q \in Procs : /\ [calm[q] EXCEPT !.alone = FALSE] \in [alone : BOOLEAN, current : BOOLEAN]
                         /\ [calm[q] EXCEPT !.alone = FALSE].alone = FALSE
    BY <1>3
  <1>5. calm' \in [Procs -> [alone : BOOLEAN, current : BOOLEAN]]
    BY <1>2, <1>3, <1>4
  <1>6. \A q \in Procs : \/ proc[q].at \in Ended /\ calm'[q] = calm[q]
                         \/ calm'[q].alone = FALSE
    BY <1>2, <1>4
  <1>7. edits' \in 0 .. MaxEdits
    BY <1>2, <1>3, FinalizeAssumption
  <1>8. Typed'
    BY <1>2, <1>3, <1>5, <1>7 DEF Typed
  <1>9. \A q \in Procs : Progress(proc[q])'
    <2>. TAKE q \in Procs
    <2>. QED BY <1>1, <1>2 DEF Progress, IsPrefixOf
  <1>10. \A q \in Procs : Owned(q)'
    <2>. TAKE q \in Procs
    <2>1. q \notin {"none", "user"}
      BY FinalizeAssumption
    <2>2. \A g \in proc[q].installed : g \in Paths
      BY <1>3 DEF Processes
    <2>3. \A g \in proc[q].installed : owner'[g] \in {q, "user"}
      BY <1>1, <2>2 DEF Owned
    <2>4. \A g \in Paths : owner'[g] = q => owner[g] = q /\ locks'[g] = locks[g]
      BY <2>1
    <2>5. \A g \in Paths : owner'[g] = q /\ ~ proc[q].spoiled =>
             g \in proc[q].installed /\ locks'[g] = proc[q].built[g]
      BY <1>1, <2>4 DEF Owned
    <2>. QED BY <1>1, <1>2, <2>3, <2>5 DEF Owned
  <1>11. \A q \in Procs : Quiet(q)'
    <2>. TAKE q \in Procs
    <2>. QED BY <1>1, <1>2, <1>6, EndedStays
  <1>. QED BY <1>8, <1>9, <1>10, <1>11 DEF FinalizeInv

LEMMA EditsKeep ==
    ASSUME FinalizeInv, ChangeData \/ ChangeDocs
    PROVE  FinalizeInv'
PROOF
  <1>1. Typed /\ OwnerTells
    BY DEF FinalizeInv
  <1>2. /\ Disturb /\ locks' = locks /\ owner' = owner
        /\ data' \in Worlds /\ docs' \in Documents
    BY <1>1 DEF ChangeData, ChangeDocs, Typed
  <1>3. /\ locks' \in [Paths -> Locks \union {NoLock}]
        /\ owner' \in [Paths -> Procs \union {"none", "user"}]
    BY <1>1, <1>2 DEF Typed
  <1>4. OwnerTells'
    BY <1>1, <1>2 DEF OwnerTells
  <1>. QED BY <1>2, <1>3, <1>4, Disturbed

LEMMA ReplaceKeeps ==
    ASSUME FinalizeInv, NEW g \in Paths, Replace(g)
    PROVE  FinalizeInv'
PROOF
  <1>1. Typed /\ OwnerTells
    BY DEF FinalizeInv
  <1>2. PICK l : l = BuildLock(data, SpecOf(g))
    OBVIOUS
  <1>3. /\ Disturb /\ data' = data /\ docs' = docs /\ l # NoLock
        /\ locks' = [locks EXCEPT ![g] = l] /\ owner' = [owner EXCEPT ![g] = "user"]
    BY <1>2 DEF Replace
  <1>4. l \in Locks
    BY <1>1, <1>2 DEF Locks, Typed, SpecOf, Coverages
  <1>5. /\ data \in Worlds /\ docs \in Documents
        /\ locks \in [Paths -> Locks \union {NoLock}]
        /\ owner \in [Paths -> Procs \union {"none", "user"}]
    BY <1>1 DEF Typed
  <1>6. /\ locks' \in [Paths -> Locks \union {NoLock}]
        /\ owner' \in [Paths -> Procs \union {"none", "user"}]
        /\ locks'[g] = l /\ owner'[g] = "user"
        /\ \A h \in Paths \ {g} : locks'[h] = locks[h] /\ owner'[h] = owner[h]
    BY <1>3, <1>4, <1>5
  <1>7. OwnerTells'
    <2>. SUFFICES ASSUME NEW h \in Paths PROVE owner'[h] = "none" <=> locks'[h] = NoLock
      BY DEF OwnerTells
    <2>1. CASE h = g
      BY <1>3, <1>6, <2>1
    <2>2. CASE h # g
      BY <1>1, <1>6, <2>2 DEF OwnerTells
    <2>. QED BY <2>1, <2>2
  <1>8. \A h \in Paths : \/ locks'[h] = locks[h] /\ owner'[h] = owner[h]
                         \/ owner'[h] = "user"
    BY <1>6
  <1>9. data' \in Worlds /\ docs' \in Documents
    BY <1>3, <1>5
  <1>. QED BY <1>3, <1>6, <1>7, <1>8, <1>9, Disturbed

-----------------------------------------------------------------------------
\* The invariant, and what follows from it.

LEMMA InitHolds == Init => FinalizeInv
PROOF
  <1>. SUFFICES ASSUME Init PROVE FinalizeInv
    OBVIOUS
  <1>1. PICK v \in Coverages : v = CHOOSE c \in {d.coverage : d \in Documents} : TRUE
    BY DEF Init, Coverages
  <1>2. PICK f : f = [g \in {} |-> NoLock]
    OBVIOUS
  <1>3. f \in [{} -> Locks] /\ DOMAIN f = {} /\ {} \in SUBSET Paths
    BY <1>2
  <1>4. PICK r : r = [at |-> "idle", coverage |-> v, todo |-> {}, built |-> f, installed |-> {},
                      madeRoot |-> FALSE, spoiled |-> FALSE]
    OBVIOUS
  <1>5. r = Idle
    BY <1>1, <1>2, <1>4 DEF Idle
  <1>6. f \in UNION {[D -> Locks] : D \in SUBSET Paths}
    BY <1>3
  <1>7. r \in Processes /\ r.at = "idle" /\ r.todo = {} /\ r.built = f /\ r.installed = {}
        /\ r.spoiled = FALSE
    <2>1. "idle" \in Places
      BY DEF Places
    <2>2. PICK B : B = UNION {[D -> Locks] : D \in SUBSET Paths}
      OBVIOUS
    <2>3. Processes = [at : Places, coverage : Coverages, todo : SUBSET Paths, built : B,
                       installed : SUBSET Paths, madeRoot : BOOLEAN, spoiled : BOOLEAN]
      BY <2>2 DEF Processes
    <2>. QED BY <1>4, <1>6, <2>1, <2>2, <2>3
  <1>8. /\ \A p \in Procs : proc[p] = r
        /\ proc \in [Procs -> Processes]
    BY <1>5, <1>7 DEF Init
  <1>9. /\ \A p \in Procs : calm[p].alone = FALSE
        /\ calm \in [Procs -> [alone : BOOLEAN, current : BOOLEAN]]
    BY DEF Init
  <1>10. /\ \A g \in Paths : locks[g] = NoLock /\ owner[g] = "none"
         /\ locks \in [Paths -> Locks \union {NoLock}]
         /\ owner \in [Paths -> Procs \union {"none", "user"}]
    BY DEF Init
  <1>11. Typed
    <2>1. data \in Worlds /\ docs \in Documents /\ edits \in 0 .. MaxEdits
      BY FinalizeAssumption DEF Init
    <2>2. root \in BOOLEAN
      BY DEF Init
    <2>. QED BY <1>8, <1>9, <1>10, <2>1, <2>2 DEF Typed
  <1>12. OwnerTells
    BY <1>10 DEF OwnerTells
  <1>13. Progress(r)
    BY <1>3, <1>7 DEF Progress, IsPrefixOf
  <1>14. \A p \in Procs : Owned(p)
    <2>. TAKE p \in Procs
    <2>1. p # "none"
      BY FinalizeAssumption
    <2>. QED BY <1>7, <1>8, <1>10, <2>1 DEF Owned
  <1>15. \A p \in Procs : Quiet(p)
    BY <1>9 DEF Quiet
  <1>. QED BY <1>8, <1>11, <1>12, <1>13, <1>14, <1>15 DEF FinalizeInv

LEMMA NextKeeps == FinalizeInv /\ [Next]_vars => FinalizeInv'
PROOF
  <1>. SUFFICES ASSUME FinalizeInv, [Next]_vars PROVE FinalizeInv'
    OBVIOUS
  <1>1. ASSUME NEW p \in Procs, ProcStep(p) PROVE FinalizeInv'
    BY <1>1, BeginKeeps, PreflightKeeps, PartitionKeeps, BuildKeeps, PrepareRootsKeeps, PersistKeeps,
       PostflightKeeps, RecheckKeeps, RollbackReadKeeps, RollbackRemoveKeeps, CleanupKeeps, CrashKeeps
       DEF ProcStep
  <1>2. ASSUME NEW g \in Paths, Replace(g) PROVE FinalizeInv'
    BY <1>2, ReplaceKeeps
  <1>3. CASE UNCHANGED vars
    <2>1. data' = data /\ docs' = docs /\ edits' = edits /\ locks' = locks /\ owner' = owner
          /\ root' = root /\ proc' = proc /\ calm' = calm
      BY <1>3 DEF vars
    <2>2. Typed' /\ OwnerTells'
      BY <2>1 DEF FinalizeInv, Typed, OwnerTells
    <2>3. DataReady' = DataReady /\ HasErrors' = HasErrors /\ Ready' = Ready
      BY <2>1 DEF DataReady, HasErrors, Ready, SpecOf
    <2>4. ASSUME NEW p \in Procs PROVE Progress(proc[p])' /\ Owned(p)' /\ Quiet(p)'
      <3>1. Progress(proc[p]) /\ Owned(p) /\ Quiet(p)
        BY DEF FinalizeInv
      <3>2. Progress(proc[p])' /\ Owned(p)'
        BY <2>1, <3>1 DEF Progress, Owned, IsPrefixOf
      <3>3. Quiet(p)'
        BY <2>1, <2>3, <3>1 DEF Quiet, Knows, Kept, Fresh, Ahead, Done, SpecOf
      <3>. QED BY <3>2, <3>3
    <2>. QED BY <2>2, <2>4 DEF FinalizeInv
  <1>. QED BY <1>1, <1>2, <1>3, EditsKeep DEF Next

LEMMA InvHolds == Spec => []FinalizeInv
PROOF
  <1>. QED BY InitHolds, NextKeeps, PTL DEF Spec

LEMMA InvSuffices == FinalizeInv => FinalizeRecovers
PROOF
  <1>. SUFFICES ASSUME FinalizeInv PROVE FinalizeRecovers
    OBVIOUS
  <1>1. Typed /\ OwnerTells /\ \A p \in Procs : Progress(proc[p]) /\ Owned(p) /\ Quiet(p)
    BY DEF FinalizeInv
  <1>2. TypeOK
    <2>1. /\ data \in Worlds /\ docs \in Documents /\ edits \in 0 .. MaxEdits /\ root \in BOOLEAN
          /\ \A g \in Paths : owner[g] \in Procs \union {"none", "user"}
      BY <1>1 DEF Typed
    <2>2. \A g \in Paths : (owner[g] = "none") = (locks[g] = NoLock)
      BY <1>1 DEF OwnerTells
    <2>3. ASSUME NEW p \in Procs
          PROVE  /\ proc[p].todo \subseteq Paths
                 /\ IsPrefixOf(DOMAIN proc[p].built, proc[p].todo)
                 /\ IsPrefixOf(proc[p].installed, proc[p].todo)
                 /\ (proc[p].installed # {} => DOMAIN proc[p].built = proc[p].todo)
      <3>1. PICK r \in Processes : r = proc[p] /\ Progress(r)
        BY <1>1 DEF Typed
      <3>2. r.todo \subseteq Paths
        BY DEF Processes
      <3>. QED BY <3>1, <3>2 DEF Progress
    <2>. QED BY <2>1, <2>2, <2>3 DEF TypeOK
  <1>3. FailedLeavesNothing
    <2>. SUFFICES ASSUME NEW p \in Procs, proc[p].at \in {"failed", "refused"}, ~ proc[p].spoiled,
                         NEW g \in Paths, owner[g] = p
                  PROVE  FALSE
      BY DEF FailedLeavesNothing
    <2>1. proc[p].installed = {}
      BY <1>1 DEF Progress
    <2>2. g \in proc[p].installed
      BY <1>1 DEF Owned
    <2>. QED BY <2>1, <2>2
  <1>4. QuietSucceeds
    BY <1>1 DEF QuietSucceeds, Quiet, Knows
  <1>. QED BY <1>2, <1>3, <1>4 DEF FinalizeRecovers

\* Whatever several finalizations and the user do around each other: a finalization that
\* fails leaves no lock of its own behind, and one that nobody disturbs succeeds.
THEOREM FinalizeSound == Spec => []FinalizeRecovers
PROOF
  <1>. QED BY InvHolds, InvSuffices, PTL

\* In one step a process installs where no lock is, or removes where it had installed.
LEMMA StepsOwn ==
    ASSUME FinalizeInv, NEW p \in Procs, ProcStep(p), NEW g \in Paths, locks'[g] # locks[g]
    PROVE  \/ owner[g] \in {"none", p}
           \/ owner[g] = "user" /\ proc[p].at = "remove" /\ g \in proc[p].installed
PROOF
  <1>1. PICK r \in Processes : r = proc[p] /\ Progress(r)
    BY HereIs
  <1>2. Typed /\ OwnerTells /\ Owned(p) /\ locks \in [Paths -> Locks \union {NoLock}]
    BY DEF FinalizeInv, Typed
  <1>3. Persist(p) \/ RollbackRemove(p)
    BY DEF ProcStep, Begin, Preflight, Partition, Build, PrepareRoots, Postflight, Recheck,
           RollbackRead, Cleanup, Crash, KeepDisk
  <1>4. CASE Persist(p)
    <2>1. PICK h : h = NextLock(r)
      OBVIOUS
    <2>2. PICK l : l = r.built[h]
      OBVIOUS
    <2>3. Installs(p, h) /\ locks' = [locks EXCEPT ![h] = l]
      BY <1>1, <1>4, <2>1, <2>2 DEF Persist
    <2>4. g = h
      BY <1>2, <2>3
    <2>. QED BY <1>2, <2>3, <2>4 DEF Installs, OwnerTells
  <1>5. CASE RollbackRemove(p)
    <2>1. PICK h : h = LastLock(r)
      OBVIOUS
    <2>2. r.at = "remove" /\ locks' = [locks EXCEPT ![h] = NoLock]
      BY <1>1, <1>5, <2>1 DEF RollbackRemove
    <2>3. g = h
      BY <1>2, <2>2
    <2>4. r.installed # {} /\ r.installed \in SUBSET Paths
      BY <1>1, <2>2 DEF Progress, Processes
    <2>5. h \in r.installed
      BY <2>1, <2>4, MaxIs DEF LastLock
    <2>. QED BY <1>1, <1>2, <2>2, <2>3, <2>5 DEF Owned
  <1>. QED BY <1>3, <1>4, <1>5

LEMMA StepIsOf ==
    ASSUME FinalizeInv, Next, NEW p \in Procs, proc[p] # proc'[p]
    PROVE  ProcStep(p)
PROOF
  <1>1. proc \in [Procs -> Processes]
    BY DEF FinalizeInv, Typed
  <1>2. ASSUME NEW q \in Procs \ {p}, ProcStep(q) PROVE FALSE
    <2>1. \/ \E c : proc' = [proc EXCEPT ![q] = c]
          \/ \E x : proc' = [proc EXCEPT ![q].at = x]
      BY <1>2 DEF ProcStep, Begin, Preflight, Partition, Build, PrepareRoots, Persist, Postflight,
                  Recheck, RollbackRead, RollbackRemove, Cleanup, Crash, To, Move
    <2>. QED BY <1>1, <2>1
  <1>3. ~ (ChangeData \/ ChangeDocs \/ \E g \in Paths : Replace(g))
    BY DEF ChangeData, ChangeDocs, Replace, Disturb
  <1>. QED BY <1>2, <1>3 DEF Next

LEMMA MovesOwn == FinalizeInv /\ [Next]_vars => [OwnLocksMove]_vars
PROOF
  <1>. SUFFICES ASSUME FinalizeInv, Next PROVE OwnLocksMove
    OBVIOUS
  <1>. QED BY StepsOwn, StepIsOf DEF OwnLocksMove

\* No finalization overwrites or removes a lock that another one has installed.
THEOREM LocksAreOwn == Spec => OnlyOwnLocks
PROOF
  <1>. QED BY InvHolds, MovesOwn, PTL DEF Spec, OnlyOwnLocks
=============================================================================
