----------------------------- MODULE DatasetLock -----------------------------
(***************************************************************************)
(* Binding local meteorology files to a case: what a DatasetLock is built  *)
(* from, when an existing one still serves a requirement, how projects     *)
(* that share a lock merge their requirements, and which locked frames a   *)
(* run then loads.  (`DatasetLockBuilder', `InventoryBuilder',             *)
(* `group_lock_uses', `select_bracketing_frame_indices'.)                  *)
(*                                                                         *)
(* Simplifications.  One data root per lock.  A file is a record of what   *)
(* inspection finds in it; its bytes are a version number.  Grid and       *)
(* vertical signature are one topology.  The profile catalog is fixed:     *)
(* a profile is a name with its capabilities, warm-up and frame interval.  *)
(***************************************************************************)
EXTENDS Naturals, Sequences, SequencesExt, FiniteSets, FiniteSetsExt

CONSTANTS Profiles,      \* the profiles a source may match
          Warmup,        \* profile_warmup_frames of each
          Provides,      \* the capabilities of each
          Interval       \* frame_interval_seconds of each, 0 for none

NoLock == [dataset |-> 0, profile |-> "", files |-> {}, topology |-> 0]

-----------------------------------------------------------------------------
\* Coverage.

\* partition_point: how many times are before, or not after, a given one.
CountBefore(all, t) == Cardinality({i \in 1 .. Len(all) : all[i] < t})
CountUpTo(all, t)   == Cardinality({i \in 1 .. Len(all) : all[i] <= t})

\* The first and last index of the frames that bracket the interval; 0 for none.
Bracket(all, start, end) ==
    LET inside == CountBefore(all, start) + 1
        beyond == CountUpTo(all, end) + 1
    IN  IF inside < beyond
        THEN [first |-> IF all[inside] > start /\ inside > 1 THEN inside - 1 ELSE inside,
              last  |-> IF all[beyond - 1] < end /\ beyond <= Len(all) THEN beyond ELSE beyond - 1]
        ELSE IF inside > 1 /\ inside <= Len(all)
        THEN [first |-> inside - 1, last |-> inside]
        ELSE [first |-> 0, last |-> 0]

\* Mutation of SelectTimes: the frames after the interval are not counted.
SelectTimesNoFollowing(times, coverage, before) ==
    LET all == SetToSortSeq(times, <)
        at  == Bracket(all, coverage.start, coverage.end)
    IN  IF times = {} \/ at.first <= before THEN {}
        ELSE {all[i] : i \in at.first - before .. at.last}

\* select_times: the bracketing frames and the buffers on either side, or none when
\* the files do not have them.
SelectTimes(times, coverage, before) ==
    LET all == SetToSortSeq(times, <)
        at  == Bracket(all, coverage.start, coverage.end)
    IN  IF times = {} \/ at.first <= before \/ Len(all) - at.last < coverage.after THEN {}
        ELSE {all[i] : i \in at.first - before .. at.last + coverage.after}

AllTimes(files) == UNION {f.times : f \in files}

-----------------------------------------------------------------------------
\* Building a lock from what lies in the data root.

\* A candidate path that cannot be inspected fails the build, any other is skipped.
Inspectable(files) == \A f \in files : f.candidate => f.readable

Matched(files, profile) == {f \in files : f.readable /\ f.product = profile}

\* select_candidates: files without times go with every frame.
WithTimes(files, times) == {f \in files : f.times = {} \/ f.times \cap times # {}}

Locked(f, times) ==
    [name |-> f.name, roles |-> f.roles, times |-> f.times \cap times, version |-> f.version]

\* DatasetLockBuilder::build, or NoLock.
BuildLock(files, spec) ==
    LET group  == Matched(files, spec.profile)
        buffer == spec.coverage.before + Warmup[spec.profile]
        times  == SelectTimes(AllTimes(group), spec.coverage, buffer)
        chosen == WithTimes(group, times)
        topologies == {f.topology : f \in chosen}
    IN  IF /\ spec.coverage.start <= spec.coverage.end
           /\ files # {} /\ Inspectable(files) /\ group # {}
           /\ SelectTimes(AllTimes(group), spec.coverage, spec.coverage.before) # {}
           /\ times # {} /\ Cardinality(topologies) = 1
           /\ spec.capabilities \subseteq Provides[spec.profile]
        THEN [dataset |-> spec.dataset, profile |-> spec.profile,
              files |-> {Locked(f, times) : f \in chosen},
              topology |-> CHOOSE t \in topologies : TRUE]
        ELSE NoLock

-----------------------------------------------------------------------------
\* Using an existing lock.

\* validate_dataset_lock_requirements.
MeetsRequirements(lock, spec) ==
    /\ lock.dataset = spec.dataset /\ lock.profile = spec.profile
    /\ spec.capabilities \subseteq Provides[spec.profile]
    /\ SelectTimes(AllTimes(lock.files), spec.coverage,
                   spec.coverage.before + Warmup[spec.profile]) # {}

\* verify_local_files_with_roots: every locked file is there, with the same bytes.
FilesUnchanged(lock, files) ==
    \A l \in lock.files : \E f \in files : f.name = l.name /\ f.version = l.version

\* coverage_report: the frames follow each other at the profile's interval.
Regular(times, interval) ==
    interval = 0 \/ \A t \in times : t = Max(times) \/ t + interval = Min({u \in times : u > t})

\* InventoryBuilder::build: at every time each role comes from one file.
Inventory(lock, files) ==
    /\ FilesUnchanged(lock, files)
    /\ AllTimes(lock.files) # {}
    /\ \A t \in AllTimes(lock.files) :
          LET there == {l \in lock.files : l.times = {} \/ t \in l.times}
          IN  \A k, l \in there : k # l => k.roles \cap l.roles = {}
    /\ Regular(AllTimes(lock.files), Interval[lock.profile])

\* validate_existing_lock.
Serves(lock, spec, files) ==
    lock # NoLock /\ MeetsRequirements(lock, spec) /\ Inventory(lock, files)

-----------------------------------------------------------------------------
\* Sharing a lock.

Compatible(a, b) == a.dataset = b.dataset /\ a.root = b.root /\ a.profile = b.profile

\* One more consumer of a lock: the union of what both need.
Merge(a, b) ==
    [a EXCEPT !.coverage = [start  |-> Min({a.coverage.start, b.coverage.start}),
                            end    |-> Max({a.coverage.end, b.coverage.end}),
                            before |-> Max({a.coverage.before, b.coverage.before}),
                            after  |-> Max({a.coverage.after, b.coverage.after})],
              !.capabilities = @ \union b.capabilities]

\* group_lock_uses, for the consumers of one lock in order.
GroupSpec(specs) == FoldLeft(Merge, Head(specs), Tail(specs))
GroupOk(specs) == \A i \in 1 .. Len(specs) : Compatible(specs[1], specs[i])

-----------------------------------------------------------------------------
\* Loading the frames of a run.

\* select_bracketing_frame_indices: the frames from the one at or before the first
\* query to the one at or after the last, one further where a query is exactly on a
\* frame, and the warm-up frames before; none when one is missing.
SelectFrames(times, queries, warmup) ==
    LET all == SetToSortSeq(times, <)
        left  == CountUpTo(all, Min(queries))
        right == CountBefore(all, Max(queries)) + 1
        lo == IF left > 0 /\ all[left] = Min(queries) THEN left - 1 ELSE left
        hi == IF right <= Len(all) /\ all[right] = Max(queries) THEN right + 1 ELSE right
    IN  IF lo = 0 \/ hi > Len(all) \/ lo <= warmup THEN {}
        ELSE {all[i] : i \in lo - warmup .. hi}
=============================================================================
