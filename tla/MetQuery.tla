------------------------------ MODULE MetQuery ------------------------------
(***************************************************************************)
(* The meteorology engine of a run: raw frames are loaded into a byte-     *)
(* budgeted cache, a query selects the frames around its time, prepares    *)
(* local columns in a second byte-budgeted LRU cache and pins them,        *)
(* executes from the pins, and may serve a transport query from the last   *)
(* one.  The continuous boundary keeps the columns of a whole batch of     *)
(* paths pinned in a session of its own.  (`MetEngine', `FrameCache',      *)
(* `ColumnCache', `BoundaryStencilSession', `ExactTransportCacheKey'.)     *)
(*                                                                         *)
(* Simplifications.  One domain.  A column is named by its frame, cell and *)
(* capability set, and its size depends on the cell.  What a query         *)
(* computes at a point is named by the point and the window.  All of a     *)
(* batch's points lie in the domain, and every column can be built.        *)
(***************************************************************************)
EXTENDS Integers, Sequences, SequencesExt, FiniteSets, FiniteSetsExt

CONSTANTS Jobs,          \* frames to load, in time order
          FrameBudget,   \* fixed bytes, in frames
          Budget,        \* dynamic bytes: columns and execution
          Scratch,       \* bytes of execution for one chunk, besides columns
          Cells, ColumnSize, \* the cells of the grid, the bytes of a column there
          Points, CellOf,    \* the points queried, and where they lie
          Batches        \* the queries: sequences of points

ASSUME QueryAssumption ==
    /\ Jobs \in Nat /\ FrameBudget \in Nat /\ Budget \in Nat /\ Scratch \in Nat
    /\ IsFiniteSet(Cells) /\ ColumnSize \in [Cells -> Nat]
    /\ CellOf \in [Points -> Cells] /\ Batches \subseteq Seq(Points)

VARIABLES loaded,    \* frame jobs done
          frames,    \* the resident frames, least recently used first
          phase,     \* "loading", "ready", "failed" (the run stops on an error)
          lru,       \* the resident columns, least recently used first
          session,   \* the columns pinned by the boundary workspace, with its byte count
          batch,     \* the prepared batch, or NoBatch
          boundary,  \* between begin_batch and end_batch
          last,      \* the one cached transport result, or NoResult
          answer     \* the transport output the caller holds, with the query it answers

vars == <<loaded, frames, phase, lru, session, batch, boundary, last, answer>>

\* Two instants between one frame and the next.
FrameTime(i) == 3 * i
NoSession == [pins |-> {}, bytes |-> 0]
NoBatch   == [kind |-> "none", time |-> 0, points |-> <<>>, pins |-> {}]
NoResult  == [time |-> 0, points |-> <<>>, rows |-> <<>>]

\* What the executor computes at a point; that a point lies in a cell is all that
\* matters elsewhere.
Value(time, p) == <<time, p>>

-----------------------------------------------------------------------------
\* Byte-budgeted LRU caches.

Size(key) == ColumnSize[key.cell]
Bytes(keys) == Cardinality(UNION {{k} \X (1 .. Size(k)) : k \in keys})

Without(s, gone) ==
    LET kept[i \in 0 .. Len(s)] ==
            IF i = 0 THEN <<>>
            ELSE IF s[i] \in gone THEN kept[i - 1] ELSE Append(kept[i - 1], s[i])
    IN  kept[Len(s)]

\* What may be evicted, least recently used first.
Candidates(s, pinned) == Without(s, pinned)

\* The first n of them; as few of them as are enough, or all.
First(cands, n) == {cands[i] : i \in 1 .. n}
Oldest(cands, enough) == First(cands, IF enough = {} THEN Len(cands) ELSE Min(enough))

\* A hit becomes the most recently used.
Touch(s, key) == Append(Without(s, {key}), key)

\* ColumnCache::get and ::insert for one key of a preparation: a hit moves to the
\* back; a miss is planned, evicts only what it must and nothing if that is not
\* enough.  `held' is what is pinned from outside, `taken' what the preparation has
\* pinned so far.
Take(st, key) ==
    LET resident == Range(st.lru)
        cands == Candidates(st.lru, st.taken \union st.held)
        Fits(gone) == Bytes(resident \ gone) + Size(key) <= Budget
        gone == Oldest(cands, {n \in 0 .. Len(cands) : Fits(First(cands, n))})
    IN  CASE ~ st.ok           -> st
          [] st.ok /\ key \in resident ->
                 [st EXCEPT !.lru = Touch(@, key), !.taken = @ \union {key}]
          [] st.ok /\ key \notin resident /\ Fits(gone) ->
                 [st EXCEPT !.lru = Append(Without(@, gone), key), !.taken = @ \union {key}]
          [] OTHER             -> [st EXCEPT !.ok = FALSE]

TakeAll(s, held, keys) ==
    LET after[i \in 0 .. Len(keys)] ==
            IF i = 0 THEN [lru |-> s, held |-> held, taken |-> {}, ok |-> TRUE]
            ELSE Take(after[i - 1], keys[i])
    IN  after[Len(keys)]

\* trim_unpinned_to: evict until the target is met; what was evicted stays so even
\* when it is not.
Trim(s, pinned, target) ==
    LET cands == Candidates(s, pinned)
        Met(gone) == Bytes(Range(s) \ gone) <= target
        gone == Oldest(cands, {n \in 0 .. Len(cands) : Met(First(cands, n))})
    IN  [lru |-> Without(s, gone), ok |-> Met(gone)]

\* FrameCache::insert of the next frame, all of one size: the frame before is held
\* by the loader, the others may be evicted.
FramesAfter(f) ==
    LET cands == Candidates(frames, {f - 1})
        Fits(gone) == Cardinality(Range(frames) \ gone) + 1 <= FrameBudget
        gone == Oldest(cands, {n \in 0 .. Len(cands) : Fits(First(cands, n))})
    IN  [ok |-> Fits(gone), frames |-> Append(Without(frames, gone), f)]

-----------------------------------------------------------------------------
\* The window of a query.

\* prepare_from_sorted_frames: a resident frame at that time, or the nearest
\* resident ones on either side.
Before(time) == {f \in Range(frames) : FrameTime(f) < time}
After(time)  == {f \in Range(frames) : FrameTime(f) > time}
Exact(time)  == \E f \in Range(frames) : FrameTime(f) = time
Covered(time) == Exact(time) \/ (Before(time) # {} /\ After(time) # {})

\* The two frames of the pair; an exact frame is both.
Pair(time) == IF Exact(time) THEN {f \in Range(frames) : FrameTime(f) = time}
              ELSE {Max(Before(time)), Min(After(time))}

\* validate_transport_time_support: derivatives at a frame need both neighbours.
TimeSupport(time) == ~ Exact(time) \/ (Before(time) # {} /\ After(time) # {})

\* stencil_frames: the pair and, for geometric vertical velocity, the neighbours.
WindowFrames(time, derivatives) ==
    Pair(time) \union
        (IF derivatives /\ Exact(time)
         THEN {f \in Range(frames) : \/ Before(time) # {} /\ f = Max(Before(time))
                                     \/ After(time) # {} /\ f = Min(After(time))}
         ELSE {})

\* "stability" stands for the physics queries that need no derivative.
Kinds == {"transport", "mesoscale", "stability"}
Derivatives(kind) == kind \in {"transport", "mesoscale"}
\* The capabilities of a plan are part of a column's key.
Capabilities(kind) == IF kind \in {"transport", "boundary"} THEN "plan" ELSE "bare"

\* The column keys a query needs, frame by frame (stencil_cache_key).
Keys(kind, time, points) ==
    LET cells == {CellOf[p] : p \in Range(points)}
        OfFrame(f) == {[frame |-> f, cell |-> c, caps |-> Capabilities(kind)] : c \in cells}
        window == WindowFrames(time, Derivatives(kind))
        upTo[f \in 0 .. Jobs] ==
            IF f = 0 THEN <<>>
            ELSE IF f \in window THEN upTo[f - 1] \o SetToSeq(OfFrame(f)) ELSE upTo[f - 1]
    IN  upTo[Jobs]

-----------------------------------------------------------------------------
\* Loading.

Idle == phase = "ready" /\ batch = NoBatch

\* cache_frame: the exact-transport entry is dropped with every new frame.
LoadFrame ==
    /\ phase = "loading" /\ loaded < Jobs
    /\ LET next == FramesAfter(loaded + 1)
       IN  IF next.ok
           THEN frames' = next.frames /\ loaded' = loaded + 1 /\ UNCHANGED phase
           ELSE phase' = "failed" /\ UNCHANGED <<frames, loaded>>
    /\ last' = NoResult
    /\ UNCHANGED <<lru, session, batch, boundary, answer>>

Loaded ==
    /\ phase = "loading" /\ loaded = Jobs
    /\ phase' = "ready"
    /\ UNCHANGED <<loaded, frames, lru, session, batch, boundary, last, answer>>

-----------------------------------------------------------------------------
\* Batches: prepare, execute, drop.

\* A query outside the loaded time, or without its neighbours, fails the run.
QueryFails(kind, time) ==
    /\ Idle /\ boundary = (kind = "boundary")
    /\ ~ Covered(time) \/ (Derivatives(kind) /\ ~ TimeSupport(time))
    /\ phase' = "failed"
    /\ UNCHANGED <<loaded, frames, lru, session, batch, boundary, last, answer>>

\* prepare_stencils and the layout: take every column, trim the cache to those,
\* then plan chunks with what is left.
Prepare(kind, time, points) ==
    /\ Idle /\ ~ boundary
    /\ Covered(time) /\ (Derivatives(kind) => TimeSupport(time))
    /\ LET take == TakeAll(lru, session.pins, Keys(kind, time, points))
           trim == Trim(take.lru, take.taken \union session.pins, Bytes(take.taken))
       IN  /\ lru' = IF take.ok THEN trim.lru ELSE take.lru
           /\ IF take.ok /\ trim.ok /\ Bytes(take.taken) + Scratch <= Budget
              THEN /\ batch' = [kind |-> kind, time |-> time, points |-> points,
                                pins |-> take.taken]
                   /\ UNCHANGED phase
              ELSE /\ batch' = [kind |-> kind, time |-> time, points |-> points,
                                pins |-> {}]
                   /\ phase' = "failed"
    /\ answer' = NoResult
    /\ UNCHANGED <<loaded, frames, session, boundary, last>>

\* One step of the pass: the next cached row at this point, each used once.
Advance(st, p, cached) ==
    LET later == {i \in 1 .. Len(cached) : i > st.at /\ cached[i] = p}
    IN  IF st.ok /\ later # {}
        THEN [st EXCEPT !.at = Min(later), !.rows = Append(@, Min(later))]
        ELSE [st EXCEPT !.ok = FALSE]

\* selection_from_cached: the rows of the cached query that answer this one, found
\* by one pass over both.
Scan(points, cached) ==
    LET upTo[n \in 0 .. Len(points)] ==
            IF n = 0 THEN [at |-> 0, rows |-> <<>>, ok |-> TRUE]
            ELSE Advance(upTo[n - 1], points[n], cached)
    IN  upTo[Len(points)]

\* Mutation of Reusable: the window is not part of the key.
ReusableAnyTime(time, points) == last # NoResult /\ Scan(points, last.points).ok

\* The window and plan of the cached query are those of this one, and its rows are
\* an ordered subset.
Reusable(time, points) ==
    last # NoResult /\ last.time = time /\ Scan(points, last.points).ok

\* PreparedTransportBatch::execute; the origin of the query decides whether its
\* result is published.
Execute(publish) ==
    /\ batch.kind = "transport" /\ phase = "ready"
    /\ LET time == batch.time  points == batch.points
           fresh == [i \in 1 .. Len(points) |-> Value(time, points[i])]
           rows == Scan(points, last.points).rows
       IN  IF Reusable(time, points)
           THEN /\ answer' = [time |-> time, points |-> points,
                              rows |-> [i \in 1 .. Len(rows) |-> last.rows[rows[i]]]]
                /\ UNCHANGED last
           ELSE /\ answer' = [time |-> time, points |-> points, rows |-> fresh]
                /\ last' = IF publish THEN answer' ELSE last
    /\ batch' = NoBatch
    /\ UNCHANGED <<loaded, frames, phase, lru, session, boundary>>

\* The other kinds execute from their pins and touch nothing else.
ExecutePhysics ==
    /\ batch.kind \notin {"none", "transport"} /\ phase = "ready"
    /\ batch' = NoBatch
    /\ UNCHANGED <<loaded, frames, phase, lru, session, boundary, last, answer>>

-----------------------------------------------------------------------------
\* The boundary: a workspace keeps its columns pinned from path to path.

BeginBatch ==
    /\ Idle /\ ~ boundary
    /\ boundary' = TRUE /\ session' = NoSession
    /\ answer' = NoResult
    /\ UNCHANGED <<loaded, frames, phase, lru, batch, last>>

EndBatch ==
    /\ Idle /\ boundary
    /\ boundary' = FALSE /\ session' = NoSession
    /\ answer' = NoResult
    /\ UNCHANGED <<loaded, frames, phase, lru, batch, last>>

SessionWith(s, keys) == [pins |-> s.pins \union keys, bytes |-> s.bytes + Bytes(keys \ s.pins)]

\* prepare_boundary_stencils_once: the cache is asked only for what the session does
\* not have; what was taken stays in the session on an error.
BoundaryOnce(s, lruNow, keys) ==
    LET take == TakeAll(lruNow, s.pins, Without(keys, s.pins))
    IN  [ok |-> take.ok, lru |-> take.lru, session |-> SessionWith(s, take.taken)]

\* prepare_boundary_stencils: out of budget, drop the session and try once more.
BoundaryPins(keys) ==
    LET first == BoundaryOnce(session, lru, keys)
    IN  IF first.ok THEN first ELSE BoundaryOnce(NoSession, first.lru, keys)

\* finalize_boundary_stencil_session: what the query needs must fit beside its
\* execution; a session too large for that is dropped, and the cache trimmed.
Settle(got, keys) ==
    LET allowed == Budget - Scratch
        kept == IF got.session.bytes > allowed THEN NoSession ELSE got.session
        trim == Trim(got.lru, kept.pins \union keys, allowed)
    IN  IF got.ok /\ Bytes(keys) + Scratch <= Budget
        THEN [ok |-> trim.ok, lru |-> trim.lru, session |-> kept]
        ELSE [got EXCEPT !.ok = FALSE]

\* A query of the boundary path in continuous time.
PrepareBoundary(time, points) ==
    /\ Idle /\ boundary /\ Covered(time)
    /\ LET keys == Keys("boundary", time, points)
           done == Settle(BoundaryPins(keys), Range(keys))
       IN  /\ lru' = done.lru /\ session' = done.session
           /\ batch' = [kind |-> "boundary", time |-> time, points |-> points,
                        pins |-> IF done.ok THEN Range(keys) ELSE {}]
           /\ phase' = IF done.ok THEN phase ELSE "failed"
    /\ answer' = NoResult
    /\ UNCHANGED <<loaded, frames, boundary, last>>

-----------------------------------------------------------------------------
Times == 1 .. FrameTime(Jobs) + 1

Init ==
    /\ loaded = 0 /\ frames = <<>> /\ phase = "loading"
    /\ lru = <<>> /\ session = NoSession /\ batch = NoBatch /\ boundary = FALSE
    /\ last = NoResult /\ answer = NoResult

\* The run is over; nothing is asked of the engine any more.
Stopped == phase = "failed" /\ UNCHANGED vars

Next ==
    \/ LoadFrame \/ Loaded \/ BeginBatch \/ EndBatch \/ ExecutePhysics \/ Stopped
    \/ \E publish \in BOOLEAN : Execute(publish)
    \/ \E time \in Times, points \in Batches :
          \/ \E kind \in Kinds : Prepare(kind, time, points)
          \/ PrepareBoundary(time, points)
    \/ \E time \in Times, kind \in Kinds \union {"boundary"} : QueryFails(kind, time)

Spec == Init /\ [][Next]_vars

-----------------------------------------------------------------------------
(***************************************************************************)
(* Properties.                                                             *)
(***************************************************************************)

ColumnKeys == [frame : 1 .. Jobs, cell : Cells, caps : {"plan", "bare"}]
Results == {NoResult} \union
           UNION {[time : Times, points : {points},
                   rows : [1 .. Len(points) -> Times \X Points]] : points \in Batches}

\* The type invariant: no column is resident twice.
TypeOK ==
    /\ loaded \in 0 .. Jobs /\ frames \in Seq(1 .. loaded)
    /\ phase \in {"loading", "ready", "failed"} /\ boundary \in BOOLEAN
    /\ lru \in Seq(ColumnKeys) /\ IsInjective(lru)
    /\ session \in [pins : SUBSET ColumnKeys, bytes : Nat]
    /\ \/ batch = NoBatch
       \/ batch \in [kind : Kinds \union {"boundary"}, time : Times, points : Batches,
                     pins : SUBSET ColumnKeys]
    /\ last \in Results /\ answer \in Results

\* What is pinned is resident: neither a later column of the same preparation, nor a
\* query between two of the boundary, evicts what someone holds.
PinnedResident == phase # "failed" => batch.pins \union session.pins \subseteq Range(lru)

\* The session's own count is the bytes it pins, so that dropping it when it exceeds
\* its allowance is decided on a true number.
SessionCounts == session.bytes = Bytes(session.pins)

\* A batch executes only when everything resident, and not just its own columns,
\* leaves room for the execution: columns kept for reuse never break the hard budget.
ExecutionFits == phase = "ready" /\ batch # NoBatch => Bytes(Range(lru)) + Scratch <= Budget

\* No query runs out of memory because of what earlier queries left in the cache or
\* in the boundary session: the run stops only on a query that would not fit alone.
NeverStarved ==
    phase = "failed" /\ batch # NoBatch =>
        Bytes(Range(Keys(batch.kind, batch.time, batch.points))) + Scratch > Budget

\* Frames are loaded in time order and the oldest go first, so the resident ones have
\* no hole: the pair a query finds are the true neighbours in the source, never two
\* frames with an evicted one between them.
FramesHaveNoHole ==
    \A f, g \in Range(frames) : f .. g \subseteq Range(frames)

\* A transport answer, copied or computed, has the value of each of its points at the
\* query's own time.
ReuseIsExact ==
    \A i \in 1 .. Len(answer.points) : answer.rows[i] = Value(answer.time, answer.points[i])

\* Whatever the order of loading, batches and boundary queries: what is pinned is
\* resident, the budget is kept and nobody starves, a reused answer is the answer to
\* this query, and the frames held have no hole.
CacheIsSound ==
    /\ TypeOK /\ PinnedResident /\ SessionCounts /\ ExecutionFits /\ NeverStarved
    /\ FramesHaveNoHole /\ ReuseIsExact
=============================================================================
