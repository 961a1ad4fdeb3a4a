-------------------------------- MODULE MCData -------------------------------
(***************************************************************************)
(* The data of a run: the lock that binds files to a case (DatasetLock,    *)
(* whose machine is below), its finalization with the other locks of a     *)
(* project (ProjectFinalize), the graph a profile compiles to              *)
(* (ProfileGraph), the frames read and computed with it (FrameLoad), and   *)
(* the files read for them (GridSources). A behaviour is one of theirs.    *)
(***************************************************************************)
EXTENDS Integers, TLC, ProjectFinalize

VARIABLES part,   \* the component that moves
          files, uses, lock, built,
          doc, order, nodes, bindings, outputs, phase, reason, plan,
          archive, requested, decoded, frames, status,
          source, index, slabs, asked, reply

\* Units, and expressions over two or three direct fields.
Unit(sym, dim, scale, offset) == [sym |-> sym, dim |-> dim, scale |-> scale, offset |-> offset]
Kelvin == Unit("K", 1, 1, 0)
TwoK == Unit("2K", 1, 2, 0)
DegC == Unit("degC", 1, 1, 4)
Kg == Unit("kg", 5, 1, 0)
Gram == Unit("2kg", 5, 2, 0)
Typed(unit, shape) == [unit |-> unit, shape |-> shape]
E(op, name, args) == [op |-> op, name |-> name, args |-> args]
Id(n) == E("id", n, <<>>)
Two(op, l, r) == E(op, "", <<l, r>>)
One(op, e) == E(op, "", <<e>>)

\* A data root of frames every two units of time, and what else may lie there.
RootFile(name, times, roles, product, topology, usable) ==
    [name |-> name, times |-> times, roles |-> roles, product |-> product, topology |-> topology,
     readable |-> usable, candidate |-> usable, version |-> 1]
MCCatalog ==
    {RootFile(t, {t}, {"a"}, "p", 1, TRUE) : t \in {2, 4, 6, 8, 10}} \union
    {RootFile(11, {10, 12}, {"b"}, "p", 1, TRUE), RootFile(12, {14}, {"a"}, "p", 2, TRUE),
     RootFile(14, {6}, {"a"}, "other", 1, TRUE), RootFile(15, {4}, {"a"}, "p", 1, FALSE)}
MCCoverages == {[start |-> m[1], end |-> m[2], before |-> 1, after |-> 1] :
                  m \in {<<5, 6>>, <<5, 7>>, <<6, 7>>, <<6, 9>>}}

\* Four frames, of which a version, a file or a frame may differ, and two locks.
ProjectFile(t, version) == [RootFile(t, {t}, {"a"}, "p", 1, TRUE) EXCEPT !.version = version]
Complete == {ProjectFile(t, 1) : t \in 1..4}
Contested == {Complete, {ProjectFile(t, 1) : t \in 1..3} \union {ProjectFile(4, 2)}}
MCWorlds == Contested \union
            {{ProjectFile(t, 1) : t \in 1..3}, Complete \union {[ProjectFile(2, 1) EXCEPT !.name = 5]}}
At(t) == [start |-> t, end |-> t, before |-> 1, after |-> 1]
Early == [complete |-> TRUE, coverage |-> [g \in {1, 2} |-> At(2)]]
Late  == [Early EXCEPT !.coverage = [g \in {1, 2} |-> At(3)]]
Draft == [Early EXCEPT !.complete = FALSE]
MCDocuments == {Early, Late, Draft}
MCWarmup == [p \in {"p"} |-> 0]
MCInterval == [p \in {"p"} |-> 1]
MCProvides == [p \in {"p"} |-> {"wind"}]
Terms == INSTANCE ProfileGraph WITH Direct <- <<>>, Registered <- <<>>, Documents <- {}, Calls <- <<>>

\* Three direct fields, one in an affine unit, with every operator and every declared type.
GraphDirect == 11 :> [target |-> 111, type |-> Typed(Kelvin, "Full3D")] @@
               12 :> [target |-> 112, type |-> Typed(Terms!Pascal, "Horizontal2D")] @@
               13 :> [target |-> 113, type |-> Typed(DegC, "Full3D")]
GraphCalls == [virtual |-> [ins |-> <<1, 0>>, out |-> 1], density |-> [ins |-> <<10, 1>>, out |-> 9]]
Leaves == {Id(11), Id(12), Id(13), Id(2), E("const", 3, <<>>)}
First == {Two(op, l, r) : op \in {"add", "sub", "mul", "div"}, l \in Leaves, r \in Leaves}
   \cup {E("thermo", "density", <<One("hybrid", l), r>>) : l \in Leaves, r \in Leaves}
   \cup {E("thermo", "virtual", <<l, r>>) : l \in Leaves, r \in Leaves}
   \cup {One(op, l) : op \in {"neg", "deaccumulate", "hybrid"}, l \in Leaves}
   \cup {Two("mul", One("neg", Id(11)), Two("sub", Id(11), Id(13))), Id(9)}
Second == {Id(1), Id(12), Two("add", Id(13), Id(1)), Two("mul", Id(1), Id(1)),
           Two("div", One("deaccumulate", Id(1)), E("interval", "", <<>>)),
           One("neg", Id(2)), Two("add", Id(1), One("neg", Id(11)))}
Declared == {<<Kelvin, "Full3D">>, <<DegC, "Full3D">>, <<Terms!Pascal, "Horizontal2D">>}
            \cup {<<u, "Full3D">> : u \in {Terms!Pascal} \cup {Terms!Si(n) : n \in {9, 2, -6}}}
DeclaredLast == {<<Kelvin, "Full3D">>, <<Terms!Si(2), "Full3D">>, <<Terms!Pascal, "Horizontal2D">>}
Field(id, e, d, s) == [id |-> id, target |-> 100 + id, expr |-> e, unit |-> d[1], shape |-> d[2], stage |-> s]
GraphDocuments ==
  {<<Field(1, e, d, s), Field(2, g, h, Terms!Column)>> :
     e \in First, d \in Declared, s \in {Terms!Frame, Terms!Column}, g \in Second, h \in DeclaredLast}

\* Two frames of two files: a primary and a fallback in another unit, masked cells, zero
\* divisors and absent members.
LoadDirect == 11 :> [target |-> 111, type |-> Typed(Kelvin, "Full3D")] @@
              12 :> [target |-> 112, type |-> Typed(Terms!Si(0), "Full3D")] @@
              13 :> [target |-> 113, type |-> Typed(Gram, "Full3D")]
LoadCalls == [virtual |-> [ins |-> <<1, 0>>, out |-> 1]]
Alt(ident, role, unit, fallback) == [ident |-> ident, role |-> role, unit |-> unit, fallback |-> fallback]
MCMappings ==
  11 :> [alts |-> <<Alt("t", "any", Kelvin, FALSE), Alt("tc", "any", DegC, TRUE)>>, kind |-> "instant"] @@
  12 :> [alts |-> <<Alt("q", "moist", Terms!Si(0), FALSE)>>, kind |-> "instant"] @@
  13 :> [alts |-> <<Alt("rain", "any", Kg, FALSE)>>, kind |-> "accumulation"]
Temperatures == {E("thermo", "virtual", <<Id(11), Id(12)>>),
                 Two("mul", Id(11), Id(12)), Two("sub", Id(11), One("neg", Id(2)))}
Others == {Two("div", Id(1), Id(12)), Two("add", Id(11), Id(11)), Id(11),
           Two("add", Two("mul", Id(11), E("const", 2, <<>>)), Two("sub", Id(11), Id(1)))}
Instant(field) == [kind |-> "instant"] @@ field
LoadDocuments ==
  {<<Instant(Field(1, e, <<u, "Full3D">>, Terms!Frame)), Instant(Field(2, g, <<TwoK, "Full3D">>, s))>> :
     e \in Temperatures, u \in {Kelvin, TwoK}, g \in Others, s \in {Terms!Frame, Terms!Column}}
Raw(v, valid, u, k) == [v |-> v, valid |-> valid, unit |-> u, kind |-> k]
Held(name, v, unit) == name :> Raw(v, TRUE, unit, "instant")
Temperature == {Held("t", 16, Kelvin), Held("tc", 12, DegC),
                Held("t", 32, Kelvin) @@ Held("tc", 12, DegC), Held("t", 16, DegC), <<>>}
Moisture == {Held("q", 0, Terms!Si(0)), Held("q", 2, Terms!Si(0)),
             "q" :> Raw(0, FALSE, Terms!Si(0), "instant"), Held("tc", 12, DegC)}
Rain(v) == "rain" :> Raw(v, TRUE, Kg, "accumulation")
FilesOf == {("air" :> a @@ "moist" :> (m @@ Rain(2))) : a \in Temperature, m \in Moisture}
           \cup {"air" :> Rain(2)}
LoadArchives == {<<a, "air" :> Held("t", 32, Kelvin) @@ "moist" :> Held("q", 2, Terms!Si(0))>> : a \in FilesOf}

\* Files of a wind in layers, a surface pressure, a static field and a field in an order that
\* is not read; what is stored says where.
Axis(name, axis, standard, unit, values, terms) ==
    [name |-> name, axis |-> axis, standard |-> standard, dims |-> <<name>>, unit |-> unit, attrs |-> <<>>,
     single |-> FALSE, data |-> values, terms |-> terms, calendar |-> TRUE]
Sizes(levels, times) == [time |-> Len(times), level |-> Len(levels), lat |-> 2, lon |-> 2]
Seqs == INSTANCE SequencesExt
Cells(size, dims) == Seqs!FoldLeft(LAMBDA n, d : n * size[d], 1, dims)
Stored(name, size, dims, attrs) ==
    [Axis(name, "none", "none", "1", [i \in 1 .. Cells(size, dims) |-> 3 * i], <<>>)
       EXCEPT !.dims = dims, !.attrs = attrs]
Fields(size) ==
    [u |-> Stored("u", size, <<"time", "level", "lat", "lon">>, "fill" :> 9 @@ "scale" :> 2 @@ "offset" :> 1 @@ "missing" :> 6),
     ps |-> Stored("ps", size, <<"time", "lat", "lon">>, "missing" :> 12 @@ "least" :> 6 @@ "rangeMin" :> 0),
     orog |-> Stored("orog", size, <<"lat", "lon">>, "rangeMin" :> 6 @@ "rangeMax" :> 9),
     w |-> Stored("w", size, <<"level", "lat", "lon">>, "most" :> 12),
     v |-> Stored("v", size, <<"level", "time", "lat", "lon">>, <<>>),
     s |-> [Stored("s", size, <<"time", "lat", "lon">>, "fill" :> 12) EXCEPT !.single = TRUE]]
NetFile(reader, axes, levels, unit, times, held) ==
    LET size == Sizes(levels, times)
        fields == Fields(size)
        by(role) == IF axes = "axis" THEN role ELSE "none"
        named(role) == IF axes = "standard" THEN role ELSE "none"
        extra == CASE axes = "twice" -> <<Axis("height", "vertical", "none", "Pa", levels, <<>>)>>
                   [] axes = "field" -> <<[fields.w EXCEPT !.name = "air", !.standard = "vertical", !.unit = unit]>>
                   [] axes = "hybrid" -> <<Axis("a", "none", "none", "Pa", [i \in 1 .. Len(levels) + 1 |-> i - 1], <<>>),
                                           Axis("b", "none", "none", "1", [i \in 1 .. Len(levels) + 1 |-> i - 1], <<>>)>>
                   [] axes = "few" -> <<Axis("a", "none", "none", "Pa", [i \in 1 .. Len(levels) |-> 3000 * i], <<>>),
                                        Axis("b", "none", "none", "1", [i \in 1 .. Len(levels) |-> i], <<>>)>>
                   [] OTHER -> <<>>
        terms == IF axes \in {"hybrid", "few"} THEN [a |-> "a", b |-> "b"] ELSE <<>>
    IN  [kind |-> reader, size |-> size,
         vars |-> extra \o
           <<Axis("lat", by("latitude"), named("latitude"), "1", IF axes = "bent" THEN <<5, 5>> ELSE <<40, 30>>, <<>>),
             Axis("level", IF axes = "twice" THEN "vertical" ELSE by("vertical"), named("vertical"), unit, levels, terms),
             Axis("lon", by("longitude"), named("longitude"), "1", <<0, 10>>, <<>>),
             Axis("time", by("time"), named("time"), IF axes = "axis" THEN "s" ELSE "quarter", times, <<>>)>>
           \o [i \in DOMAIN held |-> fields[held[i]]]]
NetReaders == {"classic", "netcdf4"}
NetFiles ==
    {NetFile(reader, axes, levels, unit, <<0, 4>>, <<"ps", "u">>) :
       reader \in NetReaders, axes \in {"axis", "standard", "usual", "twice", "field", "hybrid", "few", "bent"},
       levels \in {<<30, 10, 20>>, <<5, 10>>, <<10, 10>>}, unit \in {"Pa", "hPa"}}
    \cup {NetFile(reader, axes, levels, unit, times, <<"ps", "u">>) :
            reader \in NetReaders, axes \in {"standard", "hybrid"}, levels \in {<<30, 10, 20>>, <<5, 10>>},
            unit \in {"Pa", "m"}, times \in {<<0, 4>>, <<4, 0>>, <<4, 4>>}}
    \cup {NetFile(reader, axes, <<20, 10>>, "hPa", <<3, -5>>, <<"orog", "s", "v", "w">>) :
            reader \in NetReaders, axes \in {"axis", "usual", "field"}}
NetRequests == {[name |-> name, time |-> time] :
                  name \in {"u", "ps", "orog", "w", "v", "s"}, time \in {-100000, 4, 16}}

\* Messages of a wind and a temperature on pressure, on model levels and near the ground.
Coefficients == [a |-> <<0, 1, 2, 3>>, b |-> <<0, 0, 1, 2>>]
Message(field, type, level, time, pv) ==
    [field |-> field, type |-> type, level |-> level, time |-> time, pv |-> pv, grid |-> "g", whole |-> TRUE,
     data |-> <<level + time, IF field = "t" THEN -100000 ELSE level>>]
MCMessages ==
    {Message("u", "isobaric", l, 0, <<>>) : l \in {100, 85000, 850}}
      \cup {Message("t", "isobaric", 100, 0, <<>>), Message("t", "isobaric", 850, 0, <<>>), Message("u", "isobaric", 850, 4, <<>>)}
      \cup {Message("u", "hybrid", l, 0, Coefficients) : l \in 1 .. 3}
      \cup {Message("u", "hybrid", 1, 0, <<>>), Message("t", "hybrid", 2, 0, Coefficients), [Message("u", "hybrid", 2, 0, Coefficients) EXCEPT !.pv.a = <<0, 1, 2, 4>>]}
      \cup {Message("u", "height", l, 0, <<>>) : l \in {2, 10}}
      \cup {[Message("u", "height", 5, 0, <<>>) EXCEPT !.whole = FALSE], [Message("t", "isobaric", 850, 0, <<>>) EXCEPT !.whole = FALSE],
            [Message("t", "isobaric", 850, 0, <<>>) EXCEPT !.grid = "other"]}
GribFiles == {[kind |-> "grib", messages |-> m] : m \in [1 .. 3 -> MCMessages]}
GribRequests == {[identity |-> identity, time |-> time] :
                   identity \in {<<>>, "field" :> "u", "field" :> "t", "field" :> "u" @@ "type" :> "isobaric",
                                 "field" :> "u" @@ "type" :> "height" @@ "level" :> 2, "type" :> "hybrid"},
                   time \in {-100000, 0}}

Locks == INSTANCE DatasetLock WITH
                Profiles <- {"p", "other"}, Warmup <- [p \in {"p", "other"} |-> 1],
                Interval <- [p \in {"p", "other"} |-> 2], Provides <- [p \in {"p", "other"} |-> {"wind"}]
Graph == INSTANCE ProfileGraph WITH Direct <- GraphDirect, Calls <- GraphCalls,
                Registered <- 101 :> Typed(Kelvin, "Full3D"), Documents <- GraphDocuments
Frames == INSTANCE FrameLoad WITH Direct <- LoadDirect, Registered <- 101 :> Typed(Kelvin, "Full3D"), Documents <- LoadDocuments,
                Calls <- LoadCalls, Mappings <- MCMappings, Archives <- LoadArchives, Requests <- {{101}, {102}, {101, 102}, {111, 112}},
                Interval <- 2
Readers == INSTANCE GridSources WITH Sources <- NetFiles \cup GribFiles, SlabLimit <- 2,
                Requests <- [classic |-> NetRequests, netcdf4 |-> NetRequests, grib |-> GribRequests],
                Decimal <- [s \in -100 .. 200 |-> IF s = 12 THEN 10 ELSE s]

-----------------------------------------------------------------------------
\* One build of a shared lock, for every content of the data root and every pair of
\* consumers: files is what lies in the root, uses what the consumers need, lock what was
\* built, or NoLock.

Consumer(coverage) == [dataset |-> 1, root |-> "root", profile |-> "p",
                       coverage |-> coverage, capabilities |-> {"wind"}]

LockInit ==
    /\ files \in SUBSET MCCatalog
    /\ uses \in {<<Consumer(a), Consumer(b)>> : a, b \in MCCoverages}
    /\ lock = NoLock /\ built = FALSE

BuildShared ==
    /\ ~ built /\ Locks!GroupOk(uses)
    /\ lock' = Locks!BuildLock(files, Locks!GroupSpec(uses))
    /\ built' = TRUE
    /\ UNCHANGED <<files, uses>>

\* A lock names only files of the root, with times they have.
LockNamesFiles ==
    \A l \in lock.files : \E f \in files : l.name = f.name /\ l.times \subseteq f.times

\* The frames an interval needs, said without indices: from the last frame at or
\* before the start to the first at or after the end, and the buffers around them.
Needed(times, coverage, before) ==
    LET upTo == {t \in times : t <= coverage.start}
        from == {t \in times : t >= coverage.end}
        lower == {t \in times : t < Max(upTo)}
        upper == {t \in times : t > Min(from)}
    IN  IF \/ upTo = {} \/ from = {}
           \/ Cardinality(lower) < before \/ Cardinality(upper) < coverage.after
        THEN {}
        ELSE {t \in times : /\ Cardinality({u \in lower : u >= t}) <= before
                            /\ Cardinality({u \in upper : u <= t}) <= coverage.after}

\* A lock has exactly the frames its consumers' intervals and buffers need, and is
\* refused exactly when the root does not have them.
LockHasWhatIsNeeded ==
    built /\ files # {} /\ Inspectable(files) =>
        LET group == Matched(files, "p")
            spec == Locks!GroupSpec(uses)
            need == Needed(AllTimes(group), spec.coverage, spec.coverage.before + 1)
        IN  IF lock # NoLock THEN AllTimes(lock.files) = need
            ELSE need = {} \/ Cardinality({f.topology : f \in WithTimes(group, need)}) # 1

\* A lock built for all its consumers satisfies each of them on its own, as it is
\* checked before a run.
ServesEveryConsumer ==
    lock # NoLock => \A i \in 1 .. Len(uses) : Locks!MeetsRequirements(lock, uses[i])

\* A run whose queries stay in its case's interval finds all its frames in the lock,
\* for every warm-up its capabilities may ask for.
RunFindsItsFrames ==
    lock # NoLock =>
        \A i \in 1 .. Len(uses), w \in 0 .. 1 :
            LET c == uses[i].coverage
            IN  Locks!SelectFrames(AllTimes(lock.files), {c.start, c.end}, w) # {}

-----------------------------------------------------------------------------
lockVars == <<files, uses, lock, built>>
graphVars == <<doc, order, nodes, bindings, outputs, phase, reason, plan>>
framesVars == <<archive, requested, decoded, frames, status>>
readersVars == <<source, index, slabs, asked, reply>>

Unused(v) == v = "idle"
lockIdle == Unused(files) /\ Unused(uses) /\ Unused(lock) /\ Unused(built)
finalizeIdle == Init /\ data = Complete /\ docs = Early
graphIdle == Unused(doc) /\ Unused(order) /\ Unused(nodes) /\ Unused(bindings) /\ Unused(outputs) /\
    Unused(phase) /\ Unused(reason) /\ Unused(plan)
framesIdle == Unused(archive) /\ Unused(requested) /\ Unused(decoded) /\ Unused(frames) /\ Unused(status)
readersIdle == Unused(source) /\ Unused(index) /\ Unused(slabs) /\ Unused(asked) /\ Unused(reply)

MCInit ==
    \/ part = "lock" /\ LockInit /\ finalizeIdle /\ graphIdle /\ framesIdle /\ readersIdle
    \/ part = "finalize" /\ Init /\ lockIdle /\ graphIdle /\ framesIdle /\ readersIdle
    \/ part = "graph" /\ Graph!Init /\ lockIdle /\ finalizeIdle /\ framesIdle /\ readersIdle
    \/ part = "frames" /\ Frames!LoadInit /\ lockIdle /\ finalizeIdle /\ readersIdle
    \/ part = "readers" /\ Readers!Init /\ lockIdle /\ finalizeIdle /\ graphIdle /\ framesIdle

MCNext ==
    /\ UNCHANGED part
    /\ \/ part = "lock" /\ BuildShared /\ UNCHANGED <<vars, graphVars, framesVars,
        readersVars>>
       \/ part = "finalize" /\ Next /\ UNCHANGED <<lockVars, graphVars, framesVars,
        readersVars>>
       \/ part = "graph" /\ Graph!Next /\ UNCHANGED <<lockVars, vars, framesVars,
        readersVars>>
       \/ part = "frames" /\ Frames!LoadNext /\ UNCHANGED <<lockVars, vars,
        readersVars>>
       \/ part = "readers" /\ Readers!Next /\ UNCHANGED <<lockVars, vars, graphVars,
        framesVars>>

MCVars == <<part, lockVars, vars, graphVars, framesVars, readersVars>>

MCSpec == MCInit /\ [][MCNext]_MCVars

(***************************************************************************)
(* The lock built for two consumers binds exactly the frames they need,    *)
(* passes the check of each, and gives each run its frames.                *)
(***************************************************************************)
LockServes == part = "lock" =>
    /\ LockNamesFiles /\ LockHasWhatIsNeeded
    /\ ServesEveryConsumer /\ RunFindsItsFrames

(***************************************************************************)
(* A compiled plan follows its data; the lowering passes its own checks;   *)
(* what is refused as a cycle is one, or repeats an operand.               *)
(***************************************************************************)
GraphIsSound == part = "graph" =>
    /\ Graph!PlanFollowsData /\ Graph!LoweringAgrees
    /\ Graph!OnlyRepeatsAreCycles /\ Graph!CircularExactly

(***************************************************************************)
(* A published field is its expression over the sources of its own frame,  *)
(* under the names of the files it was read from; a fallback is used and   *)
(* told only where the primary is absent; and a run fails only for what it *)
(* needs.                                                                  *)
(***************************************************************************)
FramesAreHonest == part = "frames" =>
    /\ Frames!FallbackIsHonest /\ Frames!DerivedIsItsExpression
    /\ Frames!SourcesAreRead /\ Frames!FailuresAreNeeded

(***************************************************************************)
(* A reader answers what the file holds at the level and time asked for,   *)
(* whatever it has kept, in the order of the indexed levels, and answers   *)
(* whenever the file has one answer.                                       *)
(***************************************************************************)
ReadersAnswer == part = "readers" =>
    /\ Readers!TypeOK /\ Readers!AnswersTheFile /\ Readers!ReadWhenItCan
    /\ Readers!SlabsAreTheFile /\ Readers!GribAnswersTheFile
=============================================================================
