---------------------------- MODULE GridSources ----------------------------
(***************************************************************************)
(* The readers of gridded files (io/netcdf.rs, io/netcdf4_rust.rs,         *)
(* io/grib.rs).  A file is opened once: its axes, times, grid and vertical *)
(* levels become an immutable index, or the file is refused.  A request    *)
(* then names a field and a time and is answered with one layer per level, *)
(* in the order of the indexed topology, and a mask.  The classic NetCDF   *)
(* reader keeps every variable it has read; the NetCDF4 reader keeps a     *)
(* bounded queue of slabs, one time of one variable each; the GRIB reader  *)
(* keeps nothing and stacks messages.                                      *)
(*                                                                         *)
(* Numbers are integers on the grid of doubles, times are quarters of a    *)
(* second, levels keep their unit.                                         *)
(***************************************************************************)
EXTENDS Integers, Sequences, FiniteSets, SequencesExt

CONSTANTS Sources,     \* the files that may be read
          Requests,    \* the fields and times that may be asked for, by source
          SlabLimit,   \* slabs the NetCDF4 reader keeps
          Decimal      \* the shortest decimal that prints a single-precision number, read back

VARIABLES source,      \* the file
          index,       \* what was built of it when it was opened
          slabs,       \* what its reader has kept, oldest first
          asked,       \* the last request
          reply        \* the answer to it

gridVars == <<source, index, slabs, asked, reply>>

Refused == [status |-> "refused"]
Missing == [status |-> "missing"]
Ambiguous == [status |-> "ambiguous"]
None == "none"
NoTime == -100000      \* no time is asked for
NaN == -100000         \* a decoded value that is none

Increasing(s) == \A i \in 1 .. Len(s) - 1 : s[i] < s[i + 1]
Contiguous(s) == \A i \in 1 .. Len(s) - 1 : s[i + 1] = s[i] + 1
Ascending(set) == SetToSortSeq(set, <)
Flat(layers) == FoldLeft(\o, <<>>, layers)

-----------------------------------------------------------------------------
(* The NetCDF index.  A file lists its variables by name; `size' gives the *)
(* length of its dimensions.                                               *)

Named(file, name) == CHOOSE v \in ToSet(file.vars) : v.name = name
Has(file, name) == \E v \in ToSet(file.vars) : v.name = name

Fallbacks == [time |-> <<"time", "Time">>, latitude |-> <<"latitude", "lat">>,
              longitude |-> <<"longitude", "lon">>, vertical |-> <<"level", "plev", "pressure", "lev">>]
Roles == DOMAIN Fallbacks

\* A variable takes a role by its axis attribute, or by its standard name when no variable
\* before it has; a role that no attribute gives goes to the first of its usual names.
Claims(file, role) == {i \in DOMAIN file.vars : role \in {file.vars[i].axis, file.vars[i].standard}}
Usual(file, role) == SelectSeq(Fallbacks[role], LAMBDA name : Has(file, name))
AxisOf(file, role) ==
    LET claims == Claims(file, role)
    IN  IF claims # {} THEN file.vars[CHOOSE i \in claims : \A j \in claims : i <= j].name
        ELSE IF Usual(file, role) # <<>> THEN Usual(file, role)[1] ELSE None
DoublyClaimed(file) ==
    \E role \in Roles, i \in DOMAIN file.vars :
        file.vars[i].axis = role /\ \E j \in Claims(file, role) : j < i
Axes(file) == [role \in Roles |-> AxisOf(file, role)]

\* A coordinate value is cut at the decimal point and its fraction is added without its sign.
CfTime(value, unit) ==
    LET quarters == IF unit = "s" THEN 4 * value ELSE value
        size == IF quarters < 0 THEN -quarters ELSE quarters
        whole == size - (size % 4)
    IN  (IF quarters < 0 THEN -whole ELSE whole) + (size % 4)
TimesOf(file, axes) ==
    IF axes.time = None THEN <<>>
    ELSE LET v == Named(file, axes.time) IN [i \in DOMAIN v.data |-> CfTime(v.data[i], v.unit)]

RegularSpacing(s) == Len(s) >= 2 /\ s[2] # s[1] /\ \A i \in 1 .. Len(s) - 1 : s[i + 1] - s[i] = s[2] - s[1]
GridOf(file, axes) == [x |-> Named(file, axes.longitude).data, y |-> Named(file, axes.latitude).data]

\* Half-level coefficients in hectopascal are told from those in pascal by their size.
InPascal(a) == IF \A i \in DOMAIN a : a[i] \in -2000 .. 2000 THEN [i \in DOMAIN a |-> 100 * a[i]] ELSE a
Terms(file) == LET given == {v \in ToSet(file.vars) : v.terms # <<>>}
               IN  IF given = {} THEN <<>> ELSE (CHOOSE v \in given : TRUE).terms
Hybrid(file) == Terms(file) # <<>>
HybridLevels(file, axes) ==
    LET a == InPascal(Named(file, Terms(file).a).data)
        b == Named(file, Terms(file).b).data
    IN  [kind |-> "hybrid", a |-> a, b |-> b, order |-> <<>>,
         levels |-> IF file.kind = "netcdf4" /\ axes.vertical # None THEN Named(file, axes.vertical).data
                    ELSE [i \in 1 .. Len(a) - 1 |-> i],
         signature |-> a]

\* Pressure levels are sorted, and the order of the file is kept to sort its layers.
PressureLevels(file, axes) ==
    LET v == Named(file, axes.vertical)
        pressure == [i \in DOMAIN v.data |-> IF v.unit = "hPa" THEN 100 * v.data[i] ELSE v.data[i]]
        order == SortSeq([i \in DOMAIN v.data |-> i],
                         LAMBDA i, j : \/ pressure[i] < pressure[j]
                                       \/ pressure[i] = pressure[j] /\ i < j)
        sorted == [i \in DOMAIN order |-> pressure[order[i]]]
    IN  [kind |-> "pressure", levels |-> sorted, order |-> order, signature |-> sorted]
NoLevels == [kind |-> None, levels |-> <<>>, order |-> <<>>, signature |-> <<>>]

VerticalOf(file, axes) ==
    IF Hybrid(file) THEN HybridLevels(file, axes)
    ELSE IF axes.vertical = None THEN NoLevels ELSE PressureLevels(file, axes)

VerticalIsUsable(file, axes) ==
    IF Hybrid(file)
    THEN LET a == Named(file, Terms(file).a).data IN
         Len(a) = Len(Named(file, Terms(file).b).data) /\ Len(a) >= 2
    ELSE axes.vertical # None =>
         /\ Named(file, axes.vertical).unit \in {"Pa", "hPa"}
         /\ LET levels == PressureLevels(file, axes).levels
            IN  levels # <<>> /\ levels[1] > 0 /\ Increasing(levels)

NetIndex(file) ==
    LET axes == Axes(file) IN
    IF \/ DoublyClaimed(file)
       \/ axes.latitude = None \/ axes.longitude = None
       \/ \E role \in {"latitude", "longitude"} : ~RegularSpacing(Named(file, axes[role]).data)
       \/ axes.time # None /\ ~Named(file, axes.time).calendar
       \/ ~VerticalIsUsable(file, axes)
    THEN Refused
    ELSE [status |-> "open", axes |-> axes, times |-> TimesOf(file, axes), grid |-> GridOf(file, axes),
          vertical |-> VerticalOf(file, axes)]

-----------------------------------------------------------------------------
(* Decoding of NetCDF.  An attribute is kept as text: the classic reader   *)
(* prints a number of single precision with its shortest decimal, the      *)
(* NetCDF4 reader widens it first.                                         *)

Attribute(file, v, key, absent) ==
    IF key \notin DOMAIN v.attrs THEN absent
    ELSE IF v.single /\ file.kind = "classic" THEN Decimal[v.attrs[key]] ELSE v.attrs[key]

\* The value that marks a missing one, and what a stored value unpacks to.
FillOf(file, v) == {Attribute(file, v, key, 0) :
                      key \in IF "fill" \in DOMAIN v.attrs THEN {"fill"} ELSE {"missing"} \cap DOMAIN v.attrs}
Bound(file, v, key, ranged, absent) == Attribute(file, v, key, Attribute(file, v, ranged, absent))
IsValid(file, v, stored) ==
    /\ stored \notin FillOf(file, v)
    /\ stored >= Bound(file, v, "least", "rangeMin", stored)
    /\ stored <= Bound(file, v, "most", "rangeMax", stored)
Unpacked(file, v, stored) == stored * Attribute(file, v, "scale", 1) + Attribute(file, v, "offset", 0)
Masked(file, v, raw) ==
    [i \in DOMAIN raw |-> IF IsValid(file, v, raw[i]) THEN [valid |-> TRUE, v |-> Unpacked(file, v, raw[i])]
                          ELSE [valid |-> FALSE, v |-> 0]]

\* The orders of dimensions that are read.
Shapes(axes) == {<<axes.time, axes.vertical, axes.latitude, axes.longitude>>,
                 <<axes.time, axes.latitude, axes.longitude>>,
                 <<axes.vertical, axes.latitude, axes.longitude>>,
                 <<axes.latitude, axes.longitude>>}
Timed(v, ix) == ix.axes.time \in ToSet(v.dims)
Layered(v, ix) == ix.axes.vertical \in ToSet(v.dims)
Planned(v, ix) == v.dims \in Shapes(ix.axes) /\ None \notin ToSet(v.dims)
                  /\ (Layered(v, ix) => ix.vertical.kind # None)

TimeIndexes(ix, time) == {i \in DOMAIN ix.times : ix.times[i] = time}
AskedTime(ix, request) == IF request.time = NoTime THEN ix.times[1] ELSE request.time

Horizontal(ix) == Len(ix.grid.x) * Len(ix.grid.y)
SourceLevels(v, ix) == IF Layered(v, ix) THEN Len(ix.vertical.levels) ELSE 1
Layer(raw, ix, at) == SubSeq(raw, at * Horizontal(ix) + 1, (at + 1) * Horizontal(ix))

\* What a reader fetches: a whole variable, or one index of its time dimension.
KeyOf(file, v, ix, at) == IF file.kind = "netcdf4" /\ Timed(v, ix) THEN <<v.name, at>> ELSE <<v.name>>
Fetched(file, key) ==
    LET v == Named(file, key[1])
        whole == Len(v.data) \div file.size[v.dims[1]]
    IN  IF Len(key) = 1 THEN v.data ELSE SubSeq(v.data, (key[2] - 1) * whole + 1, key[2] * whole)

Kept(key) == {s \in ToSet(slabs) : s.key = key}
Read(key) == IF Kept(key) # {} THEN (CHOOSE s \in Kept(key) : TRUE).raw ELSE Fetched(source, key)
Keep(key) ==
    IF Kept(key) # {} THEN slabs
    ELSE LET room == IF source.kind = "netcdf4" /\ Len(slabs) >= SlabLimit THEN Tail(slabs) ELSE slabs
         IN  Append(room, [key |-> key, raw |-> Fetched(source, key)])

\* Mutation of LayerOrder: the layers stay as the file has them.
LayerOrderOfFile(v, ix) == [i \in 1 .. SourceLevels(v, ix) |-> i]

\* The layers of the time asked for, in the order of the topology.
LayerOrder(v, ix) ==
    IF Layered(v, ix) /\ ix.vertical.order # <<>> THEN ix.vertical.order
    ELSE [i \in 1 .. SourceLevels(v, ix) |-> i]
Extracted(file, v, ix, at, raw) ==
    LET levels == SourceLevels(v, ix)
        sliced == Len(KeyOf(file, v, ix, at)) = 2
        times == IF Timed(v, ix) /\ ~sliced THEN Len(ix.times) ELSE 1
        t == IF Timed(v, ix) /\ ~sliced THEN at - 1 ELSE 0
        order == LayerOrder(v, ix)
    IN  IF Len(raw) # times * levels * Horizontal(ix) \/ Len(order) # levels THEN Refused
        ELSE [status |-> "read", levels |-> levels,
              cells |-> Flat([k \in DOMAIN order |->
                           Layer(Masked(file, v, raw), ix, t * levels + order[k] - 1)])]

\* What a reader answers without what it has kept.
NetAnswer(file, ix, request) ==
    IF ~Has(file, request.name) THEN Missing
    ELSE LET v == Named(file, request.name) IN
         IF ~Planned(v, ix) \/ (request.time = NoTime /\ ix.times = <<>>) THEN Refused
         ELSE LET found == TimeIndexes(ix, AskedTime(ix, request)) IN
              IF Timed(v, ix) /\ found = {} THEN Refused
              ELSE IF Timed(v, ix) /\ Cardinality(found) > 1 THEN Ambiguous
              ELSE LET at == IF Timed(v, ix) THEN CHOOSE i \in found : TRUE ELSE 1
                       key == KeyOf(file, v, ix, at)
                   IN  [status |-> "fetch", v |-> v, at |-> at, key |-> key]

DecodeNet(request) ==
    LET step == NetAnswer(source, index, request) IN
    IF step.status # "fetch" THEN reply' = step /\ UNCHANGED slabs
    ELSE /\ reply' = Extracted(source, step.v, index, step.at, Read(step.key))
         /\ slabs' = Keep(step.key)

-----------------------------------------------------------------------------
(* GRIB.  A file is a sequence of messages, one horizontal field each.     *)

LayeredTypes == {"hybrid", "hybrid_interface", "isobaric"}
HybridTypes == {"hybrid", "hybrid_interface"}
PvSeen(file, i) == {file.messages[j].pv : j \in 1 .. i} \ {<<>>}

\* A message between levels is left out unless its levels are stacked; one on model levels is
\* left out before the first coefficients.
Indexed(file) ==
    SelectSeq([i \in DOMAIN file.messages |-> i],
              LAMBDA i : LET m == file.messages[i] IN
                  m.whole /\ (m.type \in HybridTypes => PvSeen(file, i) # {}))
Entries(file) == LET kept == Indexed(file) IN [i \in DOMAIN kept |-> file.messages[kept[i]]]
ActiveLevels(file) == {m.level : m \in {e \in ToSet(Entries(file)) : e.type = "hybrid"}}

LevelsOfField(entries, field) == {m.level : m \in {e \in entries : e.type = "isobaric" /\ e.field = field}}
InHectopascal(levels) == levels # {} /\ \A l \in levels : l \in -2000 .. 2000
Pascal(level, levels) == IF InHectopascal(levels) THEN 100 * level ELSE level

\* The wind gives the levels of a file, then the temperature, then whatever is on levels.
StackedLevels(file) ==
    LET entries == ToSet(Entries(file))
        any == {m.level : m \in {e \in entries : e.type = "isobaric"}}
        wind == LevelsOfField(entries, "u")
        warmth == LevelsOfField(entries, "t")
    IN  IF wind # {} THEN wind ELSE IF warmth # {} THEN warmth ELSE any

ActiveIsUsable(file) ==
    LET levels == Ascending(ActiveLevels(file))
        pv == (CHOOSE p \in PvSeen(file, Len(file.messages)) : TRUE)
    IN  levels # <<>> => /\ Len(pv.a) >= 2 /\ Len(pv.a) = Len(pv.b)
                         /\ Contiguous(levels) /\ levels[1] >= 1 /\ Last(levels) <= Len(pv.a) - 1

GribIndex(file) ==
    LET every == ToSet(file.messages)
        pvs == PvSeen(file, Len(file.messages))
        raw == StackedLevels(file)
        pressure == Ascending({Pascal(l, raw) : l \in raw})
    IN  IF \/ Cardinality({m.grid : m \in every}) # 1 \/ Cardinality(pvs) > 1
           \/ \E m \in every : m.type \in LayeredTypes /\ ~m.whole
           \/ ~ActiveIsUsable(file)
           \/ pvs = {} /\ raw # {} /\ pressure[1] <= 0
        THEN Refused
        ELSE [status |-> "open", entries |-> Entries(file), size |-> Len(file.messages[1].data),
              vertical |-> IF pvs # {} THEN [kind |-> "hybrid", levels |-> Ascending(ActiveLevels(file))]
                           ELSE IF raw # {} THEN [kind |-> "pressure", levels |-> pressure]
                           ELSE [kind |-> None, levels |-> <<>>]]

Selected(ix, request) ==
    {m \in ToSet(ix.entries) :
        /\ request.time = NoTime \/ m.time = request.time
        /\ \A key \in DOMAIN request.identity : m[key] = request.identity[key]}

\* Layers on pressure must be all of the indexed ones; on model levels they must be contiguous.
StackedOrder(ix, chosen, first) ==
    LET raw == {m.level : m \in chosen}
        converted == {Pascal(l, raw) : l \in raw}
    IN  IF first.type # "isobaric" THEN Ascending(raw)
        ELSE IF ix.vertical.kind # "pressure" \/ converted # ToSet(ix.vertical.levels) THEN <<>>
        ELSE [k \in DOMAIN ix.vertical.levels |->
                CHOOSE l \in raw : Pascal(l, raw) = ix.vertical.levels[k]]

Cell(value) == IF value = NaN THEN [valid |-> FALSE, v |-> 0] ELSE [valid |-> TRUE, v |-> value]
GribAnswer(ix, request) ==
    LET chosen == Selected(ix, request) IN
    IF chosen = {} THEN Missing
    ELSE LET first == CHOOSE m \in chosen : TRUE
             order == StackedOrder(ix, chosen, first)
             at(l) == CHOOSE m \in chosen : m.level = l
         IN  IF \/ \E m \in chosen : m.field # first.field \/ m.type # first.type \/ m.time # first.time
                \/ Cardinality({m.level : m \in chosen})
                     # Cardinality({i \in DOMAIN ix.entries : ix.entries[i] \in chosen})
                \/ first.type \notin LayeredTypes /\ Cardinality(chosen) > 1
             THEN Ambiguous
             ELSE IF \/ order = <<>>
                     \/ first.type \in HybridTypes /\ ~Contiguous(order)
                     \/ \E m \in chosen : Len(m.data) # ix.size
             THEN Refused
             ELSE [status |-> "read", levels |-> Len(order),
                   cells |-> Flat([k \in DOMAIN order |->
                                [c \in 1 .. ix.size |-> Cell(at(order[k]).data[c])]])]

-----------------------------------------------------------------------------
(* One reader.                                                             *)

Unopened == [status |-> "unopened"]
Init ==
    /\ source \in Sources
    /\ index = Unopened /\ slabs = <<>> /\ asked = <<>> /\ reply = <<>>

Open ==
    /\ index = Unopened
    /\ index' = IF source.kind = "grib" THEN GribIndex(source) ELSE NetIndex(source)
    /\ UNCHANGED <<source, slabs, asked, reply>>

Decode(request) ==
    /\ index.status = "open"
    /\ asked' = request
    /\ IF source.kind = "grib" THEN reply' = GribAnswer(index, request) /\ UNCHANGED slabs
       ELSE DecodeNet(request)
    /\ UNCHANGED <<source, index>>

Next == Open \/ \E request \in Requests[source.kind] : Decode(request)

-----------------------------------------------------------------------------
TypeOK ==
    /\ source \in Sources
    /\ index.status \in {"unopened", "refused", "open"}
    /\ asked # <<>> => reply.status \in {"read", "refused", "missing", "ambiguous"}

\* Where a file has a value: its dimensions, slowest first, and one index for each.
Offset(file, dims, at) == FoldLeft(LAMBDA before, d : before * file.size[d] + at[d] - 1, 0, dims)

\* What the file itself says is missing, whatever its reader has made of its attributes.
Absent(v, stored) ==
    \/ stored = (IF "fill" \in DOMAIN v.attrs THEN v.attrs.fill
                 ELSE IF "missing" \in DOMAIN v.attrs THEN v.attrs.missing ELSE stored + 1)
    \/ "least" \in DOMAIN v.attrs /\ stored < v.attrs.least
    \/ "rangeMin" \in DOMAIN v.attrs /\ "least" \notin DOMAIN v.attrs /\ stored < v.attrs.rangeMin
    \/ "rangeMax" \in DOMAIN v.attrs /\ "most" \notin DOMAIN v.attrs /\ stored > v.attrs.rangeMax
    \/ "most" \in DOMAIN v.attrs /\ stored > v.attrs.most

\* The pressure of a level of the file, in a unit that does not matter for its order.
RankOf(v, i) == Cardinality({j \in DOMAIN v.data : v.data[j] <= v.data[i]})
NetTruth(level, cell) ==
    LET v == Named(source, asked.name)
        ax == index.axes
        t == CHOOSE i \in {1} \cup DOMAIN index.times :
                ~Timed(v, index) \/ index.times[i] = AskedTime(index, asked)
        l == IF Hybrid(source) \/ ~Layered(v, index) THEN level
             ELSE CHOOSE i \in DOMAIN Named(source, ax.vertical).data : RankOf(Named(source, ax.vertical), i) = level
        nx == Len(index.grid.x)
        at == [d \in ToSet(v.dims) |-> CASE d = ax.time -> t [] d = ax.vertical -> l
                                         [] d = ax.latitude -> (cell - 1) \div nx + 1 [] OTHER -> ((cell - 1) % nx) + 1]
        stored == v.data[Offset(source, v.dims, at) + 1]
        scale == IF "scale" \in DOMAIN v.attrs THEN v.attrs.scale ELSE 1
    IN  IF Absent(v, stored) THEN [valid |-> FALSE, v |-> 0]
        ELSE [valid |-> TRUE, v |-> stored * scale + (IF "offset" \in DOMAIN v.attrs THEN v.attrs.offset ELSE 0)]

(***************************************************************************)
(* An answer from a NetCDF file holds, at every cell of every level, what  *)
(* the file has there at the time asked for, lowest pressure first, and    *)
(* masks what the file says is missing, whatever the order of its levels   *)
(* and times and whatever was read before.  Variables whose attributes are *)
(* in single precision are left to MissingIsMasked.                        *)
(***************************************************************************)
NetAnswers(v) ==
    LET size == Horizontal(index) IN
    reply.status = "read" =>
        /\ Len(reply.cells) = reply.levels * size
        /\ \A k \in 1 .. reply.levels, c \in 1 .. size : reply.cells[(k - 1) * size + c] = NetTruth(k, c)
Answered == asked # <<>> /\ source.kind # "grib"
AnswersTheFile ==
    Answered /\ Has(source, asked.name) =>
        LET v == Named(source, asked.name) IN ~v.single => NetAnswers(v)

(***************************************************************************)
(* io/netcdf.rs:3-5: missing masks are compared exactly.  What a file says *)
(* is missing is masked, also where the file holds single precision.       *)
(***************************************************************************)
MissingIsMasked == Answered /\ Has(source, asked.name) => NetAnswers(Named(source, asked.name))

(***************************************************************************)
(* A request is refused only for the axis, the shape or the time: a field  *)
(* of a file that was opened, on its axes, at a time it has once, is read. *)
(***************************************************************************)
ReadWhenItCan ==
    Answered /\ Has(source, asked.name) =>
        LET v == Named(source, asked.name)
            time == IF asked.time = NoTime /\ index.times # <<>> THEN index.times[1] ELSE asked.time
            fits == \A d \in ToSet(v.dims) : d \in {index.axes[r] : r \in Roles}
            ordered == v.dims = SelectSeq(<<index.axes.time, index.axes.vertical, index.axes.latitude, index.axes.longitude>>,
                                          LAMBDA d : d \in ToSet(v.dims))
            hybrid == Hybrid(source) /\ Layered(v, index)
                      /\ Len(index.vertical.levels) # source.size[index.axes.vertical]
            onGrid == {index.axes.latitude, index.axes.longitude} \subseteq ToSet(v.dims)
        IN  (reply.status = "read") <=>
               /\ fits /\ ordered /\ onGrid /\ ~hybrid
               /\ time # NoTime
               /\ Timed(v, index) => Cardinality(TimeIndexes(index, time)) = 1

\* A reader keeps what the file has, and no more slabs than it may.
SlabsAreTheFile ==
    /\ source.kind = "netcdf4" => Len(slabs) <= SlabLimit
    /\ \A s \in ToSet(slabs) : s.raw = Fetched(source, s.key)
    /\ \A i, j \in DOMAIN slabs : i # j => slabs[i].key # slabs[j].key

(***************************************************************************)
(* An answer from a GRIB file stacks messages of one field, one type of    *)
(* level and one time, one for each level, by increasing level; model      *)
(* levels have no gap, and on pressure they are all the levels of the      *)
(* file's topology, whatever the order of the messages.                    *)
(***************************************************************************)
GribAnswersTheFile ==
    asked # <<>> /\ source.kind = "grib" /\ reply.status = "read" =>
        \E order \in [1 .. reply.levels -> DOMAIN source.messages] :
            LET m(k) == source.messages[order[k]] IN
            /\ \A k \in 1 .. reply.levels :
                  /\ <<m(k).field, m(k).type, m(k).time>> = <<m(1).field, m(1).type, m(1).time>>
                  /\ asked.time \in {NoTime, m(k).time}
                  /\ \A key \in DOMAIN asked.identity : m(k)[key] = asked.identity[key]
                  /\ SubSeq(reply.cells, (k - 1) * index.size + 1, k * index.size)
                        = [c \in 1 .. index.size |-> Cell(m(k).data[c])]
            /\ \A k \in 1 .. reply.levels - 1 : m(k).level < m(k + 1).level
            /\ m(1).type \in HybridTypes => Contiguous([k \in 1 .. reply.levels |-> m(k).level])
            /\ m(1).type = "isobaric" =>
                  \/ [k \in 1 .. reply.levels |-> m(k).level] = index.vertical.levels
                  \/ [k \in 1 .. reply.levels |-> 100 * m(k).level] = index.vertical.levels
            /\ \A i \in DOMAIN source.messages :   \* no other message answers the request at one of these levels
                  (/\ source.messages[i].whole /\ asked.time \in {NoTime, source.messages[i].time}
                   /\ \A key \in DOMAIN asked.identity : source.messages[i][key] = asked.identity[key])
                      => \/ i \in {order[k] : k \in 1 .. reply.levels}
                         \/ source.messages[i].type \in HybridTypes /\ PvSeen(source, i) = {}
=============================================================================
