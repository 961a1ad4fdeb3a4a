------------------------------ MODULE FrameLoad ------------------------------
(***************************************************************************)
(* The loading of the frames of one domain, in time order, under a         *)
(* compiled profile: every direct field the requested outputs depend on is *)
(* decoded from the first of its alternatives that one file has, brought   *)
(* to the unit of its node, the frame stage of the graph is executed, and  *)
(* the frame is published with the provenance of its fields                *)
(* (io/frame_loader.rs, frame/mod.rs, the loop of runner/builder.rs).      *)
(*                                                                         *)
(* A field is one cell: [v, valid, unit, shape, kind, time], v in its unit *)
(* and kind and time standing for its temporal support, whose end is time. *)
(* Outputs of the tile stage (Ertel vorticity) are not modelled.           *)
(***************************************************************************)
EXTENDS ProfileGraph

CONSTANTS
  Mappings,  \* [direct id -> [alts, kind]], an alternative [ident, role, unit, fallback]
  Archives,  \* the files: frame -> role -> [ident -> [v, valid, unit, kind]]
  Requests,  \* the sets of targets the capabilities may list
  Interval   \* frame_interval_seconds

VARIABLES
  archive,   \* the files the run was given
  requested, \* the targets it needs
  decoded,   \* of the frame being loaded: [direct id -> [field, role, fallback]]
  frames,    \* the frames published: <<[target -> [field, sources, fallback]]>>
  status     \* "decode", "execute", "loaded" or what failed

loadVars == <<archive, requested, decoded, frames, status>>
allVars == <<vars, loadVars>>

AnyRole == "any"
now == Len(frames) + 1
previous == IF frames = <<>> THEN <<>> ELSE frames[Len(frames)]
files == archive[now]

NodeOf(target) == (CHOOSE o \in outputs : o[1] = target)[2]

RECURSIVE Needed(_)
Needed(ns) ==
  LET more == ns \cup UNION {Range(nodes[n].inputs) : n \in ns} IN
  IF more = ns THEN ns ELSE Needed(more)

\* source_dependencies of one output, as direct identifiers.
Dependencies(target) == {n - SourceBase : n \in {m \in Needed({NodeOf(target)}) : nodes[m].op = "source"}}
AllDependencies == UNION {Dependencies(target) : target \in requested}

-----------------------------------------------------------------------------
(* Decoding: the alternatives of a mapping, in their order.                *)

Candidates(alt) == IF alt.role = AnyRole THEN DOMAIN files ELSE DOMAIN files \cap {alt.role}
Matches(alt) == {r \in Candidates(alt) : alt.ident \in DOMAIN files[r]}

Answered(id) == {i \in DOMAIN Mappings[id].alts : Matches(Mappings[id].alts[i]) # {}}

\* A role that is absent ends the search, before any later alternative.
RoleMissing(id) == {i \in DOMAIN Mappings[id].alts : Mappings[id].alts[i].role \notin {AnyRole} \cup DOMAIN files}

Tried(id) == Answered(id) \cup RoleMissing(id)
FirstTried(id) == Min(Tried(id))

ToUnit(v, from, to) == (v * from.scale + from.offset - to.offset) \div to.scale

\* apply_temporal_semantics: an instant becomes an interval, nothing else changes.
KindAfter(kind, declared) ==
  CASE kind = declared -> kind
    [] kind = "instant" /\ declared = "interval" -> "interval"
    [] OTHER -> "mismatch"

DecodedField(id, alt, raw) ==
  LET unit == Direct[id].type.unit IN
  [v |-> IF raw.valid THEN ToUnit(raw.v, raw.unit, unit) ELSE 0, valid |-> raw.valid, unit |-> unit,
   shape |-> Direct[id].type.shape, kind |-> KindAfter(raw.kind, Mappings[id].kind), time |-> now]

Fails(why) == status' = why /\ UNCHANGED <<decoded, frames>>

DecodesNext ==
  /\ phase = "compiled" /\ status = "decode"
  /\ UNCHANGED <<vars, archive, requested>>
  /\ \E id \in AllDependencies \ DOMAIN decoded :
       /\ \A other \in AllDependencies \ DOMAIN decoded : id <= other
       /\ IF Tried(id) = {} THEN Fails("missing")
          ELSE LET i == FirstTried(id)
                   alt == Mappings[id].alts[i]
                   r == CHOOSE m \in Matches(alt) : TRUE
                   field == DecodedField(id, alt, files[r][alt.ident])
               IN CASE i \in RoleMissing(id) -> Fails("role")
                    [] i \notin RoleMissing(id) /\ Cardinality(Matches(alt)) > 1 -> Fails("ambiguous")
                    [] i \notin RoleMissing(id) /\ Cardinality(Matches(alt)) = 1
                       /\ ~SameConversion(files[r][alt.ident].unit, alt.unit) -> Fails("unit")
                    [] i \notin RoleMissing(id) /\ Cardinality(Matches(alt)) = 1
                       /\ SameConversion(files[r][alt.ident].unit, alt.unit) /\ field.kind = "mismatch" ->
                         Fails("temporal")
                    [] OTHER ->
                         /\ decoded' = decoded @@ (id :> [field |-> field, role |-> r, fallback |-> alt.fallback])
                         /\ UNCHANGED <<frames, status>>

DecodingEnds ==
  /\ phase = "compiled" /\ status = "decode" /\ DOMAIN decoded = AllDependencies
  /\ status' = "execute"
  /\ UNCHANGED <<vars, archive, requested, decoded, frames>>

-----------------------------------------------------------------------------
(* The frame stage.  A value is a field, or [error] when it has none.      *)

Error(why) == [error |-> why]
IsError(f) == "error" \in DOMAIN f
Cell(v, valid, unit, shape, kind, time) ==
  [v |-> IF valid THEN v ELSE 0, valid |-> valid, unit |-> unit, shape |-> shape, kind |-> kind, time |-> time]
ScalarField(v, unit) == Cell(v, TRUE, unit, "Scalar", "instant", now)
InSi(f) == f.v * f.unit.scale + f.unit.offset

\* binary_field: both operands are of one time; a scalar lends the other its
\* support; a quotient by zero is masked.
Combined(op, l, r, unit) ==
  LET zero == op = "div" /\ r.v = 0
      scaled == CASE op = "add" -> l.v + r.v
                  [] op = "sub" -> l.v - r.v
                  [] op = "mul" -> (l.v * l.unit.scale * r.v * r.unit.scale) \div unit.scale
                  [] op = "div" /\ zero -> 0
                  [] OTHER -> ((l.v * l.unit.scale) \div (r.v * r.unit.scale)) \div unit.scale
      kind == IF l.shape = "Scalar" THEN r.kind ELSE l.kind
  IN CASE IsError(l) -> l
       [] ~IsError(l) /\ IsError(r) -> r
       [] ~IsError(l) /\ ~IsError(r) /\ l.time # r.time -> Error("time")
       [] OTHER -> Cell(scaled, l.valid /\ r.valid /\ ~zero, unit, Broadcast(l.shape, r.shape), kind, l.time)

\* The one thermodynamic function of two arguments that is exact here.
Virtual(a, b, unit) ==
  CASE IsError(a) -> a
    [] ~IsError(a) /\ IsError(b) -> b
    [] OTHER -> Cell((InSi(a) * (1 + InSi(b)) - unit.offset) \div unit.scale, a.valid /\ b.valid, unit,
                     Broadcast(a.shape, b.shape), a.kind, now)

\* Deaccumulation subtracts the field of the previous frame.
Difference(n) ==
  LET source == nodes[nodes[n].inputs[1]]
      id == nodes[n].inputs[1] - SourceBase
  IN CASE source.op # "source" -> Error("deaccumulation")
       [] source.op = "source" /\ source.arg \notin DOMAIN previous -> Error("previous")
       [] OTHER -> Combined("sub", decoded[id].field, previous[source.arg].field, nodes[n].type.unit)

RECURSIVE Value(_)
Value(n) ==
  LET node == nodes[n]
      arg(i) == Value(node.inputs[i])
      unit == node.type.unit
  IN CASE node.op = "source" -> decoded[n - SourceBase].field
       [] node.op = "const" -> ScalarField(node.arg, unit)
       [] node.op = "interval" -> ScalarField(Interval, unit)
       [] node.op = "alias" -> arg(1)
       [] node.op = "convert" ->
            LET f == arg(1) IN IF IsError(f) THEN f ELSE
            Cell(ToUnit(f.v, f.unit, node.arg), f.valid, node.arg, f.shape, f.kind, f.time)
       [] node.op = "neg" ->
            LET f == arg(1) IN IF IsError(f) THEN f ELSE Cell(-f.v, f.valid, unit, f.shape, f.kind, f.time)
       [] node.op = "thermo" -> Virtual(arg(1), arg(2), unit)
       [] node.op = "deaccumulate" -> Difference(n)
       [] OTHER -> Combined(node.op, arg(1), arg(2), unit)

DirectTargets == {Direct[id].target : id \in DOMAIN Direct}
DirectId(target) == CHOOSE id \in DOMAIN Direct : Direct[id].target = target
DerivedOf(target) == Decl(CHOOSE id \in DerivedIds : Decl(id).target = target)

DirectRecord(id) ==
  [field |-> decoded[id].field, sources |-> {decoded[id].role}, fallback |-> decoded[id].fallback]
\* Mutation of DerivedRecord: the sources of the whole frame.
DerivedRecordAll(target) ==
  [field |-> Value(NodeOf(target)), sources |-> {decoded[id].role : id \in AllDependencies}, fallback |-> FALSE]

DerivedRecord(target) ==
  [field |-> Value(NodeOf(target)), sources |-> {decoded[id].role : id \in Dependencies(target)}, fallback |-> FALSE]

DerivedTargets == requested \ DirectTargets
LateStage == \E target \in DerivedTargets : DerivedOf(target).stage > Frame
Errors == {Value(NodeOf(target)).error : target \in {d \in DerivedTargets : IsError(Value(NodeOf(d)))}}

\* What is published: every direct dependency, and the derived outputs.
Published ==
  [target \in {Direct[id].target : id \in AllDependencies} \cup DerivedTargets |->
     IF target \in DirectTargets THEN DirectRecord(DirectId(target)) ELSE DerivedRecord(target)]

Executes ==
  /\ phase = "compiled" /\ status = "execute"
  /\ UNCHANGED <<vars, archive, requested>>
  /\ CASE Errors # {} -> \E why \in Errors : Fails(why)
       [] Errors = {} /\ \E target \in DerivedTargets :
            KindAfter(Value(NodeOf(target)).kind, DerivedOf(target).kind) = "mismatch" -> Fails("temporal")
       [] OTHER -> /\ frames' = Append(frames, Published)
                   /\ decoded' = <<>>
                   /\ status' = IF now = Len(archive) THEN "loaded" ELSE "decode"

\* partition_requested_outputs, before anything is opened.
RefusesStage ==
  /\ phase = "compiled" /\ status = "decode" /\ decoded = <<>> /\ LateStage
  /\ Fails("stage")
  /\ UNCHANGED <<vars, archive, requested>>

Compilation == Next /\ phase \in {"read", "lower", "check"} /\ UNCHANGED loadVars
Stops == (phase = "rejected" \/ status \notin {"decode", "execute"}) /\ UNCHANGED allVars

LoadInit ==
  /\ Init
  /\ archive \in Archives /\ requested \in Requests
  /\ decoded = <<>> /\ frames = <<>> /\ status = "decode"
LoadNext ==
  \/ Compilation \/ RefusesStage
  \/ ~LateStage /\ (DecodesNext \/ DecodingEnds \/ Executes)
  \/ Stops
LoadSpec == LoadInit /\ [][LoadNext]_allVars

-----------------------------------------------------------------------------
(* Properties.                                                             *)

\* What a name means in frame t, in SI: [v, valid], read off the files and
\* the expressions, whatever the units.  (Sums of fields in an affine unit
\* have no such meaning: the instances have none.)
Chosen(t, id) ==
  LET has(alt) == {r \in DOMAIN archive[t] : (alt.role \in {AnyRole, r}) /\ alt.ident \in DOMAIN archive[t][r]}
      alts == Mappings[id].alts
      i == CHOOSE k \in DOMAIN alts : has(alts[k]) # {} /\ \A m \in 1..(k - 1) : has(alts[m]) = {}
  IN [role |-> CHOOSE r \in has(alts[i]) : TRUE, alt |-> i]
RawOf(t, id) == archive[t][Chosen(t, id).role][Mappings[id].alts[Chosen(t, id).alt].ident]

RECURSIVE Meaning(_, _)
Meaning(e, t) ==
  LET m(i) == Meaning(e.args[i], t)
      pair(v, ok) == [v |-> IF ok THEN v ELSE 0, valid |-> ok]
  IN CASE e.op = "id" /\ e.name \in DOMAIN Direct -> pair(InSi(RawOf(t, e.name)), RawOf(t, e.name).valid)
       [] e.op = "id" /\ e.name \notin DOMAIN Direct -> Meaning(Decl(e.name).expr, t)
       [] e.op = "const" -> pair(e.name, TRUE)
       [] e.op = "interval" -> pair(Interval, TRUE)
       [] e.op = "neg" -> pair(-m(1).v, m(1).valid)
       [] e.op = "add" -> pair(m(1).v + m(2).v, m(1).valid /\ m(2).valid)
       [] e.op = "sub" -> pair(m(1).v - m(2).v, m(1).valid /\ m(2).valid)
       [] e.op = "mul" -> pair(m(1).v * m(2).v, m(1).valid /\ m(2).valid)
       [] e.op = "div" -> LET ok == m(1).valid /\ m(2).valid /\ m(2).v # 0 IN
                          pair(IF ok THEN m(1).v \div m(2).v ELSE 0, ok)
       [] e.op = "thermo" -> pair(m(1).v * (1 + m(2).v), m(1).valid /\ m(2).valid)

\* A derived field is its expression over the sources of its own frame, in
\* the registered unit, and masked exactly where an operand is masked or a
\* divisor is zero.
DerivedIsItsExpression ==
  \A t \in DOMAIN frames : \A target \in DOMAIN frames[t] \cap {d.target : d \in Range(doc)} :
    LET f == frames[t][target].field
        ref == Meaning(DerivedOf(target).expr, t)
    IN f.time = t /\ f.valid = ref.valid /\ (f.valid => InSi(f) = ref.v) /\ f.unit = TargetType(DerivedOf(target)).unit

\* The provenance of a field names exactly the files its value was read
\* from, through every derived field between.
SourcesOf(target) == Reach(IF target \in DirectTargets THEN {DirectId(target)} ELSE {DerivedOf(target).id}) \cap DOMAIN Direct
SourcesAreRead ==
  \A t \in DOMAIN frames : \A target \in DOMAIN frames[t] :
    frames[t][target].sources = {Chosen(t, id).role : id \in SourcesOf(target)}

\* A field is served by a fallback, and says so, only in a frame none of
\* whose files has the primary.
FallbackIsHonest ==
  \A t \in DOMAIN frames : \A target \in DOMAIN frames[t] \cap DirectTargets :
    frames[t][target].fallback = (Chosen(t, DirectId(target)).alt > 1)

\* A run fails for what it needs only: the field no file can serve is read,
\* directly or not, by a requested output.
FailuresAreNeeded ==
  status \in {"missing", "ambiguous", "role", "unit"} =>
    \E target \in requested : \E id \in SourcesOf(target) : \E t \in DOMAIN archive :
      \/ \A r \in DOMAIN archive[t], i \in DOMAIN Mappings[id].alts :
           Mappings[id].alts[i].ident \notin DOMAIN archive[t][r]
      \/ \E i \in DOMAIN Mappings[id].alts :
           LET alt == Mappings[id].alts[i] IN
           \/ alt.role \notin {AnyRole} \cup DOMAIN archive[t]
           \/ Cardinality({r \in DOMAIN archive[t] : alt.ident \in DOMAIN archive[t][r]}) > 1
           \/ \E r \in DOMAIN archive[t] : alt.ident \in DOMAIN archive[t][r]
                                           /\ ~SameConversion(archive[t][r][alt.ident].unit, alt.unit)

\* An accumulated field is differenced against the preceding frame: a run
\* whose files all have it loads.
AccumulatedFieldsLoad == status \notin {"time", "previous"}
=============================================================================
