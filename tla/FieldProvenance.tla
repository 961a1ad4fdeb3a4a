-------------------------- MODULE FieldProvenance --------------------------
(***************************************************************************)
(* What a meteorological value is computed from, and what its provenance   *)
(* record says it was (trajecta-met, query/engine.rs).  The two are        *)
(* written in different places: the record comes from a table of inputs    *)
(* per field and route, built once per query, the value from the sampling  *)
(* code a point takes later.  Frames are functions from their fields to a  *)
(* quality (0 source, 1 derived, 2 estimated); every frame of a query      *)
(* publishes the same fields, as one profile loads them all.  Points are   *)
(* given by a height, above the sea or the ground.                         *)
(*                                                                         *)
(* The two do not agree everywhere.  What is interpolated between levels   *)
(* (u, v, T, q and omega above the surface layer) is recorded as taken     *)
(* from its own field alone, although the levels were found in a column of *)
(* heights and a wind component is turned from both; what the code does    *)
(* keep of this, and what it does not, are different properties below.     *)
(***************************************************************************)
EXTENDS Naturals, Integers, FiniteSets, FiniteSetsExt

CONSTANTS Profiles          \* the sets of optional fields a profile may publish

Source == 0
Derived == 1
Estimated == 2

Always == {"T", "q", "ps", "zs", "gh", "u", "v", "omega", "u10", "v10", "T2", "q2", "z0",
           "pbl", "shf", "lhf", "taux", "tauy"}
Transport == {"u", "v", "w", "p", "T", "q", "rho", "zt"}
Modelled == Transport \ {"p", "zt"}          \* what only the surface model gives near the ground
Exchange == {"ustar", "L"}
Outputs == Transport \cup Exchange \cup {"ps", "zgeo", "omega", "T2", "pbl"}
Routes == {"upper", "surface", "mixed"}
Roles == {"before", "after", "previous", "next"}

(***************************************************************************)
(* A window: its topology, whether the query time is a frame's own time,   *)
(* which neighbours that frame has, the fields of the frames and the one   *)
(* input, if any, that the profile marks estimated.                        *)
(***************************************************************************)
HasAt(w, f) == f \in w.fields

\* The fields of the frames of a profile: an optional field stands in for the one it replaces; only hybrid levels have a velocity across them, only pressure levels a height of their own.
Published(choice, hybrid) ==
  LET chosen == choice \ (IF hybrid THEN {"zt", "zgeo"} ELSE {"eta"})
      replaced == [eta |-> {"omega"}, zgeo |-> {"gh"}, zt |-> {"zs"}, ustar |-> {"taux", "tauy"}, L |-> {}]
  IN (Always \cup chosen) \ UNION {replaced[f] : f \in chosen}

ColumnInputs(w) ==
  {"T", "q", "ps"} \cup
  (IF w.hybrid THEN {"zs"}
   ELSE {IF HasAt(w, "zgeo") THEN "zgeo" ELSE "gh", IF HasAt(w, "zt") THEN "zt" ELSE "zs"})

VelocitySource(w) == IF HasAt(w, "eta") THEN "eta" ELSE "omega"
TerrainSource(w) == IF HasAt(w, "zt") THEN "zt" ELSE "zs"

UpperVelocityInputs(w) == ColumnInputs(w) \cup {"u", "v", VelocitySource(w)}

Momentum(w) == IF HasAt(w, "ustar") THEN {"ustar"} ELSE {"taux", "tauy"}
Length(w) == {"L"} \cap w.fields

SurfaceInputs(w) ==
  UpperVelocityInputs(w) \cup {"u10", "v10", "T2", "q2", "z0", "pbl", "shf", "lhf"} \cup Momentum(w) \cup Length(w)
ExchangeInputs(w) == {"ps", "T2", "q2", "shf", "lhf"} \cup Momentum(w) \cup Length(w)

(***************************************************************************)
(* The declared inputs, base quality and use of the neighbours of a field. *)
(***************************************************************************)
Lineage(w, f, route) ==
  LET Of(inputs, quality, neighbours) == [inputs |-> inputs, quality |-> quality, neighbours |-> neighbours]
  IN CASE f \in Exchange /\ ~HasAt(w, f)              -> Of(ExchangeInputs(w), Derived, FALSE)
       [] f \in Modelled /\ route # "upper"           -> Of(SurfaceInputs(w), Derived, f = "w")
       [] f = "w" /\ route = "upper"                  -> Of(UpperVelocityInputs(w), Derived, TRUE)
       [] f \in {"p", "zgeo"}                         -> Of(ColumnInputs(w), Derived, FALSE)
       [] f = "rho" /\ route = "upper"                -> Of(ColumnInputs(w) \cup {"T", "q"}, Derived, FALSE)
       [] f = "zt"                                    -> Of({TerrainSource(w)}, IF HasAt(w, "zt") THEN Source ELSE Derived, FALSE)
       [] OTHER                                       -> Of({f}, Source, FALSE)

Frames(w) == {"before"} \cup (IF w.exact THEN {} ELSE {"after"})
Neighbours(w) == IF w.exact THEN w.beside ELSE {}

\* Mutation of Declared: the neighbours of an exact frame are not named.
DeclaredFrames(w, f, route) == Frames(w) \X Lineage(w, f, route).inputs

\* The pairs of frame and field a record is built from.
Declared(w, f, route) ==
  LET line == Lineage(w, f, route)
  IN (Frames(w) \X line.inputs) \cup
     (IF line.neighbours THEN Neighbours(w) \X ColumnInputs(w) ELSE {})

Quality(w, pair) == IF pair \in w.marked THEN Estimated ELSE Source

\* build_field_metadata: the worst of the inputs' qualities, and the frames named; "missing" when a frame lacks an input.
Record(w, f, route) ==
  LET pairs == Declared(w, f, route)
  IN [missing |-> \E pair \in pairs : pair[2] \notin w.fields,
      quality |-> Max({Lineage(w, f, route).quality} \cup {Quality(w, pair) : pair \in pairs}),
      sources |-> {pair[1] : pair \in pairs}]

\* The record a point shows: without a surface model every route shows the upper one.
Shown(w, plan, f, route) ==
  Record(w, f, IF ~plan.surface THEN "upper"
               ELSE IF route = "mixed" /\ f \notin Transport THEN "surface" ELSE route)

\* build_execution_metadata: every field of the plan and every transport field, by every route the plan can take.
Gate(w, plan) ==
  LET routes == IF plan.surface THEN Routes ELSE {"upper"}
      missing == \E f \in Transport \cup plan.fields, route \in routes : Record(w, f, route).missing
      estimated == \E f \in plan.fields, route \in routes : Record(w, f, route).quality = Estimated
  IN IF missing THEN "missing" ELSE IF estimated /\ ~plan.allow THEN "forbidden" ELSE "ready"

----------------------------------------------------------------------------
(***************************************************************************)
(* What the sampling code reads.  A column takes the height it finds in    *)
(* the frame and integrates it from the surface geopotential on hybrid     *)
(* levels; a vertical velocity at a frame's own time takes the slope of    *)
(* the heights of both neighbours.                                         *)
(***************************************************************************)
ReadColumn(w) ==
  {"T", "q", "ps"} \cup
  (IF w.hybrid THEN {"zs"}
   ELSE {IF "zgeo" \in w.fields THEN "zgeo" ELSE "gh", IF "zt" \in w.fields THEN "zt" ELSE "zs"})

ReadVelocity(w) == IF w.hybrid /\ "eta" \in w.fields THEN "eta" ELSE "omega"

ReadSlopes(w) == IF w.exact THEN {"previous", "next"} \X ReadColumn(w) ELSE {}

ReadScales(w) == {"ps", "T2", "q2", "shf", "lhf"} \cup
                 (IF "ustar" \in w.fields THEN {"ustar"} ELSE {"taux", "tauy"}) \cup ({"L"} \cap w.fields)

ReadSurface(w) == ReadScales(w) \cup ReadColumn(w) \cup {"u", "v", "u10", "v10", "z0", "pbl"}

\* sample_frame_point_from_column and sample_scalar_query_time: the column of a frame says between which levels the point lies, and a wind component is turned from both.
Interpolated == {"u", "v", "T", "q", "omega"}
ReadBetweenLevels(w, f) == ReadColumn(w) \cup (IF f \in {"u", "v"} THEN {"u", "v"} ELSE {f})

\* The pairs of frame and field the value of f at a point of this route is computed from; a point above the surface layer has slopes only when both neighbours are there.
Reads(w, plan, f, route) ==
  LET Now(inputs) == Frames(w) \X inputs
  IN CASE f \in Exchange                            -> Now(IF f \in w.fields THEN {f} ELSE ReadScales(w))
       [] route # "upper" /\ f \in Modelled         ->
            IF plan.surface THEN Now(ReadSurface(w)) \cup (IF f = "w" THEN Now({ReadVelocity(w)}) \cup ReadSlopes(w) ELSE {})
            ELSE {}
       [] f = "w"                                   -> Now(ReadColumn(w) \cup {"u", "v", ReadVelocity(w)}) \cup ReadSlopes(w)
       [] f \in {"p", "zgeo", "rho"}                -> Now(ReadColumn(w))
       [] f = "zt"                                  -> Now({IF ~w.hybrid /\ "zt" \in w.fields THEN "zt" ELSE "zs"})
       [] f = "omega" /\ route # "upper"            -> {}
       [] f \in Interpolated                        -> Now(ReadBetweenLevels(w, f))
       [] OTHER                                     -> Now({f})

----------------------------------------------------------------------------
VARIABLES
  window,       \* the window of the query
  plan,         \* its fields, surface model and use of estimated inputs
  outcome,      \* "new", what build_execution_metadata or the preparation said
  point         \* the field and route of the point sampled last, or NoPoint

vars == <<window, plan, outcome, point>>

NoPoint == <<>>

\* A window with its own topology's fields, the neighbours only an exact query has, and at most one estimated input.
Init ==
  \E choice \in Profiles, h \in BOOLEAN, e \in BOOLEAN, b \in SUBSET {"previous", "next"},
     f \in Outputs, surface \in BOOLEAN, allow \in BOOLEAN :
    LET fields == Published(choice, h)
    IN /\ ~e => b = {}
       /\ f = "omega" => f \in fields
       /\ \E m \in {{}} \cup {{pair} : pair \in (Roles \X fields)} :
            window = [hybrid |-> h, exact |-> e, beside |-> b, fields |-> fields, marked |-> m]
       /\ plan = [fields |-> {f}, surface |-> surface, allow |-> allow]
       /\ outcome = "new" /\ point = NoPoint

\* prepare_batch wants both neighbours for a vertical velocity at a frame's own time; execute then builds the metadata.
Prepared(w, p) ==
  IF (p.surface \/ "w" \in p.fields) /\ w.exact /\ w.beside # {"previous", "next"} THEN "unsupported"
  ELSE Gate(w, p)

Prepare ==
  /\ outcome = "new"
  /\ outcome' = Prepared(window, plan)
  /\ UNCHANGED <<window, plan, point>>

\* sample_generic_point: above the surface layer, in it at both ends of the window, or in it at one end only.
Sample(f, route) ==
  /\ outcome = "ready" /\ point = NoPoint
  /\ route = "mixed" => ~window.exact
  /\ point' = <<f, route>>
  /\ UNCHANGED <<window, plan, outcome>>

Next == Prepare \/ \E f \in plan.fields, route \in Routes : Sample(f, route)

Spec == Init /\ [][Next]_vars

----------------------------------------------------------------------------
ReadNow == Reads(window, plan, point[1], point[2])
ShownNow == Shown(window, plan, point[1], point[2])

\* The inputs the record answers for: of a value interpolated between levels only its own field, not what told the levels.
Answered ==
  IF point[2] = "upper" /\ point[1] \in Interpolated THEN Frames(window) \X {point[1]} ELSE ReadNow

\* A derived value is never shown with a quality better than that of anything it was computed from, an interpolated one never with one better than its own field's (build_field_metadata against the sampling code).
QualityAdmitsInputs ==
  point # NoPoint => \A pair \in Answered : Quality(window, pair) <= ShownNow.quality

\* Every frame a value is computed from is among the sources its record names, the neighbours of an exact time included.
SourcesNamed == point # NoPoint => {pair[1] : pair \in ReadNow} \subseteq ShownNow.sources

\* A plan that forbids estimated inputs serves no value whose record should have told of one; with a surface model, as every transport plan has, it serves no value of a particle's motion computed from one at all, the levels of its place included, because the gate asks by every route (build_execution_metadata).
EstimatedNotServed ==
  point # NoPoint /\ ~plan.allow =>
    \A pair \in IF plan.surface /\ point[1] # "omega" THEN ReadNow ELSE Answered :
      Quality(window, pair) # Estimated

\* What a reader of a quality, and of allow_estimated ("whether explicitly profiled estimated inputs may be used"), would expect of every value and every plan; the code keeps neither.
QualityAdmitsAll == point # NoPoint => \A pair \in ReadNow : Quality(window, pair) <= ShownNow.quality
StrictServesNoEstimate == point # NoPoint /\ ~plan.allow => \A pair \in ReadNow : Quality(window, pair) # Estimated

\* The metadata never ask a frame for a field its profile does not publish, so a query the frames can answer is answered.
MetadataAvailable == outcome # "missing"

\* A point never reads a frame the window does not hold.
FramesHeld ==
  point # NoPoint => {pair[1] : pair \in ReadNow} \subseteq Frames(window) \cup Neighbours(window)
=============================================================================
