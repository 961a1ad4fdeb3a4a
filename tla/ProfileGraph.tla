---------------------------- MODULE ProfileGraph ----------------------------
(***************************************************************************)
(* The compilation of a Dataset Profile: every derived field is an         *)
(* expression over direct fields and other derived fields, which is        *)
(* lowered, in dependency order, to a graph of typed nodes, checked node   *)
(* by node and put in execution order stage by stage                       *)
(* (profile/expression.rs, profile/graph.rs).                              *)
(*                                                                         *)
(* An expression is a record [op, name, args]: a leaf names a field        *)
(* (op "id"), a number ("const") or the interval.  A unit is a record      *)
(* [sym, dim, scale, offset], v of it being v * scale + offset in SI; one  *)
(* integer stands for the vector of exponents, sums for products.  The     *)
(* vertical staggering is a function of the shape and left out.  Node      *)
(* identifiers are numbers in the order of the identifiers' text:          *)
(* "derived:..." < "expression:..." < "source:...".                        *)
(***************************************************************************)
EXTENDS Integers, Sequences, FiniteSets, FiniteSetsExt, SequencesExt, Functions

CONSTANTS
  Direct,     \* the direct fields: [id -> [target, type]]
  Registered, \* the types of the targets that have one: [target -> type]
  Documents,  \* the derived fields a profile may declare, a sequence each
  Calls       \* the thermodynamic functions: [name -> [ins, out]], dimensions

VARIABLES
  doc,      \* the derived fields: <<[id, target, expr, unit, shape, stage]>>
  order,    \* the identifiers of derived fields still to lower
  nodes,    \* the graph: [node id -> [op, arg, inputs, type, stage]]
  bindings, \* what a name stands for: [id -> [node, type, stage]]
  outputs,  \* the node of every output: {<<target, node>>}
  phase,    \* "read", "lower", "check", "compiled" or "rejected"
  reason,   \* why it was rejected
  plan      \* the stages: <<[stage, nodes]>>

vars == <<doc, order, nodes, bindings, outputs, phase, reason, plan>>

Frame == 0  Tile == 1  Column == 2  Sample == 3

ExprBase == 100
SourceBase == 1000

Si(d) == [sym |-> "si", dim |-> d, scale |-> 1, offset |-> 0]
Seconds == [sym |-> "s", dim |-> 7, scale |-> 1, offset |-> 0]
Pascal == [sym |-> "Pa", dim |-> 10, scale |-> 1, offset |-> 0]
SameConversion(u, w) == <<u.dim, u.scale, u.offset>> = <<w.dim, w.scale, w.offset>>

Type(u, s) == [unit |-> u, shape |-> s]

\* The shape of an operation on two arrays: a scalar takes any shape.
Broadcast(s, t) ==
  CASE s = "Scalar" -> t [] t = "Scalar" -> s [] s = t -> s [] OTHER -> "none"

-----------------------------------------------------------------------------
(* Reading: the dependencies between the derived fields.                   *)

RECURSIVE Names(_)
Names(e) == IF e.op = "id" THEN {e.name} ELSE UNION {Names(e.args[i]) : i \in DOMAIN e.args}

DerivedIds == {doc[i].id : i \in DOMAIN doc}
Decl(id) == doc[CHOOSE i \in DOMAIN doc : doc[i].id = id]

RECURSIVE Ordered(_, _, _)
Ordered(ids, deps, done) ==
  LET ready == {id \in ids \ Range(done) : deps[id] \subseteq Range(done)} IN
  IF ready = {} THEN done ELSE Ordered(ids, deps, Append(done, Min(ready)))

DerivedOrder ==
  Ordered(DerivedIds, [id \in DerivedIds |-> Names(Decl(id).expr) \ DOMAIN Direct], <<>>)

Reject(why) == phase' = "rejected" /\ reason' = why
UnknownNames == UNION {Names(doc[i].expr) : i \in DOMAIN doc} \ (DOMAIN Direct \cup DerivedIds)

Init ==
  /\ doc \in Documents
  /\ order = <<>>
  /\ nodes = [n \in {SourceBase + id : id \in DOMAIN Direct} |->
                LET d == Direct[n - SourceBase] IN
                [op |-> "source", arg |-> d.target, inputs |-> <<>>, type |-> d.type, stage |-> Frame]]
  /\ bindings = [id \in DOMAIN Direct |->
                   [node |-> SourceBase + id, type |-> Direct[id].type, stage |-> Frame]]
  /\ outputs = {<<Direct[id].target, SourceBase + id>> : id \in DOMAIN Direct}
  /\ phase = "read" /\ reason = "" /\ plan = <<>>

\* derived_topological_order: unknown names and cycles are refused here.
ReadsDependencies ==
  /\ phase = "read"
  /\ UNCHANGED <<doc, nodes, bindings, outputs, plan>>
  /\ CASE UnknownNames # {} -> Reject("unknown") /\ order' = <<>>
       [] UnknownNames = {} /\ Len(DerivedOrder) # Cardinality(DerivedIds) ->
            Reject("dependency_cycle") /\ order' = <<>>
       [] OTHER -> order' = DerivedOrder /\ phase' = "lower" /\ UNCHANGED reason

-----------------------------------------------------------------------------
(* Lowering: an expression is compiled to nodes, bottom up; a result is    *)
(* [ok, nodes, node, type, stage].                                         *)

Failed(ns) == [ok |-> FALSE, nodes |-> ns, node |-> 0, type |-> Type(Si(0), "Scalar"), stage |-> Frame]

Push(ns, op, arg, inputs, type, stage) ==
  LET id == ExprBase + Cardinality({n \in DOMAIN ns : n >= ExprBase /\ n < SourceBase})
      node == [op |-> op, arg |-> arg, inputs |-> inputs, type |-> type, stage |-> stage]
  IN [ok |-> TRUE, nodes |-> ns @@ (id :> node), node |-> id, type |-> type, stage |-> stage]

\* A conversion is a node of its own, unless the unit is the very same.
Convert(ns, b, unit) ==
  CASE ~b.ok \/ b.type.unit.dim # unit.dim -> Failed(ns)
    [] b.ok /\ b.type.unit = unit -> [b EXCEPT !.nodes = ns]
    [] OTHER -> Push(ns, "convert", unit, <<b.node>>, Type(unit, b.type.shape), b.stage)

Normalized(ns, b) == Convert(ns, b, Si(b.type.unit.dim))

SumOf(ns, op, l, r) ==
  LET c == Convert(ns, r, l.type.unit)
      shape == Broadcast(l.type.shape, r.type.shape)
  IN IF ~c.ok \/ shape = "none" THEN Failed(ns)
     ELSE Push(c.nodes, op, 0, <<l.node, c.node>>, Type(l.type.unit, shape), Max({l.stage, r.stage}))

ProductOf(ns, op, l, r) ==
  LET a == Normalized(ns, l)
      b == Normalized(a.nodes, r)
      dim == IF op = "mul" THEN l.type.unit.dim + r.type.unit.dim ELSE l.type.unit.dim - r.type.unit.dim
      shape == Broadcast(l.type.shape, r.type.shape)
  IN IF shape = "none" THEN Failed(ns)
     ELSE Push(b.nodes, op, 0, <<a.node, b.node>>, Type(Si(dim), shape), Max({l.stage, r.stage}))

\* Only the number of arguments and their shapes are looked at here.
CallOf(ns, e, bs) ==
  LET shape == FoldSeq(LAMBDA b, s : Broadcast(s, b.type.shape), "Scalar", bs)
      stage == Max({Frame} \cup {bs[i].stage : i \in DOMAIN bs})
      inputs == [i \in DOMAIN bs |-> bs[i].node]
      one == Len(bs) = 1
  IN CASE e.op = "neg" /\ one -> Push(ns, "neg", 0, inputs, bs[1].type, bs[1].stage)
       [] e.op = "deaccumulate" /\ one -> Push(ns, e.op, 0, inputs, bs[1].type, bs[1].stage)
       [] e.op = "interval" /\ bs = <<>> -> Push(ns, e.op, 0, <<>>, Type(Seconds, "Scalar"), Frame)
       [] e.op = "hybrid" /\ one ->
            Push(ns, e.op, 0, inputs, Type(Pascal, "Full3D"), Max({Column, stage}))
       [] e.op = "thermo" /\ Len(bs) = Len(Calls[e.name].ins) /\ shape # "none" ->
            Push(ns, e.op, e.name, inputs, Type(Si(Calls[e.name].out), shape), stage)
       [] OTHER -> Failed(ns)

\* The arguments, left to right: the bindings and the nodes they left.
RECURSIVE Lowered(_, _)
Lowered(e, ns) ==
  CASE e.op = "id" /\ e.name \in DOMAIN bindings -> [ok |-> TRUE, nodes |-> ns] @@ bindings[e.name]
    [] e.op = "id" /\ e.name \notin DOMAIN bindings -> Failed(ns)
    [] e.op = "const" -> Push(ns, "const", e.name, <<>>, Type(Si(0), "Scalar"), Frame)
    [] OTHER ->
         LET args == FoldLeft(
               LAMBDA acc, a : LET b == Lowered(a, acc.nodes) IN
                               [ok |-> acc.ok /\ b.ok, nodes |-> b.nodes, bs |-> Append(acc.bs, b)],
               [ok |-> TRUE, nodes |-> ns, bs |-> <<>>], e.args)
         IN CASE ~args.ok -> Failed(ns)
              [] args.ok /\ e.op \in {"add", "sub"} -> SumOf(args.nodes, e.op, args.bs[1], args.bs[2])
              [] args.ok /\ e.op \in {"mul", "div"} -> ProductOf(args.nodes, e.op, args.bs[1], args.bs[2])
              [] OTHER -> CallOf(args.nodes, e, args.bs)

TargetType(d) == IF d.target \in DOMAIN Registered THEN Registered[d.target] ELSE Type(d.unit, d.shape)

\* One derived field: inferred, declared, canonical, and an alias for its name.
LowersField ==
  /\ phase = "lower" /\ order # <<>>
  /\ LET d == Decl(Head(order))
         inferred == Lowered(d.expr, nodes)
         declared == Convert(inferred.nodes, inferred, d.unit)
         target == TargetType(d)
         canonical == Convert(declared.nodes, declared, target.unit)
         root == [op |-> "alias", arg |-> 0, inputs |-> <<canonical.node>>, type |-> target, stage |-> d.stage]
     IN CASE ~inferred.ok -> Reject("expression") /\ UNCHANGED <<order, nodes, bindings, outputs>>
          [] inferred.ok /\ d.stage < inferred.stage ->
               Reject("stage") /\ UNCHANGED <<order, nodes, bindings, outputs>>
          [] inferred.ok /\ d.stage >= inferred.stage
             /\ (~declared.ok \/ inferred.type.shape # d.shape \/ ~canonical.ok \/ d.shape # target.shape) ->
               Reject("declared") /\ UNCHANGED <<order, nodes, bindings, outputs>>
          [] OTHER ->
               /\ nodes' = canonical.nodes @@ (d.id :> root)
               /\ bindings' = bindings @@ (d.id :> [node |-> d.id, type |-> target, stage |-> d.stage])
               /\ outputs' = outputs \cup {<<d.target, d.id>>}
               /\ order' = Tail(order)
               /\ UNCHANGED <<phase, reason>>
  /\ UNCHANGED <<doc, plan>>

LoweringEnds ==
  /\ phase = "lower" /\ order = <<>>
  /\ phase' = "check"
  /\ UNCHANGED <<doc, order, nodes, bindings, outputs, reason, plan>>

-----------------------------------------------------------------------------
(* Checking the graph and putting it in order.                             *)

InputType(n, i) == nodes[nodes[n].inputs[i]].type
Stages(n) == {nodes[m].stage : m \in Range(nodes[n].inputs)}
OperationStage(n) == IF nodes[n].op = "hybrid" THEN Column ELSE Frame

\* What validate_node demands of the types of a node, by operation.
NodeTyped(n) ==
  LET node == nodes[n]
      arity == Len(node.inputs)
  IN CASE node.op = "source" -> arity = 0 /\ node.stage = Frame
       [] node.op = "const" -> node.type = Type(Si(0), "Scalar")
       [] node.op = "interval" -> node.type = Type(Seconds, "Scalar")
       [] node.op \in {"alias", "neg", "deaccumulate"} -> arity = 1 /\ node.type = InputType(n, 1)
       [] node.op = "convert" ->
            /\ node.arg.dim = InputType(n, 1).unit.dim
            /\ SameConversion(node.arg, node.type.unit)
            /\ node.type.shape = InputType(n, 1).shape
       [] node.op \in {"add", "sub"} ->
            /\ SameConversion(InputType(n, 1).unit, InputType(n, 2).unit)
            /\ SameConversion(InputType(n, 1).unit, node.type.unit)
            /\ node.type.shape = Broadcast(InputType(n, 1).shape, InputType(n, 2).shape)
       [] node.op \in {"mul", "div"} ->
            LET l == InputType(n, 1)  r == InputType(n, 2) IN
            /\ l.unit.offset = 0 /\ r.unit.offset = 0 /\ node.type.unit.offset = 0
            /\ node.type.unit.dim = IF node.op = "mul" THEN l.unit.dim + r.unit.dim ELSE l.unit.dim - r.unit.dim
            /\ node.type.shape = Broadcast(l.shape, r.shape)
       [] node.op = "thermo" ->
            /\ [i \in 1..arity |-> InputType(n, i).unit.dim] = Calls[node.arg].ins
            /\ node.type.unit.dim = Calls[node.arg].out
       [] node.op = "hybrid" ->
            InputType(n, 1).unit.dim = Pascal.dim /\ InputType(n, 1).shape = "Horizontal2D"

NodeStaged(n) == nodes[n].stage >= Max({OperationStage(n)} \cup Stages(n))

\* Mutation of Waiting: a node is ready when its first input is.
WaitingFirst(n, done) == IF nodes[n].inputs = <<>> \/ nodes[n].inputs[1] \in Range(done) THEN 0 ELSE 1
\* The inputs of a node that are not yet executed: every occurrence counts,
\* but a producer that is taken lowers the count of a node only once.
Waiting(n, done) == Len(nodes[n].inputs) - Cardinality(Range(nodes[n].inputs) \cap Range(done))

RECURSIVE Taken(_)
Taken(done) ==
  LET ready == {n \in DOMAIN nodes \ Range(done) : Waiting(n, done) = 0} IN
  IF ready = {} THEN done ELSE Taken(Append(done, Min(ready)))

Grouped(seq) ==
  SelectSeq([i \in 1..4 |-> [stage |-> i - 1, nodes |-> SelectSeq(seq, LAMBDA n : nodes[n].stage = i - 1)]],
            LAMBDA s : s.nodes # <<>>)

\* GraphCompiler::compile: the order, then every node in that order (the
\* document was refused before if it produces one output twice).
Compiles ==
  /\ phase = "check"
  /\ UNCHANGED <<doc, order, nodes, bindings, outputs>>
  /\ LET seq == Taken(<<>>)
         refused == SelectSeq(seq, LAMBDA n : ~NodeStaged(n) \/ ~NodeTyped(n))
         complete == Len(seq) = Cardinality(DOMAIN nodes)
     IN CASE ~complete -> Reject("cycle") /\ plan' = <<>>
          [] complete /\ refused # <<>> ->
               /\ Reject(IF ~NodeStaged(refused[1]) THEN "node_stage" ELSE nodes[refused[1]].op)
               /\ plan' = <<>>
          [] OTHER -> plan' = Grouped(seq) /\ phase' = "compiled" /\ UNCHANGED reason

Ended == phase \in {"compiled", "rejected"} /\ UNCHANGED vars

Next == ReadsDependencies \/ LowersField \/ LoweringEnds \/ Compiles \/ Ended

Spec == Init /\ [][Next]_vars

-----------------------------------------------------------------------------
(* Properties.                                                             *)

Executed == FlattenSeq([i \in DOMAIN plan |-> plan[i].nodes])

\* A compiled plan executes every node exactly once, after all the nodes it
\* reads, although the stages are cut out of one order and put one after the
\* other.
PlanFollowsData ==
  phase = "compiled" =>
    /\ Len(Executed) = Cardinality(DOMAIN nodes) /\ Range(Executed) = DOMAIN nodes
    /\ \A i \in DOMAIN Executed : \A m \in Range(nodes[Executed[i]].inputs) :
         \E j \in 1..(i - 1) : Executed[j] = m

\* The lowering and the checks of the graph are written twice, and agree: of
\* what the lowering builds only calls with arguments of a wrong dimension
\* are refused, never the arithmetic, the conversions, the aliases or the
\* stages.
LoweringAgrees == phase = "rejected" => reason \in {"unknown", "dependency_cycle", "expression",
                     "stage", "declared", "cycle", "thermo", "hybrid"}

\* A graph is called cyclic only if a node reads the same node twice: the
\* order of the derived fields leaves no other.
OnlyRepeatsAreCycles ==
  reason = "cycle" => \E n \in DOMAIN nodes : ~IsInjective(nodes[n].inputs)

\* What the dependency of a name reaches in the declarations.
RECURSIVE Reach(_)
Reach(ids) ==
  LET more == ids \cup UNION {Names(Decl(id).expr) : id \in ids \cap DerivedIds} IN
  IF more = ids THEN ids ELSE Reach(more)

\* Profiles whose derived fields refer to each other in a circle are refused
\* as such, and no others are: the two orders agree on what a cycle is.
CircularExactly ==
  phase \in {"compiled", "rejected"} /\ reason # "unknown" =>
    ((reason = "dependency_cycle") <=>
       \E id \in DerivedIds : id \in Reach(Names(Decl(id).expr)))

\* The static checks accept every graph that is acyclic.
AcyclicIsAccepted == reason # "cycle"
=============================================================================
