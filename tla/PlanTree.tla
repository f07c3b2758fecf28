------------------------------- MODULE PlanTree -------------------------------
(****************************************************************************)
(* The logical plan as a tree in the pool of operators, and what genLogPlan *)
(* promises of its shape, its schemas and its types while it transforms it. *)
(* What a plan computes is in PlanSemantics.                                *)
(****************************************************************************)
EXTENDS LogPlanGen

-----------------------------------------------------------------------------
(* The plan of a query.                                                      *)

Tree ==
  LET tree[n \in 0..Len(pool)] ==
        IF n = 0 THEN {plan}
        ELSE tree[n - 1] \cup UNION {ToSet(pool[o].inputs) : o \in tree[n - 1]}
  IN  tree[Len(pool)]

Complete == step \in Transforms \cup {"done"}

Over(p, o) == p[p[o].inputs[1]]

SchemaOf(p, o) ==
  LET op == p[o]
  IN  CASE op.kind \in Sources   -> op.out
        [] op.kind = "project"   -> ProjectSchema(op.arg.exprs)
        [] op.kind = "groupAggr" -> GroupSchema(op.arg.group, op.arg.aggrs)
        [] op.kind \in BinOps    -> BinOpSchema(SchemaTypes(Over(p, o).out))
        [] OTHER                 -> JoinedSchemas(p, o)

(* The attributes an operator refers to, wherever it does.                   *)
Refs(op) ==
  LET Of(expr) == {expr[k].attr : k \in {k \in DOMAIN expr : expr[k].kind = "attr"}}
  IN  CASE op.kind = "select"    -> Of(op.arg.left) \cup Of(op.arg.right)
        [] op.kind = "project"   -> UNION {Of(e) : e \in ToSet(op.arg.exprs)}
        [] op.kind = "groupAggr" -> ToSet(op.arg.group) \cup {a.attr : a \in ToSet(op.arg.aggrs)}
        [] op.kind = "partnWin"  -> ToSet(op.arg.attrs)
        [] OTHER                 -> {}

Resolved(o) == \A attr \in Refs(pool[o]) : AttrFound(attr, Over(pool, o))

Aggregated == query.group # <<>> \/ \E e \in DOMAIN query.proj : query.proj[e].kind = "aggr"
AttrsOf(expr) == IF expr.kind = "aggr" THEN {}
                 ELSE {o.attr : o \in {o \in ToSet(expr.operands) : o.kind = "attr"}}

(* What the interpreter lets pass: an attribute that is selected but not      *)
(* grouped, a window partitioned by an attribute of another table.           *)
Ungrouped == Aggregated /\ \E e \in DOMAIN query.proj : ~ AttrsOf(query.proj[e]) \subseteq ToSet(query.group)
Misparted == \E v \in DOMAIN query.windows :
               /\ query.windows[v].type = "PARTITION"
               /\ \E a \in ToSet(query.windows[v].attrs) : a.var # v
Resolvable == ~Ungrouped /\ ~Misparted

-----------------------------------------------------------------------------
(* Properties.                                                               *)

(* An operator that has been given more attributes than outAttrs[] holds.     *)
Overfull(op) == Len(op.out) > MaxAttrs

(* The pool, its edges and arrays.  A grouping is the one operator that is     *)
(* ever given too many attributes: with that write the registration is over, *)
(* for what it leaves behind outAttrs[] is undefined.                        *)
TypeOK ==
  /\ step \in Steps
  /\ rc # "ok" => step \in {"failed"}
  /\ plan \in 0..Len(pool) /\ at \in Nat
  /\ \A o \in DOMAIN pool :
       /\ pool[o].kind \in LogKinds /\ pool[o].stream \in BOOLEAN
       /\ pool[o].output \in 0..Len(pool) /\ Len(pool[o].inputs) <= MaxInputs
       /\ Overfull(pool[o]) => pool[o].kind = "groupAggr" /\ step = "overflow"

(* Whatever a transformation did, the operators from the root down form a     *)
(* tree whose edges agree at both ends, and each schema is the one its        *)
(* inputs give: the code patches output, inputs[0] and outAttrs one by one.  *)
PlanWellFormed ==
  Complete =>
    /\ pool[plan].output = 0
    /\ \A o \in Tree : \A i \in DOMAIN pool[o].inputs : pool[pool[o].inputs[i]].output = o
    /\ \A o \in Tree : pool[o].out = SchemaOf(pool, o)

(* Every attribute an operator refers to is one of its input's, so that the   *)
(* physical generator finds its position: also after a selection has moved   *)
(* and a project is gone, for all queries but those named above.             *)
RefsResolve == Complete /\ Resolvable => \A o \in Tree : Resolved(o)

(* When genLogPlan is done, no selection is left over a product one input of  *)
(* which has all that the selection needs: each got as far as it can.        *)
SelectsOver(cross) ==
  {s \in Tree : pool[s].kind = "select" /\ Descend(s, {"select"}) = cross}
SelectsPushed ==
  step = "done" =>
    \A cross \in {o \in Tree : pool[o].kind \in Crosses} :
      \A s \in SelectsOver(cross) : TakingInputs(pool[s].arg, cross) = {}

(* Every expression of a plan is of one type, that of the attributes it names *)
(* in the catalogue, and so are the two sides of a comparison: mk_comp_expr   *)
(* asserts it and the evaluators of the system are chosen by it.             *)
OfType(expr, type) ==
  \A k \in DOMAIN expr : (IF expr[k].kind = "attr" THEN LogAttrType(expr[k].attr) ELSE expr[k].type) = type
TypesAgree ==
  Complete =>
    \A o \in Tree :
      /\ pool[o].kind = "select" =>
           \E type \in Types : OfType(pool[o].arg.left, type) /\ OfType(pool[o].arg.right, type)
      /\ pool[o].kind = "project" =>
           \A e \in ToSet(pool[o].arg.exprs) : OfType(e, ExprType(e))
=============================================================================
