-------------------------------- MODULE Nodes --------------------------------
(****************************************************************************)
(* The parse trees that the parser's actions build with nodes.cc, one       *)
(* constructor per kind of node, and the number of nodes each one takes     *)
(* from the pool.  A list is a sequence, a missing node or name is Absent.  *)
(* An arithmetic expression is the sequence of its operands, which the      *)
(* operators combine from left to right.                                    *)
(****************************************************************************)
EXTENDS Naturals, SequencesExt

Absent == "absent"
Types  == {"INT", "FLOAT", "CHAR", "BYTE"}

(* Attribute references, constants, and the expressions of a SELECT or WHERE. *)
AttrRef(var, name) == [kind |-> "attr", var |-> var, name |-> name]
ConstVal(type, value) == [kind |-> "const", type |-> type, value |-> value]
Operand(leaf) == [kind |-> "arith", operands |-> <<leaf>>]
ArithExpr(left, right) == [kind |-> "arith", operands |-> left.operands \o right.operands]
NoAttr == AttrRef(Absent, Absent)
AggrExpr(fn, attr) == [kind |-> "aggr", fn |-> fn, attr |-> attr]
Condn(op, left, right) == [op |-> op, left |-> left, right |-> right]

(* Windows, and the tables of a FROM clause.                                  *)
TimeSpec(unit, len) == [unit |-> unit, len |-> len]
TimeWin(timeSpec)   == [type |-> "RANGE", time |-> timeSpec]
RowWin(rows)        == [type |-> "ROW", rows |-> rows]
PartWin(attrs, rows) == [type |-> "PARTITION", attrs |-> attrs, rows |-> rows]
NowWin       == [type |-> "NOW"]
UnboundedWin == [type |-> "UNBOUNDED"]
NoWin        == [type |-> Absent]
RelVar(table, as, win) == [table |-> table, as |-> as, win |-> win]

(* Queries: a block or a binary operation, under an optional r2s operator.    *)
SelectClause(distinct, terms) == [distinct |-> distinct, terms |-> terms]
SfwBlock(select, from, where, group) ==
  [kind |-> "sfw", select |-> select, from |-> from, where |-> where, group |-> group]
UnionNode(left, right)  == [kind |-> "union", left |-> left, right |-> right]
ExceptNode(left, right) == [kind |-> "except", left |-> left, right |-> right]
ContQuery(body, r2s) == [body |-> body, r2s |-> r2s]

(* Declarations of streams and relations, and of their attributes.           *)
AttrSpec(name, type) == [name |-> name, type |-> type]
StrSpec(name, attrs) == [name |-> name, stream |-> TRUE, attrs |-> attrs]
RelSpec(name, attrs) == [name |-> name, stream |-> FALSE, attrs |-> attrs]

WinTypes == {Absent, "RANGE", "ROW", "PARTITION", "NOW", "UNBOUNDED"}
R2SOps   == {Absent, "ISTREAM", "DSTREAM", "RSTREAM"}

(* What the grammar makes of a text: lists everywhere, no expression without   *)
(* an operand and no FROM clause without a table.                             *)
IsList(list) == list \in Seq(ToSet(list))
IsLeaf(leaf) == leaf.kind = "attr" \/ (leaf.kind = "const" /\ leaf.type \in Types)
IsArith(expr) ==
  /\ expr.kind = "arith" /\ IsList(expr.operands) /\ expr.operands # <<>>
  /\ \A k \in DOMAIN expr.operands : IsLeaf(expr.operands[k])
IsExpr(expr) == expr.kind = "aggr" \/ IsArith(expr)
(* Only the SELECT clause has aggregations, no condition has one.             *)
IsBlock(body) ==
  /\ IsList(body.select.terms) /\ IsList(body.where) /\ IsList(body.group)
  /\ IsList(body.from) /\ body.from # <<>>
  /\ \A k \in DOMAIN body.select.terms : IsExpr(body.select.terms[k])
  /\ \A k \in DOMAIN body.where : IsArith(body.where[k].left) /\ IsArith(body.where[k].right)
  /\ \A k \in DOMAIN body.from :
       /\ body.from[k].win.type \in WinTypes
       /\ body.from[k].win.type = "PARTITION" => IsList(body.from[k].win.attrs)
IsText(text) ==
  /\ text.r2s \in R2SOps /\ text.body.kind \in {"sfw", "union", "except"}
  /\ text.body.kind = "sfw" => IsBlock(text.body)
IsTable(spec) ==
  /\ spec.stream \in BOOLEAN /\ IsList(spec.attrs)
  /\ \A a \in DOMAIN spec.attrs : spec.attrs[a].type \in Types

-----------------------------------------------------------------------------
(* What newnode is called for.  Each member of a list takes a list node too;  *)
(* `nodes` says how many it takes itself.                                    *)

ListNodes(nodes) == Len(nodes) + SumFunction(nodes)

ExprNodes(expr) ==
  IF expr.kind = "arith" THEN 2 * Len(expr.operands) - 1
  ELSE IF expr.attr = NoAttr THEN 1 ELSE 2

CondnNodes(condn) == 1 + ExprNodes(condn.left) + ExprNodes(condn.right)

AttrNodes(attrs) == [k \in DOMAIN attrs |-> 1]

WinNodes(win) ==
  CASE win.type = Absent      -> 0
    [] win.type = "RANGE"     -> 2
    [] win.type = "PARTITION" -> 1 + ListNodes(AttrNodes(win.attrs))
    [] OTHER                  -> 1

RelVarNodes(rel) == 1 + WinNodes(rel.win)

BodyNodes(body) ==
  IF body.kind # "sfw" THEN 1
  ELSE LET terms == body.select.terms
       IN  2 + ListNodes([k \in DOMAIN terms |-> ExprNodes(terms[k])])
             + ListNodes([k \in DOMAIN body.from |-> RelVarNodes(body.from[k])])
             + ListNodes([k \in DOMAIN body.where |-> CondnNodes(body.where[k])])
             + ListNodes(AttrNodes(body.group))

QueryNodes(text) == 1 + BodyNodes(text.body) + (IF text.r2s = Absent THEN 0 ELSE 1)
TableNodes(spec) == 1 + ListNodes(AttrNodes(spec.attrs))
=============================================================================
