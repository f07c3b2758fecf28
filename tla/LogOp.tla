-------------------------------- MODULE LogOp --------------------------------
(****************************************************************************)
(* Logical operators (logop.h, logop.cc, logexpr.cc).  The pool is the      *)
(* sequence of the operators allocated so far and a pointer is an index     *)
(* into it, 0 when null; each constructor takes a pool and returns it with  *)
(* one operator more, the last one.  Operators are unlinked, never freed.   *)
(*                                                                          *)
(* `arg` is the union u of an operator.  An expression is the sequence of   *)
(* its operands, constants and attribute references, as it is in Nodes.     *)
(****************************************************************************)
EXTENDS Naturals, SequencesExt

CONSTANT MaxInputs   \* MAX_INPUT_OPS, inputs of an operator

ASSUME InputsAssumption == MaxInputs \in Nat /\ MaxInputs >= 2

Sources  == {"streamSource", "relnSource"}
Windows  == {"rowWin", "rangeWin", "nowWin", "partnWin"}
XStreams == {"istream", "dstream", "rstream"}
Crosses  == {"cross", "streamCross"}
LogKinds == Sources \cup Windows \cup XStreams \cup Crosses \cup
            {"select", "project", "groupAggr", "distinct", "union", "except"}

-----------------------------------------------------------------------------
(* Attributes and expressions.                                               *)

NamedAttr(var, table, a)    == [kind |-> "named", var |-> var, table |-> table, attr |-> a]
AggrOf(named, fn) ==
  [kind |-> "aggr", var |-> named.var, table |-> named.table, attr |-> named.attr, fn |-> fn]
UnnamedAttr(type)           == [kind |-> "unnamed", type |-> type]

(* Unnamed attributes are equal to none, not even to themselves.              *)
SameAttr(a, b) == a.kind # "unnamed" /\ a = b

AttrExpr(attr, type) == [kind |-> "attr", attr |-> attr, type |-> type]
ConstExpr(const)     == const
CompExpr(operands)   == operands

IsAttrRef(expr) == Len(expr) = 1 /\ expr[1].kind = "attr"
ExprType(expr)  == expr[1].type

(* An operand is found in an operator if it needs no attribute or one of its. *)
AttrFound(attr, op) == \E a \in DOMAIN op.out : SameAttr(attr, op.out[a])
CheckReference(expr, op) ==
  \A k \in DOMAIN expr : expr[k].kind = "attr" => AttrFound(expr[k].attr, op)

-----------------------------------------------------------------------------
(* Constructors.                                                             *)

(* newop, and the links that a constructor makes to the inputs.              *)
NewOp(pool, kind, inputs, out, stream, arg) ==
  Append([o \in DOMAIN pool |-> IF \E k \in DOMAIN inputs : inputs[k] = o
                                THEN [pool[o] EXCEPT !.output = Len(pool) + 1] ELSE pool[o]],
         [kind |-> kind, inputs |-> inputs, output |-> 0, out |-> out,
          stream |-> stream, arg |-> arg])

NoArg == [none |-> TRUE]

MkSource(pool, var, table, numAttrs, stream) ==
  NewOp(pool, IF stream THEN "streamSource" ELSE "relnSource", <<>>,
        [a \in 1..numAttrs |-> NamedAttr(var, table, a)], stream, [var |-> var, table |-> table])

(* Operators that hand on the schema of their only input.                    *)
CopySchema(pool, input) == pool[input].out

MkRangeWindow(pool, input, units) ==
  NewOp(pool, "rangeWin", <<input>>, CopySchema(pool, input), FALSE, [units |-> units])
MkRowWindow(pool, input, rows) ==
  NewOp(pool, "rowWin", <<input>>, CopySchema(pool, input), FALSE, [rows |-> rows])
MkNowWindow(pool, input) ==
  NewOp(pool, "nowWin", <<input>>, CopySchema(pool, input), FALSE, NoArg)
MkPartnWindow(pool, input, attrs, rows) ==
  NewOp(pool, "partnWin", <<input>>, CopySchema(pool, input), FALSE,
        [attrs |-> attrs, rows |-> rows])
MkSelect(pool, input, bexpr) ==
  NewOp(pool, "select", <<input>>, CopySchema(pool, input), pool[input].stream, bexpr)
MkDistinct(pool, input) ==
  NewOp(pool, "distinct", <<input>>, CopySchema(pool, input), pool[input].stream, NoArg)
MkIstream(pool, input) ==
  NewOp(pool, "istream", <<input>>, CopySchema(pool, input), TRUE, NoArg)
MkDstream(pool, input) ==
  NewOp(pool, "dstream", <<input>>, CopySchema(pool, input), TRUE, NoArg)
MkRstream(pool, input) ==
  NewOp(pool, "rstream", <<input>>, CopySchema(pool, input), TRUE, NoArg)

(* mk_project and add_project_expr for each expression.                      *)
ProjectSchema(exprs) ==
  [e \in DOMAIN exprs |-> IF IsAttrRef(exprs[e]) THEN exprs[e][1].attr
                                                 ELSE UnnamedAttr(ExprType(exprs[e]))]
MkProject(pool, input, exprs) ==
  NewOp(pool, "project", <<input>>, ProjectSchema(exprs), pool[input].stream, [exprs |-> exprs])

(* mk_group_aggr, add_group_attr and add_aggr; the aggregates are [attr, fn]. *)
GroupSchema(group, aggrs) == group \o [a \in DOMAIN aggrs |-> AggrOf(aggrs[a].attr, aggrs[a].fn)]
MkGroupAggr(pool, input, group, aggrs) ==
  NewOp(pool, "groupAggr", <<input>>, GroupSchema(group, aggrs), FALSE,
        [group |-> group, aggrs |-> aggrs])

(* A cross product produces a stream as long as all of its inputs do.        *)
MkCross(pool) == NewOp(pool, "cross", <<>>, <<>>, TRUE, NoArg)
\* Mutant: a cross product may have one attribute too many.
RefusesLate(pool, cross, input, maxAttrs) ==
  \/ Len(pool[cross].out) + Len(pool[input].out) > maxAttrs + 1
  \/ Len(pool[cross].inputs) = MaxInputs

CrossRefuses(pool, cross, input, maxAttrs) ==
  \/ Len(pool[cross].out) + Len(pool[input].out) > maxAttrs
  \/ Len(pool[cross].inputs) = MaxInputs
CrossAddInput(pool, cross, input) ==
  [pool EXCEPT ![cross].inputs = Append(@, input),
               ![cross].out    = @ \o pool[input].out,
               ![cross].stream = @ /\ pool[input].stream,
               ![input].output = cross]

MkStreamCross(pool, input) ==
  NewOp(pool, "streamCross", <<input>>, CopySchema(pool, input), TRUE, NoArg)
StreamCrossAddInput(pool, cross, input) ==
  [pool EXCEPT ![cross].inputs = Append(@, input),
               ![cross].out    = @ \o pool[input].out,
               ![input].output = cross]

(* The attributes of a union or an except have the types of the left input's, *)
(* and no names.                                                             *)
BinOpSchema(types) == [a \in DOMAIN types |-> UnnamedAttr(types[a])]
MkUnion(pool, left, right, types) ==
  NewOp(pool, "union", <<left, right>>, BinOpSchema(types),
        pool[left].stream /\ pool[right].stream, NoArg)
MkExcept(pool, left, right, types) ==
  NewOp(pool, "except", <<left, right>>, BinOpSchema(types), FALSE, NoArg)

-----------------------------------------------------------------------------
(* What is recomputed from an operator upwards when something below changed. *)

Above(pool, op) == pool[op].output

JoinedSchemas(pool, op) == FlattenSeq([i \in DOMAIN pool[op].inputs |-> pool[pool[op].inputs[i]].out])

(* Step, applied from op upwards until an operator of one of the kinds.       *)
UpwardsUntil(pool, op, stops, Step(_, _)) ==
  LET up[n \in 0..Len(pool)] ==
        IF n = 0 THEN [pool |-> pool, at |-> op]
        ELSE LET s == up[n - 1]
             IN  IF s.at = 0 \/ s.pool[s.at].kind \in stops THEN s
                 ELSE [pool |-> [s.pool EXCEPT ![s.at] = Step(s.pool, s.at)],
                       at   |-> Above(s.pool, s.at)]
  IN  up[Len(pool)].pool

BinOps == {"union", "except"}

UpdateSchemaRecursive(pool, op) ==
  LET Step(p, o) == [p[o] EXCEPT !.out = JoinedSchemas(p, o)]
  IN  UpwardsUntil(pool, op, {"project", "groupAggr"} \cup Sources \cup BinOps, Step)

StreamOf(pool, op) == \A i \in DOMAIN pool[op].inputs : pool[pool[op].inputs[i]].stream

UpdateStreamPropertyRecursive(pool, op) ==
  LET Step(p, o) == [p[o] EXCEPT !.stream = StreamOf(p, o)]
  IN  UpwardsUntil(pool, op,
                   {"groupAggr", "streamCross", "except"} \cup Sources \cup XStreams \cup Windows,
                   Step)
=============================================================================
