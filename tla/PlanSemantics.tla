---------------------------- MODULE PlanSemantics ----------------------------
(****************************************************************************)
(* What a logical plan computes, and what the generator of logical plans    *)
(* promises of that.  The system executes plans elsewhere; this is the        *)
(* meaning the transformations are judged by.                               *)
(*                                                                          *)
(* A plan is given some tuples of its tables at each of a few instants and  *)
(* computes a bag of tuples at each: what a relation contains then, and all *)
(* that a stream has brought until then.  Arithmetic is addition.           *)
(****************************************************************************)
EXTENDS PlanTree, Bags

CONSTANT Arrivals   \* of each table, at each instant: the tuples of a stream that
                    \* arrive, the tuples that a relation contains

Instants == DOMAIN Arrivals[1]

-----------------------------------------------------------------------------
(* Bags.                                                                     *)

BagOf(tuples) == [x \in ToSet(tuples) |-> Cardinality({k \in DOMAIN tuples : tuples[k] = x})]
Total(bag, S, Val(_)) == MapThenSumSet(LAMBDA x : bag[x] * Val(x), S)
One(x) == 1
Restricted(bag, S) == [x \in S |-> bag[x]]
Image(bag, F(_)) ==
  [y \in {F(x) : x \in DOMAIN bag} |-> Total(bag, {x \in DOMAIN bag : F(x) = y}, One)]
Product(b, c) == [xy \in {x \o y : x \in DOMAIN b, y \in DOMAIN c} |->
                    LET n == Len(CHOOSE x \in DOMAIN b : TRUE)
                    IN  b[SubSeq(xy, 1, n)] * c[SubSeq(xy, n + 1, Len(xy))]]
Added(value, t) == IF t = 1 THEN value[1] ELSE value[t] (-) value[t - 1]
Dropped(value, t) == IF t = 1 THEN EmptyBag ELSE value[t - 1] (-) value[t]
(* What a stream has brought that brings F(u) at each instant u.             *)
Accumulate(F(_)) == [t \in Instants |-> FoldLeft(LAMBDA b, u : b (+) F(u), EmptyBag, [u \in 1..t |-> u])]
EachInstant(F(_)) == [t \in Instants |-> F(t)]

-----------------------------------------------------------------------------
(* Expressions over a tuple of a schema, and aggregates over a bag.           *)

Position(attr, schema) == Min({a \in DOMAIN schema : SameAttr(attr, schema[a])})
Val(leaf, x, schema) == IF leaf.kind = "const" THEN leaf.value ELSE x[Position(leaf.attr, schema)]
ExprVal(expr, x, schema) == MapThenSumSet(LAMBDA k : Val(expr[k], x, schema), DOMAIN expr)

Holds(p, x, schema) ==
  LET l == ExprVal(p.left, x, schema)
      r == ExprVal(p.right, x, schema)
  IN  CASE p.op = "EQ" -> l = r [] p.op = "LT" -> l < r [] p.op = "GT" -> l > r

Aggregate(fn, bag, a) ==
  LET Sum == Total(bag, DOMAIN bag, LAMBDA x : x[a])
      Count == Total(bag, DOMAIN bag, One)
  IN  CASE fn = "COUNT" -> Count [] fn = "SUM" -> Sum [] fn = "AVG" -> (12 * Sum) \div Count
        [] fn = "MAX" -> Max({x[a] : x \in DOMAIN bag}) [] fn = "MIN" -> Min({x[a] : x \in DOMAIN bag})

Grouped(bag, arg, schema) ==
  LET key(x) == [g \in DOMAIN arg.group |-> x[Position(arg.group[g], schema)]]
      row(k) == LET b == Restricted(bag, {x \in DOMAIN bag : key(x) = k})
                IN  k \o [a \in DOMAIN arg.aggrs |->
                            Aggregate(arg.aggrs[a].fn, b, Position(arg.aggrs[a].attr, schema))]
  IN  SetToBag({row(k) : k \in {key(x) : x \in DOMAIN bag}})

-----------------------------------------------------------------------------
(* Windows over the arrivals of a stream.                                    *)

Until(table, t) == FlattenSeq(SubSeq(Arrivals[table], 1, t))
LastOf(s, n) == SubSeq(s, Max({1, Len(s) - n + 1}), Len(s))
Since(table, t, units) == FlattenSeq(SubSeq(Arrivals[table], Max({1, t - units + 1}), t))

Partitioned(s, rows, positions) ==
  LET same(i, j) == \A p \in positions : s[i][p] = s[j][p]
      kept == {i \in DOMAIN s : Cardinality({j \in (i + 1)..Len(s) : same(i, j)}) < rows}
  IN  [x \in {s[i] : i \in kept} |-> Cardinality({i \in kept : s[i] = x})]

Window(op, table, t) ==
  CASE op.kind = "nowWin"   -> BagOf(Arrivals[table][t])
    [] op.kind = "rowWin"   -> BagOf(LastOf(Until(table, t), op.arg.rows))
    [] op.kind = "rangeWin" -> BagOf(Since(table, t, op.arg.units))
    [] op.kind = "partnWin" -> Partitioned(Until(table, t), op.arg.rows,
                                           {Position(a, op.out) : a \in ToSet(op.arg.attrs)})

(* The value of operator o of a pool at all instants.                        *)
RECURSIVE Eval(_, _)
Eval(p, o) ==
  LET op     == p[o]
      in     == [i \in DOMAIN op.inputs |-> Eval(p, op.inputs[i])]
      schema == p[op.inputs[1]].out
      Rest(t) == FoldLeft(LAMBDA b, i : Product(b, in[i][t]), SetToBag({<<>>}),
                          [k \in 1..(Len(in) - 1) |-> k + 1])
  IN CASE op.kind = "streamSource" -> EachInstant(LAMBDA t : BagOf(Until(op.arg.table, t)))
       [] op.kind = "relnSource"   -> EachInstant(LAMBDA t : BagOf(Arrivals[op.arg.table][t]))
       [] op.kind \in Windows  -> EachInstant(LAMBDA t : Window(op, p[op.inputs[1]].arg.table, t))
       [] op.kind = "select"   -> EachInstant(LAMBDA t :
            Restricted(in[1][t], {x \in DOMAIN in[1][t] : Holds(op.arg, x, schema)}))
       [] op.kind = "project"  -> EachInstant(LAMBDA t :
            Image(in[1][t], LAMBDA x : [e \in DOMAIN op.arg.exprs |-> ExprVal(op.arg.exprs[e], x, schema)]))
       [] op.kind = "groupAggr" -> EachInstant(LAMBDA t : Grouped(in[1][t], op.arg, schema))
       [] op.kind = "distinct" -> EachInstant(LAMBDA t : SetToBag(DOMAIN in[1][t]))
       [] op.kind = "cross"    -> EachInstant(LAMBDA t : Product(in[1][t], Rest(t)))
       [] op.kind = "streamCross" -> Accumulate(LAMBDA u : Product(Added(in[1], u), Rest(u)))
       [] op.kind = "istream"  -> Accumulate(LAMBDA u : Added(in[1], u))
       [] op.kind = "dstream"  -> Accumulate(LAMBDA u : Dropped(in[1], u))
       [] op.kind = "rstream"  -> Accumulate(LAMBDA u : in[1][u])
       [] op.kind = "union"    -> EachInstant(LAMBDA t : in[1][t] (+) in[2][t])
       [] op.kind = "except"   -> EachInstant(LAMBDA t : in[1][t] (-) in[2][t])

-----------------------------------------------------------------------------
(* The queries for which t_rstreamNow and t_streamCross go too far: what was  *)
(* computed anew at each instant is then computed over the whole stream.     *)
NowIn == \E v \in DOMAIN query.windows : query.windows[v].type = "NOW"
Overstretched ==
  /\ query.r2s = "RSTREAM" /\ NowIn
  /\ IF Len(query.tables) = 1 THEN query.distinct /\ ~Aggregated ELSE query.distinct \/ Aggregated

-----------------------------------------------------------------------------
(* Properties.                                                               *)

(* No transformation changes what the query computes, at any instant.        *)
AnswerKept ==
  [][ /\ step \in Transforms /\ pool' # pool
      /\ Resolvable /\ ~Overstretched
      => Eval(pool', plan') = Eval(pool, plan) ]_vars

(* An operator marked as producing a stream never takes a tuple back, and a   *)
(* query under an r2s operator still has such an operator on top.            *)
Grows(value) == \A t \in Instants \ {1} : value[t - 1] \sqsubseteq value[t]
StreamsOnlyInsert ==
  step = "done" /\ Resolvable =>
    /\ \A o \in Tree : pool[o].stream => Grows(Eval(pool, o))
    /\ query.r2s # Absent /\ ~Overstretched => pool[plan].stream

=============================================================================
