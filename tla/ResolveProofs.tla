----------------------------- MODULE ResolveProofs -----------------------------
(****************************************************************************)
(* What is proved of where the operators of a plan get to.  The attributes  *)
(* that they refer to: the clauses name what the operator below them        *)
(* offers, and no transformation takes that away, wherever it puts the      *)
(* operator.  And the selections: each is pushed as far down as it can go,  *)
(* past the others, and what is done to one leaves the others where they    *)
(* should be.                                                               *)
(****************************************************************************)
EXTENDS TreeProofs

-----------------------------------------------------------------------------
(* References.                                                               *)

(* The attributes that an expression refers to.                              *)
ExprRefs(expr) == {expr[k].attr : k \in {k \in DOMAIN expr : expr[k].kind = "attr"}}

(* What is referred to is among what is offered, under a name.                *)
Held(refs, offers) == \A attr \in refs : attr.kind # "unnamed" /\ attr \in offers

Resolving(p, o) == p[o].kind \in Referring => Held(Refs(p[o]), Offers(p, o))
Resolves(p) == \A o \in 1..Len(p) : Resolving(p, o)

(* What each kind of operator refers to. *)
LEMMA RefsOf ==
  ASSUME NEW op
  PROVE  /\ op.kind = "select" => Refs(op) = ExprRefs(op.arg.left) \cup ExprRefs(op.arg.right)
         /\ op.kind = "project" => Refs(op) = UNION {ExprRefs(e) : e \in ToSet(op.arg.exprs)}
         /\ op.kind = "groupAggr" =>
              Refs(op) = ToSet(op.arg.group) \cup {a.attr : a \in ToSet(op.arg.aggrs)}
         /\ op.kind = "partnWin" => Refs(op) = ToSet(op.arg.attrs)
         /\ op.kind \notin Referring => Refs(op) = {}
BY DEF Refs, ExprRefs, Referring

(* What an operator refers to hangs on its kind and its argument alone. *)
LEMMA SameRefs ==
  ASSUME NEW op, NEW old, op.kind = old.kind, op.arg = old.arg
  PROVE  Refs(op) = Refs(old)
BY DEF Refs

(* An operator finds an attribute that has a name among those of its schema. *)
LEMMA FoundIsHeld ==
  ASSUME NEW refs, NEW op
  PROVE  (\A attr \in refs : AttrFound(attr, op)) <=> Held(refs, ToSet(op.out))
BY DEF AttrFound, SameAttr, Held, ToSet

(* check_reference looks for the attributes of an expression. *)
LEMMA CheckIsHeld ==
  ASSUME NEW expr, NEW op
  PROVE  CheckReference(expr, op) <=> Held(ExprRefs(expr), ToSet(op.out))
<1>1. CheckReference(expr, op) <=> \A attr \in ExprRefs(expr) : AttrFound(attr, op)
  BY DEF CheckReference, ExprRefs
<1>2. QED
  BY <1>1, FoundIsHeld

(* A larger offer holds what a smaller one did. *)
LEMMA HeldMore ==
  ASSUME NEW refs, NEW few, NEW many, few \subseteq many, Held(refs, few)
  PROVE  Held(refs, many)
BY DEF Held

(* What a change keeps resolves as it did, and so does all if what is new does. *)
LEMMA KeepsResolve ==
  ASSUME NEW p, NEW q, Resolves(p), Keeps(q, p), \A w \in News(q, Len(p)) : Resolving(q, w)
  PROVE  Resolves(q)
<1> SUFFICES ASSUME NEW o \in 1..Len(q) PROVE Resolving(q, o)
  BY DEF Resolves
<1>1. Len(p) \in Nat /\ Len(q) \in Nat
  BY DEF Keeps
<1>2. CASE o \in 1..Len(p)
  <2>1. Resolving(p, o) /\ Kept(q, p, o)
    BY <1>2 DEF Resolves, Keeps
  <2>2. Refs(q[o]) = Refs(p[o])
    BY <2>1, SameRefs DEF Kept
  <2>3. QED
    BY <2>1, <2>2, HeldMore DEF Resolving, Kept
<1>3. CASE o \notin 1..Len(p)
  BY <1>1, <1>3 DEF News
<1>4. QED
  BY <1>2, <1>3

(* A transformation that adds no operator with references.                    *)
LEMMA AllKeptResolve ==
  ASSUME NEW p, NEW q, Resolves(p), AllKept(q, p)
  PROVE  Resolves(q)
BY KeepsResolve DEF AllKept, Resolving

-----------------------------------------------------------------------------
(* The walk of a selection.                                                  *)

(* Wherever a selection gets to, the operator offers what it refers to: a     *)
(* selection hands on its schema, a product is passed through an input with   *)
(* all of the attributes.                                                    *)
LEMMA GoalHolds ==
  ASSUME NEW S, NEW L, NEW h, Planted(pool, S, L, h, plan), NEW select \in L,
         pool[select].kind = "select", Resolving(pool, select)
  PROVE  Held(Refs(pool[select]), ToSet(pool[Goal(select).op].out))
<1> DEFINE refs == Refs(pool[select])
           bexpr == pool[select].arg
           Holds(s) == Held(refs, ToSet(pool[s.op].out))
           A == {s \in Walks(L, h, select) : Holds(s)}
<1>1. Len(pool) \in Nat
  BY DEF Planted, IsPool
<1>2. Start(select) \in A
  <2>1. Start(select) \in Walks(L, h, select)
    BY WalkStart DEF Start
  <2>2. Held(refs, Offers(pool, select))
    BY DEF Resolving, Referring
  <2>3. Start(select).op = pool[select].inputs[1]
    BY DEF Start, Input
  <2>4. Holds(Start(select))
    BY <2>2, <2>3 DEF Offers
  <2>5. QED
    BY <2>1, <2>4
<1>3. ASSUME NEW s \in A PROVE Below(bexpr, s) \in A
  <2>1. s \in Walks(L, h, select) /\ Holds(s)
    OBVIOUS
  <2>2. Below(bexpr, s) \in Walks(L, h, select)
    BY <2>1, WalkTurn
  <2>3. Holds(Below(bexpr, s))
    <3>1. CASE ~CanBePushed(bexpr, s.op)
      BY <2>1, <3>1 DEF Below
    <3>2. CASE CanBePushed(bexpr, s.op) /\ pool[s.op].kind = "select"
      <4>1. Below(bexpr, s).op = pool[s.op].inputs[1]
        BY <3>2 DEF Below, ChildPos
      <4>2. s.op \in L
        BY <2>1 DEF Walks
      <4>3. pool[s.op].kind \in Copying
        BY <3>2 DEF Copying, Unary, LogKinds, Sources, Crosses, BinOps
      <4>4. pool[pool[s.op].inputs[1]].out = pool[s.op].out
        BY <4>2, <4>3, Handed
      <4>5. QED
        BY <2>1, <4>1, <4>4
    <3>3. CASE CanBePushed(bexpr, s.op) /\ pool[s.op].kind # "select"
      <4> DEFINE I == TakingInputs(bexpr, s.op)
                 i == Min(I)
      <4>1. I # {} /\ Below(bexpr, s).op = pool[s.op].inputs[i]
        BY <3>3 DEF CanBePushed, Below, ChildPos
      <4>2. I \subseteq Nat
        <5>1. s.op \in L /\ s.op \in 1..Len(pool)
          BY <2>1, ZenonT(60) DEF Walks, Planted, IsTree
        <5>2. DOMAIN pool[s.op].inputs \subseteq Nat
          BY <5>1 DEF Planted, IsPool, IsOp
        <5>3. QED
          BY <5>2 DEF TakingInputs
      <4> HIDE DEF I
      <4>3. i \in I
        BY <4>1, <4>2, Least, SMTT(40)
      <4>4. LET op == pool[pool[s.op].inputs[i]]
            IN  CheckReference(bexpr.left, op) /\ CheckReference(bexpr.right, op)
        BY <4>3, ZenonT(60) DEF I, TakingInputs
      <4> HIDE DEF i
      <4>5. LET offers == ToSet(pool[pool[s.op].inputs[i]].out)
            IN  Held(ExprRefs(bexpr.left), offers) /\ Held(ExprRefs(bexpr.right), offers)
        BY <4>4, CheckIsHeld
      <4>6. refs = ExprRefs(bexpr.left) \cup ExprRefs(bexpr.right)
        BY RefsOf
      <4>7. QED
        BY <4>1, <4>5, <4>6 DEF Held
    <3>4. QED
      BY <3>1, <3>2, <3>3
  <2>4. QED
    BY <2>2, <2>3
<1> HIDE DEF A
<1>4. Goal(select) \in A
  BY <1>1, <1>2, <1>3, GoalIn
<1>5. QED
  BY <1>4 DEF A

-----------------------------------------------------------------------------
(* What the clauses put over the plan.                                       *)

(* An operator more, over one that was there.                                *)
PutOver(q, p, r, kind, out, arg) ==
  /\ Keeps(q, p) /\ Len(q) = Len(p) + 1
  /\ q[Len(q)].kind = kind /\ q[Len(q)].arg = arg /\ q[Len(q)].out = out
  /\ Offers(q, Len(q)) = ToSet(p[r].out)

(* newop takes nothing from the operators that are there. *)
LEMMA NewOpKeeps ==
  ASSUME NEW S, NEW p, IsPool(p, S), NEW r \in 1..Len(p), NEW kind, NEW out, NEW stream, NEW arg
  PROVE  PutOver(NewOp(p, kind, <<r>>, out, stream, arg), p, r, kind, out, arg)
<1> DEFINE n == Len(p)
           new == [kind |-> kind, inputs |-> <<r>>, output |-> 0, out |-> out,
                   stream |-> stream, arg |-> arg]
           q == NewOp(p, kind, <<r>>, out, stream, arg)
<1>1. Extended(q, p, n, new)
  BY NewOpIs
<1>2. n \in Nat /\ \A o \in 1..n : DOMAIN p[o] = Fields
  BY DEF IsPool, IsOp
<1>3. /\ new.kind = kind /\ new.inputs = <<r>> /\ new.out = out /\ new.arg = arg
  OBVIOUS
<1> HIDE DEF new, q
<1>4. /\ Len(q) = n + 1 /\ q[n + 1] = new
      /\ \A o \in 1..n : q[o] = IF o \in ToSet(new.inputs) THEN [p[o] EXCEPT !.output = n + 1] ELSE p[o]
  BY <1>1 DEF Extended
<1>5. ASSUME NEW o \in 1..n
      PROVE  q[o].kind = p[o].kind /\ q[o].arg = p[o].arg /\ q[o].inputs = p[o].inputs /\ q[o].out = p[o].out
  <2>1. CASE o \in ToSet(new.inputs)
    <3>1. q[o] = [p[o] EXCEPT !.output = n + 1]
      BY <1>4, <2>1
    <3>2. QED
      BY <1>2, <3>1 DEF Fields
  <2>2. CASE o \notin ToSet(new.inputs)
    BY <1>4, <2>2
  <2>3. QED
    BY <2>1, <2>2
<1>6. Keeps(q, p)
  <2>1. \A o \in 1..n : Enough(q, p, o)
    BY <1>5 DEF Enough
  <2>2. Len(q) \in Nat /\ n <= Len(q)
    BY <1>2, <1>4
  <2>3. QED
    BY <2>1, <2>2, SameInputsKeep
<1>7. Offers(q, Len(q)) = ToSet(p[r].out)
  <2>1. q[Len(q)].inputs[1] = r
    BY <1>3, <1>4
  <2>2. q[r].out = p[r].out
    BY <1>5
  <2>3. QED
    BY <2>1, <2>2 DEF Offers
<1>8. PutOver(q, p, r, kind, out, arg)
  BY <1>3, <1>4, <1>6, <1>7 DEF PutOver
<1>9. QED
  BY <1>8 DEF q

(* All resolves if the new operator's references are among the attributes below. *)
LEMMA PutOverResolves ==
  ASSUME NEW p, NEW q, NEW r, NEW kind, NEW out, NEW arg, Resolves(p), PutOver(q, p, r, kind, out, arg),
         NEW op, op.kind = kind, op.arg = arg,
         kind \in Referring => Held(Refs(op), ToSet(p[r].out))
  PROVE  Resolves(q)
<1>1. /\ Keeps(q, p) /\ Len(q) = Len(p) + 1 /\ q[Len(q)].kind = kind /\ q[Len(q)].arg = arg
      /\ Offers(q, Len(q)) = ToSet(p[r].out)
  BY DEF PutOver
<1>2. Refs(q[Len(q)]) = Refs(op)
  BY <1>1, SameRefs
<1>3. Resolving(q, Len(q))
  BY <1>1, <1>2 DEF Resolving
<1>4. \A w \in News(q, Len(p)) : w = Len(q)
  <2>1. Len(p) \in Nat
    BY <1>1 DEF Keeps
  <2>2. QED
    BY <1>1, <2>1 DEF News
<1>5. QED
  BY <1>1, <1>3, <1>4, KeepsResolve

-----------------------------------------------------------------------------
(* What a query names.                                                       *)

(* The attributes of the table that a variable stands for.                    *)
Attrs(v) == {NamedAttr(v, query.tables[v], k) : k \in 1..NumAttrs(query.tables[v])}

(* All that the expressions of the SELECT clause refer to.                    *)
Selected == UNION {ExprRefs(LogExpr(query.proj[e])) : e \in DOMAIN query.proj}

(* The logical attribute that is made of one of the Query. *)
LEMMA KnownAttr ==
  ASSUME NEW a, Known(a)
  PROVE  LogAttr(a) \in Attrs(a.var) /\ a.var \in DOMAIN query.tables /\ LogAttr(a).kind = "named"
BY DEF Known, LogAttr, Attrs, NamedAttr

(* An arithmetic expression refers to attributes that the interpreter found. *)
LEMMA ArithRefs ==
  ASSUME NEW expr, expr.kind = "arith", Names(expr)
  PROVE  \A attr \in ExprRefs(LogExpr(expr)) :
           \E a \in AttrsOf(expr) : Known(a) /\ attr = LogAttr(a)
<1> DEFINE operands == expr.operands
           e == LogExpr(expr)
<1>1. e = [k \in DOMAIN operands |-> LogOperand(operands[k])]
  BY DEF LogExpr, CompExpr
<1> HIDE DEF e
<1>2. DOMAIN e = DOMAIN operands /\ \A k \in DOMAIN operands : e[k] = LogOperand(operands[k])
  BY <1>1
<1>3. ASSUME NEW k \in DOMAIN e, e[k].kind = "attr"
      PROVE  \E a \in AttrsOf(expr) : Known(a) /\ e[k].attr = LogAttr(a)
  <2> DEFINE leaf == operands[k]
  <2>1. e[k] = LogOperand(leaf) /\ leaf \in ToSet(operands)
    BY <1>2 DEF ToSet
  <2>2. leaf.kind = "const" \/ (leaf.kind = "attr" /\ Known(leaf.attr))
    BY <1>2 DEF Names
  <2> HIDE DEF leaf, operands
  <2>3. leaf.kind # "const"
    BY <1>3, <2>1 DEF LogOperand, ConstExpr
  <2>4. leaf.kind = "attr" /\ Known(leaf.attr)
    BY <2>2, <2>3
  <2>5. e[k].attr = LogAttr(leaf.attr)
    BY <2>1, <2>3 DEF LogOperand, AttrExpr
  <2>6. leaf.attr \in AttrsOf(expr)
    BY <2>1, <2>4 DEF AttrsOf, operands
  <2>7. QED
    BY <2>4, <2>5, <2>6
<1>4. \A attr \in ExprRefs(e) : \E a \in AttrsOf(expr) : Known(a) /\ attr = LogAttr(a)
  BY <1>3 DEF ExprRefs
<1>5. QED
  BY <1>4 DEF e

(* So it is held by what offers the attributes of all tables. *)
LEMMA ArithHeld ==
  ASSUME NEW expr, expr.kind = "arith", Names(expr), NEW offers,
         \A v \in DOMAIN query.tables : Attrs(v) \subseteq offers
  PROVE  Held(ExprRefs(LogExpr(expr)), offers)
<1> SUFFICES ASSUME NEW attr \in ExprRefs(LogExpr(expr)) PROVE attr.kind # "unnamed" /\ attr \in offers
  BY DEF Held
<1>1. PICK a \in AttrsOf(expr) : Known(a) /\ attr = LogAttr(a)
  BY ArithRefs
<1>2. QED
  BY <1>1, KnownAttr

(* An aggregation is one reference, to the attribute aggregated. *)
LEMMA AggrRefs ==
  ASSUME NEW expr, expr.kind = "aggr"
  PROVE  ExprRefs(LogExpr(expr)) = {AggrOf(LogAttr(expr.attr), expr.fn)}
<1> DEFINE x == AttrExpr(AggrOf(LogAttr(expr.attr), expr.fn), expr.type)
<1>1. LogExpr(expr) = <<x>>
  BY DEF LogExpr
<1>2. x.kind = "attr" /\ x.attr = AggrOf(LogAttr(expr.attr), expr.fn)
  BY DEF AttrExpr
<1> HIDE DEF x
<1>3. DOMAIN <<x>> = {1} /\ <<x>>[1] = x
  OBVIOUS
<1>4. ExprRefs(<<x>>) = {x.attr}
  BY <1>2, <1>3 DEF ExprRefs
<1>5. QED
  BY <1>1, <1>2, <1>4

-----------------------------------------------------------------------------
(* A table of the FROM clause.                                               *)

(* What a table adds to the pool resolves, and offers the table's attributes. *)
TableOffered(q, n, var) ==
  /\ \A w \in News(q, n) : Resolving(q, w)
  /\ ToSet(q[Len(q)].out) = Attrs(var)

(* A source offers the attributes of its table. *)
LEMMA SourceOffers ==
  ASSUME NEW S, NEW p, IsPool(p, S), NEW var, query.tables[var] \in DOMAIN Tables,
         NEW q, q = GetSource(p, var, query.tables[var])
  PROVE  /\ Len(p) \in Nat /\ Len(q) = Len(p) + 1 /\ q[Len(q)].kind \in Sources
         /\ ToSet(q[Len(q)].out) = Attrs(var)
<1> DEFINE table == query.tables[var]
           n == Len(p)
           kind == IF IsStream(table) THEN "streamSource" ELSE "relnSource"
           out == [a \in 1..NumAttrs(table) |-> NamedAttr(var, table, a)]
           arg == [var |-> var, table |-> table]
           new == [kind |-> kind, inputs |-> <<>>, output |-> 0, out |-> out,
                   stream |-> IsStream(table), arg |-> arg]
<1>1. q = NewOp(p, kind, <<>>, out, IsStream(table), arg)
  BY DEF GetSource, MkSource
<1>2. Extended(NewOp(p, kind, <<>>, out, IsStream(table), arg), p, n, new)
  BY NewOpIs
<1>3. new.kind = kind /\ new.out = out /\ kind \in Sources
  BY DEF Sources
<1>4. ToSet(out) = Attrs(var)
  BY DEF ToSet, Attrs
<1> HIDE DEF new, out, arg, kind
<1>5. n \in Nat /\ Len(q) = n + 1 /\ q[n + 1] = new
  BY <1>1, <1>2 DEF Extended
<1>6. QED
  BY <1>3, <1>4, <1>5

(* A window over it offers the same, and a partitioning window refers to it. *)
LEMMA WindowOffers ==
  ASSUME NEW T, NEW q, IsPool(q, T), NEW n \in Nat, Len(q) = n + 1, NEW var, q[Len(q)].kind \in Sources,
         ToSet(q[Len(q)].out) = Attrs(var), NEW kind \in Windows, NEW arg,
         kind = "partnWin" => Held(ToSet(arg.attrs), Attrs(var)),
         NEW t, t = NewOp(q, kind, <<Len(q)>>, q[Len(q)].out, FALSE, arg)
  PROVE  TableOffered(t, n, var)
<1>1. PutOver(t, q, Len(q), kind, q[Len(q)].out, arg)
  <2>1. Len(q) \in 1..Len(q)
    OBVIOUS
  <2>2. QED
    BY <2>1, NewOpKeeps
<1>2. /\ Keeps(t, q) /\ Len(t) = n + 2 /\ t[Len(t)].kind = kind /\ t[Len(t)].arg = arg
      /\ t[Len(t)].out = q[Len(q)].out /\ Offers(t, Len(t)) = Attrs(var)
  <2>1. /\ Keeps(t, q) /\ Len(t) = Len(q) + 1 /\ t[Len(t)].kind = kind /\ t[Len(t)].arg = arg
        /\ t[Len(t)].out = q[Len(q)].out /\ Offers(t, Len(t)) = ToSet(q[Len(q)].out)
    BY <1>1 DEF PutOver
  <2>2. Len(t) = n + 2
    <3>1. ASSUME NEW l, NEW m, m = n + 1, l = m + 1 PROVE l = n + 2
      BY <3>1
    <3>2. QED
      BY <2>1, <3>1
  <2>3. QED
    BY <2>1, <2>2
<1>3. Resolving(t, Len(t))
  <2>1. CASE kind = "partnWin"
    <3>1. Refs(t[Len(t)]) = ToSet(arg.attrs)
      BY <1>2, <2>1, RefsOf
    <3>2. QED
      BY <1>2, <2>1, <3>1 DEF Resolving
  <2>2. CASE kind # "partnWin"
    BY <1>2, <2>2 DEF Resolving, Referring, Windows
  <2>3. QED
    BY <2>1, <2>2
<1>4. Resolving(t, n + 1)
  <2>1. n + 1 \in 1..Len(q)
    OBVIOUS
  <2>2. t[n + 1].kind \in Sources
    BY <1>2, <2>1 DEF Keeps, Kept
  <2>3. QED
    BY <2>2 DEF Resolving, Referring, Sources
<1>5. \A w \in News(t, n) : w = n + 1 \/ w = Len(t)
  <2>1. \A w \in (n + 1)..(n + 2) : w = n + 1 \/ w = n + 2
    OBVIOUS
  <2>2. QED
    BY <1>2, <2>1 DEF News
<1>6. \A w \in News(t, n) : Resolving(t, w)
  BY <1>3, <1>4, <1>5
<1>7. QED
  BY <1>2, <1>6 DEF TableOffered

(* A partitioning window names attributes of its own table, in a query that resolves. *)
LEMMA PartnAttrs ==
  ASSUME NEW var, TableReady(var), IsStream(query.tables[var]), ~Misparted,
         query.windows[var].type = "PARTITION"
  PROVE  Held(ToSet(LogAttrs(query.windows[var].attrs)), Attrs(var))
<1> DEFINE attrs == query.windows[var].attrs
<1>1. var \in DOMAIN query.windows /\ \A a \in ToSet(attrs) : Known(a)
  BY DEF TableReady
<1>2. \A a \in ToSet(attrs) : a.var = var
  BY <1>1 DEF Misparted
<1> HIDE DEF attrs
<1>3. \A attr \in ToSet(LogAttrs(attrs)) : \E a \in ToSet(attrs) : attr = LogAttr(a)
  BY DEF LogAttrs, ToSet
<1>4. ASSUME NEW attr \in ToSet(LogAttrs(attrs)) PROVE attr.kind # "unnamed" /\ attr \in Attrs(var)
  <2>1. PICK a \in ToSet(attrs) : attr = LogAttr(a)
    BY <1>3
  <2>2. QED
    BY <1>1, <1>2, <2>1, KnownAttr
<1>5. Held(ToSet(LogAttrs(attrs)), Attrs(var))
  BY <1>4 DEF Held
<1>6. QED
  BY <1>5 DEF attrs

(* A table of the FROM clause, source and window. *)
LEMMA TableOffers ==
  ASSUME NEW S, NEW p, IsPool(p, S), NEW var, TableReady(var), ~Misparted, NEW q, q = TablePlan(p, var)
  PROVE  TableOffered(q, Len(p), var)
<1> DEFINE table == query.tables[var]
           win == query.windows[var]
           s == GetSource(p, var, table)
           n == Len(p)
<1>1. table \in DOMAIN Tables
  BY DEF TableReady
<1>2. n \in Nat /\ Len(s) = n + 1 /\ s[Len(s)].kind \in Sources /\ ToSet(s[Len(s)].out) = Attrs(var)
  BY <1>1, SourceOffers
<1>3. PICK T, g : Sourced(s, p, T, g)
  BY <1>1, SourceBeside
<1>4. IsPool(s, T)
  BY <1>3 DEF Sourced, Beside, Planted
<1> HIDE DEF s, n
<1>5. ASSUME NEW kind \in Windows, NEW arg,
             kind = "partnWin" => Held(ToSet(arg.attrs), Attrs(var)),
             q = NewOp(s, kind, <<Len(s)>>, s[Len(s)].out, FALSE, arg)
      PROVE  TableOffered(q, n, var)
  BY <1>2, <1>4, <1>5, WindowOffers
<1>6. ASSUME q = s PROVE TableOffered(q, n, var)
  <2>1. \A w \in News(q, n) : w = Len(q)
    BY <1>2, <1>6 DEF News
  <2>2. Resolving(q, Len(q))
    BY <1>2, <1>6 DEF Resolving, Referring, Sources
  <2>3. QED
    BY <1>2, <1>6, <2>1, <2>2 DEF TableOffered
<1>7. ASSUME ~IsStream(table) PROVE TableOffered(q, n, var)
  <2>1. q = s
    BY <1>7 DEF TablePlan, s
  <2>2. QED
    BY <1>6, <2>1
<1>8. ASSUME IsStream(table) PROVE TableOffered(q, n, var)
  <2>1. q = ApplyWindow(s, win) /\ win.type \in StreamWins
    BY <1>8 DEF TablePlan, s, TableReady
  <2>2. /\ "rangeWin" \in Windows /\ "rowWin" \in Windows /\ "partnWin" \in Windows
        /\ "nowWin" \in Windows
    BY DEF Windows
  <2>3. CASE win.type = "PARTITION"
    <3> DEFINE arg == [attrs |-> LogAttrs(win.attrs), rows |-> win.rows]
    <3>1. q = NewOp(s, "partnWin", <<Len(s)>>, s[Len(s)].out, FALSE, arg)
      BY <2>1, <2>3 DEF ApplyWindow, MkPartnWindow, CopySchema
    <3>2. Held(ToSet(arg.attrs), Attrs(var))
      BY <1>8, <2>3, PartnAttrs
    <3> HIDE DEF arg
    <3>3. QED
      BY <1>5, <2>2, <3>1, <3>2
  <2>4. CASE win.type = "RANGE"
    <3> DEFINE arg == [units |-> win.units]
    <3>1. q = NewOp(s, "rangeWin", <<Len(s)>>, s[Len(s)].out, FALSE, arg)
      BY <2>1, <2>4 DEF ApplyWindow, MkRangeWindow, CopySchema
    <3> HIDE DEF arg
    <3>2. QED
      BY <1>5, <2>2, <3>1
  <2>5. CASE win.type = "ROW"
    <3> DEFINE arg == [rows |-> win.rows]
    <3>1. q = NewOp(s, "rowWin", <<Len(s)>>, s[Len(s)].out, FALSE, arg)
      BY <2>1, <2>5 DEF ApplyWindow, MkRowWindow, CopySchema
    <3> HIDE DEF arg
    <3>2. QED
      BY <1>5, <2>2, <3>1
  <2>6. CASE win.type = "NOW"
    <3>1. q = NewOp(s, "nowWin", <<Len(s)>>, s[Len(s)].out, FALSE, NoArg)
      BY <2>1, <2>6 DEF ApplyWindow, MkNowWindow, CopySchema
    <3>2. QED
      BY <1>5, <2>2, <3>1
  <2>7. CASE win.type = "UNBOUNDED"
    <3>1. q = s
      BY <2>1, <2>7 DEF ApplyWindow
    <3>2. QED
      BY <1>6, <3>1
  <2>8. QED
    BY <2>1, <2>3, <2>4, <2>5, <2>6, <2>7 DEF StreamWins
<1>9. QED
  BY <1>7, <1>8 DEF n

-----------------------------------------------------------------------------
(* The invariant.                                                            *)

(* All references of the pool resolve, and the plan offers what the function   *)
(* `next` will refer to: the product the attributes of the c tables that it   *)
(* joins, all tables the attributes of the WHERE and GROUP BY clauses, and    *)
(* what is under the projection those of the SELECT clause.                   *)
Supplied(p, r, c, next) ==
  /\ Resolves(p)
  /\ next = "plan" /\ c # 0 => \A v \in 1..c : Attrs(v) \subseteq ToSet(p[1].out)
  /\ next \in {"preds", "aggr"} => \A v \in DOMAIN query.tables : Attrs(v) \subseteq ToSet(p[r].out)
  /\ next = "projs" => Held(Selected, ToSet(p[r].out))

SupplyInv == Resolvable => Supplied(pool, plan, at, step)

(* What a query names hangs on the Query alone. *)
LEMMA NamesStay ==
  ASSUME query' = query
  PROVE  /\ Resolvable' <=> Resolvable
         /\ Selected' = Selected
         /\ \A v : Attrs(v)' = Attrs(v)
<1>1. Resolvable' <=> Resolvable
  BY DEF Resolvable, Ungrouped, Aggregated, Misparted
<1>2. \A a : LogAttr(a)' = LogAttr(a)
  BY DEF LogAttr
<1>3. \A leaf : LogOperand(leaf)' = LogOperand(leaf)
  BY <1>2 DEF LogOperand
<1>4. \A expr : LogExpr(expr)' = LogExpr(expr)
  BY <1>2, <1>3 DEF LogExpr
<1>5. Selected' = Selected
  BY <1>4 DEF Selected
<1>6. \A v : Attrs(v)' = Attrs(v)
  BY DEF Attrs
<1>7. QED
  BY <1>1, <1>5, <1>6

(* A step of the generation supplies what the next one needs if what it leaves does. *)
LEMMA GenerateSupplies ==
  ASSUME NEW p, NEW r, NEW c, NEW next, Resolvable => Supplied(p, r, c, next), Generate(p, r, c, next)
  PROVE  SupplyInv'
<1>1. pool' = p /\ plan' = r /\ at' = c /\ step' = next /\ query' = query
  BY DEF Generate
<1>2. SUFFICES ASSUME Resolvable' PROVE Supplied(pool, plan, at, step)'
  BY DEF SupplyInv
<1>3. Supplied(p, r, c, next)
  BY <1>1, <1>2, NamesStay
<1>4. Selected' = Selected /\ \A v : Attrs(v)' = Attrs(v)
  BY <1>1, NamesStay
<1>5. QED
  BY <1>1, <1>3, <1>4 DEF Supplied

(* A registration that ends early asks for no attribute any more. *)
LEMMA StopSupplies ==
  ASSUME SupplyInv, NEW how, how \in Fatal \cup {"failed"}, Stop(how)
  PROVE  SupplyInv'
<1>1. pool' = pool /\ step' = how /\ query' = query
  BY DEF Stop, planVars
<1>2. SUFFICES ASSUME Resolvable' PROVE Supplied(pool, plan, at, step)'
  BY DEF SupplyInv
<1>3. Resolves(pool)
  BY <1>1, <1>2, NamesStay DEF SupplyInv, Supplied
<1>4. how \notin {"plan", "preds", "aggr", "projs"}
  BY DEF Fatal
<1>5. Resolves(pool)'
  BY <1>1, <1>3
<1>6. QED
  BY <1>1, <1>4, <1>5 DEF Supplied

(* What other steps need is that all resolves. *)
LEMMA ResolvesSupplied ==
  ASSUME NEW p, Resolves(p), NEW r, NEW c, NEW next, next \notin {"plan", "preds", "aggr", "projs"}
  PROVE  Supplied(p, r, c, next)
BY DEF Supplied

(* Nothing is referred to in an empty pool. *)
LEMMA EmptyResolves == Resolves(<<>>)
BY EmptyPool DEF Resolves

-----------------------------------------------------------------------------
(* The naive plan.                                                           *)

(* A plan of one table. *)
LEMMA OneTableSupplies ==
  ASSUME PlanInv, QueryInv, SupplyInv, step = "plan", query.kind = "sfw", OneTable
  PROVE  SupplyInv'
<1> DEFINE q == TablePlan(pool, 1)
<1>1. Len(query.tables) = 1 /\ Generate(q, Len(q), 0, "preds")
  BY DEF OneTable
<1>2. pool = <<>>
  <2>1. at \in Nat /\ (at # 0 => at < 1)
    BY <1>1 DEF PlanInv, Shaped
  <2>2. QED
    BY <2>1 DEF PlanInv, Shaped
<1>3. DOMAIN query.tables = {1}
  <2>1. IsList(query.tables)
    BY DEF QueryInv, Naive, TablesReady
  <2>2. DOMAIN query.tables = 1..1
    BY <1>1, <2>1, ListElements
  <2>3. QED
    BY <2>2
<1>4. TableReady(1)
  BY <1>3 DEF QueryInv, Naive
<1>5. SUFFICES ASSUME Resolvable PROVE Supplied(q, Len(q), 0, "preds")
  <2> HIDE DEF q
  <2>1. QED
    BY <1>1, <1>5, GenerateSupplies
<1>6. ~Misparted /\ IsPool(pool, {}) /\ Len(pool) = 0
  BY <1>2, <1>5, EmptyPool DEF Resolvable
<1>7. TableOffered(q, Len(pool), 1)
  BY <1>4, <1>6, TableOffers
<1> HIDE DEF q
<1>8. Resolves(q)
  <2>1. \A o \in 1..Len(q) : o \in News(q, 0)
    BY DEF News
  <2>2. QED
    BY <1>6, <1>7, <2>1 DEF TableOffered, Resolves
<1>9. \A v \in DOMAIN query.tables : Attrs(v) \subseteq ToSet(q[Len(q)].out)
  BY <1>3, <1>7 DEF TableOffered
<1>10. QED
  BY <1>8, <1>9 DEF Supplied

(* The product begins without a reference. *)
LEMMA FirstResolves == Resolves(MkCross(<<>>))
<1> DEFINE q == MkCross(<<>>)
<1>1. Grown(q, <<>>, Len(<<>>), {}, "cross", <<>>, <<>>, NoArg) /\ Len(q) = Len(<<>>) + 1
  BY EmptyPool, CrossIsLast
<1> HIDE DEF q
<1>2. Len(q) = 1 /\ q[1].kind = "cross"
  BY <1>1, EmptyPool DEF Grown, Made
<1>3. \A o \in 1..Len(q) : o = 1
  BY <1>2
<1>4. Resolves(q)
  BY <1>2, <1>3 DEF Resolves, Resolving, Referring
<1>5. QED
  BY <1>4 DEF q

(* A table more in the product. *)
LEMMA NextTableSupplies ==
  ASSUME PlanInv, QueryInv, SupplyInv, step = "plan", query.kind = "sfw", NextTable
  PROVE  SupplyInv'
<1> DEFINE p == IF at = 0 THEN MkCross(pool) ELSE pool
           q == TablePlan(p, at + 1)
           t == CrossAddInput(q, 1, Len(q))
           last == at + 1 = Len(query.tables)
           c == IF last THEN 0 ELSE at + 1
           next == IF last THEN "preds" ELSE "plan"
<1>1. /\ Len(query.tables) > 1
      /\ IF CrossRefuses(q, 1, Len(q), MaxAttrs) THEN Stop("failed") ELSE Generate(t, 1, c, next)
  BY DEF NextTable
<1>2. IsList(query.tables)
  BY DEF QueryInv, Naive, TablesReady
<1>3. at \in Nat /\ at < Len(query.tables) /\ Len(query.tables) \in Nat /\ DOMAIN query.tables = 1..Len(query.tables)
  <2>1. Len(query.tables) \in Nat /\ DOMAIN query.tables = 1..Len(query.tables)
    BY <1>2, ListElements
  <2>2. at \in Nat /\ (at # 0 => at < Len(query.tables))
    BY DEF PlanInv, Shaped
  <2>3. QED
    BY <1>1, <2>1, <2>2
<1>4. TableReady(at + 1)
  <2>1. at + 1 \in DOMAIN query.tables
    BY <1>3
  <2>2. QED
    BY <2>1 DEF QueryInv, Naive
<1>5. CASE CrossRefuses(q, 1, Len(q), MaxAttrs)
  <2> HIDE DEF q, t
  <2>1. QED
    BY <1>1, <1>5, StopSupplies
<1>6. CASE ~CrossRefuses(q, 1, Len(q), MaxAttrs)
  <2>1. Joining(p) /\ (at = 0 => pool = <<>>)
    <3>1. at = 0 => pool = <<>>
      BY DEF PlanInv, Shaped
    <3>2. at # 0 => Joining(pool)
      BY DEF PlanInv, Shaped
    <3>3. QED
      BY <3>1, <3>2, FirstCross
  <2>2. PICK S : IsPool(p, S)
    BY <2>1 DEF Joining, Planted
  <2>3. SUFFICES ASSUME Resolvable PROVE Supplied(t, 1, c, next)
    <3>1. Generate(t, 1, c, next)
      BY <1>1, <1>6
    <3> HIDE DEF t, c, next
    <3>2. QED
      BY <2>3, <3>1, GenerateSupplies
  <2>4. Resolves(p) /\ \A v \in 1..at : Attrs(v) \subseteq ToSet(p[1].out)
    <3>1. Supplied(pool, plan, at, "plan")
      BY <2>3 DEF SupplyInv
    <3>2. CASE at = 0
      <4>1. p = MkCross(<<>>)
        BY <2>1, <3>2
      <4>2. \A v \in 1..at : FALSE
        BY <3>2
      <4> HIDE DEF p
      <4>3. QED
        BY <4>1, <4>2, FirstResolves
    <3>3. CASE at # 0
      BY <3>1, <3>3 DEF Supplied
    <3>4. QED
      BY <3>2, <3>3
  <2> HIDE DEF p
  <2>5. TableOffered(q, Len(p), at + 1)
    BY <1>4, <2>2, <2>3, TableOffers DEF Resolvable
  <2>6. Joined(t, q, p)
    BY <1>4, <1>6, <2>1, JoinTable
  <2> HIDE DEF q, t
  <2>7. /\ Keeps(q, p) /\ Keeps(t, q) /\ 1 <= Len(p) /\ Len(t) = Len(q)
        /\ ToSet(t[1].out) = ToSet(p[1].out) \cup ToSet(q[Len(q)].out)
    BY <2>6 DEF Joined
  <2>8. Resolves(q)
    BY <2>4, <2>5, <2>7, KeepsResolve DEF TableOffered
  <2>9. Resolves(t)
    <3>1. Len(q) \in Nat
      BY <2>7 DEF Keeps
    <3>2. \A w \in News(t, Len(q)) : FALSE
      BY <2>7, <3>1 DEF News
    <3>3. QED
      BY <2>7, <2>8, <3>2, KeepsResolve
  <2>10. \A v \in 1..(at + 1) : Attrs(v) \subseteq ToSet(t[1].out)
    <3>1. \A v \in 1..(at + 1) : v \in 1..at \/ v = at + 1
      BY <1>3
    <3>2. Attrs(at + 1) = ToSet(q[Len(q)].out)
      BY <2>5 DEF TableOffered
    <3>3. QED
      BY <2>4, <2>7, <3>1, <3>2
  <2>11. CASE last
    <3>1. DOMAIN query.tables = 1..(at + 1) /\ next = "preds"
      BY <1>3, <2>11
    <3> HIDE DEF next
    <3>2. QED
      BY <2>9, <2>10, <3>1 DEF Supplied
  <2>12. CASE ~last
    <3>1. c = at + 1 /\ next = "plan"
      BY <2>12
    <3> HIDE DEF c, next
    <3>2. QED
      BY <2>9, <2>10, <3>1 DEF Supplied
  <2>13. QED
    BY <2>11, <2>12
<1>7. QED
  BY <1>5, <1>6

(* A selection of the WHERE clause. *)
LEMMA PredsSupplies ==
  ASSUME PlanInv, QueryInv, SupplyInv, ApplyPreds
  PROVE  SupplyInv'
<1> DEFINE arg == LogBExpr(query.preds[at + 1])
           q == MkSelect(pool, plan, arg)
           Offered(p, r) == \A v \in DOMAIN query.tables : Attrs(v) \subseteq ToSet(p[r].out)
<1>1. /\ step = "preds"
      /\ IF at < Len(query.preds) THEN Generate(q, Len(q), at + 1, "preds") ELSE Generate(pool, plan, 0, "aggr")
  BY DEF ApplyPreds
<1>2. Lacking(pool, plan, BinOps) /\ at \in Nat
  BY <1>1 DEF PlanInv, Shaped
<1>3. PICK S : IsPool(pool, S) /\ plan \in 1..Len(pool)
  BY <1>2, Rooted DEF Lacking
<1>4. Resolvable => Resolves(pool) /\ Offered(pool, plan)
  BY <1>1 DEF SupplyInv, Supplied
<1>5. CASE at < Len(query.preds)
  <2>1. SUFFICES ASSUME Resolvable PROVE Supplied(q, Len(q), at + 1, "preds")
    <3>1. Generate(q, Len(q), at + 1, "preds")
      BY <1>1, <1>5
    <3> HIDE DEF q
    <3>2. QED
      BY <2>1, <3>1, GenerateSupplies
  <2>2. IsList(query.preds) /\ \A k \in DOMAIN query.preds : PredSound(query.preds[k])
    BY <1>1 DEF QueryInv, Naive, PartsReady
  <2>3. at + 1 \in DOMAIN query.preds
    BY <1>2, <1>5, <2>2, ListElements
  <2> DEFINE pred == query.preds[at + 1]
  <2>4. /\ pred.left.kind = "arith" /\ pred.right.kind = "arith"
        /\ Names(pred.left) /\ Names(pred.right)
    BY <2>2, <2>3 DEF PredSound, Sound
  <2>5. arg.left = LogExpr(pred.left) /\ arg.right = LogExpr(pred.right)
    BY DEF LogBExpr
  <2> HIDE DEF pred, arg
  <2>6. PutOver(q, pool, plan, "select", pool[plan].out, arg)
    BY <1>3, NewOpKeeps DEF MkSelect, CopySchema
  <2>7. Held(ExprRefs(arg.left), ToSet(pool[plan].out)) /\ Held(ExprRefs(arg.right), ToSet(pool[plan].out))
    BY <1>4, <2>1, <2>4, <2>5, ArithHeld
  <2> DEFINE op == [kind |-> "select", arg |-> arg]
  <2>8. op.kind = "select" /\ op.arg = arg
    OBVIOUS
  <2> HIDE DEF q, op
  <2>9. Held(Refs(op), ToSet(pool[plan].out))
    <3>1. Refs(op) = ExprRefs(arg.left) \cup ExprRefs(arg.right)
      BY <2>8, RefsOf
    <3>2. QED
      BY <2>7, <3>1 DEF Held
  <2>10. Resolves(q)
    BY <1>4, <2>1, <2>6, <2>8, <2>9, PutOverResolves
  <2>11. Offered(q, Len(q))
    BY <1>4, <2>1, <2>6 DEF PutOver
  <2>12. QED
    BY <2>10, <2>11 DEF Supplied
<1>6. CASE ~(at < Len(query.preds))
  <2>1. Resolvable => Supplied(pool, plan, 0, "aggr")
    BY <1>4 DEF Supplied
  <2>2. Generate(pool, plan, 0, "aggr")
    BY <1>1, <1>6
  <2>3. QED
    BY <2>1, <2>2, GenerateSupplies
<1>7. QED
  BY <1>5, <1>6

(* The attributes that are grouped by, in a query of which all are known. *)
LEMMA GroupAttrs ==
  ASSUME IsList(query.group)
  PROVE  ToSet(LogAttrs(query.group)) = {LogAttr(a) : a \in ToSet(query.group)}
BY DEF LogAttrs, ToSet

(* What is selected is held by the schema of the aggregation, or by the tables  *)
(* if there is none.                                                         *)
LEMMA SelectedHeld ==
  ASSUME NEW offers, QueryInv, step \in Naive, ~Ungrouped,
         ~Aggregated => \A v \in DOMAIN query.tables : Attrs(v) \subseteq offers,
         Aggregated => /\ \A a \in ToSet(query.group) : LogAttr(a) \in offers
                       /\ \A a \in AggrTerms(Len(query.proj)) : AggrOf(a.attr, a.fn) \in offers
  PROVE  Held(Selected, offers)
<1>1. /\ IsList(query.proj) /\ \A e \in DOMAIN query.proj : Sound(query.proj[e])
      /\ IsList(query.group) /\ \A k \in DOMAIN query.group : Known(query.group[k])
  BY DEF QueryInv, PartsReady
<1>2. DOMAIN query.proj = 1..Len(query.proj)
  BY <1>1, ListElements
<1>3. ASSUME NEW e \in DOMAIN query.proj PROVE Held(ExprRefs(LogExpr(query.proj[e])), offers)
  <2> DEFINE expr == query.proj[e]
  <2>1. Names(expr)
    BY <1>1 DEF Sound
  <2>2. CASE expr.kind = "aggr"
    <3>1. Aggregated
      BY <2>2 DEF Aggregated
    <3>2. AggrTerm(expr) \in AggrTerms(Len(query.proj))
      BY <1>2, <2>2 DEF AggrTerms
    <3> HIDE DEF expr
    <3>3. AggrOf(LogAttr(expr.attr), expr.fn) \in offers
      BY <3>1, <3>2 DEF AggrTerm
    <3>4. AggrOf(LogAttr(expr.attr), expr.fn).kind = "aggr"
      BY DEF AggrOf
    <3>5. ExprRefs(LogExpr(expr)) = {AggrOf(LogAttr(expr.attr), expr.fn)}
      BY <2>2, AggrRefs
    <3>6. Held(ExprRefs(LogExpr(expr)), offers)
      BY <3>3, <3>4, <3>5 DEF Held
    <3>7. QED
      BY <3>6 DEF expr
  <2>3. CASE expr.kind # "aggr" /\ ~Aggregated
    <3>1. expr.kind = "arith"
      BY <2>1, <2>3 DEF Names
    <3>2. \A v \in DOMAIN query.tables : Attrs(v) \subseteq offers
      BY <2>3
    <3> HIDE DEF expr
    <3>3. Held(ExprRefs(LogExpr(expr)), offers)
      BY <2>1, <3>1, <3>2, ArithHeld
    <3>4. QED
      BY <3>3 DEF expr
  <2>4. CASE expr.kind # "aggr" /\ Aggregated
    <3>1. expr.kind = "arith"
      BY <2>1, <2>4 DEF Names
    <3>2. AttrsOf(expr) \subseteq ToSet(query.group)
      BY <2>4 DEF Ungrouped
    <3>3. \A a \in ToSet(query.group) : LogAttr(a) \in offers
      BY <2>4
    <3> HIDE DEF expr
    <3>4. \A attr \in ExprRefs(LogExpr(expr)) : \E a \in AttrsOf(expr) : Known(a) /\ attr = LogAttr(a)
      BY <2>1, <3>1, ArithRefs
    <3>5. ASSUME NEW attr \in ExprRefs(LogExpr(expr)) PROVE attr.kind # "unnamed" /\ attr \in offers
      <4>1. PICK a \in AttrsOf(expr) : Known(a) /\ attr = LogAttr(a)
        BY <3>4
      <4>2. attr.kind = "named"
        BY <4>1, KnownAttr
      <4>3. QED
        BY <3>2, <3>3, <4>1, <4>2
    <3>6. Held(ExprRefs(LogExpr(expr)), offers)
      BY <3>5 DEF Held
    <3>7. QED
      BY <3>6 DEF expr
  <2>5. QED
    BY <2>2, <2>3, <2>4
<1>4. QED
  BY <1>3 DEF Selected, Held

(* The aggregation. *)
LEMMA AggrSupplies ==
  ASSUME PlanInv, QueryInv, SupplyInv, ApplyAggr
  PROVE  SupplyInv'
<1> DEFINE group == LogAttrs(query.group)
           aggrs == CollectAggrs
           q == MkGroupAggr(pool, plan, group, aggrs)
<1>1. /\ step = "aggr"
      /\ IF Len(aggrs) > MaxGroupAttrs THEN Stop("failed")
         ELSE IF group = <<>> /\ aggrs = <<>> THEN Generate(pool, plan, 0, "projs")
         ELSE IF Len(group) + Len(aggrs) > MaxAttrs THEN Generate(q, Len(q), 0, "overflow")
         ELSE Generate(q, Len(q), 0, "projs")
  BY DEF ApplyAggr
<1>2. Lacking(pool, plan, BinOps)
  BY <1>1 DEF PlanInv, Shaped
<1>3. PICK S : IsPool(pool, S) /\ plan \in 1..Len(pool)
  BY <1>2, Rooted DEF Lacking
<1>4. /\ IsList(query.proj) /\ IsList(query.group) /\ step \in Naive
      /\ \A e \in DOMAIN query.proj : Sound(query.proj[e])
      /\ \A k \in DOMAIN query.group : Known(query.group[k])
  BY <1>1 DEF QueryInv, Naive, PartsReady
<1>5. IsList(aggrs) /\ Len(aggrs) \in Nat /\ ToSet(aggrs) = AggrTerms(Len(query.proj))
  BY <1>4, ListElements, AggrsList
<1>6. /\ IsList(group) /\ Len(group) = Len(query.group)
      /\ ToSet(group) = {LogAttr(a) : a \in ToSet(query.group)}
  <2>1. Len(query.group) \in Nat /\ DOMAIN query.group = 1..Len(query.group)
    BY <1>4, ListElements
  <2>2. group = [k \in 1..Len(query.group) |-> LogAttr(query.group[k])]
    BY <2>1 DEF LogAttrs
  <2>3. group = [k \in 1..Len(query.group) |-> group[k]]
    BY <2>2
  <2>4. ToSet(group) = {LogAttr(a) : a \in ToSet(query.group)}
    BY <1>4, GroupAttrs
  <2> HIDE DEF group
  <2>5. QED
    BY <2>1, <2>3, <2>4, ListOf
<1>7. \A e \in DOMAIN query.proj : query.proj[e].kind = "aggr" => AggrTerm(query.proj[e]) \in ToSet(aggrs)
  <2>1. DOMAIN query.proj = 1..Len(query.proj)
    BY <1>4, ListElements
  <2>2. QED
    BY <1>5, <2>1 DEF AggrTerms
<1> HIDE DEF group, aggrs
<1>8. Resolvable => Resolves(pool) /\ \A v \in DOMAIN query.tables : Attrs(v) \subseteq ToSet(pool[plan].out)
  BY <1>1 DEF SupplyInv, Supplied
<1>9. CASE Len(aggrs) > MaxGroupAttrs
  BY <1>1, <1>9, StopSupplies DEF Fatal
<1>10. CASE ~(Len(aggrs) > MaxGroupAttrs) /\ group = <<>> /\ aggrs = <<>>
  <2>1. SUFFICES ASSUME Resolvable PROVE Supplied(pool, plan, 0, "projs")
    BY <1>1, <1>10, <2>1, GenerateSupplies
  <2>2. ~Aggregated
    <3>1. ToSet(aggrs) = {} /\ Len(group) = 0
      BY <1>10 DEF ToSet
    <3>2. query.group = <<>>
      <4>1. query.group \in Seq(ToSet(query.group)) /\ Len(query.group) = 0
        BY <1>4, <1>6, <3>1 DEF IsList
      <4>2. QED
        BY <4>1
    <3>3. \A e \in DOMAIN query.proj : query.proj[e].kind # "aggr"
      BY <1>7, <3>1
    <3>4. QED
      BY <3>2, <3>3 DEF Aggregated
  <2>3. ~Ungrouped
    BY <2>1 DEF Resolvable
  <2> DEFINE offers == ToSet(pool[plan].out)
  <2>4. \A v \in DOMAIN query.tables : Attrs(v) \subseteq offers
    BY <1>8, <2>1
  <2> HIDE DEF offers
  <2>5. Held(Selected, offers)
    BY <1>4, <2>2, <2>3, <2>4, SelectedHeld
  <2>6. QED
    BY <1>8, <2>1, <2>5 DEF Supplied, offers
<1>11. CASE ~(Len(aggrs) > MaxGroupAttrs) /\ ~(group = <<>> /\ aggrs = <<>>)
  <2> HIDE DEF q
  <2>1. PICK next \in {"projs", "overflow"} : Generate(q, Len(q), 0, next)
    BY <1>1, <1>11
  <2>2. SUFFICES ASSUME Resolvable PROVE Supplied(q, Len(q), 0, next)
    BY <2>2, <2>1, GenerateSupplies
  <2> USE DEF q
  <2> DEFINE arg == [group |-> group, aggrs |-> aggrs]
             out == GroupSchema(group, aggrs)
             op == [kind |-> "groupAggr", arg |-> arg]
  <2>3. PutOver(q, pool, plan, "groupAggr", out, arg)
    <3> HIDE DEF arg
    <3>1. q = NewOp(pool, "groupAggr", <<plan>>, out, FALSE, arg)
      BY DEF MkGroupAggr, arg
    <3> HIDE DEF out, q
    <3>2. PutOver(NewOp(pool, "groupAggr", <<plan>>, out, FALSE, arg), pool, plan, "groupAggr", out, arg)
      BY <1>3, NewOpKeeps
    <3>3. QED
      BY <3>1, <3>2
  <2>4. ToSet(out) = ToSet(group) \cup {AggrOf(a.attr, a.fn) : a \in ToSet(aggrs)}
    BY <1>5, <1>6, GroupList
  <2>5. op.kind = "groupAggr" /\ op.arg = arg /\ arg.group = group /\ arg.aggrs = aggrs
    OBVIOUS
  <2> HIDE DEF q, arg, out, op
  <2>6. Held(Refs(op), ToSet(pool[plan].out))
    <3>1. Refs(op) = ToSet(group) \cup {a.attr : a \in ToSet(aggrs)}
      BY <2>5, RefsOf
    <3>2. \A x \in Refs(op) : \E a : Known(a) /\ x = LogAttr(a)
      <4>1. \A a \in ToSet(query.group) : Known(a)
        BY <1>4 DEF ToSet
      <4>2. \A x \in ToSet(aggrs) : \E a : Known(a) /\ x.attr = LogAttr(a)
        <5>1. ASSUME NEW x \in ToSet(aggrs) PROVE \E a : Known(a) /\ x.attr = LogAttr(a)
          <6>1. PICK k \in 1..Len(query.proj) : query.proj[k].kind = "aggr" /\ x = AggrTerm(query.proj[k])
            BY <1>5, <5>1 DEF AggrTerms
          <6>2. k \in DOMAIN query.proj
            BY <1>4, <6>1, ListElements
          <6>3. Known(query.proj[k].attr)
            BY <1>4, <6>1, <6>2 DEF Sound, Names
          <6>4. x.attr = LogAttr(query.proj[k].attr)
            BY <6>1 DEF AggrTerm
          <6>5. QED
            BY <6>3, <6>4
        <5>2. QED
          BY <5>1
      <4>3. QED
        BY <1>6, <3>1, <4>1, <4>2
    <3>3. ASSUME NEW x \in Refs(op) PROVE x.kind # "unnamed" /\ x \in ToSet(pool[plan].out)
      <4>1. PICK a : Known(a) /\ x = LogAttr(a)
        BY <3>2
      <4>2. QED
        BY <1>8, <2>2, <4>1, KnownAttr
    <3>4. QED
      BY <3>3 DEF Held
  <2>7. Resolves(q)
    BY <1>8, <2>2, <2>3, <2>5, <2>6, PutOverResolves
  <2>8. Aggregated
    <3>1. CASE group # <<>>
      <4>1. query.group # <<>>
        <5>1. ASSUME query.group = <<>> PROVE group = <<>>
          <6>1. Len(group) = 0 /\ group \in Seq(ToSet(group))
            BY <1>6, <5>1 DEF IsList
          <6>2. QED
            BY <6>1
        <5>2. QED
          BY <3>1, <5>1
      <4>2. QED
        BY <4>1 DEF Aggregated
    <3>2. CASE aggrs # <<>>
      <4>1. ToSet(aggrs) # {}
        <5>1. aggrs \in Seq(ToSet(aggrs))
          BY <1>5 DEF IsList
        <5>2. Len(aggrs) # 0
          BY <3>2, <5>1
        <5>3. 1 \in DOMAIN aggrs
          BY <1>5, <5>2, ListElements
        <5>4. QED
          BY <5>3 DEF ToSet
      <4>2. PICK k \in 1..Len(query.proj) : query.proj[k].kind = "aggr"
        BY <1>5, <4>1 DEF AggrTerms
      <4>3. k \in DOMAIN query.proj
        BY <1>4, <4>2, ListElements
      <4>4. QED
        BY <4>2, <4>3 DEF Aggregated
    <3>3. QED
      BY <1>11, <3>1, <3>2
  <2>9. ~Ungrouped
    BY <2>2 DEF Resolvable
  <2> DEFINE offers == ToSet(out)
  <2>10. /\ \A a \in ToSet(query.group) : LogAttr(a) \in offers
         /\ \A a \in AggrTerms(Len(query.proj)) : AggrOf(a.attr, a.fn) \in offers
    BY <1>5, <1>6, <2>4
  <2> HIDE DEF offers
  <2>11. Held(Selected, offers)
    BY <1>4, <2>8, <2>9, <2>10, SelectedHeld
  <2>12. ToSet(q[Len(q)].out) = offers
    BY <2>3 DEF PutOver, offers
  <2>13. QED
    BY <2>7, <2>11, <2>12 DEF Supplied
<1>12. QED
  BY <1>9, <1>10, <1>11

(* The projection, which names what it selects. *)
LEMMA ProjsSupplies ==
  ASSUME PlanInv, QueryInv, SupplyInv, DoProjs
  PROVE  SupplyInv'
<1> DEFINE exprs == [e \in DOMAIN query.proj |-> LogExpr(query.proj[e])]
           q == MkProject(pool, plan, exprs)
<1>1. /\ step = "projs"
      /\ CASE Unfit <= 0 -> Generate(q, Len(q), 0, "distinct")
           [] Unfit = 1  -> Generate(pool, 0, 0, "distinct")
           [] Unfit > 1  -> Stop("crashed")
  BY DEF DoProjs
<1>2. Lacking(pool, plan, BinOps)
  BY <1>1 DEF PlanInv, Shaped
<1>3. PICK S : IsPool(pool, S) /\ plan \in 1..Len(pool)
  BY <1>2, Rooted DEF Lacking
<1>4. Unfit \in Int
  <2>1. IsList(query.proj)
    BY <1>1 DEF QueryInv, Naive, PartsReady
  <2>2. QED
    BY <2>1, ListElements, QueryConstants DEF Unfit
<1>5. Resolvable => Resolves(pool) /\ Held(Selected, ToSet(pool[plan].out))
  BY <1>1 DEF SupplyInv, Supplied
<1>6. CASE Unfit <= 0
  <2>1. Generate(q, Len(q), 0, "distinct")
    <3>1. ~(Unfit = 1) /\ ~(Unfit > 1)
      BY <1>4, <1>6
    <3> HIDE DEF q
    <3>2. QED
      BY <1>1, <1>6, <3>1
  <2>2. SUFFICES ASSUME Resolvable PROVE Resolves(q)
    <3> HIDE DEF q
    <3>1. Resolvable => Supplied(q, Len(q), 0, "distinct")
      BY <2>2, ResolvesSupplied
    <3>2. QED
      BY <2>1, <3>1, GenerateSupplies
  <2> DEFINE arg == [exprs |-> exprs]
             op == [kind |-> "project", arg |-> arg]
  <2>3. op.kind = "project" /\ op.arg = arg /\ arg.exprs = exprs
    OBVIOUS
  <2>4. UNION {ExprRefs(e) : e \in ToSet(exprs)} = Selected
    BY DEF ToSet, Selected
  <2>5. PutOver(q, pool, plan, "project", ProjectSchema(exprs), arg)
    <3> HIDE DEF exprs
    <3>1. q = NewOp(pool, "project", <<plan>>, ProjectSchema(exprs), pool[plan].stream, arg)
      BY DEF MkProject
    <3> HIDE DEF q, arg
    <3>2. QED
      BY <1>3, <3>1, NewOpKeeps
  <2> HIDE DEF q, arg, op, exprs
  <2>6. Refs(op) = Selected
    BY <2>3, <2>4, RefsOf
  <2>7. Held(Refs(op), ToSet(pool[plan].out))
    BY <1>5, <2>2, <2>6
  <2>8. QED
    BY <1>5, <2>2, <2>3, <2>5, <2>7, PutOverResolves
<1>7. CASE Unfit = 1
  <2>1. Generate(pool, 0, 0, "distinct")
    BY <1>1, <1>7
  <2>2. Resolvable => Supplied(pool, 0, 0, "distinct")
    BY <1>5, ResolvesSupplied
  <2>3. QED
    BY <2>1, <2>2, GenerateSupplies
<1>8. CASE Unfit > 1
  <2>1. Stop("crashed")
    BY <1>1, <1>4, <1>8
  <2>2. QED
    BY <2>1, StopSupplies DEF Fatal
<1>9. QED
  BY <1>4, <1>6, <1>7, <1>8

(* An operator without references, over the plan. *)
LEMMA PlainOver ==
  ASSUME NEW S, IsPool(pool, S), plan \in 1..Len(pool), SupplyInv, NEW kind, kind \notin Referring,
         NEW stream, NEW out, NEW arg, NEW q, q = NewOp(pool, kind, <<plan>>, out, stream, arg),
         NEW next, next \notin {"plan", "preds", "aggr", "projs"}, Generate(q, Len(q), 0, next)
  PROVE  SupplyInv'
<1>1. PutOver(q, pool, plan, kind, out, arg)
  BY NewOpKeeps
<1> DEFINE op == [kind |-> kind, arg |-> arg]
<1>2. op.kind = kind /\ op.arg = arg
  OBVIOUS
<1> HIDE DEF op
<1>3. Resolvable => Resolves(pool)
  BY DEF SupplyInv, Supplied
<1>4. Resolves(pool) => Resolves(q)
  BY <1>1, <1>2, PutOverResolves
<1>5. Resolvable => Supplied(q, Len(q), 0, next)
  BY <1>3, <1>4, ResolvesSupplied
<1>6. QED
  BY <1>5, GenerateSupplies

(* A step that leaves the pool as it is. *)
LEMMA PassSupplies ==
  ASSUME SupplyInv, NEW r, NEW c, NEW next, next \notin {"plan", "preds", "aggr", "projs"},
         Generate(pool, r, c, next)
  PROVE  SupplyInv'
<1>1. Resolvable => Supplied(pool, r, c, next)
  BY ResolvesSupplied DEF SupplyInv, Supplied
<1>2. QED
  BY <1>1, GenerateSupplies

(* DISTINCT. *)
LEMMA DistinctSupplies ==
  ASSUME PlanInv, SupplyInv, ApplyDistinct
  PROVE  SupplyInv'
<1> DEFINE q == MkDistinct(pool, plan)
<1>1. /\ step = "distinct"
      /\ \/ Stop("crashed") \/ Stop("failed")
         \/ plan # 0 /\ Generate(q, Len(q), 0, "r2s")
         \/ plan # 0 /\ Generate(pool, plan, 0, "r2s")
  <2>1. CASE query.distinct
    BY <2>1 DEF ApplyDistinct
  <2>2. CASE ~query.distinct
    BY <2>2 DEF ApplyDistinct
  <2>3. QED
    BY <2>1, <2>2
<1>2. plan # 0 => Lacking(pool, plan, BinOps)
  BY <1>1 DEF PlanInv, Shaped
<1>3. CASE Stop("crashed") \/ Stop("failed")
  BY <1>3, StopSupplies DEF Fatal
<1>4. CASE plan # 0 /\ Generate(q, Len(q), 0, "r2s")
  <2>1. PICK S : IsPool(pool, S) /\ plan \in 1..Len(pool)
    BY <1>2, <1>4, Rooted DEF Lacking
  <2>2. q = NewOp(pool, "distinct", <<plan>>, pool[plan].out, pool[plan].stream, NoArg)
    BY DEF MkDistinct, CopySchema
  <2>3. "distinct" \notin Referring
    BY DEF Referring
  <2> HIDE DEF q
  <2>4. QED
    BY <1>4, <2>1, <2>2, <2>3, PlainOver
<1>5. CASE plan # 0 /\ Generate(pool, plan, 0, "r2s")
  BY <1>5, PassSupplies
<1>6. QED
  BY <1>1, <1>3, <1>4, <1>5

(* The r2s operator. *)
LEMMA R2SSupplies ==
  ASSUME PlanInv, QueryInv, SupplyInv, ApplyR2SOps
  PROVE  SupplyInv'
<1> DEFINE q == R2S(pool, plan)
<1>1. /\ step = "r2s"
      /\ IF query.r2s = Absent THEN Generate(pool, plan, 0, "rstreamNow")
         ELSE Generate(q, Len(q), 0, "rstreamNow")
  BY DEF ApplyR2SOps
<1>2. Lacking(pool, plan, BinOps) \/ Lacking(pool, plan, Crosses)
  BY <1>1 DEF PlanInv, Shaped
<1>3. PICK S : IsPool(pool, S) /\ plan \in 1..Len(pool)
  BY <1>2, Rooted DEF Lacking
<1>4. CASE query.r2s = Absent
  BY <1>1, <1>4, PassSupplies
<1>5. CASE query.r2s # Absent
  <2>1. query.r2s \in {"ISTREAM", "DSTREAM", "RSTREAM"}
    BY <1>1, <1>5 DEF QueryInv, TablesReady, Naive, R2SOps
  <2>2. \E kind \in {"istream", "dstream", "rstream"} :
          q = NewOp(pool, kind, <<plan>>, pool[plan].out, TRUE, NoArg)
    BY <2>1 DEF R2S, MkIstream, MkDstream, MkRstream, CopySchema
  <2>3. Generate(q, Len(q), 0, "rstreamNow")
    BY <1>1, <1>5
  <2> HIDE DEF q
  <2>4. PICK kind \in {"istream", "dstream", "rstream"} :
          q = NewOp(pool, kind, <<plan>>, pool[plan].out, TRUE, NoArg)
    BY <2>2
  <2>5. kind \notin Referring /\ "rstreamNow" \notin {"plan", "preds", "aggr", "projs"}
    BY <2>4 DEF Referring
  <2> DEFINE always == TRUE
             out == pool[plan].out
             after == "rstreamNow"
  <2>6. /\ q = NewOp(pool, kind, <<plan>>, out, always, NoArg)
        /\ Generate(q, Len(q), 0, after) /\ after \notin {"plan", "preds", "aggr", "projs"}
    BY <2>3, <2>4, <2>5
  <2> HIDE DEF always, out, after
  <2>7. QED
    BY <1>3, <2>5, <2>6, PlainOver
<1>6. QED
  BY <1>4, <1>5

(* A union or a difference. *)
LEMMA BinOpSupplies ==
  ASSUME QueryInv, GenBinOpPlan
  PROVE  SupplyInv'
<1>1. PICK q : Generate(q, Len(q), 0, "r2s") /\ TwoTables(q)
  BY BinOpPlan
<1>2. Resolves(q)
  <2>1. \A o \in 1..Len(q) : q[o].kind \in Sources \cup BinOps
    BY <1>1 DEF TwoTables
  <2>2. \A kind \in Sources \cup BinOps : kind \notin Referring
    BY DEF Sources, BinOps, Referring
  <2>3. QED
    BY <2>1, <2>2 DEF Resolves, Resolving
<1>3. Supplied(q, Len(q), 0, "r2s")
  BY <1>2, ResolvesSupplied
<1>4. QED
  BY <1>1, <1>3, GenerateSupplies

(* Every clause of the naive plan. *)
LEMMA GenPlanSupplies ==
  ASSUME PlanInv, QueryInv, SupplyInv, GenPlan
  PROVE  SupplyInv'
<1>1. CASE JoinTables
  BY <1>1, OneTableSupplies, NextTableSupplies DEF JoinTables
<1>2. CASE ~JoinTables
  BY <1>2, PredsSupplies, AggrSupplies, ProjsSupplies, DistinctSupplies, R2SSupplies, BinOpSupplies
     DEF GenPlan
<1>3. QED
  BY <1>1, <1>2

-----------------------------------------------------------------------------
(* The transformations.                                                      *)

Later == {"push", "done"} \cup Transforms

(* No transformation is followed by a clause. *)
LEMMA LaterSteps ==
  /\ \A next \in Later : next \notin {"plan", "preds", "aggr", "projs"}
  /\ Transforms \ {"push"} \subseteq Later
BY DEF Later, Transforms

(* A transformation that adds no operator with references. *)
LEMMA TransformSupplies ==
  ASSUME SupplyInv, NEW now, NEW found, NEW p, NEW r, NEW next \in Later, found => AllKept(p, pool),
         Transform(now, found, p, r, next)
  PROVE  SupplyInv'
<1>1. next \notin {"plan", "preds", "aggr", "projs"}
  BY LaterSteps
<1>2. CASE found
  <2>1. Generate(p, r, 0, next)
    BY <1>2 DEF Transform
  <2>2. Resolvable => Resolves(p)
    BY <1>2, AllKeptResolve DEF SupplyInv, Supplied
  <2>3. Resolvable => Supplied(p, r, 0, next)
    BY <1>1, <2>2, ResolvesSupplied
  <2>4. QED
    BY <2>1, <2>3, GenerateSupplies
<1>3. CASE ~found
  <2>1. Generate(pool, plan, 0, next)
    BY <1>3 DEF Transform
  <2>2. QED
    BY <1>1, <2>1, PassSupplies
<1>4. QED
  BY <1>2, <1>3

(* t_rstreamNow. *)
LEMMA RstreamNowSupplies ==
  ASSUME PlanInv, SupplyInv, RstreamNow
  PROVE  SupplyInv'
<1> DEFINE now == Descend(Input(plan), UnderRstream)
           found == pool[plan].kind = "rstream" /\ pool[now].kind = "nowWin"
           p == RemoveNow(now)
           r == IF now = Input(plan) THEN Input(now) ELSE Input(plan)
<1>1. Transform("rstreamNow", found, p, r, "streamCross")
  BY DEF RstreamNow
<1>2. Good(pool, plan)
  BY <1>1, NamesOfTransforms DEF Transform, PlanInv, Shaped
<1>3. found => AllKept(p, pool)
  BY <1>2, RstreamNowTree
<1>4. "streamCross" \in Later
  BY LaterSteps, NamesOfTransforms
<1> HIDE DEF found, p, r
<1>5. QED
  BY <1>1, <1>3, <1>4, TransformSupplies

(* t_streamCross. *)
LEMMA StreamCrossSupplies ==
  ASSUME PlanInv, SupplyInv, StreamCross
  PROVE  SupplyInv'
<1> DEFINE cross == Descend(Input(plan), OverCross)
           found == pool[plan].kind = "rstream" /\ pool[cross].kind = "cross" /\ NowInputs(cross) # {}
           p == Uncap(ReplaceCross(cross))
           r == ReplaceCross(cross)[plan].inputs[1]
<1>1. Transform("streamCross", found, p, r, "removeProject")
  BY DEF StreamCross
<1>2. Good(pool, plan)
  BY <1>1, NamesOfTransforms DEF Transform, PlanInv, Shaped
<1>3. found => AllKept(p, pool)
  BY <1>2, StreamCrossTree
<1>4. "removeProject" \in Later
  BY LaterSteps, NamesOfTransforms
<1> HIDE DEF found, p, r
<1>5. QED
  BY <1>1, <1>3, <1>4, TransformSupplies

(* t_removeProject. *)
LEMMA RemoveProjectSupplies ==
  ASSUME PlanInv, SupplyInv, RemoveProject
  PROVE  SupplyInv'
<1> DEFINE project == Descend(plan, {"select", "distinct"} \cup XStreams)
           found == pool[project].kind = "project" /\ IsUselessProject(project)
           p == Replace(pool, project, Input(project))
           r == RootAfter(project, Input(project))
<1>1. Transform("removeProject", found, p, r, "crossBinary")
  BY DEF RemoveProject
<1>2. Good(pool, plan)
  BY <1>1, NamesOfTransforms DEF Transform, PlanInv, Shaped
<1>3. found => AllKept(p, pool)
  BY <1>2, RemoveProjectTree
<1>4. "crossBinary" \in Later
  BY LaterSteps, NamesOfTransforms
<1> HIDE DEF found, p, r
<1>5. QED
  BY <1>1, <1>3, <1>4, TransformSupplies

(* t_makeCrossBinary and t_makeStreamCrossBinary. *)
LEMMA MakeBinarySupplies ==
  ASSUME PlanInv, SupplyInv, NEW now \in Transforms \ {"push"}, NEW kind \in Crosses,
         NEW next \in Transforms \ {"push"}, MakeBinary(now, kind, next)
  PROVE  SupplyInv'
<1> DEFINE cross == Descend(plan, OverCross \cup XStreams)
           found == pool[cross].kind = kind /\ Len(pool[cross].inputs) > 2
           q == Nested(cross)
           p == Replace(q, cross, Len(q))
           r == RootAfter(cross, Len(q))
<1>1. Transform(now, found, p, r, next)
  BY DEF MakeBinary
<1>2. Good(pool, plan)
  BY <1>1 DEF Transform, PlanInv, Shaped, Transforms
<1>3. found => AllKept(p, pool)
  BY <1>2, MakeBinaryTree
<1>4. next \in Later
  BY LaterSteps
<1> HIDE DEF found, p, r
<1>5. QED
  BY <1>1, <1>3, <1>4, TransformSupplies

(* The loop of t_pushSelect leaves the operators as they are. *)
LEMMA FindSelectSupplies ==
  ASSUME SupplyInv, FindSelect
  PROVE  SupplyInv'
<1>1. PICK c \in {0, Descend(plan, XStreams \cup {"project", "distinct", "groupAggr"})}, next \in {"push", "done"} :
        Generate(pool, plan, c, next)
  BY DEF FindSelect
<1>2. next \notin {"plan", "preds", "aggr", "projs"}
  BY <1>1
<1>3. QED
  BY <1>1, <1>2, PassSupplies

(* The copy of a selection refers to what it finds where it is put. *)
LEMMA CopyResolves ==
  ASSUME Resolves(pool), GoodAt(pool, plan, at), at # 0,
         NEW q, Copied(q, pool, pool[at].arg, Goal(at).op)
  PROVE  Resolves(q)
<1>1. PICK S, L, h : Planted(pool, S, L, h, plan) /\ Pushes(pool, L, plan, at)
  BY DEF GoodAt
<1>2. at \in L /\ pool[at].kind = "select" /\ at \in 1..Len(pool)
  BY <1>1 DEF Pushes, Planted, IsTree
<1>3. Held(Refs(pool[at]), ToSet(pool[Goal(at).op].out))
  <2>1. Resolving(pool, at)
    BY <1>2 DEF Resolves
  <2>2. QED
    BY <1>1, <1>2, <2>1, GoalHolds
<1>4. /\ Keeps(q, pool) /\ Len(q) = Len(pool) + 1 /\ q[Len(q)].kind = "select"
      /\ q[Len(q)].arg = pool[at].arg /\ ToSet(pool[Goal(at).op].out) \subseteq Offers(q, Len(q))
  BY DEF Copied
<1>5. Refs(q[Len(q)]) = Refs(pool[at])
  BY <1>2, <1>4, SameRefs
<1>6. Held(Refs(q[Len(q)]), Offers(q, Len(q)))
  BY <1>3, <1>4, <1>5, HeldMore
<1>7. \A w \in News(q, Len(pool)) : w = Len(q)
  <2>1. Len(pool) \in Nat
    BY <1>4 DEF Keeps
  <2>2. QED
    BY <1>4, <2>1 DEF News
<1>8. \A w \in News(q, Len(pool)) : Resolving(q, w)
  BY <1>6, <1>7 DEF Resolving
<1>9. QED
  BY <1>4, <1>8, KeepsResolve

(* A turn of t_pushSelect. *)
LEMMA PushSelectSupplies ==
  ASSUME PlanInv, SupplyInv, PushSelect
  PROVE  SupplyInv'
<1> DEFINE goal == Goal(at)
           below == Input(at)
           p == Replace(CopyTo(at, goal), at, below)
           r == RootAfter(at, below)
           more == pool[below].kind = "select"
           next == IF more THEN "push" ELSE "done"
           cursor == IF more THEN below ELSE 0
<1>1. /\ step = "push"
      /\ IF goal.useful THEN Generate(p, r, cursor, next) ELSE Generate(pool, plan, cursor, next)
  BY DEF PushSelect
<1>2. at # 0 /\ GoodAt(pool, plan, at)
  BY <1>1 DEF PlanInv, Shaped
<1>3. next \notin {"plan", "preds", "aggr", "projs"}
  OBVIOUS
<1>4. CASE goal.useful
  <2>1. Copied(p, pool, pool[at].arg, Goal(at).op)
    <3>1. Goal(at).useful /\ p = Replace(CopyTo(at, Goal(at)), at, Input(at))
          /\ cursor = IF pool[Input(at)].kind = "select" THEN Input(at) ELSE 0
      BY <1>4
    <3> HIDE DEF p, cursor
    <3>2. QED
      BY <1>2, <3>1, PushSelectTree
  <2>2. Generate(p, r, cursor, next)
    BY <1>1, <1>4
  <2> HIDE DEF p, r, cursor, next
  <2>3. Resolvable => Resolves(p)
    BY <1>2, <2>1, CopyResolves DEF SupplyInv, Supplied
  <2>4. Resolvable => Supplied(p, r, cursor, next)
    BY <1>3, <2>3, ResolvesSupplied
  <2>5. QED
    BY <2>2, <2>4, GenerateSupplies
<1>5. CASE ~goal.useful
  <2>1. Generate(pool, plan, cursor, next)
    BY <1>1, <1>5
  <2> HIDE DEF cursor, next
  <2>2. QED
    BY <1>3, <2>1, PassSupplies
<1>6. QED
  BY <1>4, <1>5

(* Every step of the transformations. *)
LEMMA GenLogPlanSupplies ==
  ASSUME PlanInv, SupplyInv, GenLogPlan
  PROVE  SupplyInv'
<1>1. CASE MakeCrossBinary
  BY <1>1, NamesOfTransforms, MakeBinarySupplies DEF MakeCrossBinary, Crosses
<1>2. CASE MakeStreamCrossBinary
  BY <1>2, NamesOfTransforms, MakeBinarySupplies DEF MakeStreamCrossBinary, Crosses
<1>3. QED
  BY <1>1, <1>2, RstreamNowSupplies, StreamCrossSupplies, RemoveProjectSupplies, FindSelectSupplies,
     PushSelectSupplies DEF GenLogPlan

-----------------------------------------------------------------------------
(* The other steps.                                                          *)

(* With an empty pool there is nothing to resolve. *)
LEMMA EmptySupplies ==
  ASSUME pool' = <<>>, at' = 0, step' \notin {"preds", "aggr", "projs"}
  PROVE  SupplyInv'
<1>1. Resolves(pool)'
  BY EmptyResolves DEF Resolves, Resolving
<1>2. QED
  BY <1>1 DEF SupplyInv, Supplied

(* The interpreter leaves the pool empty, whatever it finds. *)
LEMMA InterpretLeaves ==
  ASSUME PlanInv, InterpretQuery, UNCHANGED planVars
  PROVE  pool' = <<>> /\ at' = 0 /\ step' \in {"from", "where", "group", "select", "binop", "plan", "failed"}
<1> DEFINE Leaves(next) == step' \in {next, "failed"}
<1>1. ASSUME NEW fault, NEW new, NEW used, NEW next, Proceed(fault, new, used, next)
      PROVE  Leaves(next)
  BY <1>1 DEF Proceed
<1>2. step \in Interpreting
  BY DEF InterpretQuery, GetReferencedTables, InterpretFromClause, InterpretWhereClause,
         InterpretGroupByClause, InterpretSelectClause, InterpretBinOp, Interpreting
<1>3. \E next \in {"from", "where", "group", "select", "binop", "plan"} : Leaves(next)
  <2> HIDE DEF Leaves
  <2>1. CASE GetReferencedTables
    BY <1>1, <2>1 DEF GetReferencedTables
  <2>2. CASE InterpretFromClause \/ InterpretWhereClause
    BY <1>1, <2>2 DEF InterpretFromClause, InterpretWhereClause
  <2>3. CASE InterpretGroupByClause \/ InterpretBinOp
    BY <1>1, <2>3 DEF InterpretGroupByClause, InterpretBinOp
  <2>4. CASE InterpretSelectClause
    BY <1>1, <2>4 DEF InterpretSelectClause, InterpretStarInSelect, InterpretExprsInSelect
  <2>5. QED
    BY <2>1, <2>2, <2>3, <2>4 DEF InterpretQuery
<1>4. pool' = <<>> /\ at' = 0
  BY <1>2 DEF PlanInv, Shaped, planVars, Interpreting
<1>5. QED
  BY <1>3, <1>4

(* So it asks for nothing. *)
LEMMA InterpretSupplies ==
  ASSUME PlanInv, InterpretQuery, UNCHANGED planVars
  PROVE  SupplyInv'
BY InterpretLeaves, EmptySupplies

(* Every step supplies what the next one needs. *)
LEMMA SupplyStep == PlanInv /\ QueryInv /\ SupplyInv /\ [Next]_vars => SupplyInv'
<1> SUFFICES ASSUME PlanInv, QueryInv, SupplyInv, [Next]_vars PROVE SupplyInv'
  OBVIOUS
<1>1. CASE Parse /\ UNCHANGED planVars
  <2>1. step = "idle" /\ step' \in {"exit", "tables"}
    BY <1>1 DEF Parse
  <2>2. pool' = <<>> /\ at' = 0
    BY <1>1, <2>1 DEF PlanInv, Shaped, planVars
  <2>3. QED
    BY <2>1, <2>2, EmptySupplies
<1>2. CASE Return
  BY <1>2, EmptySupplies DEF Return
<1>3. CASE ProcessEnds \/ UNCHANGED vars
  <2>1. step' = step /\ query' = query /\ pool' = pool /\ plan' = plan /\ at' = at
    BY <1>3 DEF ProcessEnds, vars, semVars, planVars
  <2>2. /\ Resolvable' <=> Resolvable
        /\ Selected' = Selected /\ \A v : Attrs(v)' = Attrs(v)
    BY <2>1, NamesStay
  <2>3. SUFFICES ASSUME Resolvable PROVE Supplied(pool, plan, at, step)'
    BY <2>2 DEF SupplyInv
  <2>4. Supplied(pool, plan, at, step)
    BY <2>3 DEF SupplyInv
  <2>5. Resolves(pool)'
    BY <2>1, <2>4 DEF Supplied, Resolves, Resolving
  <2>6. QED
    BY <2>1, <2>2, <2>4, <2>5 DEF Supplied
<1>4. QED
  BY <1>1, <1>2, <1>3, InterpretSupplies, GenPlanSupplies, GenLogPlanSupplies DEF Next

(* The first query finds an empty pool. *)
LEMMA SupplyStart == Init => SupplyInv
<1> SUFFICES ASSUME Init PROVE SupplyInv
  OBVIOUS
<1>1. pool = <<>> /\ at = 0 /\ step = "idle"
  BY DEF Init, SemInit
<1>2. QED
  BY <1>1, EmptyResolves DEF SupplyInv, Supplied

-----------------------------------------------------------------------------
(* The theorem.                                                              *)

(* The operator below one with references offers what they name. *)
LEMMA SupplyResolves == PlanInv /\ SupplyInv => RefsResolve
<1> SUFFICES ASSUME PlanInv, SupplyInv, Complete, Resolvable, NEW o \in Tree PROVE Resolved(o)
  BY DEF RefsResolve
<1>1. PICK S, L, h : Planted(pool, S, L, h, plan)
  BY CompletePlan
<1>2. o \in 1..Len(pool)
  BY <1>1, TreeInside DEF Planted, IsTree
<1>3. CASE pool[o].kind \in Referring
  <2>1. Held(Refs(pool[o]), ToSet(Over(pool, o).out))
    BY <1>2, <1>3 DEF SupplyInv, Supplied, Resolves, Resolving, Offers, Over
  <2>2. QED
    BY <2>1, FoundIsHeld DEF Resolved
<1>4. CASE pool[o].kind \notin Referring
  BY <1>4, RefsOf DEF Resolved
<1>5. QED
  BY <1>3, <1>4

(* Every attribute that an operator of a plan refers to is found among those   *)
(* of its input, from the naive plan to the last transformation: what         *)
(* transform_attr looks for when the plan is made physical is there.  Where   *)
(* it is not, the query groups or partitions by what it does not offer.       *)
THEOREM ReferencesResolve == Spec => []RefsResolve
<1>1. Init => SemInv /\ QueryInv /\ PlanInv /\ SupplyInv
  BY SemStart, QueryStart, PlanStart, SupplyStart
<1>2. SemInv /\ QueryInv /\ PlanInv /\ SupplyInv /\ [Next]_vars
        => (SemInv /\ QueryInv /\ PlanInv /\ SupplyInv)'
  BY SemStep, QueryStep, PlanStep, SupplyStep
<1>3. QED
  BY <1>1, <1>2, SupplyResolves, PTL DEF Spec

-----------------------------------------------------------------------------
(* Selections.  How far they get.                                            *)

(* A set of operators of a tree that has, with each, what is over it is empty. *)
LEMMA NoEndlessClimb ==
  ASSUME NEW p, NEW L, NEW h, NEW r, IsTree(p, L, h, r), Len(p) \in Nat, NEW X \in SUBSET L,
         \A x \in X : p[x].output \in X
  PROVE  X = {}
<1> DEFINE n == Len(p)
           T == {n - h[x] : x \in X}
<1>1. \A x \in L : h[x] \in 1..n /\ x # 0
  BY DEF IsTree
<1>2. SUFFICES ASSUME X # {} PROVE FALSE
  OBVIOUS
<1>3. T \in SUBSET Nat /\ T # {}
  BY <1>1, <1>2
<1> HIDE DEF T
<1>4. Min(T) \in T /\ \A y \in T : Min(T) <= y
  BY <1>3, Least
<1>5. PICK x \in X : Min(T) = n - h[x]
  BY <1>4 DEF T
<1>6. p[x].output \in X /\ p[x].output # 0
  BY <1>1
<1>7. x # r
  BY <1>6 DEF IsTree
<1>8. h[x] < h[p[x].output]
  BY <1>7, ParentOf
<1>9. n - h[p[x].output] \in T
  BY <1>6 DEF T
<1>10. h[x] \in Nat /\ h[p[x].output] \in Nat /\ n \in Nat
  BY <1>1, <1>6
<1>11. n - h[x] <= n - h[p[x].output]
  BY <1>4, <1>5, <1>9
<1>12. QED
  BY <1>8, <1>10, <1>11


(* A walk down is at an operator lower by every turn, unless it has stopped.  *)
LEMMA WalkSinks ==
  ASSUME NEW S, NEW L, NEW h, Planted(pool, S, L, h, plan), NEW op \in L,
         NEW kinds \in SUBSET Unary, NEW f, Turned(f, Len(pool), L, op, kinds),
         NEW k \in Nat, h[op] <= k
  PROVE  \A i \in 0..Len(pool) : pool[f[i]].kind \notin kinds \/ h[f[i]] + i <= k
<1> DEFINE n == Len(pool)
           T == {i \in Nat : i <= n => pool[f[i]].kind \notin kinds \/ h[f[i]] + i <= k}
<1>1. n \in Nat /\ IsPool(pool, S) /\ IsTree(pool, L, h, plan)
  BY DEF Planted, IsPool
<1>2. \A x \in L : h[x] \in Nat
  BY <1>1 DEF IsTree
<1>3. 0 \in T
  <2>1. f[0] = op /\ h[op] + 0 = h[op]
    BY <1>2 DEF Turned
  <2>2. QED
    BY <2>1
<1>4. ASSUME NEW i \in Nat, i \in T PROVE i + 1 \in T
  <2>1. SUFFICES ASSUME i + 1 <= n
                 PROVE  pool[f[i + 1]].kind \notin kinds \/ h[f[i + 1]] + (i + 1) <= k
    OBVIOUS
  <2>2. i <= n /\ i + 1 \in 1..n /\ (i + 1) - 1 = i /\ i \in 0..n
    BY <1>1, <2>1
  <2> DEFINE d == f[i]
  <2>3. d \in L /\ (pool[d].kind \notin kinds \/ h[d] + i <= k)
    BY <1>4, <2>2 DEF Turned
  <2>4. f[i + 1] = IF pool[d].kind \in kinds THEN Input(d) ELSE d
    BY <2>2 DEF Turned
  <2> HIDE DEF d
  <2>5. CASE pool[d].kind \in kinds
    <3>1. 1 \in DOMAIN pool[d].inputs
      BY <1>1, <2>3, <2>5, NodeOf
    <3>2. Input(d) \in L /\ h[Input(d)] < h[d]
      BY <1>1, <2>3, <3>1, ChildOf DEF Input
    <3>3. h[Input(d)] \in Nat /\ h[d] \in Nat
      BY <1>2, <2>3, <3>2
    <3>4. h[Input(d)] + (i + 1) <= k
      BY <2>3, <2>5, <3>2, <3>3
    <3>5. QED
      BY <2>4, <2>5, <3>4
  <2>6. CASE pool[d].kind \notin kinds
    BY <2>4, <2>6
  <2>7. QED
    BY <2>5, <2>6
<1> HIDE DEF T
<1>5. Nat \subseteq T
  BY <1>3, <1>4, InductiveSet
<1>6. QED
  BY <1>1, <1>5 DEF T

(* A walk down in a tree.                                                    *)
LEMMA TreeTurns ==
  ASSUME NEW S, NEW L, NEW h, Planted(pool, S, L, h, plan), NEW op \in L, NEW kinds \in SUBSET Unary
  PROVE  \E f : Turned(f, Len(pool), L, op, kinds)
<1>1. Len(pool) \in Nat /\ IsPool(pool, S) /\ IsTree(pool, L, h, plan)
  BY DEF Planted, IsPool
<1>2. ASSUME NEW d \in L, pool[d].kind \in kinds PROVE Input(d) \in L
  BY <1>1, <1>2, NodeOf DEF Input
<1>3. QED
  BY <1>1, <1>2, DescendTurns

(* It ends at an operator that it does not pass.                             *)
LEMMA DescendStops ==
  ASSUME NEW S, NEW L, NEW h, Planted(pool, S, L, h, plan), NEW op \in L, NEW kinds \in SUBSET Unary
  PROVE  Descend(op, kinds) \in L /\ pool[Descend(op, kinds)].kind \notin kinds
<1> DEFINE n == Len(pool)
<1>1. PICK f : Turned(f, n, L, op, kinds)
  BY TreeTurns
<1>2. n \in Nat /\ n \in 0..n /\ \A x \in L : h[x] \in 1..n
  BY DEF Planted, IsPool, IsTree
<1>3. h[op] <= n
  BY <1>2
<1>4. pool[f[n]].kind \notin kinds \/ h[f[n]] + n <= n
  BY <1>1, <1>2, <1>3, WalkSinks
<1>5. f[n] \in L /\ f[n] = Descend(op, kinds)
  BY <1>1, <1>2 DEF Turned
<1>6. h[f[n]] + n > n
  BY <1>2, <1>5
<1>7. QED
  BY <1>2, <1>4, <1>5, <1>6

(* It ends where the walk from the operator below ends.                      *)
LEMMA DescendOn ==
  ASSUME NEW S, NEW L, NEW h, Planted(pool, S, L, h, plan), NEW op \in L, NEW kinds \in SUBSET Unary,
         pool[op].kind \in kinds
  PROVE  Input(op) \in L /\ Descend(op, kinds) = Descend(Input(op), kinds)
<1> DEFINE n == Len(pool)
           c == Input(op)
<1>1. n \in Nat /\ IsPool(pool, S) /\ IsTree(pool, L, h, plan)
  BY DEF Planted, IsPool
<1>2. \A x \in L : h[x] \in 1..n
  BY <1>1, NodeOf
<1>3. c \in L /\ h[c] < h[op] /\ n \in 1..n /\ n - 1 \in Nat
  <2>1. 1 \in DOMAIN pool[op].inputs
    BY <1>1, NodeOf
  <2>2. c \in L /\ h[c] < h[op]
    BY <1>1, <2>1, ChildOf DEF Input
  <2>3. h[op] \in 1..n
    BY <1>2
  <2>4. QED
    BY <1>1, <2>2, <2>3
<1> HIDE DEF c
<1>4. PICK f : Turned(f, n, L, op, kinds)
  BY TreeTurns
<1>5. PICK g : Turned(g, n, L, c, kinds)
  BY <1>3, TreeTurns
<1> DEFINE T == {i \in Nat : i + 1 <= n => f[i + 1] = g[i]}
<1>6. 0 \in T
  <2>1. 0 + 1 = 1 /\ 1 - 1 = 0 /\ 1 \in 1..n
    BY <1>1, <1>3
  <2>2. f[1] = IF pool[f[1 - 1]].kind \in kinds THEN Input(f[1 - 1]) ELSE f[1 - 1]
    BY <1>4, <2>1 DEF Turned
  <2>3. f[1] = g[0]
    BY <1>4, <1>5, <2>1, <2>2 DEF Turned, c
  <2>4. QED
    BY <2>1, <2>3
<1>7. ASSUME NEW i \in Nat, i \in T PROVE i + 1 \in T
  <2>1. SUFFICES ASSUME (i + 1) + 1 <= n PROVE f[(i + 1) + 1] = g[i + 1]
    OBVIOUS
  <2>2. /\ (i + 1) + 1 \in 1..n /\ ((i + 1) + 1) - 1 = i + 1
        /\ i + 1 \in 1..n /\ (i + 1) - 1 = i /\ i + 1 <= n
    BY <1>1, <2>1
  <2>3. f[i + 1] = g[i]
    BY <1>7, <2>2
  <2>4. f[(i + 1) + 1] = IF pool[f[i + 1]].kind \in kinds THEN Input(f[i + 1]) ELSE f[i + 1]
    BY <1>4, <2>2 DEF Turned
  <2>5. g[i + 1] = IF pool[g[i]].kind \in kinds THEN Input(g[i]) ELSE g[i]
    BY <1>5, <2>2 DEF Turned
  <2>6. QED
    BY <2>3, <2>4, <2>5
<1> HIDE DEF T
<1>8. n - 1 \in T
  BY <1>3, <1>6, <1>7, InductiveSet
<1>9. f[n] = g[n - 1]
  BY <1>1, <1>3, <1>8 DEF T
<1>10. pool[g[n - 1]].kind \notin kinds
  <2>1. h[c] <= n - 1
    BY <1>1, <1>2, <1>3
  <2>2. n - 1 \in 0..n
    BY <1>1, <1>3
  <2>3. pool[g[n - 1]].kind \notin kinds \/ h[g[n - 1]] + (n - 1) <= n - 1
    BY <1>3, <1>5, <2>1, <2>2, WalkSinks
  <2>4. g[n - 1] \in L
    BY <1>5, <2>2 DEF Turned
  <2>5. h[g[n - 1]] + (n - 1) > n - 1
    BY <1>1, <1>2, <2>4
  <2>6. QED
    BY <1>1, <1>2, <2>3, <2>4, <2>5
<1>11. g[n] = g[n - 1]
  BY <1>3, <1>5, <1>10 DEF Turned
<1>12. QED
  BY <1>3, <1>4, <1>5, <1>9, <1>11 DEF Turned, c

-----------------------------------------------------------------------------
(* Where the selections of a plan stand.  The operator under an operator and   *)
(* the selections right below it, for each operator of the plan.              *)
Based(p, L, b) ==
  /\ \A o \in L : b[o] \in L /\ p[b[o]].kind # "select"
  /\ \A o \in L : b[o] = IF p[o].kind = "select" THEN b[p[o].inputs[1]] ELSE o

(* A product that a predicate cannot pass.                                     *)
Takes(p, arg, c) ==
  \E i \in DOMAIN p[c].inputs : /\ CheckReference(arg.left, p[p[c].inputs[i]])
                                /\ CheckReference(arg.right, p[p[c].inputs[i]])
Blocked(p, arg, c) == p[c].kind \in Crosses => ~Takes(p, arg, c)

(* The inputs that take a predicate are none if the product does not let it pass. *)
LEMMA TakingIs ==
  ASSUME NEW arg, NEW c
  PROVE  (TakingInputs(arg, c) = {}) <=> ~Takes(pool, arg, c)
BY DEF TakingInputs, Takes

(* Below every operator of a plan there is one that is no selection.           *)
LEMMA BaseIs ==
  ASSUME NEW S, NEW L, NEW h, Planted(pool, S, L, h, plan)
  PROVE  \E b : Based(pool, L, b)
<1> DEFINE K == {"select"}
           b == [o \in L |-> Descend(o, K)]
<1>1. K \in SUBSET Unary
  BY DEF Unary, LogKinds, Sources, Crosses, BinOps
<1>2. \A o : pool[o].kind \in K <=> pool[o].kind = "select"
  OBVIOUS
<1>3. Len(pool) \in Nat
  BY DEF Planted, IsPool
<1> HIDE DEF K
<1>4. \A o \in L : b[o] \in L /\ pool[b[o]].kind # "select"
  BY <1>1, <1>2, DescendStops
<1>5. ASSUME NEW o \in L PROVE b[o] = IF pool[o].kind = "select" THEN b[pool[o].inputs[1]] ELSE o
  <2>1. CASE pool[o].kind = "select"
    <3>1. Input(o) \in L /\ Descend(o, K) = Descend(Input(o), K)
      BY <1>1, <1>2, <2>1, DescendOn
    <3>2. QED
      BY <2>1, <3>1 DEF Input
  <2>2. CASE pool[o].kind # "select"
    <3> DEFINE A == {o}
    <3>1. \A d \in A : pool[d].kind \in K => Input(d) \in A
      BY <1>2, <2>2
    <3>2. o \in A
      OBVIOUS
    <3> HIDE DEF A
    <3>3. PICK f : Turned(f, Len(pool), A, o, K)
      BY <1>3, <3>1, <3>2, DescendTurns
    <3>4. Descend(o, K) \in A
      BY <1>3, <3>3 DEF Turned
    <3>5. QED
      BY <2>2, <3>4 DEF A
  <2>3. QED
    BY <2>1, <2>2
<1> HIDE DEF b
<1>6. QED
  BY <1>4, <1>5 DEF Based

(* What a walk down past the selections ends at.                               *)
LEMMA BaseFound ==
  ASSUME NEW S, NEW L, NEW h, Planted(pool, S, L, h, plan), NEW b, Based(pool, L, b), NEW s \in L
  PROVE  b[s] = Descend(s, {"select"})
<1> DEFINE K == {"select"}
           A == {d \in L : b[d] = b[s]}
<1>1. K \in SUBSET Unary /\ Len(pool) \in Nat
  BY DEF Unary, LogKinds, Sources, Crosses, BinOps, Planted, IsPool
<1>2. \A o : pool[o].kind \in K <=> pool[o].kind = "select"
  OBVIOUS
<1> HIDE DEF K
<1>3. ASSUME NEW d \in A, pool[d].kind \in K PROVE Input(d) \in A
  <2>1. Input(d) \in L
    BY <1>1, <1>3, DescendOn
  <2>2. b[d] = b[Input(d)]
    BY <1>2, <1>3 DEF Based, Input
  <2>3. QED
    BY <2>1, <2>2
<1>4. s \in A
  OBVIOUS
<1> HIDE DEF A
<1>5. PICK f : Turned(f, Len(pool), A, s, K)
  BY <1>1, <1>3, <1>4, DescendTurns
<1>6. Descend(s, K) \in A
  BY <1>1, <1>5 DEF Turned
<1>7. pool[Descend(s, K)].kind \notin K
  BY <1>1, DescendStops
<1>8. b[Descend(s, K)] = Descend(s, K) /\ b[Descend(s, K)] = b[s]
  BY <1>2, <1>6, <1>7 DEF A, Based
<1>9. QED
  BY <1>8 DEF K


(* A turn of pushSelect's walk that can go on goes one operator down.          *)
LEMMA WalkLower ==
  ASSUME NEW S, NEW L, NEW h, Planted(pool, S, L, h, plan), NEW bexpr, NEW s, s.op \in L,
         CanBePushed(bexpr, s.op)
  PROVE  Below(bexpr, s).op \in L /\ h[Below(bexpr, s).op] < h[s.op]
<1> DEFINE o == s.op
           i == ChildPos(bexpr, o)
<1>1. IsPool(pool, S) /\ IsTree(pool, L, h, plan)
  BY DEF Planted
<1>2. i \in DOMAIN pool[o].inputs /\ o \in L
  <2> HIDE DEF o
  <2>1. o \in L /\ CanBePushed(bexpr, o)
    BY DEF o
  <2>2. QED
    BY <2>1, ChildPosIn
<1>3. Below(bexpr, s).op = pool[o].inputs[i]
  BY DEF Below
<1> HIDE DEF o, i
<1>4. pool[o].inputs[i] \in L /\ h[pool[o].inputs[i]] < h[o]
  BY <1>1, <1>2, ChildOf
<1>5. QED
  BY <1>3, <1>4 DEF o

(* A selection goes as far as it can, and is over what it was over if that is   *)
(* not past a product.                                                        *)
Stopped(L, b, select, s) ==
  /\ s.op \in L /\ pool[s.op].kind # "select"
  /\ Blocked(pool, pool[select].arg, s.op)
  /\ ~s.useful => s.op = b[select]

LEMMA GoalStops ==
  ASSUME NEW S, NEW L, NEW h, Planted(pool, S, L, h, plan), NEW select \in L,
         pool[select].kind = "select", NEW b, Based(pool, L, b)
  PROVE  Stopped(L, b, select, Goal(select))
<1> DEFINE n == Len(pool)
           bexpr == pool[select].arg
           A == {s \in Walks(L, h, select) : ~s.useful => b[s.op] = b[select]}
<1>1. n \in Nat /\ IsPool(pool, S) /\ IsTree(pool, L, h, plan) /\ \A x \in L : h[x] \in 1..n
  BY DEF Planted, IsPool, IsTree
<1>2. \A s \in A : s.op \in L
  BY DEF Walks
<1>3. Start(select) \in A
  <2>1. Start(select) \in Walks(L, h, select) /\ Start(select).op = pool[select].inputs[1]
    BY WalkStart DEF Start, Input
  <2>2. b[select] = b[pool[select].inputs[1]]
    BY DEF Based
  <2>3. QED
    BY <2>1, <2>2
<1>4. ASSUME NEW s \in A PROVE Below(bexpr, s) \in A
  <2>1. Below(bexpr, s) \in Walks(L, h, select)
    BY WalkTurn
  <2>2. ASSUME ~Below(bexpr, s).useful PROVE b[Below(bexpr, s).op] = b[select]
    <3>1. CASE ~CanBePushed(bexpr, s.op)
      BY <2>2, <3>1 DEF Below
    <3>2. CASE CanBePushed(bexpr, s.op)
      <4>1. Below(bexpr, s).useful = (s.useful \/ pool[s.op].kind # "select")
        BY <3>2 DEF Below
      <4>2. pool[s.op].kind = "select" /\ ~s.useful
        BY <2>2, <4>1
      <4>3. Below(bexpr, s).op = pool[s.op].inputs[1]
        BY <3>2, <4>2 DEF Below, ChildPos
      <4>4. b[s.op] = b[pool[s.op].inputs[1]]
        BY <1>2, <4>2 DEF Based
      <4>5. QED
        BY <4>2, <4>3, <4>4
    <3>3. QED
      BY <3>1, <3>2
  <2>3. QED
    BY <2>1, <2>2
<1> HIDE DEF A
<1>5. PICK f : Walked(f, n, A, select)
  BY <1>1, <1>3, <1>4, GoalTurns
<1> DEFINE T == {i \in Nat : i <= n => ~CanBePushed(bexpr, f[i].op) \/ h[f[i].op] + i <= n}
<1>6. 0 \in T
  <2>1. 0 \in 0..n
    BY <1>1
  <2>2. f[0] \in A
    BY <1>5, <2>1 DEF Walked
  <2>3. h[f[0].op] \in 1..n
    BY <1>1, <1>2, <2>2
  <2>4. h[f[0].op] + 0 <= n
    BY <1>1, <2>3
  <2>5. QED
    BY <2>4
<1>7. ASSUME NEW i \in Nat, i \in T PROVE i + 1 \in T
  <2>1. SUFFICES ASSUME i + 1 <= n
                 PROVE  ~CanBePushed(bexpr, f[i + 1].op) \/ h[f[i + 1].op] + (i + 1) <= n
    OBVIOUS
  <2>2. i <= n /\ i + 1 \in 1..n /\ (i + 1) - 1 = i /\ i \in 0..n
    BY <1>1, <2>1
  <2> DEFINE s == f[i]
  <2>3. s \in A /\ s.op \in L /\ (~CanBePushed(bexpr, s.op) \/ h[s.op] + i <= n)
    BY <1>2, <1>5, <1>7, <2>2 DEF Walked
  <2>4. f[i + 1] = Below(bexpr, s)
    BY <1>5, <2>2 DEF Walked
  <2> HIDE DEF s, bexpr
  <2>5. CASE CanBePushed(bexpr, s.op)
    <3>1. Below(bexpr, s).op \in L /\ h[Below(bexpr, s).op] < h[s.op]
      BY <2>3, <2>5, WalkLower
    <3> DEFINE c == Below(bexpr, s).op
    <3>2. h[c] \in Nat /\ h[s.op] \in Nat /\ h[c] < h[s.op] /\ h[s.op] + i <= n
      BY <1>1, <2>3, <2>5, <3>1
    <3> HIDE DEF c
    <3>3. h[c] + (i + 1) <= n
      BY <1>1, <3>2
    <3>4. QED
      BY <2>4, <3>3 DEF c
  <2>6. CASE ~CanBePushed(bexpr, s.op)
    <3>1. Below(bexpr, s) = s
      BY <2>6 DEF Below
    <3>2. QED
      BY <2>4, <2>6, <3>1
  <2>7. QED
    BY <2>5, <2>6
<1> HIDE DEF T
<1>8. n \in T
  BY <1>1, <1>6, <1>7, InductiveSet
<1> DEFINE goal == Goal(select)
<1>9. goal = f[n] /\ goal \in A
  BY <1>1, <1>5 DEF Walked
<1> HIDE DEF goal
<1>10. goal.op \in L /\ (~goal.useful => b[goal.op] = b[select])
  BY <1>2, <1>9 DEF A
<1>11. ~CanBePushed(bexpr, goal.op)
  <2>1. ~CanBePushed(bexpr, goal.op) \/ h[goal.op] + n <= n
    BY <1>1, <1>8, <1>9 DEF T
  <2>2. h[goal.op] + n > n
    BY <1>1, <1>10
  <2>3. QED
    BY <1>1, <1>10, <2>1, <2>2
<1>12. pool[goal.op].kind # "select" /\ Blocked(pool, bexpr, goal.op)
  BY <1>11, TakingIs DEF CanBePushed, Blocked
<1>13. b[goal.op] = goal.op
  BY <1>10, <1>12 DEF Based
<1>14. QED
  BY <1>10, <1>12, <1>13 DEF Stopped, goal


(* The selections that are where they stay, D, and those that are not, which    *)
(* stand one over the other under the one that is next.                       *)
Selects(p, L) == {s \in L : p[s].kind = "select"}
Open(p, L, D) == Selects(p, L) \ D
Settling(p, L, b, D) ==
  /\ Based(p, L, b)
  /\ \A s \in Selects(p, L) : s \in D => Blocked(p, p[s].arg, b[s])
Chained(p, L, D, c) == \A s \in Open(p, L, D) : s # c => p[s].output \in Open(p, L, D)

Pushing(p, r, c) ==
  \E S, L, h, b, D : /\ Planted(p, S, L, h, r) /\ Pure(p, L) /\ Pushes(p, L, r, c)
                     /\ Settling(p, L, b, D) /\ Chained(p, L, D, c)
Settled(p, r) ==
  \E S, L, h, b : Planted(p, S, L, h, r) /\ Settling(p, L, b, L)

(* What the turns of t_pushSelect have left is a chain; without a next one it   *)
(* is empty.                                                                  *)
LEMMA NextOrSettled ==
  ASSUME NEW p, NEW S, NEW L, NEW h, NEW r, Planted(p, S, L, h, r), Pure(p, L),
         NEW b, NEW D, Settling(p, L, b, D), NEW c, Chained(p, L, D, c),
         p[c].kind = "select" => Pushes(p, L, r, c)
  PROVE  IF p[c].kind = "select" THEN Pushing(p, r, c) ELSE Settled(p, r)
<1>1. ASSUME p[c].kind = "select" PROVE Pushing(p, r, c)
  BY <1>1 DEF Pushing
<1>2. ASSUME p[c].kind # "select" PROVE Settled(p, r)
  <2> DEFINE X == Open(p, L, D)
  <2>1. \A s \in X : s \in L /\ s # c /\ p[s].output \in X
    BY <1>2 DEF Open, Selects, Chained
  <2>2. X \in SUBSET L /\ IsTree(p, L, h, r) /\ Len(p) \in Nat
    BY <2>1 DEF Planted, IsPool
  <2> HIDE DEF X
  <2>3. X = {}
    BY <2>1, <2>2, NoEndlessClimb
  <2>4. Settling(p, L, b, L)
    BY <2>3 DEF X, Open, Settling
  <2>5. QED
    BY <2>4 DEF Settled
<1>3. QED
  BY <1>1, <1>2

(* The base of every operator after a selection with this number went over c.   *)
Rebased(b, N, n, c) == [o \in N |-> IF o = n + 1 THEN c ELSE b[o]]

Shift(p, q, S, L, h, r, f, root, x, c, b) ==
  /\ Planted(p, S, L, h, r) /\ x \in L /\ p[x].kind = "select"
  /\ c \in L /\ p[c].kind # "select" /\ Based(p, L, b)
  /\ Planted(q, S, Remaining(p, L, x), f, root) /\ Moved(q, p, Len(p), x, c)

(* Where a selection left or came, an operator has instead of an input another  *)
(* one that offers the same, over the same.                                   *)
LEMMA MovedChild ==
  ASSUME NEW p, NEW q, NEW S, NEW L, NEW h, NEW r, NEW f, NEW root, NEW x, NEW c, NEW b,
         Shift(p, q, S, L, h, r, f, root, x, c, b),
         NEW o \in L, NEW y \in Remaining(p, L, x), q[y].output = o
  PROVE  \E z \in L : /\ p[z].output = o /\ p[z].out = q[y].out
                      /\ b[z] = Rebased(b, Remaining(p, L, x), Len(p), c)[y]
<1> DEFINE n == Len(p)
           N == Remaining(p, L, x)
           b2 == Rebased(b, N, n, c)
           below == p[x].inputs[1]
<1>1. /\ Planted(p, S, L, h, r) /\ x \in L /\ p[x].kind = "select" /\ c \in L /\ p[c].kind # "select"
      /\ Based(p, L, b) /\ Planted(q, S, N, f, root) /\ Moved(q, p, n, x, c)
  BY DEF Shift
<1>2. n \in Nat /\ L \subseteq 1..n /\ N = (L \cup {n + 1}) \ {x}
  BY <1>1 DEF Planted, IsPool, IsTree, Remaining
<1>3. "select" \in Copying
  BY DEF Copying, Unary, LogKinds, Sources, Crosses, BinOps
<1>4. below \in L /\ p[below].out = p[x].out /\ below # x
  BY <1>1, <1>3, Handed
<1>5. \A z \in N : b2[z] = IF z = n + 1 THEN c ELSE b[z]
  BY DEF Rebased
<1> HIDE DEF b2, N, n, below
<1>6. CASE y = below
  <2>1. y \in 1..n /\ y # n + 1
    <3>1. \A z \in 1..n : z # n + 1
      BY <1>2
    <3>2. y \in 1..n
      BY <1>2, <1>4, <1>6
    <3>3. QED
      BY <3>1, <3>2
  <2>2. p[x].output = o
    BY <1>1, <1>6, <2>1 DEF Moved, below
  <2>3. q[y].out = p[y].out
    BY <1>1, <2>1 DEF Moved, Alike
  <2>4. b[x] = b[below]
    BY <1>1 DEF Based, below
  <2>5. b[x] = b2[y]
    BY <1>5, <1>6, <2>1, <2>4 DEF N
  <2>6. p[x].output = o /\ p[x].out = q[y].out /\ b[x] = b2[y]
    BY <1>4, <1>6, <2>2, <2>3, <2>5
  <2>7. QED
    BY <1>1, <2>6 DEF b2, N, n
<1>7. CASE y = n + 1
  <2>1. p[c].output = o /\ q[y].inputs[1] = c /\ q[y].kind = "select"
    BY <1>1, <1>7 DEF Moved
  <2>2. q[c].out = q[y].out
    <3>1. y \in N /\ q[y].kind \in Copying
      BY <1>3, <2>1 DEF N
    <3>2. q[q[y].inputs[1]].out = q[y].out
      BY <1>1, <3>1, Handed
    <3>3. QED
      BY <2>1, <3>2
  <2>3. q[c].out = p[c].out
    BY <1>1, <1>2 DEF Moved, Alike
  <2>4. b[c] = c /\ b2[y] = c
    BY <1>1, <1>5, <1>7 DEF Based, N
  <2>5. p[c].output = o /\ p[c].out = q[y].out /\ b[c] = b2[y]
    BY <2>1, <2>2, <2>3, <2>4
  <2>6. QED
    BY <1>1, <2>5 DEF b2, N, n
<1>8. CASE y # below /\ y # n + 1
  <2>1. y \in L /\ y \in 1..n
    BY <1>2, <1>8 DEF N
  <2>2. o # n + 1
    BY <1>2
  <2>3. q[y].output = IF y = c THEN n + 1 ELSE p[y].output
    BY <1>1, <1>8, <2>1 DEF Moved, below
  <2>4. p[y].output = o
    BY <2>2, <2>3
  <2>5. q[y].out = p[y].out
    BY <1>1, <2>1 DEF Moved, Alike
  <2>6. b[y] = b2[y]
    BY <1>5, <1>8 DEF N
  <2>7. QED
    BY <2>1, <2>4, <2>5, <2>6 DEF b2, N, n
<1>9. QED
  BY <1>6, <1>7, <1>8


(* So what is over what stays the same.                                        *)
LEMMA MovedBased ==
  ASSUME NEW p, NEW q, NEW S, NEW L, NEW h, NEW r, NEW f, NEW root, NEW x, NEW c, NEW b,
         Shift(p, q, S, L, h, r, f, root, x, c, b)
  PROVE  Based(q, Remaining(p, L, x), Rebased(b, Remaining(p, L, x), Len(p), c))
<1> DEFINE n == Len(p)
           N == Remaining(p, L, x)
           b2 == Rebased(b, N, n, c)
<1>1. /\ Planted(p, S, L, h, r) /\ x \in L /\ p[x].kind = "select" /\ c \in L /\ p[c].kind # "select"
      /\ Based(p, L, b) /\ Planted(q, S, N, f, root) /\ Moved(q, p, n, x, c)
  BY DEF Shift
<1>2. n \in Nat /\ L \subseteq 1..n /\ N = (L \cup {n + 1}) \ {x} /\ \A z \in L : z # n + 1
  BY <1>1 DEF Planted, IsPool, IsTree, Remaining
<1>3. "select" \in Copying
  BY DEF Copying, Unary, LogKinds, Sources, Crosses, BinOps
<1>4. \A z \in N : b2[z] = IF z = n + 1 THEN c ELSE b[z]
  BY DEF Rebased
<1>5. \A z \in L : q[z].kind = p[z].kind /\ p[b[z]].kind # "select" /\ b[z] \in L
  BY <1>1, <1>2 DEF Moved, Alike, Based
<1>6. N = Remaining(p, L, x) /\ b2 = Rebased(b, Remaining(p, L, x), Len(p), c)
  OBVIOUS
<1> HIDE DEF b2, N, n
<1>7. \A z \in L : z # x => z \in N /\ b2[z] = b[z]
  BY <1>2, <1>4
<1>8. ASSUME NEW o \in N PROVE b2[o] \in N /\ q[b2[o]].kind # "select"
  <2>1. \E z \in L : b2[o] = z /\ p[z].kind # "select"
    <3>1. CASE o = n + 1
      BY <1>1, <1>4, <3>1
    <3>2. CASE o # n + 1
      <4>1. o \in L /\ b2[o] = b[o]
        BY <1>2, <1>4, <3>2
      <4>2. QED
        BY <1>5, <4>1
    <3>3. QED
      BY <3>1, <3>2
  <2>2. QED
    BY <1>1, <1>5, <1>7, <2>1
<1>9. ASSUME NEW o \in N PROVE b2[o] = IF q[o].kind = "select" THEN b2[q[o].inputs[1]] ELSE o
  <2>1. CASE o = n + 1
    <3>1. q[o].kind = "select" /\ q[o].inputs[1] = c /\ b2[o] = c
      BY <1>1, <1>4, <2>1 DEF Moved
    <3>2. c # x
      BY <1>1
    <3>3. b2[c] = c
      BY <1>1, <1>7, <3>2 DEF Based
    <3>4. QED
      BY <3>1, <3>3
  <2>2. CASE o # n + 1 /\ q[o].kind # "select"
    <3>1. o \in L /\ b2[o] = b[o] /\ p[o].kind # "select"
      BY <1>2, <1>4, <1>5, <2>2
    <3>2. QED
      BY <1>1, <2>2, <3>1 DEF Based
  <2>3. CASE o # n + 1 /\ q[o].kind = "select"
    <3>1. o \in L /\ b2[o] = b[o] /\ p[o].kind = "select" /\ o # 0
      BY <1>2, <1>4, <1>5, <2>3
    <3> DEFINE y == q[o].inputs[1]
    <3>2. y \in N /\ q[y].output = o
      BY <1>1, <1>3, <2>3, Handed
    <3> HIDE DEF y
    <3>3. PICK z \in L : p[z].output = o /\ b[z] = b2[y]
      BY <1>6, <3>1, <3>2, MovedChild
    <3>4. p[o].inputs[1] = z
      <4>1. p[z].output # 0 /\ p[p[z].output].kind \in Unary
        BY <1>3, <3>1, <3>3 DEF Copying
      <4>2. p[p[z].output].inputs[1] = z
        BY <1>1, <4>1, OnlyInput
      <4>3. QED
        BY <3>3, <4>2
    <3>5. b[o] = b[z]
      BY <1>1, <3>1, <3>4 DEF Based
    <3>6. QED
      BY <2>3, <3>1, <3>3, <3>5 DEF y
  <2>4. QED
    BY <2>1, <2>2, <2>3
<1>10. Based(q, N, b2)
  BY <1>8, <1>9 DEF Based
<1>11. QED
  BY <1>6, <1>10

(* A product that no input of takes a predicate has none that does now.         *)
LEMMA MovedBlocked ==
  ASSUME NEW p, NEW q, NEW S, NEW L, NEW h, NEW r, NEW f, NEW root, NEW x, NEW c, NEW b,
         Shift(p, q, S, L, h, r, f, root, x, c, b),
         NEW arg, NEW k \in L, k # x, Blocked(p, arg, k)
  PROVE  Blocked(q, arg, k)
<1> DEFINE n == Len(p)
           N == Remaining(p, L, x)
<1>1. Planted(p, S, L, h, r) /\ Planted(q, S, N, f, root) /\ Moved(q, p, n, x, c)
  BY DEF Shift
<1>2. n \in Nat /\ L \subseteq 1..n /\ k \in N /\ q[k].kind = p[k].kind /\ k # 0
  BY <1>1 DEF Planted, IsPool, IsTree, Remaining, Moved, Alike
<1> HIDE DEF n, N
<1>3. SUFFICES ASSUME p[k].kind \in Crosses, ~Takes(p, arg, k), Takes(q, arg, k) PROVE FALSE
  BY <1>2 DEF Blocked
<1>4. PICK i \in DOMAIN q[k].inputs : /\ CheckReference(arg.left, q[q[k].inputs[i]])
                                      /\ CheckReference(arg.right, q[q[k].inputs[i]])
  BY <1>3 DEF Takes
<1> DEFINE y == q[k].inputs[i]
<1>5. y \in N /\ q[y].output = k
  BY <1>1, <1>2, ChildOf DEF Planted
<1> HIDE DEF y
<1>6. PICK z \in L : p[z].output = k /\ p[z].out = q[y].out
  BY <1>5, MovedChild DEF N
<1>7. z # r
  BY <1>1, <1>2, <1>6 DEF Planted, IsTree
<1>8. PICK j \in DOMAIN p[k].inputs : p[k].inputs[j] = z
  BY <1>1, <1>6, <1>7, ParentOf DEF Planted
<1>9. CheckReference(arg.left, p[z]) /\ CheckReference(arg.right, p[z])
  BY <1>4, <1>6 DEF y, CheckReference, AttrFound
<1>10. Takes(p, arg, k)
  BY <1>8, <1>9 DEF Takes
<1>11. QED
  BY <1>3, <1>10

(* The selection that went over c stays there, if it is blocked by c, and the    *)
(* selections that stay where they are do so.                                 *)
LEMMA MovedSettling ==
  ASSUME NEW p, NEW q, NEW S, NEW L, NEW h, NEW r, NEW f, NEW root, NEW x, NEW c, NEW b,
         Shift(p, q, S, L, h, r, f, root, x, c, b),
         NEW D, Settling(p, L, b, D), Blocked(p, p[x].arg, c)
  PROVE  Settling(q, Remaining(p, L, x), Rebased(b, Remaining(p, L, x), Len(p), c), D \cup {Len(p) + 1})
<1> DEFINE n == Len(p)
           N == Remaining(p, L, x)
           b2 == Rebased(b, N, n, c)
<1>1. /\ Planted(p, S, L, h, r) /\ p[x].kind = "select" /\ c \in L /\ p[c].kind # "select"
      /\ Based(p, L, b) /\ Moved(q, p, n, x, c)
  BY DEF Shift
<1>2. n \in Nat /\ L \subseteq 1..n /\ N = (L \cup {n + 1}) \ {x} /\ c # x
  BY <1>1 DEF Planted, IsPool, IsTree, Remaining
<1>3. \A z \in N : b2[z] = IF z = n + 1 THEN c ELSE b[z]
  BY DEF Rebased
<1>4. Based(q, N, b2)
  BY MovedBased
<1>5. N = Remaining(p, L, x) /\ b2 = Rebased(b, Remaining(p, L, x), n, c)
  OBVIOUS
<1> HIDE DEF b2, N
<1>6. ASSUME NEW s \in Selects(q, N), s \in D \cup {n + 1} PROVE Blocked(q, q[s].arg, b2[s])
  <2>1. s \in N
    BY DEF Selects
  <2>2. CASE s = n + 1
    <3>1. q[s].arg = p[x].arg /\ b2[s] = c
      BY <1>1, <1>3, <2>1, <2>2 DEF Moved
    <3>2. Blocked(q, p[x].arg, c)
      BY <1>1, <1>2, MovedBlocked
    <3>3. QED
      BY <3>1, <3>2
  <2>3. CASE s # n + 1
    <3>1. s \in L /\ s \in D /\ b2[s] = b[s]
      BY <1>2, <1>3, <1>6, <2>1, <2>3
    <3>2. q[s].kind = p[s].kind /\ q[s].arg = p[s].arg
      BY <1>1, <1>2, <3>1 DEF Moved, Alike
    <3>3. s \in Selects(p, L)
      BY <3>1, <3>2 DEF Selects
    <3>4. Blocked(p, p[s].arg, b[s])
      BY <3>1, <3>3 DEF Settling
    <3>5. b[s] \in L /\ b[s] # x
      BY <1>1, <3>1 DEF Based
    <3>6. Blocked(q, p[s].arg, b[s])
      BY <3>4, <3>5, MovedBlocked
    <3>7. QED
      BY <3>1, <3>2, <3>6
  <2>4. QED
    BY <2>2, <2>3
<1>7. Settling(q, N, b2, D \cup {n + 1})
  BY <1>4, <1>6 DEF Settling
<1>8. QED
  BY <1>5, <1>7


(* Those that do not are a chain as before, without the one that moved.         *)
LEMMA MovedChained ==
  ASSUME NEW p, NEW q, NEW S, NEW L, NEW h, NEW r, NEW f, NEW root, NEW x, NEW c, NEW b,
         Shift(p, q, S, L, h, r, f, root, x, c, b), NEW D, Chained(p, L, D, x)
  PROVE  Chained(q, Remaining(p, L, x), D \cup {Len(p) + 1}, p[x].inputs[1])
<1> DEFINE n == Len(p)
           N == Remaining(p, L, x)
           E == D \cup {n + 1}
           below == p[x].inputs[1]
<1>1. /\ Planted(p, S, L, h, r) /\ x \in L /\ p[x].kind = "select" /\ c \in L /\ p[c].kind # "select"
      /\ Moved(q, p, n, x, c)
  BY DEF Shift
<1>2. n \in Nat /\ L \subseteq 1..n /\ N = (L \cup {n + 1}) \ {x} /\ \A z \in L : z # 0 /\ z # n + 1
  BY <1>1 DEF Planted, IsPool, IsTree, Remaining
<1>3. p[x].kind \in Unary
  BY <1>1 DEF Unary, LogKinds, Sources, Crosses, BinOps
<1>4. \A s : s \in Open(q, N, E) <=> s \in Open(p, L, D) /\ s # x
  <2>1. \A s \in L : q[s].kind = p[s].kind
    BY <1>1, <1>2 DEF Moved, Alike
  <2>2. QED
    BY <1>2, <2>1 DEF Open, Selects
<1> HIDE DEF N, E, n
<1>5. ASSUME NEW s \in Open(q, N, E), s # below PROVE q[s].output \in Open(q, N, E)
  <2>1. s \in Open(p, L, D) /\ s # x /\ s \in L /\ p[s].kind = "select"
    BY <1>4 DEF Open, Selects
  <2>2. p[s].output \in Open(p, L, D) /\ p[s].output \in L
    BY <2>1 DEF Chained, Open, Selects
  <2>3. p[s].output # x
    <3>1. SUFFICES ASSUME p[s].output = x PROVE FALSE
      OBVIOUS
    <3>2. p[s].output # 0 /\ p[p[s].output].kind \in Unary
      BY <1>1, <1>2, <1>3, <3>1
    <3>3. p[p[s].output].inputs[1] = s
      BY <1>1, <2>1, <3>2, OnlyInput
    <3>4. QED
      BY <1>5, <3>1, <3>3
  <2>4. q[s].output = p[s].output
    <3>1. s \in 1..n /\ s # c /\ s # p[x].inputs[1]
      BY <1>1, <1>2, <1>5, <2>1
    <3>2. QED
      BY <1>1, <3>1 DEF Moved
  <2>5. QED
    BY <1>4, <2>2, <2>3, <2>4
<1>6. Chained(q, N, E, below)
  BY <1>5 DEF Chained
<1>7. QED
  BY <1>6 DEF N, E, n

(* A turn of t_pushSelect that leaves the selection where it is: it is blocked.  *)
LEMMA LeftTurn ==
  ASSUME Pushing(pool, plan, at), ~Goal(at).useful
  PROVE  IF pool[Input(at)].kind = "select" THEN Pushing(pool, plan, Input(at)) ELSE Settled(pool, plan)
<1> DEFINE below == Input(at)
<1>1. PICK S, L, h, b, D : /\ Planted(pool, S, L, h, plan) /\ Pure(pool, L) /\ Pushes(pool, L, plan, at)
                           /\ Settling(pool, L, b, D) /\ Chained(pool, L, D, at)
  BY DEF Pushing
<1> DEFINE E == D \cup {at}
<1>2. at \in L /\ pool[at].kind = "select" /\ Based(pool, L, b)
  BY <1>1 DEF Pushes, Settling
<1>3. pool[at].kind \in Copying /\ pool[at].kind \in Unary
  BY <1>2 DEF Copying, Unary, LogKinds, Sources, Crosses, BinOps
<1>4. below \in L /\ pool[below].output = at
  BY <1>1, <1>2, <1>3, Handed DEF Input
<1>5. Blocked(pool, pool[at].arg, b[at])
  BY <1>1, <1>2, GoalStops DEF Stopped
<1> HIDE DEF below
<1>6. Settling(pool, L, b, E)
  BY <1>1, <1>5 DEF Settling
<1>7. Chained(pool, L, E, below)
  <2> SUFFICES ASSUME NEW s \in Open(pool, L, E), s # below PROVE pool[s].output \in Open(pool, L, E)
    BY DEF Chained
  <2>1. s \in Open(pool, L, D) /\ s # at /\ s \in L
    BY DEF Open, Selects
  <2>2. pool[s].output \in Open(pool, L, D)
    BY <1>1, <2>1 DEF Chained
  <2>3. pool[s].output # at
    <3>1. SUFFICES ASSUME pool[s].output = at PROVE FALSE
      OBVIOUS
    <3>2. at # 0
      BY <1>1, <1>2 DEF Planted, IsTree
    <3>3. pool[pool[s].output].inputs[1] = s
      BY <1>1, <1>3, <2>1, <3>1, <3>2, OnlyInput
    <3>4. QED
      BY <3>1, <3>3 DEF below, Input
  <2>4. QED
    BY <2>2, <2>3 DEF Open
<1>8. pool[below].kind = "select" => Pushes(pool, L, plan, below)
  BY <1>3, <1>4 DEF Pushes
<1> HIDE DEF E
<1>9. QED
  BY <1>1, <1>6, <1>7, <1>8, NextOrSettled DEF below

(* A turn that moves it: it is blocked where it got to, and nothing else has     *)
(* another product under it.                                                  *)
LEMMA MovingTurn ==
  ASSUME Pushing(pool, plan, at), Goal(at).useful,
         NEW Q, Q = Replace(CopyTo(at, Goal(at)), at, Input(at)),
         NEW root, root = RootAfter(at, Input(at))
  PROVE  IF pool[Input(at)].kind = "select" THEN Pushing(Q, root, Input(at)) ELSE Settled(Q, root)
<1> DEFINE n == Len(pool)
           c == Goal(at).op
           below == Input(at)
<1>1. PICK S, L, h, b, D : /\ Planted(pool, S, L, h, plan) /\ Pure(pool, L) /\ Pushes(pool, L, plan, at)
                           /\ Settling(pool, L, b, D) /\ Chained(pool, L, D, at)
  BY DEF Pushing
<1> DEFINE N == Remaining(pool, L, at)
           b2 == Rebased(b, N, n, c)
           E == D \cup {n + 1}
<1>2. at \in L /\ pool[at].kind = "select" /\ Based(pool, L, b)
  BY <1>1 DEF Pushes, Settling
<1>3. c \in L /\ pool[c].kind # "select" /\ Blocked(pool, pool[at].arg, c)
  BY <1>1, <1>2, GoalStops DEF Stopped
<1>4. MovedTree(Q, pool, S, L, plan, at) /\ Moved(Q, pool, n, at, c)
  BY <1>1, SelectMoves
<1>5. root = Topmost(pool, plan, at) /\ below = pool[at].inputs[1]
  BY DEF RootAfter, Topmost, Input
<1>6. PICK f : Planted(Q, S, N, f, root)
  BY <1>4, <1>5 DEF MovedTree
<1>7. Pure(Q, N) /\ (pool[below].kind = "select" => Pushes(Q, N, root, below))
  BY <1>4, <1>5 DEF MovedTree
<1>8. Q[below].kind = pool[below].kind
  <2>1. pool[at].kind \in Copying
    BY <1>2 DEF Copying, Unary, LogKinds, Sources, Crosses, BinOps
  <2>2. below \in L
    BY <1>1, <1>2, <1>5, <2>1, Handed
  <2>3. below \in 1..n
    BY <1>1, <2>2 DEF Planted, IsTree
  <2>4. QED
    BY <1>4, <2>3 DEF Moved, Alike
<1> HIDE DEF c, n
<1>9. Shift(pool, Q, S, L, h, plan, f, root, at, c, b)
  BY <1>1, <1>2, <1>3, <1>4, <1>6 DEF Shift, n
<1>10. Settling(Q, N, b2, E)
  BY <1>1, <1>3, <1>9, MovedSettling DEF n
<1>11. Chained(Q, N, E, below)
  BY <1>1, <1>5, <1>9, MovedChained DEF n
<1> HIDE DEF N, b2, E, below
<1>12. IF Q[below].kind = "select" THEN Pushing(Q, root, below) ELSE Settled(Q, root)
  BY <1>6, <1>7, <1>8, <1>10, <1>11, NextOrSettled
<1>13. QED
  BY <1>8, <1>12 DEF below


-----------------------------------------------------------------------------
(* The selection that t_pushSelect begins with.                                *)

(* What a walk past the operators that come after WHERE has passed, U.           *)
PassedTops(L, U, d) ==
  /\ U \subseteq L /\ d \in L /\ plan \in U \cup {d}
  /\ \A u \in U : pool[u].kind \in Tops
  /\ \A y \in L : pool[y].output \in U => y \in U \cup {d}

(* In an ordered plan every selection but the one the walk ends at is right     *)
(* under another.                                                             *)
LEMMA TopmostSelect ==
  ASSUME NEW S, NEW L, NEW h, Planted(pool, S, L, h, plan), Falling(pool)
  PROVE  Chained(pool, L, {}, Descend(plan, Tops))
<1> DEFINE d == Descend(plan, Tops)
           A == {e \in L : \E U : PassedTops(L, U, e)}
<1>1. /\ Len(pool) \in Nat /\ IsPool(pool, S) /\ IsTree(pool, L, h, plan)
      /\ plan \in L /\ pool[plan].output = 0 /\ \A x \in L : x # 0
  BY DEF Planted, IsPool, IsTree
<1>2. Tops \in SUBSET Unary
  BY DEF Tops, XStreams, Unary, LogKinds, Sources, Crosses, BinOps
<1>3. plan \in A
  <2>1. PassedTops(L, {}, plan)
    BY <1>1 DEF PassedTops
  <2>2. QED
    BY <1>1, <2>1
<1>4. ASSUME NEW e \in A, pool[e].kind \in Tops PROVE Input(e) \in A
  <2>1. PICK U : PassedTops(L, U, e)
    OBVIOUS
  <2> DEFINE V == U \cup {e}
             c == Input(e)
  <2>2. e \in L /\ c \in L
    BY <1>1, <1>2, <1>4, NodeOf DEF Input
  <2>3. ASSUME NEW y \in L, pool[y].output \in V PROVE y \in V \cup {c}
    <3>1. CASE pool[y].output = e
      <4>1. pool[y].output # 0 /\ pool[pool[y].output].kind \in Unary
        BY <1>1, <1>2, <1>4, <2>2, <3>1
      <4>2. pool[pool[y].output].inputs[1] = y
        BY <4>1, OnlyInput
      <4>3. QED
        BY <3>1, <4>2 DEF Input
    <3>2. CASE pool[y].output \in U
      BY <2>1, <3>2 DEF PassedTops
    <3>3. QED
      BY <2>3, <3>1, <3>2
  <2> HIDE DEF c
  <2>4. PassedTops(L, V, c)
    BY <1>4, <2>1, <2>2, <2>3 DEF PassedTops
  <2>5. QED
    BY <2>2, <2>4 DEF c
<1> HIDE DEF A
<1>5. PICK f : Turned(f, Len(pool), A, plan, Tops)
  BY <1>1, <1>3, <1>4, DescendTurns
<1>6. d \in A
  BY <1>1, <1>5 DEF Turned
<1>7. pool[d].kind \notin Tops
  BY <1>1, <1>2, DescendStops
<1> HIDE DEF d
<1>8. PICK U : PassedTops(L, U, d)
  BY <1>6 DEF A
<1>9. ASSUME NEW x \in L, x \notin U \cup {d}
      PROVE  x # plan /\ pool[x].output \in L \ U /\ Fits(pool[pool[x].output].kind, pool[x].kind)
  <2>1. x # plan
    BY <1>8, <1>9 DEF PassedTops
  <2>2. pool[x].output \in L
    BY <1>1, <2>1, ParentOf
  <2>3. pool[x].output \notin U
    BY <1>8, <1>9 DEF PassedTops
  <2>4. QED
    BY <2>1, <2>2, <2>3, UnderParent
<1> DEFINE X == {x \in L : pool[x].kind \in Tops /\ x \notin U}
<1>10. \A x \in X : pool[x].output \in X
  <2> SUFFICES ASSUME NEW x \in X PROVE pool[x].output \in X
    OBVIOUS
  <2>1. x \in L /\ x \notin U \cup {d} /\ pool[x].kind \in Tops
    BY <1>7
  <2>2. pool[x].output \in L \ U /\ pool[pool[x].output].kind \in Tops
    BY <1>9, <2>1 DEF Fits
  <2>3. QED
    BY <2>2
<1>11. X \in SUBSET L
  OBVIOUS
<1> HIDE DEF X
<1>12. X = {}
  BY <1>1, <1>10, <1>11, NoEndlessClimb
<1>13. ASSUME NEW s \in Selects(pool, L), s # d PROVE pool[s].output \in Selects(pool, L)
  <2>1. s \in L /\ pool[s].kind = "select" /\ "select" \notin Tops
    BY DEF Selects, Tops, XStreams
  <2>2. s \notin U \cup {d}
    BY <1>8, <1>13, <2>1 DEF PassedTops
  <2>3. pool[s].output \in L \ U /\ Fits(pool[pool[s].output].kind, "select")
    BY <1>9, <2>1, <2>2
  <2>4. pool[pool[s].output].kind \notin Tops
    BY <1>12, <2>3 DEF X
  <2>5. QED
    BY <2>3, <2>4 DEF Fits, Selects
<1>14. QED
  BY <1>13 DEF Chained, Open, d

(* t_pushSelect begins with it, or there is none.                              *)
LEMMA FirstSelect ==
  ASSUME Good(pool, plan), Falling(pool), NEW select, select = Descend(plan, Tops)
  PROVE  IF pool[select].kind = "select" THEN Pushing(pool, plan, select) ELSE Settled(pool, plan)
<1>1. PICK S, L, h : Planted(pool, S, L, h, plan) /\ Pure(pool, L)
  BY DEF Good
<1>2. PICK b : Based(pool, L, b)
  BY <1>1, BaseIs
<1>3. Settling(pool, L, b, {})
  BY <1>2 DEF Settling
<1>4. Chained(pool, L, {}, select)
  BY <1>1, TopmostSelect
<1>5. pool[select].kind = "select" => Pushes(pool, L, plan, select)
  BY <1>1, FindSelectTree DEF Tops
<1> DEFINE D == {}
<1>6. Settling(pool, L, b, D) /\ Chained(pool, L, D, select)
  BY <1>3, <1>4
<1> HIDE DEF D
<1>7. QED
  BY <1>1, <1>5, <1>6, NextOrSettled

(* In a plan where all selections stay no product lets one of them pass.         *)
LEMMA SettledPushed ==
  ASSUME Settled(pool, plan), NEW cross \in Tree, pool[cross].kind \in Crosses,
         NEW s \in SelectsOver(cross)
  PROVE  TakingInputs(pool[s].arg, cross) = {}
<1>1. PICK S, L, h, b : Planted(pool, S, L, h, plan) /\ Settling(pool, L, b, L)
  BY DEF Settled
<1>2. s \in L /\ pool[s].kind = "select" /\ Descend(s, {"select"}) = cross
  BY <1>1, TreeInside DEF SelectsOver
<1>3. b[s] = cross
  BY <1>1, <1>2, BaseFound DEF Settling
<1>4. Blocked(pool, pool[s].arg, cross)
  BY <1>1, <1>2, <1>3 DEF Settling, Selects
<1>5. QED
  BY <1>4, TakingIs DEF Blocked

-----------------------------------------------------------------------------
(* The invariant.                                                            *)

(* The order of the operators is kept from FROM to the search for a selection, *)
(* with nothing of the later clauses before WHERE is done and no selection     *)
(* before that; from then on the selections that were not looked at are a     *)
(* chain, and in the end there are none.                                      *)
Ordered == Naive \cup (Transforms \ {"push"})
Arranged(p, r, c, next) ==
  /\ next \in Ordered => Falling(p)
  /\ next = "plan" => \A o \in 1..Len(p) : Flat(p[o].kind)
  /\ next \in {"preds", "aggr"} => \A o \in 1..Len(p) : p[o].kind \notin Tops
  /\ next = "push" => Pushing(p, r, c)
  /\ next = "done" => Settled(p, r)

ArrangeInv == Arranged(pool, plan, at, step)

(* A step of the generation leaves what the next one finds. *)
LEMMA GenerateArranges ==
  ASSUME NEW p, NEW r, NEW c, NEW next, Arranged(p, r, c, next), Generate(p, r, c, next)
  PROVE  ArrangeInv'
<1>1. pool' = p /\ plan' = r /\ at' = c /\ step' = next
  BY DEF Generate
<1>2. QED
  BY <1>1 DEF ArrangeInv

(* The steps after which nothing is said of the plan. *)
LEMMA NothingArranged ==
  ASSUME NEW p, NEW r, NEW c, NEW next, next \notin Ordered \cup {"push", "done"}
  PROVE  Arranged(p, r, c, next)
BY DEF Arranged, Ordered, Naive

(* A registration that ends early is arranged in any way. *)
LEMMA StopArranges ==
  ASSUME NEW how, how \in Fatal \cup {"failed"}, Stop(how)
  PROVE  ArrangeInv'
<1>1. step' = how
  BY DEF Stop
<1>2. how \notin Ordered \cup {"push", "done"}
  BY DEF Ordered, Fatal, Naive, Transforms
<1>3. ArrangeInv'
  BY <1>1, <1>2 DEF ArrangeInv, Arranged, Ordered, Naive
<1>4. QED
  BY <1>3

(* What follows WHERE needs the order alone. *)
Clausal == {"projs", "distinct", "r2s"} \cup (Transforms \ {"push"})
LEMMA FallingArranged ==
  ASSUME NEW p, Falling(p), NEW r, NEW c, NEW next \in Clausal
  PROVE  Arranged(p, r, c, next)
BY DEF Arranged, Clausal, Transforms

LEMMA ClausalSteps ==
  /\ {"projs", "distinct", "r2s"} \subseteq Ordered
  /\ {"projs", "distinct", "r2s", "rstreamNow"} \subseteq Clausal
  /\ Transforms \ {"push"} \subseteq Clausal /\ Transforms \ {"push"} \subseteq Ordered
BY DEF Clausal, Ordered, Naive, Transforms

(* So it does when the step leaves the pool as it is. *)
LEMMA PassArranges ==
  ASSUME ArrangeInv, step \in Ordered, NEW r, NEW c, NEW next \in Clausal, Generate(pool, r, c, next)
  PROVE  ArrangeInv'
<1>1. Falling(pool)
  BY DEF ArrangeInv, Arranged
<1>2. Arranged(pool, r, c, next)
  BY <1>1, FallingArranged
<1>3. QED
  BY <1>2, GenerateArranges

-----------------------------------------------------------------------------
(* The naive plan.                                                           *)

(* What has none but operators of the FROM clause is in order. *)
LEMMA FlatFalls ==
  ASSUME NEW S, NEW p, IsPool(p, S), \A o \in 1..Len(p) : Flat(p[o].kind)
  PROVE  Falling(p) /\ \A o \in 1..Len(p) : p[o].kind \notin Tops
<1>1. ASSUME NEW o \in 1..Len(p), NEW i \in DOMAIN p[o].inputs PROVE Fits(p[o].kind, p[p[o].inputs[i]].kind)
  <2>1. p[o].inputs[i] \in 1..Len(p)
    BY PoolOp
  <2>2. Flat(p[p[o].inputs[i]].kind)
    BY <2>1
  <2>3. QED
    BY <2>2 DEF Flat, Fits
<1>2. QED
  BY <1>1 DEF Falling, Flat

(* A table brings operators of the FROM clause. *)
LEMMA TableFlat ==
  ASSUME NEW T, NEW p, NEW q, NEW g, Beside(q, p, T, g), \A o \in 1..Len(p) : Flat(p[o].kind)
  PROVE  \A o \in 1..Len(q) : Flat(q[o].kind)
<1> SUFFICES ASSUME NEW o \in 1..Len(q) PROVE Flat(q[o].kind)
  OBVIOUS
<1>1. Len(p) \in Nat /\ Len(q) \in Nat
  BY DEF Beside, Planted, IsPool
<1>2. CASE o \in 1..Len(p)
  BY <1>2 DEF Beside
<1>3. CASE o \notin 1..Len(p)
  <2>1. o \in News(q, Len(p))
    BY <1>1, <1>3 DEF News
  <2>2. q[o].kind \in Sources \cup Windows
    BY <2>1 DEF Beside
  <2>3. QED
    BY <2>2 DEF Flat, Sources, Windows, Tops, XStreams
<1>4. QED
  BY <1>2, <1>3

(* Operators of the same kinds. *)
LEMMA KindsFlat ==
  ASSUME NEW p, NEW q, Keeps(q, p), Len(q) = Len(p), \A o \in 1..Len(p) : Flat(p[o].kind)
  PROVE  \A o \in 1..Len(q) : Flat(q[o].kind)
BY DEF Keeps, Kept

(* A plan of one table. *)
LEMMA OneTableArranges ==
  ASSUME PlanInv, QueryInv, ArrangeInv, step = "plan", query.kind = "sfw", OneTable
  PROVE  ArrangeInv'
<1> DEFINE q == TablePlan(pool, 1)
<1>1. Len(query.tables) = 1 /\ Generate(q, Len(q), 0, "preds")
  BY DEF OneTable
<1>2. TableReady(1)
  <2>1. IsList(query.tables)
    BY DEF QueryInv, Naive, TablesReady
  <2>2. DOMAIN query.tables = 1..1
    BY <1>1, <2>1, ListElements
  <2>3. 1 \in DOMAIN query.tables
    BY <2>2
  <2>4. QED
    BY <2>3 DEF QueryInv, Naive
<1>3. PICK S : IsPool(pool, S)
  BY DEF PlanInv, Shaped
<1>4. PICK T, g : Beside(q, pool, T, g)
  BY <1>2, <1>3, TableBeside
<1> HIDE DEF q
<1>5. \A o \in 1..Len(q) : Flat(q[o].kind)
  <2>1. \A o \in 1..Len(pool) : Flat(pool[o].kind)
    BY DEF ArrangeInv, Arranged
  <2>2. QED
    BY <1>4, <2>1, TableFlat
<1>6. IsPool(q, T)
  BY <1>4 DEF Beside, Planted
<1>7. Arranged(q, Len(q), 0, "preds")
  <2>1. Falling(q) /\ \A o \in 1..Len(q) : q[o].kind \notin Tops
    BY <1>5, <1>6, FlatFalls
  <2>2. QED
    BY <2>1 DEF Arranged
<1>8. QED
  BY <1>1, <1>7, GenerateArranges

(* A table more in the product. *)
LEMMA NextTableArranges ==
  ASSUME PlanInv, QueryInv, ArrangeInv, step = "plan", query.kind = "sfw", NextTable
  PROVE  ArrangeInv'
<1> DEFINE p == IF at = 0 THEN MkCross(pool) ELSE pool
           q == TablePlan(p, at + 1)
           t == CrossAddInput(q, 1, Len(q))
           last == at + 1 = Len(query.tables)
           c == IF last THEN 0 ELSE at + 1
           next == IF last THEN "preds" ELSE "plan"
<1>1. /\ Len(query.tables) > 1
      /\ IF CrossRefuses(q, 1, Len(q), MaxAttrs) THEN Stop("failed") ELSE Generate(t, 1, c, next)
  BY DEF NextTable
<1>2. TableReady(at + 1)
  <2>1. IsList(query.tables)
    BY DEF QueryInv, Naive, TablesReady
  <2>2. Len(query.tables) \in Nat /\ DOMAIN query.tables = 1..Len(query.tables)
    BY <2>1, ListElements
  <2>3. at \in Nat /\ (at # 0 => at < Len(query.tables))
    BY DEF PlanInv, Shaped
  <2>4. at + 1 \in DOMAIN query.tables
    BY <1>1, <2>2, <2>3
  <2>5. QED
    BY <2>4 DEF QueryInv, Naive
<1>3. CASE CrossRefuses(q, 1, Len(q), MaxAttrs)
  <2> HIDE DEF q, t
  <2>1. QED
    BY <1>1, <1>3, StopArranges
<1>4. CASE ~CrossRefuses(q, 1, Len(q), MaxAttrs)
  <2>1. Joining(p) /\ \A o \in 1..Len(p) : Flat(p[o].kind)
    <3>1. CASE at = 0
      <4>1. p = MkCross(<<>>)
        BY <3>1 DEF PlanInv, Shaped
      <4> HIDE DEF p
      <4>2. Joining(p)
        BY <4>1, FirstCross
      <4>3. Len(p) = 1 /\ p[1].kind = "cross"
        <5>1. Grown(p, <<>>, Len(<<>>), {}, "cross", <<>>, <<>>, NoArg) /\ Len(p) = Len(<<>>) + 1
          BY <4>1, EmptyPool, CrossIsLast
        <5>2. QED
          BY <5>1, EmptyPool DEF Grown, Made
      <4>4. \A o \in 1..Len(p) : o = 1
        BY <4>3
      <4>5. QED
        BY <4>2, <4>3, <4>4 DEF Flat, Tops, XStreams
    <3>2. CASE at # 0
      BY <3>2 DEF PlanInv, Shaped, ArrangeInv, Arranged
    <3>3. QED
      BY <3>1, <3>2
  <2>2. PICK S : IsPool(p, S)
    BY <2>1 DEF Joining, Planted
  <2> HIDE DEF p
  <2>3. PICK T, g : Beside(q, p, T, g)
    BY <1>2, <2>2, TableBeside
  <2>4. Joining(t) /\ Joined(t, q, p)
    BY <1>2, <1>4, <2>1, JoinTable
  <2>5. PICK U : IsPool(t, U)
    BY <2>4 DEF Joining, Planted
  <2> HIDE DEF q, t
  <2>6. \A o \in 1..Len(q) : Flat(q[o].kind)
    BY <2>1, <2>3, TableFlat
  <2>7. \A o \in 1..Len(t) : Flat(t[o].kind)
    BY <2>4, <2>6, KindsFlat DEF Joined
  <2>8. Falling(t) /\ \A o \in 1..Len(t) : t[o].kind \notin Tops
    BY <2>5, <2>7, FlatFalls
  <2>9. Arranged(t, 1, c, next)
    <3>1. next # "push" /\ next # "done"
      OBVIOUS
    <3> HIDE DEF c, next
    <3>2. QED
      BY <2>7, <2>8, <3>1 DEF Arranged
  <2>10. Generate(t, 1, c, next)
    BY <1>1, <1>4
  <2> HIDE DEF c, next
  <2>11. QED
    BY <2>9, <2>10, GenerateArranges
<1>5. QED
  BY <1>3, <1>4

(* An operator over the plan that may be over what is the topmost one now. *)
PutOnTop(q, p, kind) ==
  /\ Falling(q) /\ Len(q) = Len(p) + 1 /\ q[Len(q)].kind = kind
  /\ \A o \in 1..Len(p) : q[o].kind = p[o].kind

LEMMA NewOpFalls ==
  ASSUME NEW S, NEW p, IsPool(p, S), Falling(p), NEW r \in 1..Len(p), NEW kind, Fits(kind, p[r].kind),
         NEW out, NEW stream, NEW arg, NEW q, q = NewOp(p, kind, <<r>>, out, stream, arg)
  PROVE  PutOnTop(q, p, kind)
<1> DEFINE n == Len(p)
           new == [kind |-> kind, inputs |-> <<r>>, output |-> 0, out |-> out,
                   stream |-> stream, arg |-> arg]
<1>1. Extended(q, p, n, new)
  BY NewOpIs
<1>2. n \in Nat /\ \A o \in 1..n : DOMAIN p[o] = Fields
  BY DEF IsPool, IsOp
<1>3. new.kind = kind /\ new.inputs = <<r>>
  OBVIOUS
<1> HIDE DEF new
<1>4. /\ Len(q) = n + 1 /\ q[n + 1] = new
      /\ \A o \in 1..n : q[o] = IF o \in ToSet(new.inputs) THEN [p[o] EXCEPT !.output = n + 1] ELSE p[o]
  BY <1>1 DEF Extended
<1>5. ASSUME NEW o \in 1..n PROVE q[o].kind = p[o].kind /\ q[o].inputs = p[o].inputs
  <2>1. CASE o \in ToSet(new.inputs)
    <3>1. q[o] = [p[o] EXCEPT !.output = n + 1]
      BY <1>4, <2>1
    <3>2. QED
      BY <1>2, <3>1 DEF Fields
  <2>2. CASE o \notin ToSet(new.inputs)
    BY <1>4, <2>2
  <2>3. QED
    BY <2>1, <2>2
<1>6. ASSUME NEW o \in 1..Len(q), NEW i \in DOMAIN q[o].inputs
      PROVE  Fits(q[o].kind, q[q[o].inputs[i]].kind)
  <2>1. CASE o = n + 1
    <3>1. q[o].kind = kind /\ q[o].inputs[i] = r
      BY <1>3, <1>4, <2>1
    <3>2. q[r].kind = p[r].kind
      BY <1>5
    <3>3. QED
      BY <3>1, <3>2
  <2>2. CASE o # n + 1
    <3>1. o \in 1..n
      BY <1>2, <1>4, <2>2
    <3>2. p[o].inputs[i] \in 1..n /\ Fits(p[o].kind, p[p[o].inputs[i]].kind)
      BY <1>5, <3>1, PoolOp DEF Falling
    <3>3. QED
      BY <1>5, <3>1, <3>2
  <2>3. QED
    BY <2>1, <2>2
<1>7. Falling(q)
  BY <1>6 DEF Falling
<1>8. QED
  BY <1>3, <1>4, <1>5, <1>7 DEF PutOnTop

(* A selection of the WHERE clause: there is nothing of the later clauses yet. *)
LEMMA PredsArranges ==
  ASSUME PlanInv, ArrangeInv, ApplyPreds
  PROVE  ArrangeInv'
<1> DEFINE arg == LogBExpr(query.preds[at + 1])
           q == MkSelect(pool, plan, arg)
<1>1. /\ step = "preds"
      /\ IF at < Len(query.preds) THEN Generate(q, Len(q), at + 1, "preds") ELSE Generate(pool, plan, 0, "aggr")
  BY DEF ApplyPreds
<1>2. Falling(pool) /\ \A o \in 1..Len(pool) : pool[o].kind \notin Tops
  BY <1>1 DEF ArrangeInv, Arranged, Ordered, Naive
<1>3. CASE at < Len(query.preds)
  <2>1. PICK S : IsPool(pool, S) /\ plan \in 1..Len(pool)
    BY <1>1, Rooted DEF PlanInv, Shaped, Lacking
  <2>2. Fits("select", pool[plan].kind)
    BY <1>2, <2>1 DEF Fits
  <2>3. q = NewOp(pool, "select", <<plan>>, pool[plan].out, pool[plan].stream, arg)
    BY DEF MkSelect, CopySchema
  <2> HIDE DEF arg
  <2>4. Generate(q, Len(q), at + 1, "preds")
    BY <1>1, <1>3
  <2> HIDE DEF q
  <2>5. PutOnTop(q, pool, "select")
    BY <1>2, <2>1, <2>2, <2>3, NewOpFalls
  <2>6. \A o \in 1..Len(q) : q[o].kind \notin Tops
    <3>1. Len(pool) \in Nat
      BY <2>1 DEF IsPool
    <3>2. Len(q) = Len(pool) + 1
      BY <2>5 DEF PutOnTop
    <3>3. \A o \in 1..Len(q) : o = Len(q) \/ o \in 1..Len(pool)
      BY <3>1, <3>2
    <3>4. "select" \notin Tops
      BY DEF Tops, XStreams
    <3>5. QED
      BY <1>2, <2>5, <3>3, <3>4 DEF PutOnTop
  <2>7. Arranged(q, Len(q), at + 1, "preds")
    BY <2>5, <2>6 DEF Arranged, PutOnTop
  <2>8. QED
    BY <2>4, <2>7, GenerateArranges
<1>4. CASE ~(at < Len(query.preds))
  <2>1. Arranged(pool, plan, 0, "aggr")
    BY <1>2 DEF Arranged
  <2>2. QED
    BY <1>1, <1>4, <2>1, GenerateArranges
<1>5. QED
  BY <1>3, <1>4

(* An operator of a later clause may be over anything. *)
LEMMA TopArranges ==
  ASSUME NEW S, IsPool(pool, S), plan \in 1..Len(pool), ArrangeInv, step \in Ordered,
         NEW kind \in Tops, NEW out, NEW stream, NEW arg,
         NEW q, q = NewOp(pool, kind, <<plan>>, out, stream, arg),
         NEW next \in Clausal, Generate(q, Len(q), 0, next)
  PROVE  ArrangeInv'
<1>1. Falling(pool) /\ Fits(kind, pool[plan].kind)
  BY DEF ArrangeInv, Arranged, Fits
<1>2. Falling(q)
  BY <1>1, NewOpFalls DEF PutOnTop
<1>3. Arranged(q, Len(q), 0, next)
  BY <1>2, FallingArranged
<1>4. QED
  BY <1>3, GenerateArranges

(* GROUP BY and the aggregations. *)
LEMMA AggrArranges ==
  ASSUME PlanInv, ArrangeInv, ApplyAggr
  PROVE  ArrangeInv'
<1> DEFINE group == LogAttrs(query.group)
           aggrs == CollectAggrs
           arg == [group |-> group, aggrs |-> aggrs]
           out == GroupSchema(group, aggrs)
           q == MkGroupAggr(pool, plan, group, aggrs)
<1>1. /\ step = "aggr"
      /\ \/ Stop("failed") \/ Generate(pool, plan, 0, "projs")
         \/ Generate(q, Len(q), 0, "overflow") \/ Generate(q, Len(q), 0, "projs")
  BY DEF ApplyAggr
<1>2. PICK S : IsPool(pool, S) /\ plan \in 1..Len(pool)
  BY <1>1, Rooted DEF PlanInv, Shaped, Lacking
<1>3. step \in Ordered /\ "projs" \in Clausal /\ "groupAggr" \in Tops
  BY <1>1 DEF Ordered, Naive, Clausal, Tops
<1>4. q = NewOp(pool, "groupAggr", <<plan>>, out, FALSE, arg)
  BY DEF MkGroupAggr
<1>5. CASE Stop("failed")
  BY <1>5, StopArranges DEF Fatal
<1>6. CASE Generate(pool, plan, 0, "projs")
  BY <1>3, <1>6, PassArranges
<1>7. CASE Generate(q, Len(q), 0, "projs")
  <2> DEFINE no == FALSE
  <2>1. q = NewOp(pool, "groupAggr", <<plan>>, out, no, arg)
    BY <1>4
  <2> HIDE DEF q, group, aggrs, arg, out, no
  <2>2. QED
    BY <1>2, <1>3, <1>7, <2>1, TopArranges
<1>8. CASE Generate(q, Len(q), 0, "overflow")
  <2> HIDE DEF q
  <2>1. "overflow" \notin Ordered \cup {"push", "done"}
    BY DEF Ordered, Naive, Transforms
  <2>2. Arranged(q, Len(q), 0, "overflow")
    BY <2>1, NothingArranged
  <2>3. QED
    BY <1>8, <2>2, GenerateArranges
<1>9. QED
  BY <1>1, <1>5, <1>6, <1>7, <1>8

(* The projection. *)
LEMMA ProjsArranges ==
  ASSUME PlanInv, QueryInv, ArrangeInv, DoProjs
  PROVE  ArrangeInv'
<1> DEFINE exprs == [e \in DOMAIN query.proj |-> LogExpr(query.proj[e])]
           arg == [exprs |-> exprs]
           q == MkProject(pool, plan, exprs)
<1>1. /\ step = "projs"
      /\ CASE Unfit <= 0 -> Generate(q, Len(q), 0, "distinct")
           [] Unfit = 1  -> Generate(pool, 0, 0, "distinct")
           [] Unfit > 1  -> Stop("crashed")
  BY DEF DoProjs
<1>2. PICK S : IsPool(pool, S) /\ plan \in 1..Len(pool)
  BY <1>1, Rooted DEF PlanInv, Shaped, Lacking
<1>3. Unfit \in Int
  <2>1. IsList(query.proj)
    BY <1>1 DEF QueryInv, Naive, PartsReady
  <2>2. QED
    BY <2>1, ListElements, QueryConstants DEF Unfit
<1>4. step \in Ordered /\ "distinct" \in Clausal /\ "project" \in Tops
  BY <1>1 DEF Ordered, Naive, Clausal, Tops
<1>5. q = NewOp(pool, "project", <<plan>>, ProjectSchema(exprs), pool[plan].stream, arg)
  BY DEF MkProject
<1> HIDE DEF q, arg, exprs
<1>6. CASE Unfit <= 0
  <2>1. ~(Unfit = 1) /\ ~(Unfit > 1)
    BY <1>3, <1>6
  <2>2. Generate(q, Len(q), 0, "distinct")
    BY <1>1, <1>6, <2>1
  <2>3. QED
    BY <1>2, <1>4, <1>5, <2>2, TopArranges
<1>7. CASE Unfit = 1
  BY <1>1, <1>4, <1>7, PassArranges
<1>8. CASE Unfit > 1
  <2>1. Stop("crashed")
    BY <1>1, <1>3, <1>8
  <2>2. QED
    BY <2>1, StopArranges DEF Fatal
<1>9. QED
  BY <1>3, <1>6, <1>7, <1>8

(* DISTINCT. *)
LEMMA DistinctArranges ==
  ASSUME PlanInv, ArrangeInv, ApplyDistinct
  PROVE  ArrangeInv'
<1> DEFINE q == MkDistinct(pool, plan)
<1>1. /\ step = "distinct"
      /\ \/ Stop("crashed") \/ Stop("failed")
         \/ plan # 0 /\ Generate(q, Len(q), 0, "r2s")
         \/ plan # 0 /\ Generate(pool, plan, 0, "r2s")
  <2>1. CASE query.distinct
    BY <2>1 DEF ApplyDistinct
  <2>2. CASE ~query.distinct
    BY <2>2 DEF ApplyDistinct
  <2>3. QED
    BY <2>1, <2>2
<1>2. step \in Ordered /\ "r2s" \in Clausal /\ "distinct" \in Tops
  BY <1>1 DEF Ordered, Naive, Clausal, Tops
<1>3. CASE Stop("crashed") \/ Stop("failed")
  BY <1>3, StopArranges DEF Fatal
<1>4. CASE plan # 0 /\ Generate(q, Len(q), 0, "r2s")
  <2>1. Lacking(pool, plan, BinOps)
    BY <1>1, <1>4 DEF PlanInv, Shaped
  <2>2. PICK S : IsPool(pool, S) /\ plan \in 1..Len(pool)
    BY <2>1, Rooted DEF Lacking
  <2>3. q = NewOp(pool, "distinct", <<plan>>, pool[plan].out, pool[plan].stream, NoArg)
    BY DEF MkDistinct, CopySchema
  <2> HIDE DEF q
  <2>4. QED
    BY <1>2, <1>4, <2>2, <2>3, TopArranges
<1>5. CASE plan # 0 /\ Generate(pool, plan, 0, "r2s")
  BY <1>2, <1>5, PassArranges
<1>6. QED
  BY <1>1, <1>3, <1>4, <1>5

(* The r2s operator. *)
LEMMA R2SArranges ==
  ASSUME PlanInv, QueryInv, ArrangeInv, ApplyR2SOps
  PROVE  ArrangeInv'
<1> DEFINE q == R2S(pool, plan)
<1>1. /\ step = "r2s"
      /\ IF query.r2s = Absent THEN Generate(pool, plan, 0, "rstreamNow")
         ELSE Generate(q, Len(q), 0, "rstreamNow")
  BY DEF ApplyR2SOps
<1>2. PICK S : IsPool(pool, S) /\ plan \in 1..Len(pool)
  BY <1>1, Rooted DEF PlanInv, Shaped, Lacking
<1>3. step \in Ordered /\ "rstreamNow" \in Clausal
  BY <1>1, ClausalSteps
<1>4. CASE query.r2s = Absent
  BY <1>1, <1>3, <1>4, PassArranges
<1>5. CASE query.r2s # Absent
  <2>1. query.r2s \in {"ISTREAM", "DSTREAM", "RSTREAM"}
    BY <1>1, <1>5 DEF QueryInv, TablesReady, Naive, R2SOps
  <2>2. \E kind \in {"istream", "dstream", "rstream"} :
          q = NewOp(pool, kind, <<plan>>, pool[plan].out, TRUE, NoArg)
    BY <2>1 DEF R2S, MkIstream, MkDstream, MkRstream, CopySchema
  <2>3. Generate(q, Len(q), 0, "rstreamNow")
    BY <1>1, <1>5
  <2> HIDE DEF q
  <2>4. PICK kind \in {"istream", "dstream", "rstream"} :
          q = NewOp(pool, kind, <<plan>>, pool[plan].out, TRUE, NoArg)
    BY <2>2
  <2>5. kind \in Tops
    BY <2>4 DEF Tops, XStreams
  <2> DEFINE always == TRUE
             out == pool[plan].out
  <2>6. q = NewOp(pool, kind, <<plan>>, out, always, NoArg)
    BY <2>4
  <2> HIDE DEF always, out
  <2>7. QED
    BY <1>2, <1>3, <2>3, <2>5, <2>6, TopArranges
<1>6. QED
  BY <1>4, <1>5

(* A union or a difference. *)
LEMMA BinOpArranges ==
  ASSUME QueryInv, GenBinOpPlan
  PROVE  ArrangeInv'
<1>1. PICK q : Generate(q, Len(q), 0, "r2s") /\ TwoTables(q)
  BY BinOpPlan
<1>2. PICK S : IsPool(q, S)
  BY <1>1, Rooted DEF TwoTables, Lacking
<1>3. \A o \in 1..Len(q) : Flat(q[o].kind)
  <2>1. \A kind \in Sources \cup BinOps : Flat(kind)
    BY DEF Sources, BinOps, Flat, Tops, XStreams
  <2>2. QED
    BY <1>1, <2>1 DEF TwoTables
<1>4. Falling(q)
  BY <1>2, <1>3, FlatFalls
<1>5. Arranged(q, Len(q), 0, "r2s")
  BY <1>4, FallingArranged, ClausalSteps
<1>6. QED
  BY <1>1, <1>5, GenerateArranges

(* Every clause of the naive plan. *)
LEMMA GenPlanArranges ==
  ASSUME PlanInv, QueryInv, ArrangeInv, GenPlan
  PROVE  ArrangeInv'
<1>1. CASE JoinTables
  BY <1>1, OneTableArranges, NextTableArranges DEF JoinTables
<1>2. CASE ~JoinTables
  BY <1>2, PredsArranges, AggrArranges, ProjsArranges, DistinctArranges, R2SArranges, BinOpArranges
     DEF GenPlan
<1>3. QED
  BY <1>1, <1>2

-----------------------------------------------------------------------------
(* The transformations.                                                      *)

(* A transformation that keeps the order of the operators. *)
LEMMA TransformArranges ==
  ASSUME ArrangeInv, NEW now \in Transforms \ {"push"}, NEW found, NEW p, NEW r,
         NEW next \in Transforms \ {"push"}, found => Falls(p, pool), Transform(now, found, p, r, next)
  PROVE  ArrangeInv'
<1>1. step \in Ordered /\ next \in Clausal
  BY ClausalSteps DEF Transform
<1>2. CASE found
  <2>1. Generate(p, r, 0, next)
    BY <1>2 DEF Transform
  <2>2. Falling(p)
    BY <1>1, <1>2 DEF ArrangeInv, Arranged, Falls
  <2>3. Arranged(p, r, 0, next)
    BY <1>1, <2>2, FallingArranged
  <2>4. QED
    BY <2>1, <2>3, GenerateArranges
<1>3. CASE ~found
  <2>1. Generate(pool, plan, 0, next)
    BY <1>3 DEF Transform
  <2>2. QED
    BY <1>1, <2>1, PassArranges
<1>4. QED
  BY <1>2, <1>3

(* t_rstreamNow. *)
LEMMA RstreamNowArranges ==
  ASSUME PlanInv, ArrangeInv, RstreamNow
  PROVE  ArrangeInv'
<1> DEFINE now == Descend(Input(plan), UnderRstream)
           found == pool[plan].kind = "rstream" /\ pool[now].kind = "nowWin"
           p == RemoveNow(now)
           r == IF now = Input(plan) THEN Input(now) ELSE Input(plan)
<1>1. Transform("rstreamNow", found, p, r, "streamCross")
  BY DEF RstreamNow
<1>2. Good(pool, plan)
  BY <1>1, NamesOfTransforms DEF Transform, PlanInv, Shaped
<1>3. found => Falls(p, pool)
  BY <1>2, RstreamNowTree
<1> HIDE DEF found, p, r
<1>4. QED
  BY <1>1, <1>3, NamesOfTransforms, TransformArranges

(* t_streamCross. *)
LEMMA StreamCrossArranges ==
  ASSUME PlanInv, ArrangeInv, StreamCross
  PROVE  ArrangeInv'
<1> DEFINE cross == Descend(Input(plan), OverCross)
           found == pool[plan].kind = "rstream" /\ pool[cross].kind = "cross" /\ NowInputs(cross) # {}
           p == Uncap(ReplaceCross(cross))
           r == ReplaceCross(cross)[plan].inputs[1]
<1>1. Transform("streamCross", found, p, r, "removeProject")
  BY DEF StreamCross
<1>2. Good(pool, plan)
  BY <1>1, NamesOfTransforms DEF Transform, PlanInv, Shaped
<1>3. found => Falls(p, pool)
  BY <1>2, StreamCrossTree
<1> HIDE DEF found, p, r
<1>4. QED
  BY <1>1, <1>3, NamesOfTransforms, TransformArranges

(* t_removeProject. *)
LEMMA RemoveProjectArranges ==
  ASSUME PlanInv, ArrangeInv, RemoveProject
  PROVE  ArrangeInv'
<1> DEFINE project == Descend(plan, {"select", "distinct"} \cup XStreams)
           found == pool[project].kind = "project" /\ IsUselessProject(project)
           p == Replace(pool, project, Input(project))
           r == RootAfter(project, Input(project))
<1>1. Transform("removeProject", found, p, r, "crossBinary")
  BY DEF RemoveProject
<1>2. Good(pool, plan)
  BY <1>1, NamesOfTransforms DEF Transform, PlanInv, Shaped
<1>3. found => Falls(p, pool)
  BY <1>2, RemoveProjectTree
<1> HIDE DEF found, p, r
<1>4. QED
  BY <1>1, <1>3, NamesOfTransforms, TransformArranges

(* t_makeCrossBinary and t_makeStreamCrossBinary. *)
LEMMA MakeBinaryArranges ==
  ASSUME PlanInv, ArrangeInv, NEW now \in Transforms \ {"push"}, NEW kind \in Crosses,
         NEW next \in Transforms \ {"push"}, MakeBinary(now, kind, next)
  PROVE  ArrangeInv'
<1> DEFINE cross == Descend(plan, OverCross \cup XStreams)
           found == pool[cross].kind = kind /\ Len(pool[cross].inputs) > 2
           q == Nested(cross)
           p == Replace(q, cross, Len(q))
           r == RootAfter(cross, Len(q))
<1>1. Transform(now, found, p, r, next)
  BY DEF MakeBinary
<1>2. Good(pool, plan)
  BY <1>1 DEF Transform, PlanInv, Shaped, Transforms
<1>3. found => Falls(p, pool)
  BY <1>2, MakeBinaryTree
<1> HIDE DEF found, p, r
<1>4. QED
  BY <1>1, <1>3, TransformArranges

(* The loop of t_pushSelect begins with the topmost selection. *)
LEMMA FindSelectArranges ==
  ASSUME PlanInv, ArrangeInv, FindSelect
  PROVE  ArrangeInv'
<1> DEFINE select == Descend(plan, Tops)
           found == pool[select].kind = "select"
           c == IF found THEN select ELSE 0
           next == IF found THEN "push" ELSE "done"
<1>1. step = "pushSelect" /\ Generate(pool, plan, c, next)
  BY DEF FindSelect, Tops
<1>2. step \in Transforms \ {"push"} /\ step \in Ordered
  BY <1>1, NamesOfTransforms, ClausalSteps
<1>3. Good(pool, plan) /\ Falling(pool)
  BY <1>1, <1>2 DEF PlanInv, Shaped, ArrangeInv, Arranged
<1>4. IF found THEN Pushing(pool, plan, select) ELSE Settled(pool, plan)
  BY <1>3, FirstSelect
<1>5. next \notin Ordered /\ next \notin {"plan", "preds", "aggr"}
  BY DEF Ordered, Naive, Transforms
<1>6. Arranged(pool, plan, c, next)
  <2>1. CASE found
    <3>1. c = select /\ next = "push" /\ Pushing(pool, plan, select)
      BY <1>4, <2>1
    <3> HIDE DEF c, next, select
    <3>2. QED
      BY <1>5, <3>1 DEF Arranged
  <2>2. CASE ~found
    <3>1. next = "done" /\ Settled(pool, plan)
      BY <1>4, <2>2
    <3> HIDE DEF c, next
    <3>2. QED
      BY <1>5, <3>1 DEF Arranged
  <2>3. QED
    BY <2>1, <2>2
<1> HIDE DEF c, next
<1>7. QED
  BY <1>1, <1>6, GenerateArranges

(* A turn of it, which leaves the selection where it is or moves it. *)
LEMMA PushSelectArranges ==
  ASSUME ArrangeInv, PushSelect
  PROVE  ArrangeInv'
<1> DEFINE below == Input(at)
           p == Replace(CopyTo(at, Goal(at)), at, below)
           r == RootAfter(at, below)
           more == pool[below].kind = "select"
           next == IF more THEN "push" ELSE "done"
           cursor == IF more THEN below ELSE 0
<1>1. /\ step = "push"
      /\ IF Goal(at).useful THEN Generate(p, r, cursor, next) ELSE Generate(pool, plan, cursor, next)
  BY DEF PushSelect
<1>2. Pushing(pool, plan, at)
  BY <1>1 DEF ArrangeInv, Arranged
<1>3. next \notin Ordered /\ next \notin {"plan", "preds", "aggr"}
  BY DEF Ordered, Naive, Transforms
<1>4. ASSUME NEW q, NEW root, IF more THEN Pushing(q, root, below) ELSE Settled(q, root)
      PROVE  Arranged(q, root, cursor, next)
  <2>1. CASE more
    <3>1. cursor = below /\ next = "push" /\ Pushing(q, root, below)
      BY <1>4, <2>1
    <3> HIDE DEF cursor, next, below
    <3>2. QED
      BY <1>3, <3>1 DEF Arranged
  <2>2. CASE ~more
    <3>1. next = "done" /\ Settled(q, root)
      BY <1>4, <2>2
    <3> HIDE DEF cursor, next
    <3>2. QED
      BY <1>3, <3>1 DEF Arranged
  <2>3. QED
    BY <2>1, <2>2
<1>5. CASE Goal(at).useful
  <2>1. Generate(p, r, cursor, next)
    BY <1>1, <1>5
  <2>2. p = Replace(CopyTo(at, Goal(at)), at, Input(at)) /\ r = RootAfter(at, Input(at))
    OBVIOUS
  <2>3. IF more THEN Pushing(p, r, below) ELSE Settled(p, r)
    <3> HIDE DEF p, r
    <3>1. QED
      BY <1>2, <1>5, <2>2, MovingTurn
  <2> HIDE DEF p, r, more
  <2>4. Arranged(p, r, cursor, next)
    BY <1>4, <2>3
  <2> HIDE DEF cursor, next
  <2>5. QED
    BY <2>1, <2>4, GenerateArranges
<1>6. CASE ~Goal(at).useful
  <2>1. Generate(pool, plan, cursor, next)
    BY <1>1, <1>6
  <2>2. IF more THEN Pushing(pool, plan, below) ELSE Settled(pool, plan)
    BY <1>2, <1>6, LeftTurn
  <2> HIDE DEF more
  <2>3. Arranged(pool, plan, cursor, next)
    BY <1>4, <2>2
  <2> HIDE DEF cursor, next
  <2>4. QED
    BY <2>1, <2>3, GenerateArranges
<1>7. QED
  BY <1>5, <1>6

(* Every step of the transformations. *)
LEMMA GenLogPlanArranges ==
  ASSUME PlanInv, ArrangeInv, GenLogPlan
  PROVE  ArrangeInv'
<1>1. CASE MakeCrossBinary
  BY <1>1, NamesOfTransforms, MakeBinaryArranges DEF MakeCrossBinary, Crosses
<1>2. CASE MakeStreamCrossBinary
  BY <1>2, NamesOfTransforms, MakeBinaryArranges DEF MakeStreamCrossBinary, Crosses
<1>3. QED
  BY <1>1, <1>2, RstreamNowArranges, StreamCrossArranges, RemoveProjectArranges, FindSelectArranges,
     PushSelectArranges DEF GenLogPlan

-----------------------------------------------------------------------------
(* The other steps.                                                          *)

(* An empty pool is in order, and no plan. *)
LEMMA EmptyArranges ==
  ASSUME pool' = <<>>, step' \notin {"push", "done"}
  PROVE  ArrangeInv'
<1>1. \A o \in 1..Len(<<>>) : FALSE
  BY EmptyPool
<1>2. Falling(<<>>) /\ \A o \in 1..Len(<<>>) : Flat(<<>>[o].kind) /\ <<>>[o].kind \notin Tops
  BY <1>1 DEF Falling
<1> DEFINE p == <<>>
<1>3. pool' = p /\ Falling(p) /\ \A o \in 1..Len(p) : Flat(p[o].kind) /\ p[o].kind \notin Tops
  BY <1>2
<1> HIDE DEF p
<1>4. QED
  BY <1>3 DEF ArrangeInv, Arranged

(* The interpreter leaves the pool empty. *)
LEMMA InterpretArranges ==
  ASSUME PlanInv, InterpretQuery, UNCHANGED planVars
  PROVE  ArrangeInv'
BY InterpretLeaves, EmptyArranges

(* Every step leaves the plan arranged for the next one. *)
LEMMA ArrangeStep == PlanInv /\ QueryInv /\ ArrangeInv /\ [Next]_vars => ArrangeInv'
<1> SUFFICES ASSUME PlanInv, QueryInv, ArrangeInv, [Next]_vars PROVE ArrangeInv'
  OBVIOUS
<1>1. CASE Parse /\ UNCHANGED planVars
  <2>1. step = "idle" /\ step' \in {"exit", "tables"}
    BY <1>1 DEF Parse
  <2>2. pool' = <<>>
    BY <1>1, <2>1 DEF PlanInv, Shaped, planVars
  <2>3. QED
    BY <2>1, <2>2, EmptyArranges
<1>2. CASE Return
  BY <1>2, EmptyArranges DEF Return
<1>3. CASE ProcessEnds \/ UNCHANGED vars
  <2>1. step' = step /\ pool' = pool /\ plan' = plan /\ at' = at
    BY <1>3 DEF ProcessEnds, vars, semVars, planVars
  <2>2. QED
    BY <2>1 DEF ArrangeInv
<1>4. QED
  BY <1>1, <1>2, <1>3, InterpretArranges, GenPlanArranges, GenLogPlanArranges DEF Next

(* The first query finds an empty pool. *)
LEMMA ArrangeStart == Init => ArrangeInv
<1> SUFFICES ASSUME Init PROVE ArrangeInv
  OBVIOUS
<1>1. step = "idle"
  BY DEF Init, SemInit
<1>2. step \notin Ordered \cup {"push", "done"}
  BY <1>1 DEF Ordered, Naive, Transforms
<1>3. QED
  BY <1>2, NothingArranged DEF ArrangeInv

-----------------------------------------------------------------------------
(* The theorem.                                                              *)

(* When genLogPlan is done, no product lets a selection over it pass: each of   *)
(* them got as far down as t_pushSelect can bring it, also the ones that      *)
(* others were pushed past, because no turn brings another product or other   *)
(* attributes under a selection that stays.                                   *)
THEOREM SelectionsPushed == Spec => []SelectsPushed
<1>1. Init => SemInv /\ QueryInv /\ PlanInv /\ ArrangeInv
  BY SemStart, QueryStart, PlanStart, ArrangeStart
<1>2. SemInv /\ QueryInv /\ PlanInv /\ ArrangeInv /\ [Next]_vars
        => (SemInv /\ QueryInv /\ PlanInv /\ ArrangeInv)'
  BY SemStep, QueryStep, PlanStep, ArrangeStep
<1>3. ArrangeInv => SelectsPushed
  <2> SUFFICES ASSUME ArrangeInv, step = "done", NEW cross \in {o \in Tree : pool[o].kind \in Crosses},
                      NEW s \in SelectsOver(cross)
               PROVE  TakingInputs(pool[s].arg, cross) = {}
    BY DEF SelectsPushed
  <2>1. Settled(pool, plan)
    BY DEF ArrangeInv, Arranged
  <2>2. cross \in Tree /\ pool[cross].kind \in Crosses
    OBVIOUS
  <2>3. QED
    BY <2>1, <2>2, SettledPushed
<1>4. QED
  BY <1>1, <1>2, <1>3, PTL DEF Spec
=============================================================================
