------------------------------ MODULE TreeLemmas ------------------------------
(****************************************************************************)
(* The trees of logical operators in their pool, and what each way in which *)
(* LogOp and LogPlanGen change a pool makes of them.                        *)
(****************************************************************************)
EXTENDS PlanTree, DataLemmas

Unary == LogKinds \ (Sources \cup Crosses \cup BinOps)
Fields == {"kind", "inputs", "output", "out", "stream", "arg"}

(* An operator of a pool of n operators whose attributes are in S.            *)
IsOp(op, n, S) ==
  /\ DOMAIN op = Fields
  /\ op.kind \in LogKinds /\ op.stream \in BOOLEAN /\ op.output \in 0..n
  /\ op.inputs \in Seq(1..n) /\ Len(op.inputs) <= MaxInputs
  /\ op.kind \in Unary => Len(op.inputs) = 1
  /\ op.kind \in BinOps => Len(op.inputs) = 2
  /\ op.kind \in Sources => Len(op.inputs) = 0
  /\ op.out \in Seq(S) /\ Len(op.out) <= MaxAttrs

IsPool(p, S) ==
  /\ Len(p) \in Nat /\ p = [o \in 1..Len(p) |-> p[o]]
  /\ \A o \in 1..Len(p) : IsOp(p[o], Len(p), S)

(* The operators L are a tree with root r: the two ends of every edge agree,  *)
(* and h says how high each of them is.                                      *)
Edge(p, L, h, o, c) == c \in L /\ p[c].output = o /\ h[c] < h[o]
IsTree(p, L, h, r) ==
  /\ L \subseteq 1..Len(p) /\ r \in L /\ p[r].output = 0
  /\ h \in [L -> 1..Len(p)]
  /\ \A o \in L : IsInjective(p[o].inputs)
  /\ \A o \in L : \A i \in DOMAIN p[o].inputs : Edge(p, L, h, o, p[o].inputs[i])
  /\ \A o \in L : o # r => p[o].output \in L /\ o \in ToSet(p[p[o].output].inputs)

Schemas(p, L) == \A o \in L : p[o].out = SchemaOf(p, o)

-----------------------------------------------------------------------------
(* Single changes of a pool.                                                 *)
LEMMA PoolOp ==
  ASSUME NEW S, NEW p, IsPool(p, S), NEW o \in 1..Len(p)
  PROVE  /\ IsOp(p[o], Len(p), S) /\ DOMAIN p = 1..Len(p) /\ Len(p) \in Nat
         /\ Len(p[o].inputs) \in Nat /\ DOMAIN p[o].inputs = 1..Len(p[o].inputs)
         /\ \A i \in DOMAIN p[o].inputs : p[o].inputs[i] \in 1..Len(p)
BY DEF IsPool, IsOp

(* What a constructor is given, and the pool it returns.                      *)
NewFits(p, S, kind, inputs, out, stream) ==
  /\ IsPool(p, S) /\ inputs \in Seq(1..Len(p)) /\ Len(inputs) <= MaxInputs
  /\ kind \in LogKinds /\ stream \in BOOLEAN /\ out \in Seq(S) /\ Len(out) <= MaxAttrs
  /\ kind \in Unary => Len(inputs) = 1
  /\ kind \in BinOps => Len(inputs) = 2
  /\ kind \in Sources => Len(inputs) = 0

Made(op, kind, inputs, out, arg) ==
  op.kind = kind /\ op.inputs = inputs /\ op.output = 0 /\ op.out = out /\ op.arg = arg

Grown(q, p, n, S, kind, inputs, out, arg) ==
  /\ IsPool(q, S) /\ n \in Nat /\ Len(p) = n /\ Len(q) = n + 1
  /\ Made(q[n + 1], kind, inputs, out, arg)
  /\ \A o \in 1..n : q[o] = IF o \in ToSet(inputs) THEN [p[o] EXCEPT !.output = n + 1] ELSE p[o]

(* newop: the pool has one operator more, which is the output of its inputs.   *)
Extended(q, p, n, new) ==
  /\ n \in Nat /\ Len(p) = n /\ Len(q) = n + 1 /\ q[n + 1] = new /\ q = [o \in 1..(n + 1) |-> q[o]]
  /\ \A o \in 1..n :
       q[o] = IF o \in ToSet(new.inputs) THEN [p[o] EXCEPT !.output = n + 1] ELSE p[o]

(* newop adds the operator it is asked for, whatever this is. *)
LEMMA NewOpIs ==
  ASSUME NEW S, NEW p, IsPool(p, S), NEW kind, NEW inputs, NEW out, NEW stream, NEW arg
  PROVE  Extended(NewOp(p, kind, inputs, out, stream, arg), p, Len(p),
                  [kind |-> kind, inputs |-> inputs, output |-> 0, out |-> out,
                   stream |-> stream, arg |-> arg])
<1> DEFINE n == Len(p)
           new == [kind |-> kind, inputs |-> inputs, output |-> 0, out |-> out,
                   stream |-> stream, arg |-> arg]
           f == [o \in DOMAIN p |-> IF \E k \in DOMAIN inputs : inputs[k] = o
                                    THEN [p[o] EXCEPT !.output = n + 1] ELSE p[o]]
           q == NewOp(p, kind, inputs, out, stream, arg)
<1>1. n \in Nat /\ DOMAIN p = 1..n /\ new.inputs = inputs
  BY DEF IsPool
<1>2. q = Append(f, new)
  BY DEF NewOp
<1>3. /\ DOMAIN f = 1..n
      /\ \A o \in 1..n : f[o] = IF o \in ToSet(inputs) THEN [p[o] EXCEPT !.output = n + 1] ELSE p[o]
  BY <1>1 DEF ToSet
<1> HIDE DEF f, new, q
<1>4. /\ Len(f) = n /\ f \in Seq({f[o] : o \in 1..n})
  <2>1. f = [o \in 1..n |-> f[o]]
    BY <1>1 DEF f
  <2>2. QED
    BY <1>1, <1>3, <2>1
<1>5. /\ Len(q) = n + 1 /\ q[n + 1] = new /\ q = [o \in 1..(n + 1) |-> q[o]]
      /\ \A o \in 1..n : q[o] = f[o]
  <2> DEFINE X == {f[o] : o \in 1..n} \cup {new}
  <2>1. f \in Seq(X) /\ new \in X
    <3>1. {f[o] : o \in 1..n} \subseteq X
      OBVIOUS
    <3>2. QED
      BY <1>4, <3>1, WiderSeq
  <2> HIDE DEF X
  <2>2. /\ Append(f, new) \in Seq(X) /\ Len(Append(f, new)) = Len(f) + 1
        /\ Append(f, new)[Len(f) + 1] = new
        /\ \A o \in 1..Len(f) : Append(f, new)[o] = f[o]
    BY <2>1
  <2>3. q = [o \in 1..Len(q) |-> q[o]]
    <3>1. q \in Seq(X)
      BY <1>2, <2>2
    <3>2. QED
      BY <3>1
  <2>4. QED
    BY <1>2, <1>4, <2>2, <2>3
<1>6. Extended(q, p, n, new)
  BY <1>1, <1>3, <1>5 DEF Extended
<1>7. QED
  BY <1>6 DEF q, new

(* newop and the assignments of a constructor: one more operator, as it was asked for. *)
LEMMA NewOpType ==
  ASSUME NEW S, NEW p, NEW kind, NEW inputs, NEW out, NEW stream, NEW arg,
         NewFits(p, S, kind, inputs, out, stream)
  PROVE  Grown(NewOp(p, kind, inputs, out, stream, arg), p, Len(p), S, kind, inputs, out, arg)
<1> DEFINE n == Len(p)
           new == [kind |-> kind, inputs |-> inputs, output |-> 0, out |-> out,
                   stream |-> stream, arg |-> arg]
           q == NewOp(p, kind, inputs, out, stream, arg)
<1>1. n \in Nat /\ IsPool(p, S) /\ inputs \in Seq(1..n) /\ new.inputs = inputs
  BY DEF NewFits, IsPool
<1>2. Extended(q, p, n, new)
  BY <1>1, NewOpIs
<1> HIDE DEF q
<1>3. /\ Len(q) = n + 1 /\ q[n + 1] = new /\ q = [o \in 1..(n + 1) |-> q[o]]
      /\ \A o \in 1..n : q[o] = IF o \in ToSet(inputs) THEN [p[o] EXCEPT !.output = n + 1] ELSE p[o]
  BY <1>1, <1>2 DEF Extended
<1> HIDE DEF new
<1>4. /\ \A o \in 0..n : o \in 0..(n + 1)
      /\ \A o \in 1..n : o \in 1..(n + 1)
  BY <1>1
<1>5. IsOp(new, n + 1, S)
  <2>1. inputs \in Seq(1..(n + 1))
    BY <1>1, <1>4, WiderSeq
  <2>2. QED
    BY <1>1, <2>1 DEF new, IsOp, Fields, NewFits
<1>6. ASSUME NEW o \in 1..n PROVE IsOp(q[o], n + 1, S)
  <2>1. IsOp(p[o], n, S)
    BY <1>1 DEF IsPool
  <2>2. p[o].inputs \in Seq(1..(n + 1))
    BY <1>4, <2>1, WiderSeq DEF IsOp
  <2>3. CASE o \in ToSet(inputs)
    <3>1. q[o] = [p[o] EXCEPT !.output = n + 1]
      BY <1>3, <2>3
    <3>2. n + 1 \in 0..(n + 1)
      BY <1>1
    <3>3. QED
      BY <2>1, <2>2, <3>1, <3>2 DEF IsOp, Fields
  <2>4. CASE o \notin ToSet(inputs)
    <3>1. q[o] = p[o]
      BY <1>3, <2>4
    <3>2. QED
      BY <1>4, <2>1, <2>2, <3>1 DEF IsOp
  <2>5. QED
    BY <2>3, <2>4
<1>7. ASSUME NEW o \in 1..(n + 1) PROVE IsOp(q[o], n + 1, S)
  <2>1. o \in 1..n \/ o = n + 1
    BY <1>1
  <2>2. QED
    BY <1>3, <1>5, <1>6, <2>1
<1>8. IsPool(q, S)
  BY <1>1, <1>3, <1>7 DEF IsPool
<1>9. Made(new, kind, inputs, out, arg)
  BY DEF Made, new
<1>10. QED
  BY <1>1, <1>3, <1>8, <1>9 DEF q, Grown

(* Other attributes do no harm.                                               *)
LEMMA WiderPool ==
  ASSUME NEW S, NEW T, S \subseteq T, NEW p, IsPool(p, S) PROVE IsPool(p, T)
<1>1. ASSUME NEW o \in 1..Len(p) PROVE IsOp(p[o], Len(p), T)
  <2>1. IsOp(p[o], Len(p), S)
    BY DEF IsPool
  <2>2. p[o].out \in Seq(T)
    BY <2>1, WiderSeq DEF IsOp
  <2>3. QED
    BY <2>1, <2>2 DEF IsOp
<1>2. QED
  BY <1>1 DEF IsPool

-----------------------------------------------------------------------------
(* Schemas.                                                                  *)

(* A product has the same schema if its inputs have. *)
LEMMA SameJoined ==
  ASSUME NEW p, NEW q, NEW o, DOMAIN q[o].inputs = DOMAIN p[o].inputs,
         \A i \in DOMAIN p[o].inputs : q[q[o].inputs[i]].out = p[p[o].inputs[i]].out
  PROVE  JoinedSchemas(q, o) = JoinedSchemas(p, o)
BY DEF JoinedSchemas

(* The schema of an operator is given by itself and by those of its inputs.   *)
LEMMA SameSchema ==
  ASSUME NEW p, NEW q, NEW o, NEW n, NEW S, IsOp(p[o], n, S),
         q[o].kind = p[o].kind, q[o].inputs = p[o].inputs,
         q[o].arg = p[o].arg, q[o].out = p[o].out,
         \A i \in DOMAIN p[o].inputs : q[p[o].inputs[i]].out = p[p[o].inputs[i]].out
  PROVE  SchemaOf(q, o) = SchemaOf(p, o)
<1>1. JoinedSchemas(q, o) = JoinedSchemas(p, o)
  BY DEF JoinedSchemas
<1>2. p[o].kind \in BinOps => Over(q, o).out = Over(p, o).out
  BY DEF Over, IsOp
<1>3. QED
  BY <1>1, <1>2 DEF SchemaOf

Copying == Unary \ {"project", "groupAggr"}

(* An operator that copies its input's schema has that schema (updateSchema). *)
LEMMA CopiedSchema ==
  ASSUME NEW S, NEW p, NEW o, p[o].kind \in Copying, NEW c, p[o].inputs = <<c>>,
         p[c].out \in Seq(S)
  PROVE  SchemaOf(p, o) = p[c].out
<1>1. [i \in DOMAIN p[o].inputs |-> p[p[o].inputs[i]].out] = <<p[c].out>>
  OBVIOUS
<1>2. JoinedSchemas(p, o) = p[c].out
  BY <1>1, FlatSingle DEF JoinedSchemas
<1>3. p[o].kind \notin Sources \cup BinOps \cup {"project", "groupAggr"}
  BY DEF Copying, Unary
<1>4. QED
  BY <1>2, <1>3 DEF SchemaOf

(* A tree whose operators do not change remains one.                          *)
LEMMA TreeKept ==
  ASSUME NEW S, NEW p, IsPool(p, S), NEW L, NEW h, NEW r, IsTree(p, L, h, r),
         NEW q, Len(q) \in Nat, Len(p) <= Len(q), \A o \in L : q[o] = p[o]
  PROVE  IsTree(q, L, h, r) /\ (Schemas(p, L) => Schemas(q, L))
<1>1. 1..Len(p) \subseteq 1..Len(q)
  BY DEF IsPool
<1>2. IsTree(q, L, h, r)
  <2>1. L \subseteq 1..Len(q) /\ h \in [L -> 1..Len(q)]
    BY <1>1 DEF IsTree
  <2>2. r \in L /\ q[r].output = 0
    BY DEF IsTree
  <2>3. \A o \in L : IsInjective(q[o].inputs)
    BY DEF IsTree
  <2>4. \A o \in L : \A i \in DOMAIN q[o].inputs : Edge(q, L, h, o, q[o].inputs[i])
    BY DEF IsTree, Edge
  <2>5. \A o \in L : o # r => q[o].output \in L /\ o \in ToSet(q[q[o].output].inputs)
    BY DEF IsTree
  <2>6. QED
    BY <2>1, <2>2, <2>3, <2>4, <2>5 DEF IsTree
<1>3. ASSUME Schemas(p, L), NEW o \in L PROVE q[o].out = SchemaOf(q, o)
  <2>1. IsOp(p[o], Len(p), S)
    BY DEF IsTree, IsPool
  <2>2. \A i \in DOMAIN p[o].inputs : p[o].inputs[i] \in L
    BY DEF IsTree, Edge
  <2>3. SchemaOf(q, o) = SchemaOf(p, o)
    BY <2>1, <2>2, SameSchema
  <2>4. QED
    BY <1>3, <2>3 DEF Schemas
<1>4. QED
  BY <1>2, <1>3 DEF Schemas

-----------------------------------------------------------------------------
(* Trees that grow at the root.                                              *)
LEMMA SourceTree ==
  ASSUME NEW q, NEW n \in Nat, Len(q) = n + 1, q[n + 1].kind \in Sources,
         q[n + 1].inputs = <<>>, q[n + 1].output = 0
  PROVE  IsTree(q, {n + 1}, [o \in {n + 1} |-> 1], n + 1) /\ Schemas(q, {n + 1})
<1>1. n + 1 \in 1..(n + 1) /\ 1 \in 1..(n + 1)
  OBVIOUS
<1>2. IsInjective(<<>>) /\ DOMAIN <<>> = {}
  BY DEF IsInjective
<1>3. IsTree(q, {n + 1}, [o \in {n + 1} |-> 1], n + 1)
  <2> DEFINE h == [o \in {n + 1} |-> 1]
  <2>1. h \in [{n + 1} -> 1..Len(q)]
    BY <1>1
  <2> HIDE DEF h
  <2>2. QED
    BY <1>1, <1>2, <2>1 DEF IsTree
<1>4. q[n + 1].out = SchemaOf(q, n + 1)
  BY DEF SchemaOf, Sources, BinOps
<1>5. QED
  BY <1>3, <1>4 DEF Schemas

FitsOver(p, r, kind, out, arg) ==
  \/ kind \in Copying /\ out = p[r].out
  \/ kind = "project" /\ out = ProjectSchema(arg.exprs)
  \/ kind = "groupAggr" /\ out = GroupSchema(arg.group, arg.aggrs)

(* A tree under a new root, which is one higher than the one it had.           *)
Capping(q, p, S, L, h, r, kind, out, arg) ==
  LET n == Len(p)
      M == L \cup {n + 1}
  IN  /\ Grown(q, p, n, S, kind, <<r>>, out, arg)
      /\ \E g : IsTree(q, M, g, n + 1) /\ g[n + 1] = h[r] + 1
      /\ Schemas(q, M)

(* An operator over the root of a tree makes a tree with that operator as its root. *)
LEMMA CapTree ==
  ASSUME NEW S, NEW p, NEW L, NEW h, NEW r, IsTree(p, L, h, r), Schemas(p, L),
         NEW kind \in Unary, NEW out, NEW stream, NEW arg,
         NewFits(p, S, kind, <<r>>, out, stream), FitsOver(p, r, kind, out, arg),
         NEW q, q = NewOp(p, kind, <<r>>, out, stream, arg), NEW n, n = Len(p)
  PROVE  Capping(q, p, S, L, h, r, kind, out, arg)
<1> DEFINE M == L \cup {n + 1}
           g == [o \in M |-> IF o = n + 1 THEN h[r] + 1 ELSE h[o]]
<1>1. r \in 1..n /\ n \in Nat /\ IsPool(p, S)
  BY DEF IsTree, IsPool, NewFits
<1>2. ToSet(<<r>>) = {r}
  BY <1>1 DEF ToSet
<1>3. Grown(q, p, n, S, kind, <<r>>, out, arg)
  BY NewOpType
<1>4. /\ IsPool(q, S) /\ Len(q) = n + 1 /\ Made(q[n + 1], kind, <<r>>, out, arg)
      /\ \A o \in 1..n : q[o] = IF o = r THEN [p[o] EXCEPT !.output = n + 1] ELSE p[o]
  BY <1>2, <1>3 DEF Grown
<1> HIDE DEF g
<1>5. \A o \in 1..n : o # n + 1 /\ o \in 1..(n + 1)
  BY <1>1
<1>6. \A o \in L : IsOp(p[o], n, S) /\ o \in 1..n
  BY <1>1 DEF IsTree, IsPool
<1>7. ASSUME NEW o \in L
      PROVE  /\ q[o].kind = p[o].kind /\ q[o].inputs = p[o].inputs
             /\ q[o].arg = p[o].arg /\ q[o].out = p[o].out
             /\ q[o].output = IF o = r THEN n + 1 ELSE p[o].output
  BY <1>4, <1>6 DEF IsOp, Fields
<1>8. /\ q[n + 1].inputs = <<r>> /\ q[n + 1].output = 0 /\ q[n + 1].kind = kind
      /\ q[n + 1].out = out /\ q[n + 1].arg = arg
  BY <1>4 DEF Made
<1>9. IsTree(q, M, g, n + 1) /\ g[n + 1] = h[r] + 1
  <2>1. M \subseteq 1..(n + 1)
    BY <1>1, <1>5, <1>6
  <2>2. g \in [M -> 1..(n + 1)] /\ g[n + 1] = h[r] + 1 /\ \A o \in L : g[o] = h[o] /\ g[o] \in 1..n
    <3>1. h \in [L -> 1..n]
      BY DEF IsTree
    <3>2. \A o \in L : o # n + 1 /\ h[o] \in 1..n
      BY <1>5, <1>6, <3>1
    <3>3. g[n + 1] = h[r] + 1 /\ r \in L /\ \A o \in L : g[o] = h[o]
      BY <3>2 DEF g, IsTree
    <3>4. \A o \in M : g[o] \in 1..(n + 1)
      BY <1>1, <1>5, <3>2, <3>3
    <3>5. QED
      BY <3>2, <3>3, <3>4 DEF g
  <2>3. \A o \in M : IsInjective(q[o].inputs)
    <3>1. IsInjective(<<r>>)
      BY DEF IsInjective
    <3>2. QED
      <4>1. \A o \in L : IsInjective(q[o].inputs)
        BY <1>7 DEF IsTree
      <4>2. QED
        BY <1>8, <3>1, <4>1
  <2>4. ASSUME NEW o \in L, NEW i \in DOMAIN q[o].inputs PROVE Edge(q, M, g, o, q[o].inputs[i])
    <3>1. Edge(p, L, h, o, p[o].inputs[i]) /\ q[o].inputs = p[o].inputs
      BY <1>7, <2>4 DEF IsTree
    <3>2. p[r].output = 0 /\ o # 0
      BY <1>6 DEF IsTree
    <3>3. p[o].inputs[i] # r
      BY <3>1, <3>2 DEF Edge
    <3>4. QED
      BY <1>7, <2>2, <3>1, <3>3 DEF Edge
  <2>5. ASSUME NEW i \in DOMAIN q[n + 1].inputs PROVE Edge(q, M, g, n + 1, q[n + 1].inputs[i])
    <3>1. q[n + 1].inputs[i] = r
      BY <1>4, <1>8, <2>5
    <3>2. r \in L /\ q[r].output = n + 1 /\ g[r] \in 1..n /\ g[r] = h[r]
      BY <1>7, <2>2 DEF IsTree
    <3>3. QED
      BY <1>1, <2>2, <3>1, <3>2 DEF Edge
  <2>6. ASSUME NEW o \in L PROVE q[o].output \in M /\ o \in ToSet(q[q[o].output].inputs)
    <3>1. CASE o = r
      BY <1>2, <1>4, <1>7, <1>8, <3>1
    <3>2. CASE o # r
      <4>1. p[o].output \in L /\ o \in ToSet(p[p[o].output].inputs)
        BY <3>2 DEF IsTree
      <4>2. q[o].output = p[o].output /\ q[p[o].output].inputs = p[p[o].output].inputs
        BY <1>7, <3>2, <4>1
      <4>3. QED
        BY <4>1, <4>2
    <3>3. QED
      BY <3>1, <3>2
  <2>7. n + 1 \in M /\ q[n + 1].output = 0 /\ \A o \in M : o # n + 1 => o \in L
    BY <1>4, <1>8
  <2>8. Len(q) = n + 1 /\ n + 1 \in M
    BY <1>4
  <2> HIDE DEF M
  <2>9. \A o \in M : \A i \in DOMAIN q[o].inputs : Edge(q, M, g, o, q[o].inputs[i])
    BY <2>4, <2>5, <2>7
  <2>10. \A o \in M : o # n + 1 => q[o].output \in M /\ o \in ToSet(q[q[o].output].inputs)
    BY <2>6, <2>7
  <2>11. QED
    BY <2>1, <2>2, <2>3, <2>7, <2>8, <2>9, <2>10 DEF IsTree
<1>10. ASSUME NEW o \in L PROVE q[o].out = SchemaOf(q, o)
  <2>1. \A i \in DOMAIN p[o].inputs : p[o].inputs[i] \in L
    BY DEF IsTree, Edge
  <2>2. SchemaOf(q, o) = SchemaOf(p, o)
    BY <1>6, <1>7, <2>1, SameSchema
  <2>3. QED
    BY <1>7, <2>2 DEF Schemas
<1>11. q[n + 1].out = SchemaOf(q, n + 1)
  <2>1. CASE kind \in Copying
    <3>1. out = p[r].out
      BY <2>1 DEF FitsOver, Copying
    <3>2. q[r].out = out /\ q[n + 1].kind = kind /\ q[n + 1].inputs = <<r>> /\ q[n + 1].out = out
      BY <1>4, <1>7, <1>8, <3>1 DEF IsTree
    <3>3. q[r].out \in Seq(S)
      BY <3>2 DEF NewFits
    <3>4. QED
      BY <2>1, <3>2, <3>3, CopiedSchema
  <2>2. CASE kind \notin Copying
    BY <1>4, <1>8, <2>2 DEF FitsOver, SchemaOf, Sources, BinOps
  <2>3. QED
    BY <2>1, <2>2
<1>12. Schemas(q, M)
  BY <1>9, <1>10, <1>11 DEF Schemas
<1>13. QED
  BY <1>3, <1>9, <1>12 DEF Capping

TwoChanged(q, p, x, r, a, b) ==
  /\ Len(q) = Len(p) /\ q = [o \in 1..Len(p) |-> q[o]]
  /\ q[x] = a /\ q[r] = b /\ \A o \in (1..Len(p)) \ {x, r} : q[o] = p[o]

(* Two operators of the pool are assigned, the others stay. *)
LEMMA TwoChanges ==
  ASSUME NEW S, NEW p, IsPool(p, S), NEW x \in 1..Len(p), NEW r \in 1..Len(p), x # r, NEW a, NEW b
  PROVE  TwoChanged([p EXCEPT ![x] = a, ![r] = b], p, x, r, a, b)
<1> DEFINE q == [p EXCEPT ![x] = a, ![r] = b]
<1>1. DOMAIN p = 1..Len(p) /\ Len(p) \in Nat
  BY DEF IsPool
<1>2. DOMAIN q = 1..Len(p)
  BY <1>1
<1>3. q = [o \in 1..Len(p) |-> q[o]]
  BY <1>1
<1>4. Len(q) = Len(p)
  BY <1>1, <1>2
<1>5. QED
  BY <1>1, <1>3, <1>4 DEF TwoChanged

(* An input more for a product.                                               *)
Added(q, p, x, r) ==
  /\ Len(q) = Len(p)
  /\ q[x].kind = p[x].kind /\ q[x].inputs = Append(p[x].inputs, r) /\ q[x].output = p[x].output
  /\ q[x].out = p[x].out \o p[r].out /\ q[x].arg = p[x].arg
  /\ q[r] = [p[r] EXCEPT !.output = x]
  /\ \A o \in (1..Len(p)) \ {x, r} : q[o] = p[o]

Addable(p, x, r) ==
  /\ x \in 1..Len(p) /\ r \in 1..Len(p) /\ x # r /\ p[x].kind \in Crosses
  /\ Len(p[x].inputs) < MaxInputs /\ Len(p[x].out) + Len(p[r].out) <= MaxAttrs

(* A product gets one more input, whose output it becomes (cross_add_input). *)
LEMMA AddInput ==
  ASSUME NEW S, NEW p, NEW x, NEW r, IsPool(p, S), Addable(p, x, r),
         NEW q, q = CrossAddInput(p, x, r) \/ q = StreamCrossAddInput(p, x, r)
  PROVE  IsPool(q, S) /\ Added(q, p, x, r)
<1>1. /\ x \in 1..Len(p) /\ r \in 1..Len(p) /\ x # r /\ Len(p) \in Nat /\ DOMAIN p = 1..Len(p)
      /\ IsOp(p[x], Len(p), S) /\ IsOp(p[r], Len(p), S)
  BY DEF Addable, IsPool
<1> DEFINE a1 == [p[x] EXCEPT !.inputs = Append(@, r), !.out = @ \o p[r].out,
                              !.stream = @ /\ p[r].stream]
           a2 == [p[x] EXCEPT !.inputs = Append(@, r), !.out = @ \o p[r].out]
           b == [p[r] EXCEPT !.output = x]
<1>2. PICK a \in {a1, a2} : q = [p EXCEPT ![x] = a, ![r] = b]
  <2>1. CASE q = CrossAddInput(p, x, r)
    BY <1>1, <2>1 DEF CrossAddInput
  <2>2. CASE q = StreamCrossAddInput(p, x, r)
    BY <1>1, <2>2 DEF StreamCrossAddInput
  <2>3. QED
    BY <2>1, <2>2
<1>3. /\ DOMAIN a = Fields /\ a.kind = p[x].kind /\ a.inputs = Append(p[x].inputs, r)
      /\ a.out = p[x].out \o p[r].out /\ a.output = p[x].output /\ a.arg = p[x].arg
  BY <1>1 DEF IsOp, Fields
<1>4. a.stream \in BOOLEAN
  BY <1>1 DEF IsOp, Fields
<1> HIDE DEF a1, a2, b
<1>5. TwoChanged(q, p, x, r, a, b)
  BY <1>1, <1>2, TwoChanges
<1>6. IsOp(q[x], Len(p), S)
  <2>1. q[x].inputs \in Seq(1..Len(p)) /\ Len(q[x].inputs) <= MaxInputs
    <3> DEFINE s == p[x].inputs
    <3>1. s \in Seq(1..Len(p)) /\ Len(s) < MaxInputs
      BY <1>1 DEF IsOp, Addable
    <3>2. q[x].inputs = Append(s, r)
      BY <1>3, <1>5 DEF TwoChanged
    <3> HIDE DEF s
    <3>3. Append(s, r) \in Seq(1..Len(p)) /\ Len(Append(s, r)) = Len(s) + 1 /\ Len(s) \in Nat
      BY <1>1, <3>1
    <3>4. QED
      BY <3>1, <3>2, <3>3, InputsAssumption
  <2>2. q[x].out \in Seq(S) /\ Len(q[x].out) <= MaxAttrs
    <3>1. p[x].out \in Seq(S) /\ p[r].out \in Seq(S) /\ Len(p[x].out) + Len(p[r].out) <= MaxAttrs
      BY <1>1 DEF IsOp, Addable
    <3>2. q[x].out = p[x].out \o p[r].out
      BY <1>3, <1>5 DEF TwoChanged
    <3> HIDE DEF a1, a2
    <3>3. p[x].out \o p[r].out \in Seq(S) /\ Len(p[x].out \o p[r].out) = Len(p[x].out) + Len(p[r].out)
      BY <3>1, Concat
    <3>4. QED
      BY <3>1, <3>2, <3>3
  <2>3. q[x].kind \in Crosses
    BY <1>3, <1>5 DEF Addable, TwoChanged
  <2>4. q[x].kind \notin Unary /\ q[x].kind \notin BinOps /\ q[x].kind \notin Sources
    BY <2>3 DEF Crosses, Unary, BinOps, Sources
  <2>5. q[x].output \in 0..Len(p) /\ q[x].kind \in LogKinds
    BY <1>1, <1>3, <1>5 DEF IsOp, TwoChanged
  <2>6. QED
    BY <1>3, <1>4, <1>5, <2>1, <2>2, <2>4, <2>5 DEF IsOp, TwoChanged
<1>7. IsOp(q[r], Len(p), S)
  <2>1. q[r] = [p[r] EXCEPT !.output = x] /\ x \in 0..Len(p)
    BY <1>1, <1>5 DEF b, TwoChanged
  <2>2. QED
    BY <1>1, <2>1 DEF IsOp, Fields
<1>8. \A o \in 1..Len(p) : IsOp(q[o], Len(p), S)
  BY <1>5, <1>6, <1>7 DEF IsPool, TwoChanged
<1>9. QED
  BY <1>1, <1>3, <1>5, <1>8 DEF IsPool, Added, b, TwoChanged

(* Every operator but the root is lower than its parent, which has it as input. *)
LEMMA ParentOf ==
  ASSUME NEW p, NEW L, NEW h, NEW r, IsTree(p, L, h, r), NEW o \in L, o # r
  PROVE  /\ p[o].output \in L /\ h[o] < h[p[o].output]
         /\ \E i \in DOMAIN p[p[o].output].inputs : p[p[o].output].inputs[i] = o
<1>1. p[o].output \in L /\ o \in ToSet(p[p[o].output].inputs)
  BY DEF IsTree
<1>2. PICK i \in DOMAIN p[p[o].output].inputs : p[p[o].output].inputs[i] = o
  BY <1>1 DEF ToSet
<1>3. Edge(p, L, h, p[o].output, p[p[o].output].inputs[i])
  BY <1>1 DEF IsTree
<1>4. QED
  BY <1>1, <1>2, <1>3 DEF Edge

(* The schema of a product with one input more.                               *)
LEMMA AddedSchema ==
  ASSUME NEW S, NEW p, NEW q, IsPool(p, S), NEW x, NEW r, Added(q, p, x, r), Addable(p, x, r),
         \A i \in DOMAIN p[x].inputs : p[x].inputs[i] # x, p[x].out = SchemaOf(p, x)
  PROVE  q[x].out = SchemaOf(q, x)
<1> DEFINE n == Len(p)
           ss == [i \in DOMAIN p[x].inputs |-> p[p[x].inputs[i]].out]
           tt == [i \in DOMAIN q[x].inputs |-> q[q[x].inputs[i]].out]
<1>1. /\ n \in Nat /\ x \in 1..n /\ r \in 1..n /\ x # r
      /\ \A o \in 1..n : IsOp(p[o], n, S)
      /\ \A o \in 1..n : o # x => q[o].out = p[o].out
      /\ q[x].inputs = Append(p[x].inputs, r) /\ q[x].out = p[x].out \o p[r].out
  <2>1. n \in Nat /\ x \in 1..n /\ r \in 1..n /\ x # r /\ \A o \in 1..n : IsOp(p[o], n, S)
    BY DEF Addable, IsPool
  <2>2. \A o \in 1..n : o # x => q[o].out = p[o].out
    <3>1. \A o \in 1..n : DOMAIN p[o] = Fields
      BY <2>1 DEF IsOp
    <3>2. q[r] = [p[r] EXCEPT !.output = x] /\ \A o \in (1..n) \ {x, r} : q[o] = p[o]
      BY DEF Added
    <3>3. q[r].out = p[r].out
      BY <2>1, <3>1, <3>2 DEF Fields
    <3>4. QED
      BY <3>2, <3>3
  <2>3. QED
    BY <2>1, <2>2 DEF Added
<1>2. /\ p[x].inputs \in Seq(1..n)
      /\ \A i \in DOMAIN p[x].inputs : p[x].inputs[i] \in 1..n /\ p[x].inputs[i] # x
  <2>1. p[x].inputs \in Seq(1..n)
    BY <1>1 DEF IsOp
  <2>2. QED
    BY <2>1
<1>3. ss \in Seq(Seq(S)) /\ p[r].out \in Seq(S)
  <2>1. \A o \in 1..n : p[o].out \in Seq(S)
    BY <1>1 DEF IsOp
  <2>2. \A i \in DOMAIN p[x].inputs : p[p[x].inputs[i]].out \in Seq(S)
    BY <1>1, <1>2, <2>1
  <2> DEFINE Q == Seq(S)
             m == Len(p[x].inputs)
  <2>3. m \in Nat /\ ss = [i \in 1..m |-> ss[i]] /\ \A i \in 1..m : ss[i] \in Q
    BY <1>2, <2>2
  <2> HIDE DEF Q, m, ss
  <2>4. ss \in Seq(Q)
    BY <2>3
  <2>5. QED
    BY <1>1, <2>1, <2>4 DEF Q
<1>4. tt = Append(ss, p[r].out)
  <2>1. /\ \A i \in DOMAIN p[x].inputs : q[x].inputs[i] = p[x].inputs[i] /\ i \in DOMAIN q[x].inputs
        /\ DOMAIN q[x].inputs = 1..(Len(p[x].inputs) + 1)
        /\ q[x].inputs[Len(p[x].inputs) + 1] = r
    BY <1>1, <1>2
  <2>2. \A i \in DOMAIN p[x].inputs : tt[i] = ss[i]
    BY <1>1, <1>2, <2>1
  <2>3. q[r].out = p[r].out /\ tt[Len(p[x].inputs) + 1] = q[r].out
    BY <1>1, <1>2, <2>1
  <2>4. /\ DOMAIN tt = 1..(Len(p[x].inputs) + 1) /\ DOMAIN ss = 1..Len(p[x].inputs)
        /\ Len(p[x].inputs) \in Nat /\ Len(ss) = Len(p[x].inputs)
    BY <1>2, <2>1
  <2>5. tt = [i \in 1..(Len(p[x].inputs) + 1) |-> tt[i]]
    BY <2>4
  <2>6. ss \in Seq(Seq(S)) /\ p[r].out \in Seq(S)
    BY <1>3, SMTT(40)
  <2> DEFINE m == Len(p[x].inputs)
             Q == Seq(S)
             e == p[r].out
  <2>7. /\ m \in Nat /\ tt = [i \in 1..(m + 1) |-> tt[i]] /\ DOMAIN ss = 1..m /\ Len(ss) = m
        /\ \A i \in 1..m : tt[i] = ss[i]
        /\ tt[m + 1] = e /\ ss \in Seq(Q) /\ e \in Q
    <3>1. p[r].out = q[r].out /\ \A i \in DOMAIN ss : tt[i] = ss[i]
      BY <1>2, <2>2, <2>3, ZenonT(60)
    <3> HIDE DEF tt, ss
    <3>2. QED
      BY <2>3, <2>4, <2>5, <2>6, <3>1, ZenonT(60)
  <2> HIDE DEF tt, ss, m, Q, e
  <2>8. tt = Append(ss, e)
    <3>1. Appended(tt, ss, e)
      BY <2>7 DEF Appended
    <3>2. ss \in Seq(Q) /\ e \in Q
      BY <2>7
    <3>3. QED
      BY ONLY <3>1, <3>2, AppendIs
  <2>9. QED
    BY <2>8 DEF e
<1> HIDE DEF ss, tt
<1>5. FlattenSeq(tt) = FlattenSeq(ss) \o p[r].out
  BY <1>3, <1>4, FlatAppend
<1>6. p[x].kind \in Crosses /\ q[x].kind = p[x].kind
  BY <1>1 DEF Addable, Added
<1>7. SchemaOf(p, x) = FlattenSeq(ss) /\ SchemaOf(q, x) = FlattenSeq(tt)
  BY <1>6 DEF SchemaOf, Crosses, Sources, BinOps, JoinedSchemas, ss, tt
<1>8. p[x].out = SchemaOf(p, x)
  OBVIOUS
<1>9. QED
  BY <1>1, <1>5, <1>7, <1>8

(* A tree under the product that is the root of another one.                  *)
LEMMA CrossTree ==
  ASSUME NEW S, NEW p, NEW q, IsPool(p, S), NEW x, NEW r, Added(q, p, x, r), Addable(p, x, r),
         NEW L, NEW h, IsTree(p, L, h, x), Schemas(p, L),
         NEW M, NEW g, IsTree(p, M, g, r), Schemas(p, M), L \cap M = {}, g[r] < Len(p)
  PROVE  (\E f : IsTree(q, L \cup M, f, x)) /\ Schemas(q, L \cup M)
<1> DEFINE n == Len(p)
           f == [o \in L \cup M |-> IF o = x THEN n ELSE IF o \in L THEN h[o] ELSE g[o]]
<1>1. /\ n \in Nat /\ x \in L /\ r \in M /\ x # r /\ r \notin L /\ x \notin M
      /\ L \subseteq 1..n /\ M \subseteq 1..n /\ x \in 1..n /\ r \in 1..n
  BY DEF IsTree, IsPool
<1>2. \A o \in 1..n : IsOp(p[o], n, S)
  BY DEF IsPool
<1>3. /\ Len(q) = n
      /\ \A o \in 1..n : /\ q[o].kind = p[o].kind /\ q[o].arg = p[o].arg
                         /\ q[o].output = IF o = r THEN x ELSE p[o].output
                         /\ o # x => q[o].inputs = p[o].inputs /\ q[o].out = p[o].out
      /\ q[x].inputs = Append(p[x].inputs, r) /\ q[x].out = p[x].out \o p[r].out
  <2>1. DOMAIN p = 1..n /\ \A o \in 1..n : DOMAIN p[o] = Fields
    BY <1>2 DEF IsPool, IsOp
  <2>2. Len(q) = n
    BY DEF Added, IsPool
  <2>3. q[r] = [p[r] EXCEPT !.output = x] /\ \A o \in (1..n) \ {x, r} : q[o] = p[o]
    BY DEF Added
  <2>4. /\ q[x].kind = p[x].kind /\ q[x].arg = p[x].arg /\ q[x].output = p[x].output
        /\ q[x].inputs = Append(p[x].inputs, r) /\ q[x].out = p[x].out \o p[r].out
    BY DEF Added
  <2>5. /\ q[r].kind = p[r].kind /\ q[r].arg = p[r].arg /\ q[r].output = x
        /\ q[r].inputs = p[r].inputs /\ q[r].out = p[r].out
    BY <1>1, <2>1, <2>3 DEF Fields
  <2>6. QED
    BY <1>1, <2>2, <2>3, <2>4, <2>5
<1>4. PICK k : /\ DOMAIN q[x].inputs = DOMAIN p[x].inputs \cup {k} /\ k \notin DOMAIN p[x].inputs
               /\ \A i \in DOMAIN p[x].inputs : q[x].inputs[i] = p[x].inputs[i]
               /\ q[x].inputs[k] = r
  <2> DEFINE m == Len(p[x].inputs)
  <2>1. p[x].inputs \in Seq(1..n)
    BY <1>1, <1>2 DEF IsOp
  <2>2. /\ DOMAIN q[x].inputs = DOMAIN p[x].inputs \cup {m + 1} /\ m + 1 \notin DOMAIN p[x].inputs
        /\ \A i \in DOMAIN p[x].inputs : q[x].inputs[i] = p[x].inputs[i]
        /\ q[x].inputs[m + 1] = r
    <3>1. ASSUME NEW s \in Seq(1..n), NEW t, t = Append(s, r)
          PROVE  /\ DOMAIN t = DOMAIN s \cup {Len(s) + 1} /\ Len(s) + 1 \notin DOMAIN s
                 /\ \A i \in DOMAIN s : t[i] = s[i]
                 /\ t[Len(s) + 1] = r
      BY <1>1, <3>1
    <3>2. q[x].inputs = Append(p[x].inputs, r)
      BY <1>3
    <3>3. QED
      BY <2>1, <3>1, <3>2
  <2>3. QED
    BY <2>2
<1>5. /\ \A o \in L : h[o] \in 1..n /\ (o # x => h[o] < n)
      /\ \A o \in M : g[o] \in 1..n /\ g[o] < n
  <2>1. \A o \in L : h[o] \in 1..n
    BY DEF IsTree
  <2>2. \A o \in M : g[o] \in 1..n
    BY DEF IsTree
  <2>3. ASSUME NEW o \in L, o # x PROVE h[o] < n
    <3>1. p[o].output \in L /\ h[o] < h[p[o].output]
      BY <2>3, ParentOf
    <3>2. QED
      BY <1>1, <2>1, <3>1
  <2>4. ASSUME NEW o \in M, o # r PROVE g[o] < n
    <3>1. p[o].output \in M /\ g[o] < g[p[o].output]
      BY <2>4, ParentOf
    <3>2. QED
      BY <1>1, <2>2, <3>1
  <2>5. QED
    BY <2>1, <2>2, <2>3, <2>4
<1>6. /\ \A o \in L \cup M : f[o] \in 1..n
      /\ f[x] = n /\ \A o \in (L \cup M) \ {x} : f[o] = IF o \in L THEN h[o] ELSE g[o]
      /\ f \in [L \cup M -> 1..n]
  BY <1>1, <1>5
<1> HIDE DEF f, n
<1>7. IsTree(q, L \cup M, f, x)
  <2>1. \A o \in L \cup M : IsInjective(q[o].inputs)
    <3>1. IsInjective(q[x].inputs)
      <4>1. IsInjective(p[x].inputs) /\ \A i \in DOMAIN p[x].inputs : p[x].inputs[i] \in L
        BY <1>1 DEF IsTree, Edge
      <4>2. QED
        BY <1>1, <1>4, <4>1 DEF IsInjective
    <3>2. \A o \in (L \cup M) \ {x} : IsInjective(q[o].inputs)
      BY <1>1, <1>3 DEF IsTree
    <3>3. QED
      BY <3>1, <3>2
  <2>2. ASSUME NEW o \in L \cup M, NEW i \in DOMAIN q[o].inputs
        PROVE  Edge(q, L \cup M, f, o, q[o].inputs[i])
    <3>1. CASE o = x /\ q[o].inputs[i] = r
      BY <1>1, <1>3, <1>5, <1>6, <3>1 DEF Edge
    <3>2. CASE o = x /\ q[o].inputs[i] # r
      <4>1. i \in DOMAIN p[x].inputs /\ q[o].inputs[i] = p[x].inputs[i]
        <5>1. i \in DOMAIN q[x].inputs /\ q[x].inputs[i] # r
          BY <2>2, <3>2
        <5>2. QED
          BY <1>4, <3>2, <5>1
      <4>2. Edge(p, L, h, x, p[x].inputs[i])
        BY <1>1, <4>1 DEF IsTree
      <4>3. p[x].inputs[i] \in L /\ p[x].inputs[i] # x
        BY <1>5, <4>2 DEF Edge
      <4>4. QED
        <5> DEFINE c == p[x].inputs[i]
        <5>1. c \in L /\ c # x /\ c # r /\ p[c].output = x /\ h[c] < n /\ c \in 1..n
          BY <1>1, <1>5, <3>2, <4>1, <4>2, <4>3 DEF Edge
        <5>2. q[c].output = x /\ f[c] = h[c] /\ f[x] = n
          BY <1>3, <1>6, <5>1
        <5>3. QED
          BY <3>2, <4>1, <5>1, <5>2 DEF Edge
    <3>3. CASE o \in L \ {x}
      <4>1. Edge(p, L, h, o, p[o].inputs[i]) /\ q[o].inputs = p[o].inputs
        BY <1>1, <1>3, <2>2, <3>3 DEF IsTree
      <4>2. p[x].output = 0 /\ o # 0
        BY <1>1, <3>3 DEF IsTree
      <4>3. p[o].inputs[i] # x /\ p[o].inputs[i] # r /\ p[o].inputs[i] \in L
        BY <1>1, <4>1, <4>2 DEF Edge
      <4>4. QED
        <5> DEFINE c == p[o].inputs[i]
        <5>1. c \in L /\ c # x /\ c # r /\ p[c].output = o /\ h[c] < h[o] /\ c \in 1..n
          BY <1>1, <4>1, <4>3 DEF Edge
        <5>2. q[c].output = o /\ f[c] = h[c] /\ f[o] = h[o]
          BY <1>3, <1>6, <3>3, <5>1
        <5>3. QED
          BY <3>3, <4>1, <5>1, <5>2 DEF Edge
    <3>4. CASE o \in M
      <4>1. Edge(p, M, g, o, p[o].inputs[i]) /\ q[o].inputs = p[o].inputs
        BY <1>1, <1>3, <2>2, <3>4 DEF IsTree
      <4>2. p[r].output = 0 /\ o # 0
        BY <1>1, <3>4 DEF IsTree
      <4>3. p[o].inputs[i] # r /\ p[o].inputs[i] # x /\ p[o].inputs[i] \in M
        BY <1>1, <4>1, <4>2 DEF Edge
      <4>4. o \notin L /\ p[o].inputs[i] \notin L
        BY <3>4, <4>3
      <4>5. QED
        <5> DEFINE c == p[o].inputs[i]
        <5>1. c \in M /\ c # x /\ c # r /\ p[c].output = o /\ g[c] < g[o] /\ c \in 1..n
          BY <1>1, <4>1, <4>3 DEF Edge
        <5>2. q[c].output = o /\ f[c] = g[c] /\ f[o] = g[o]
          BY <1>1, <1>3, <1>6, <3>4, <4>3, <4>4, <5>1
        <5>3. QED
          BY <3>4, <4>1, <5>1, <5>2 DEF Edge
    <3>5. QED
      BY <3>1, <3>2, <3>3, <3>4
  <2>3. ASSUME NEW o \in L \cup M, o # x
        PROVE  q[o].output \in L \cup M /\ o \in ToSet(q[q[o].output].inputs)
    <3>1. CASE o = r
      <4>1. q[o].output = x
        BY <1>1, <1>3, <3>1
      <4>2. r \in ToSet(q[x].inputs)
        BY <1>4 DEF ToSet
      <4>3. QED
        BY <1>1, <3>1, <4>1, <4>2
    <3>2. CASE o # r
      <4>1. /\ q[o].output = p[o].output /\ p[o].output \in L \cup M
            /\ o \in ToSet(p[p[o].output].inputs)
        BY <1>1, <1>3, <2>3, <3>2 DEF IsTree
      <4>2. CASE p[o].output = x
        <5>1. \A c \in ToSet(p[x].inputs) : c \in ToSet(q[x].inputs)
          <6>1. \A i \in DOMAIN p[x].inputs : i \in DOMAIN q[x].inputs /\ q[x].inputs[i] = p[x].inputs[i]
            BY <1>4
          <6>2. QED
            BY <6>1 DEF ToSet
        <5>2. QED
          BY <4>1, <4>2, <5>1
      <4>3. CASE p[o].output # x
        BY <1>1, <1>3, <4>1, <4>3, ZenonT(60)
      <4>4. QED
        BY <4>2, <4>3
    <3>3. QED
      BY <3>1, <3>2
  <2>4. q[x].output = 0
    BY <1>1, <1>3 DEF IsTree
  <2>5. QED
    BY <1>1, <1>3, <1>6, <2>1, <2>2, <2>3, <2>4 DEF IsTree
<1>8. ASSUME NEW o \in (L \cup M) \ {x} PROVE q[o].out = SchemaOf(q, o)
  <2>1. \A i \in DOMAIN p[o].inputs : p[o].inputs[i] \in 1..n /\ p[o].inputs[i] # x
    <3>1. p[x].output = 0 /\ o # 0
      BY <1>1 DEF IsTree
    <3>2. \A i \in DOMAIN p[o].inputs : p[p[o].inputs[i]].output = o /\ p[o].inputs[i] \in L \cup M
      BY DEF IsTree, Edge
    <3>3. QED
      BY <1>1, <3>1, <3>2
  <2>2. IsOp(p[o], n, S) /\ o \in 1..n
    BY <1>1, <1>2
  <2>3. \A i \in DOMAIN p[o].inputs : q[p[o].inputs[i]].out = p[p[o].inputs[i]].out
    BY <1>3, <2>1
  <2>4. SchemaOf(q, o) = SchemaOf(p, o)
    BY <1>3, <2>2, <2>3, SameSchema
  <2>5. QED
    BY <1>3, <2>2, <2>4 DEF Schemas
<1>9. q[x].out = SchemaOf(q, x)
  <2>1. \A i \in DOMAIN p[x].inputs : p[x].inputs[i] # x
    <3>1. \A i \in DOMAIN p[x].inputs : p[p[x].inputs[i]].output = x
      BY <1>1 DEF IsTree, Edge
    <3>2. p[x].output = 0 /\ x # 0
      BY <1>1 DEF IsTree
    <3>3. QED
      BY <3>1, <3>2
  <2>2. p[x].out = SchemaOf(p, x)
    BY <1>1 DEF Schemas
  <2>3. QED
    BY <2>1, <2>2, AddedSchema
<1>10. QED
  BY <1>1, <1>7, <1>8, <1>9 DEF Schemas

-----------------------------------------------------------------------------
(* An operator taking the place of another one.                               *)
OneChanged(q, p, x, a) ==
  /\ Len(q) = Len(p) /\ q = [o \in 1..Len(p) |-> q[o]]
  /\ q[x] = a /\ \A o \in (1..Len(p)) \ {x} : q[o] = p[o]

(* One operator of the pool is assigned, the others stay. *)
LEMMA OneChange ==
  ASSUME NEW S, NEW p, IsPool(p, S), NEW x \in 1..Len(p), NEW a
  PROVE  OneChanged([p EXCEPT ![x] = a], p, x, a)
<1> DEFINE q == [p EXCEPT ![x] = a]
<1>1. DOMAIN p = 1..Len(p) /\ Len(p) \in Nat
  BY DEF IsPool
<1>2. DOMAIN q = 1..Len(p)
  BY <1>1
<1>3. q = [o \in 1..Len(p) |-> q[o]]
  BY <1>1
<1>4. Len(q) = Len(p)
  BY <1>1, <1>2
<1>5. QED
  BY <1>1, <1>3, <1>4 DEF OneChanged

Alike(a, b) == a.kind = b.kind /\ a.arg = b.arg /\ a.out = b.out

Replaced(q, p, old, new) ==
  /\ Len(q) = Len(p)
  /\ \A o \in 1..Len(p) :
       /\ Alike(q[o], p[o])
       /\ q[o].output = IF o = new THEN p[old].output ELSE p[o].output
       /\ q[o].inputs = IF o = p[old].output THEN <<new>> ELSE p[o].inputs

Replaceable(p, old, new) ==
  /\ old \in 1..Len(p) /\ new \in 1..Len(p)
  /\ p[old].output # 0 => p[old].output # new /\ p[p[old].output].kind \in Unary

(* An operator takes another one's place under its output (its output's input is set). *)
LEMMA ReplaceOps ==
  ASSUME NEW S, NEW p, IsPool(p, S), NEW old, NEW new, Replaceable(p, old, new)
  PROVE  IsPool(Replace(p, old, new), S) /\ Replaced(Replace(p, old, new), p, old, new)
<1> DEFINE n == Len(p)
           q == Replace(p, old, new)
           par == p[old].output
           b == [p[new] EXCEPT !.output = par]
           a == [p[par] EXCEPT !.inputs = <<new>>]
<1>1. /\ n \in Nat /\ old \in 1..n /\ new \in 1..n /\ IsOp(p[old], n, S) /\ IsOp(p[new], n, S)
      /\ par \in 0..n /\ DOMAIN p = 1..n
  BY DEF Replaceable, IsPool, IsOp
<1>2. /\ DOMAIN b = Fields /\ Alike(b, p[new]) /\ b.stream = p[new].stream
      /\ b.output = par /\ b.inputs = p[new].inputs
  BY <1>1 DEF IsOp, Fields, Alike
<1>3. IsOp(b, n, S)
  BY <1>1, <1>2 DEF IsOp, Alike
<1>4. CASE par = 0
  <2>1. q = [p EXCEPT ![new] = b]
    BY <1>4 DEF Replace
  <2> HIDE DEF b
  <2>2. OneChanged(q, p, new, b)
    <3>1. new \in 1..Len(p)
      BY <1>1
    <3>2. OneChanged([p EXCEPT ![new] = b], p, new, b)
      BY <3>1, OneChange
    <3> HIDE DEF q
    <3>3. QED
      BY <2>1, <3>2
  <2>3. \A o \in 1..n : IsOp(p[o], n, S)
    BY DEF IsPool
  <2> HIDE DEF q, n, par
  <2>4. IsPool(q, S)
    BY <1>1, <1>3, <2>2, <2>3 DEF IsPool, OneChanged, n
  <2>5. ASSUME NEW o \in 1..n
        PROVE  /\ Alike(q[o], p[o]) /\ q[o].output = IF o = new THEN par ELSE p[o].output
               /\ q[o].inputs = IF o = par THEN <<new>> ELSE p[o].inputs
    <3>1. o # par
      BY <1>1, <1>4
    <3>2. CASE o = new
      BY <1>2, <2>2, <3>1, <3>2 DEF OneChanged, Alike
    <3>3. CASE o # new
      BY <2>2, <3>1, <3>3 DEF OneChanged, Alike, n
    <3>4. QED
      BY <3>2, <3>3
  <2>6. QED
    BY <2>2, <2>4, <2>5 DEF Replaced, OneChanged, q, n, par
<1>5. CASE par # 0
  <2>1. par \in 1..n /\ par # new /\ IsOp(p[par], n, S) /\ p[par].kind \in Unary
    BY <1>1, <1>5 DEF IsPool, Replaceable
  <2>2. q = [p EXCEPT ![new] = b, ![par] = a]
    BY <1>1, <1>5, <2>1 DEF Replace
  <2>3. /\ DOMAIN a = Fields /\ Alike(a, p[par]) /\ a.stream = p[par].stream
        /\ a.output = p[par].output /\ a.inputs = <<new>>
    BY <2>1 DEF IsOp, Fields, Alike
  <2>4. IsOp(a, n, S)
    <3>1. <<new>> \in Seq(1..n) /\ Len(<<new>>) = 1 /\ 1 <= MaxInputs
      BY <1>1, InputsAssumption
    <3>2. a.kind \notin BinOps /\ a.kind \notin Sources
      BY <2>1, <2>3 DEF Unary, Alike
    <3> HIDE DEF a
    <3>3. QED
      BY <2>1, <2>3, <3>1, <3>2 DEF IsOp, Alike
  <2> HIDE DEF a, b
  <2>5. TwoChanged(q, p, new, par, b, a)
    <3>1. TwoChanged([p EXCEPT ![new] = b, ![par] = a], p, new, par, b, a)
      BY <1>1, <2>1, TwoChanges
    <3>2. QED
      BY <2>2, <3>1
  <2>6. \A o \in 1..n : IsOp(p[o], n, S)
    BY DEF IsPool
  <2> HIDE DEF q, n, par
  <2>7. IsPool(q, S)
    BY <1>1, <1>3, <2>4, <2>5, <2>6 DEF IsPool, TwoChanged, n
  <2>8. ASSUME NEW o \in 1..n
        PROVE  /\ Alike(q[o], p[o]) /\ q[o].output = IF o = new THEN par ELSE p[o].output
               /\ q[o].inputs = IF o = par THEN <<new>> ELSE p[o].inputs
    <3>1. CASE o = new
      BY <1>2, <2>1, <2>5, <3>1 DEF TwoChanged, Alike
    <3>2. CASE o = par
      BY <2>1, <2>3, <2>5, <3>2 DEF TwoChanged, Alike
    <3>3. CASE o # new /\ o # par
      BY <2>5, <3>3 DEF TwoChanged, Alike, n
    <3>4. QED
      BY <3>1, <3>2, <3>3
  <2>9. QED
    BY <2>5, <2>7, <2>8 DEF Replaced, TwoChanged, q, n, par
<1>6. QED
  BY <1>4, <1>5

(* An input of an operator of the tree is in the tree, lower, and knows its output. *)
LEMMA ChildOf ==
  ASSUME NEW S, NEW p, IsPool(p, S), NEW L, NEW h, NEW r, IsTree(p, L, h, r),
         NEW o \in L, NEW i \in DOMAIN p[o].inputs
  PROVE  /\ p[o].inputs[i] \in L /\ p[p[o].inputs[i]].output = o
         /\ h[p[o].inputs[i]] < h[o] /\ p[o].inputs[i] # o /\ p[o].inputs[i] # r
<1>1. Edge(p, L, h, o, p[o].inputs[i])
  BY DEF IsTree
<1>2. L \subseteq 1..Len(p) /\ Len(p) \in Nat /\ h \in [L -> 1..Len(p)] /\ p[r].output = 0
  BY DEF IsTree, IsPool
<1>3. o # 0 /\ h[o] \in Nat
  BY <1>2
<1>4. QED
  BY <1>1, <1>2, <1>3 DEF Edge

(* An operator of the tree is in the pool, and only the root has no output. *)
LEMMA NodeOf ==
  ASSUME NEW S, NEW p, IsPool(p, S), NEW L, NEW h, NEW r, IsTree(p, L, h, r), NEW o \in L
  PROVE  /\ o \in 1..Len(p) /\ IsOp(p[o], Len(p), S) /\ h[o] \in 1..Len(p)
         /\ (p[o].output = 0) = (o = r) /\ p[o].output # o
         /\ p[o].kind \in Unary => /\ DOMAIN p[o].inputs = {1} /\ p[o].inputs = <<p[o].inputs[1]>>
                                   /\ p[o].inputs[1] \in L
<1>1. L \subseteq 1..Len(p) /\ Len(p) \in Nat /\ h \in [L -> 1..Len(p)] /\ p[r].output = 0
  BY DEF IsTree, IsPool
<1>2. IsOp(p[o], Len(p), S)
  BY <1>1 DEF IsPool
<1>3. o # r => p[o].output \in L /\ h[o] < h[p[o].output]
  BY ParentOf
<1>4. (p[o].output = 0) = (o = r) /\ p[o].output # o
  BY <1>1, <1>3
<1>5. ASSUME p[o].kind \in Unary
      PROVE  /\ DOMAIN p[o].inputs = {1} /\ p[o].inputs = <<p[o].inputs[1]>>
             /\ p[o].inputs[1] \in L
  <2>1. p[o].inputs \in Seq(1..Len(p)) /\ Len(p[o].inputs) = 1
    BY <1>2, <1>5 DEF IsOp
  <2>2. DOMAIN p[o].inputs = {1} /\ p[o].inputs = <<p[o].inputs[1]>>
    BY <2>1
  <2>3. QED
    BY <2>2, ChildOf
<1>6. QED
  BY <1>1, <1>2, <1>4, <1>5

Removable(p, x, c) ==
  /\ p[x].kind \in Unary /\ c = p[x].inputs[1] /\ p[c].out = p[x].out
  /\ p[x].output # 0 => p[p[x].output].kind \in Unary

Removed(q, p, S, L, h, r, x, c) ==
  /\ IsPool(q, S) /\ Replaced(q, p, x, c) /\ Schemas(q, L \ {x})
  /\ \E g : IsTree(q, L \ {x}, g, IF x = r THEN c ELSE r)

(* An operator that hands on its schema leaves the tree.                      *)
LEMMA RemoveTree ==
  ASSUME NEW S, NEW p, IsPool(p, S), NEW L, NEW h, NEW r, IsTree(p, L, h, r), Schemas(p, L),
         NEW x \in L, NEW c, Removable(p, x, c)
  PROVE  Removed(Replace(p, x, c), p, S, L, h, r, x, c)
<1> DEFINE n == Len(p)
           q == Replace(p, x, c)
           M == L \ {x}
           par == p[x].output
           g == [o \in M |-> h[o]]
           s == IF x = r THEN c ELSE r
<1>1. /\ x \in 1..n /\ c \in M /\ p[c].output = x /\ h[c] < h[x] /\ n \in Nat /\ c \in 1..n /\ c # r
      /\ p[x].inputs = <<c>> /\ DOMAIN p[x].inputs = {1}
      /\ (par = 0) = (x = r)
  <2>1. /\ x \in 1..n /\ IsOp(p[x], n, S) /\ (p[x].output = 0) = (x = r)
        /\ DOMAIN p[x].inputs = {1} /\ p[x].inputs = <<p[x].inputs[1]>>
    BY NodeOf DEF Removable
  <2>2. c = p[x].inputs[1] /\ 1 \in DOMAIN p[x].inputs
    BY <2>1 DEF Removable
  <2>3. c \in L /\ p[c].output = x /\ h[c] < h[x] /\ c # x /\ c # r
    BY <2>2, ChildOf
  <2>4. c \in 1..n /\ n \in Nat
    BY <2>3 DEF IsTree, IsPool
  <2>5. QED
    BY <2>1, <2>2, <2>3, <2>4
<1>2. x # r => /\ par \in M /\ par # c /\ p[par].kind \in Unary /\ p[par].inputs = <<x>>
               /\ DOMAIN p[par].inputs = {1} /\ h[x] < h[par]
  <2>1. SUFFICES ASSUME x # r
                 PROVE /\ par \in M /\ par # c /\ p[par].kind \in Unary /\ p[par].inputs = <<x>>
                       /\ DOMAIN p[par].inputs = {1} /\ h[x] < h[par]
    OBVIOUS
  <2>2. /\ par \in L /\ h[x] < h[par] /\ \E i \in DOMAIN p[par].inputs : p[par].inputs[i] = x
    BY <2>1, ParentOf
  <2>3. p[par].kind \in Unary
    BY <1>1, <2>1 DEF Removable
  <2>4. DOMAIN p[par].inputs = {1} /\ p[par].inputs = <<p[par].inputs[1]>>
    BY <2>2, <2>3, NodeOf
  <2>5. h[c] \in Nat /\ h[x] \in Nat /\ h[par] \in Nat
    BY <1>1, <2>2, NodeOf
  <2>6. QED
    BY <1>1, <2>2, <2>3, <2>4, <2>5
<1>3. Replaceable(p, x, c)
  BY <1>1, <1>2 DEF Replaceable
<1>4. IsPool(q, S) /\ Replaced(q, p, x, c)
  BY <1>3, ReplaceOps
<1> HIDE DEF q, M, par, g
<1>5. /\ Len(q) = n
      /\ \A o \in 1..n : /\ q[o].kind = p[o].kind /\ q[o].arg = p[o].arg /\ q[o].out = p[o].out
                         /\ q[o].output = IF o = c THEN par ELSE p[o].output
                         /\ q[o].inputs = IF o = par THEN <<c>> ELSE p[o].inputs
  BY <1>4 DEF Replaced, Alike, par
<1>6. L \subseteq 1..n /\ M \subseteq L /\ M \subseteq 1..n /\ x \notin M
      /\ \A o \in L : (o # x => o \in M) /\ h[o] \in 1..n
  BY DEF IsTree, M
<1>7. \A o \in M : g[o] = h[o]
  BY DEF g
<1>8. IsTree(q, M, g, s)
  <2>1. g \in [M -> 1..n]
    BY <1>6 DEF IsTree, g
  <2>2. s \in M /\ q[s].output = 0
    <3>1. CASE x = r
      BY <1>1, <1>5, <3>1 DEF par
    <3>2. CASE x # r
      <4>1. r \in L /\ p[r].output = 0 /\ r # c
        BY <1>1 DEF IsTree
      <4>2. QED
        BY <1>5, <1>6, <3>2, <4>1
    <3>3. QED
      BY <3>1, <3>2
  <2>3. \A o \in M : IsInjective(q[o].inputs)
    <3>1. IsInjective(<<c>>)
      BY DEF IsInjective
    <3>2. QED
      BY <1>5, <1>6, <3>1 DEF IsTree
  <2>4. ASSUME NEW o \in M, NEW i \in DOMAIN q[o].inputs PROVE Edge(q, M, g, o, q[o].inputs[i])
    <3>1. CASE o = par
      <4>1. x # r /\ q[o].inputs = <<c>>
        BY <1>1, <1>5, <1>6, <3>1
      <4>2. q[o].inputs[i] = c
        BY <2>4, <4>1
      <4>3. h[c] < h[par]
        <5>1. h[c] \in Nat /\ h[x] \in Nat /\ h[par] \in Nat
          <6>1. c \in L /\ x \in L /\ par \in L
            BY <1>1, <1>2, <1>6, <4>1
          <6>2. QED
            BY <1>1, <1>6, <6>1
        <5>2. QED
          BY <1>1, <1>2, <4>1, <5>1
      <4>4. QED
        BY <1>1, <1>2, <1>5, <1>7, <3>1, <4>1, <4>2, <4>3 DEF Edge
    <3>2. CASE o # par
      <4>1. q[o].inputs = p[o].inputs /\ o \in L /\ o # x
        BY <1>5, <1>6, <3>2
      <4>2. /\ p[o].inputs[i] \in L /\ p[p[o].inputs[i]].output = o /\ h[p[o].inputs[i]] < h[o]
        BY <2>4, <4>1, ChildOf
      <4>3. p[o].inputs[i] # x /\ p[o].inputs[i] # c
        BY <1>1, <3>2, <4>1, <4>2 DEF par
      <4>4. QED
        BY <1>5, <1>6, <1>7, <4>1, <4>2, <4>3, ZenonT(60) DEF Edge
    <3>3. QED
      BY <3>1, <3>2
  <2>5. ASSUME NEW o \in M, o # s PROVE q[o].output \in M /\ o \in ToSet(q[q[o].output].inputs)
    <3>1. CASE o = c
      <4>1. x # r /\ q[o].output = par /\ par \in M
        BY <1>2, <1>5, <1>1, <2>5, <3>1
      <4>2. q[par].inputs = <<c>>
        BY <1>5, <1>6, <4>1
      <4>3. QED
        BY <3>1, <4>1, <4>2 DEF ToSet
    <3>2. CASE o # c
      <4>1. o \in L /\ o # r /\ q[o].output = p[o].output
        BY <1>1, <1>5, <1>6, <2>5, <3>2
      <4>2. p[o].output \in L /\ o \in ToSet(p[p[o].output].inputs)
        BY <4>1 DEF IsTree
      <4>3. p[o].output # x
        BY <1>1, <3>2, <4>2 DEF ToSet
      <4>4. p[o].output # par
        <5>1. SUFFICES ASSUME p[o].output = par PROVE FALSE
          OBVIOUS
        <5>2. x # r
          BY <1>1, <1>6, <4>2, <5>1
        <5>3. o = x
          BY <1>2, <4>2, <5>1, <5>2 DEF ToSet
        <5>4. QED
          BY <1>6, <5>3
      <4>5. QED
        BY <1>5, <1>6, <4>1, <4>2, <4>3, <4>4, ZenonT(60)
    <3>3. QED
      BY <3>1, <3>2
  <2>6. QED
    BY <1>5, <1>6, <2>1, <2>2, <2>3, <2>4, <2>5 DEF IsTree
<1>9. ASSUME NEW o \in M PROVE q[o].out = SchemaOf(q, o)
  <2>1. o \in L /\ IsOp(p[o], n, S) /\ o \in 1..n
    BY <1>6, NodeOf
  <2>2. p[o].out = SchemaOf(p, o)
    BY <2>1 DEF Schemas
  <2>3. CASE o # par
    <3>1. \A i \in DOMAIN p[o].inputs : p[o].inputs[i] \in 1..n
      BY <2>1 DEF IsOp
    <3>2. \A i \in DOMAIN p[o].inputs : q[p[o].inputs[i]].out = p[p[o].inputs[i]].out
      BY <1>5, <3>1
    <3>3. SchemaOf(q, o) = SchemaOf(p, o)
      BY <1>5, <2>1, <2>3, <3>2, SameSchema, SMTT(40)
    <3>4. QED
      BY <1>5, <2>1, <2>2, <3>3
  <2>4. CASE o = par
    <3>1. x # r /\ p[o].kind \in Unary /\ p[o].inputs = <<x>>
      BY <1>1, <1>2, <2>1, <2>4
    <3>2. q[o].kind = p[o].kind /\ q[o].inputs = <<c>> /\ q[o].arg = p[o].arg /\ q[o].out = p[o].out
      BY <1>5, <2>1, <2>4
    <3>3. p[c].out = p[x].out /\ q[c].out = p[c].out /\ p[c].out \in Seq(S)
      <4>1. IsOp(p[c], n, S)
        BY <1>1, <1>6, NodeOf
      <4>2. QED
        BY <1>1, <1>5, <4>1 DEF Removable, IsOp
    <3>4. CASE p[o].kind \in Copying
      <4>1. SchemaOf(p, o) = p[x].out
        BY <3>1, <3>3, <3>4, CopiedSchema
      <4>2. SchemaOf(q, o) = q[c].out
        BY <3>2, <3>3, <3>4, CopiedSchema
      <4>3. QED
        BY <2>2, <3>2, <3>3, <4>1, <4>2
    <3>5. CASE p[o].kind \notin Copying
      BY <2>2, <3>1, <3>2, <3>5 DEF SchemaOf, Copying, Unary, Sources, BinOps
    <3>6. QED
      BY <3>4, <3>5
  <2>5. QED
    BY <2>3, <2>4
<1>10. QED
  BY <1>4, <1>8, <1>9 DEF Removed, Schemas, M, q

-----------------------------------------------------------------------------
(* A selection put over an operator somewhere in the tree, as pushSelect does. *)
OverOp(p, c, i, arg) ==
  LET q == MkSelect(p, c, arg)
  IN  [q EXCEPT ![p[c].output].inputs[i] = Len(q), ![Len(q)].output = p[c].output]

Inserted(q, p, n, S, L, r, c, arg) ==
  /\ IsPool(q, S) /\ n = Len(p) /\ Len(q) = n + 1
  /\ q[n + 1].kind = "select" /\ q[n + 1].arg = arg /\ q[n + 1].inputs = <<c>>
  /\ \A o \in 1..n : /\ Alike(q[o], p[o])
                     /\ q[o].output = IF o = c THEN n + 1 ELSE p[o].output
                     /\ o # p[c].output => q[o].inputs = p[o].inputs
  /\ Schemas(q, L \cup {n + 1}) /\ \E g : IsTree(q, L \cup {n + 1}, g, r)

(* A selection between an operator of the tree and its output leaves it a tree. *)
LEMMA InsertTree ==
  ASSUME NEW S, NEW p, IsPool(p, S), NEW L, NEW h, NEW r, IsTree(p, L, h, r), Schemas(p, L),
         NEW c \in L, c # r, NEW i \in DOMAIN p[p[c].output].inputs,
         p[p[c].output].inputs[i] = c, NEW arg
  PROVE  Inserted(OverOp(p, c, i, arg), p, Len(p), S, L, r, c, arg)
<1> DEFINE n == Len(p)
           N == n + 1
           par == p[c].output
           p0 == MkSelect(p, c, arg)
           M == L \cup {N}
           g == [o \in M |-> IF o = N THEN h[c] + 1 ELSE IF h[o] > h[c] THEN h[o] + 1 ELSE h[o]]
           ins == [p[par].inputs EXCEPT ![i] = N]
           a == [p[par] EXCEPT !.inputs = ins]
           b == [p0[N] EXCEPT !.output = par]
           q == OverOp(p, c, i, arg)
<1>1. /\ n \in Nat /\ c \in 1..n /\ IsOp(p[c], n, S) /\ par \in L /\ par # c /\ h[c] < h[par]
      /\ L \subseteq 1..n /\ par \in 1..n /\ IsOp(p[par], n, S)
      /\ \A o \in L : o \in 1..n /\ o # N /\ h[o] \in 1..n /\ o # 0
  <2>1. n \in Nat /\ L \subseteq 1..n /\ h \in [L -> 1..n]
    BY DEF IsTree, IsPool
  <2>2. \A o \in L : o \in 1..n /\ o # N /\ h[o] \in 1..n /\ o # 0
    BY <2>1
  <2>3. par \in L /\ h[c] < h[par]
    BY ParentOf
  <2>4. c \in 1..n /\ IsOp(p[c], n, S) /\ par # c
    BY NodeOf
  <2>5. IsOp(p[par], n, S)
    BY <2>3, NodeOf
  <2>6. QED
    BY <2>1, <2>2, <2>3, <2>4, <2>5
<1>2. Grown(p0, p, n, S, "select", <<c>>, p[c].out, arg)
  <2>1. NewFits(p, S, "select", <<c>>, p[c].out, p[c].stream)
    <3>1. <<c>> \in Seq(1..n) /\ Len(<<c>>) = 1 /\ 1 <= MaxInputs
      BY <1>1, InputsAssumption
    <3>2. "select" \in LogKinds /\ "select" \notin BinOps /\ "select" \notin Sources
      BY DEF LogKinds, BinOps, Sources
    <3>3. QED
      BY <1>1, <3>1, <3>2 DEF NewFits, IsOp
  <2>2. QED
    BY <2>1, NewOpType DEF MkSelect, CopySchema
<1>3. /\ IsPool(p0, S) /\ Len(p0) = N /\ DOMAIN p0 = 1..N
      /\ Made(p0[N], "select", <<c>>, p[c].out, arg) /\ IsOp(p0[N], N, S)
      /\ \A o \in 1..n : p0[o] = IF o = c THEN [p[o] EXCEPT !.output = N] ELSE p[o]
  <2>1. ToSet(<<c>>) = {c}
    BY DEF ToSet
  <2>2. N \in 1..N
    BY <1>1
  <2> HIDE DEF p0
  <2>3. QED
    BY <1>2, <2>1, <2>2 DEF Grown, IsPool
<1>4. p0[par] = p[par]
  BY <1>1, <1>3
<1>5. q = [p0 EXCEPT ![par] = a, ![N] = b]
  <2> HIDE DEF p0
  <2>1. q = [p0 EXCEPT ![par].inputs[i] = N, ![N].output = par]
    BY <1>3 DEF OverOp, p0
  <2>2. par # N
    BY <1>1
  <2>3. QED
    BY <1>1, <1>3, <1>4, <2>1, <2>2
<1> HIDE DEF p0
<1>6. /\ DOMAIN ins = DOMAIN p[par].inputs /\ ins[i] = N
      /\ \A k \in DOMAIN ins : k # i => ins[k] = p[par].inputs[k]
      /\ ins \in Seq(1..N) /\ Len(ins) = Len(p[par].inputs)
  <2>1. p[par].inputs \in Seq(1..n)
    BY <1>1 DEF IsOp
  <2>2. p[par].inputs \in Seq(1..N)
    <3>1. 1..n \subseteq 1..N
      BY <1>1
    <3>2. QED
      BY <2>1, <3>1, WiderSeq
  <2>3. N \in 1..N
    BY <1>1
  <2>4. QED
    BY <1>1, <2>2, <2>3
<1>7. /\ DOMAIN a = Fields /\ Alike(a, p[par]) /\ a.stream = p[par].stream
      /\ a.output = p[par].output /\ a.inputs = ins
  <2> HIDE DEF ins
  <2>1. QED
    BY <1>1 DEF IsOp, Fields, Alike
<1>8. /\ DOMAIN b = Fields /\ Alike(b, p0[N]) /\ b.stream = p0[N].stream
      /\ b.output = par /\ b.inputs = <<c>>
  BY <1>3 DEF IsOp, Fields, Alike, Made
<1> HIDE DEF a, b, ins, q
<1>9. IsOp(a, N, S)
  <2>1. a.output \in 0..N
    BY <1>1, <1>7 DEF IsOp
  <2>2. QED
    BY <1>1, <1>6, <1>7, <2>1 DEF IsOp, Alike
<1>10. IsOp(b, N, S)
  <2>1. b.output \in 0..N
    BY <1>1, <1>8
  <2>2. b.inputs = p0[N].inputs
    BY <1>3, <1>8 DEF Made
  <2>3. QED
    BY <1>3, <1>8, <2>1, <2>2 DEF IsOp, Alike
<1>11. TwoChanged(q, p0, par, N, a, b)
  <2>1. par \in 1..Len(p0) /\ N \in 1..Len(p0) /\ par # N
    BY <1>1, <1>3
  <2>2. TwoChanged([p0 EXCEPT ![par] = a, ![N] = b], p0, par, N, a, b)
    BY <1>3, <2>1, TwoChanges
  <2>3. QED
    BY <1>5, <2>2
<1>12. IsPool(q, S)
  <2>1. \A o \in 1..N : IsOp(p0[o], N, S)
    BY <1>3 DEF IsPool
  <2>2. QED
    BY <1>1, <1>3, <1>9, <1>10, <1>11, <2>1 DEF IsPool, TwoChanged
<1>13. /\ Len(q) = N
       /\ \A o \in 1..n : /\ q[o].kind = p[o].kind /\ q[o].arg = p[o].arg /\ q[o].out = p[o].out
                          /\ q[o].output = IF o = c THEN N ELSE p[o].output
                          /\ q[o].inputs = IF o = par THEN ins ELSE p[o].inputs
       /\ q[N].kind = "select" /\ q[N].arg = arg /\ q[N].out = p[c].out
       /\ q[N].inputs = <<c>> /\ q[N].output = par
  <2>1. ASSUME NEW o \in 1..n
        PROVE  /\ q[o].kind = p[o].kind /\ q[o].arg = p[o].arg /\ q[o].out = p[o].out
               /\ q[o].output = IF o = c THEN N ELSE p[o].output
               /\ q[o].inputs = IF o = par THEN ins ELSE p[o].inputs
    <3>1. CASE o = par
      BY <1>1, <1>7, <1>11, <3>1 DEF TwoChanged, Alike
    <3>2. CASE o # par
      <4>1. q[o] = p0[o] /\ IsOp(p[o], n, S) /\ o # N
        BY <1>1, <1>3, <1>11, <3>2 DEF TwoChanged, IsPool
      <4>2. p0[o] = IF o = c THEN [p[o] EXCEPT !.output = N] ELSE p[o]
        BY <1>3
      <4>3. DOMAIN p[o] = Fields
        BY <4>1 DEF IsOp
      <4>4. QED
        BY <3>2, <4>1, <4>2, <4>3 DEF Fields
    <3>3. QED
      BY <3>1, <3>2
  <2>2. q[N] = b /\ Len(q) = N
    BY <1>3, <1>11 DEF TwoChanged
  <2>3. QED
    BY <1>3, <1>8, <2>1, <2>2 DEF Alike, Made
<1>14. /\ g \in [M -> 1..N] /\ g[N] = h[c] + 1
       /\ \A o \in L : g[o] = IF h[o] > h[c] THEN h[o] + 1 ELSE h[o]
  <2>1. \A o \in L : g[o] = IF h[o] > h[c] THEN h[o] + 1 ELSE h[o]
    BY <1>1
  <2>2. g[N] = h[c] + 1
    OBVIOUS
  <2>3. \A o \in M : g[o] \in 1..N
    BY <1>1, <2>1, <2>2
  <2>4. QED
    BY <2>1, <2>2, <2>3
<1> HIDE DEF g, N
<1>15. IsTree(q, M, g, r)
  <2>1. M \subseteq 1..Len(q) /\ g \in [M -> 1..Len(q)]
    <3>1. n \in Nat /\ N = n + 1 /\ L \subseteq 1..n /\ Len(q) = N
      BY <1>1, <1>13 DEF N
    <3>2. L \subseteq 1..N /\ N \in 1..N
      BY <3>1
    <3>3. QED
      BY <1>14, <3>1, <3>2
  <2>2. r \in M /\ q[r].output = 0
    <3>1. r \in L /\ p[r].output = 0 /\ r \in 1..n
      BY <1>1 DEF IsTree
    <3>2. QED
      BY <1>13, <3>1
  <2>3. \A o \in M : IsInjective(q[o].inputs)
    <3>1. IsInjective(<<c>>)
      BY DEF IsInjective
    <3>2. IsInjective(ins)
      <4>1. IsInjective(p[par].inputs) /\ \A k \in DOMAIN p[par].inputs : p[par].inputs[k] \in L
        BY <1>1 DEF IsTree, Edge
      <4>2. QED
        BY <1>1, <1>6, <4>1 DEF IsInjective
    <3>3. \A o \in L : IsInjective(p[o].inputs)
      BY DEF IsTree
    <3>4. QED
      BY <1>1, <1>13, <3>1, <3>2, <3>3
  <2>4. ASSUME NEW o \in L, NEW k \in DOMAIN p[o].inputs, o # par \/ k # i
        PROVE  Edge(q, M, g, o, p[o].inputs[k])
    <3> DEFINE d == p[o].inputs[k]
    <3>1. d \in L /\ p[d].output = o /\ h[d] < h[o]
      BY ChildOf
    <3>2. d # c
      <4>1. CASE o # par
        BY <3>1, <4>1
      <4>2. CASE o = par
        <5>1. k # i /\ IsInjective(p[par].inputs)
          BY <1>1, <2>4, <4>2 DEF IsTree
        <5>2. QED
          BY <4>2, <5>1 DEF IsInjective
      <4>3. QED
        BY <4>1, <4>2
    <3>3. q[d].output = o
      BY <1>1, <1>13, <3>1, <3>2
    <3>4. g[d] < g[o]
      <4>1. h[d] \in Nat /\ h[o] \in Nat /\ h[c] \in Nat
        <5>1. \A x \in L : h[x] \in Nat
          BY <1>1
        <5>2. QED
          BY <3>1, <5>1
      <4>2. QED
        BY <1>14, <3>1, <4>1
    <3>5. QED
      BY <3>1, <3>3, <3>4 DEF Edge
  <2>5. Edge(q, M, g, par, N) /\ Edge(q, M, g, N, c)
    <3>1. h[c] \in Nat /\ h[par] \in Nat /\ h[c] < h[par]
      BY <1>1
    <3>2. g[N] < g[par] /\ g[c] < g[N]
      BY <1>1, <1>14, <3>1
    <3>3. QED
      BY <1>1, <1>13, <3>2 DEF Edge
  <2>6. ASSUME NEW o \in M, NEW k \in DOMAIN q[o].inputs PROVE Edge(q, M, g, o, q[o].inputs[k])
    <3>1. CASE o = N
      <4>1. q[o].inputs[k] = c
        BY <1>13, <2>6, <3>1
      <4>2. QED
        BY <2>5, <3>1, <4>1
    <3>2. CASE o = par
      <4>1. q[o].inputs = ins /\ k \in DOMAIN ins
        BY <1>1, <1>13, <2>6, <3>2
      <4>2. CASE k = i
        BY <1>6, <2>5, <3>2, <4>1, <4>2
      <4>3. CASE k # i
        BY <1>1, <1>6, <2>4, <3>2, <4>1, <4>3
      <4>4. QED
        BY <4>2, <4>3
    <3>3. CASE o \in L /\ o # par
      <4>1. q[o].inputs = p[o].inputs
        BY <1>1, <1>13, <3>3
      <4>2. QED
        BY <2>4, <2>6, <3>3, <4>1
    <3>4. QED
      BY <3>1, <3>2, <3>3
  <2>7. ASSUME NEW o \in M, o # r PROVE q[o].output \in M /\ o \in ToSet(q[q[o].output].inputs)
    <3>1. CASE o = N
      <4>1. q[par].inputs = ins /\ q[o].output = par
        BY <1>1, <1>13, <3>1
      <4>2. i \in DOMAIN ins /\ ins[i] = N
        BY <1>6
      <4>3. QED
        BY <1>1, <3>1, <4>1, <4>2 DEF ToSet
    <3>2. CASE o = c
      <4>1. q[o].output = N /\ q[N].inputs = <<c>>
        BY <1>1, <1>13, <3>2
      <4>2. QED
        BY <3>2, <4>1 DEF ToSet
    <3>3. CASE o \in L /\ o # c
      <4>1. /\ p[o].output \in L /\ q[o].output = p[o].output
            /\ \E k \in DOMAIN p[p[o].output].inputs : p[p[o].output].inputs[k] = o
        BY <1>1, <1>13, <2>7, <3>3, ParentOf
      <4>2. PICK k \in DOMAIN p[p[o].output].inputs : p[p[o].output].inputs[k] = o
        BY <4>1
      <4>3. CASE p[o].output # par
        <5>1. q[p[o].output].inputs = p[p[o].output].inputs
          BY <1>1, <1>13, <4>1, <4>3
        <5>2. QED
          BY <4>1, <4>2, <5>1 DEF ToSet
      <4>4. CASE p[o].output = par
        <5>1. q[par].inputs = ins /\ k # i
          BY <1>1, <1>13, <3>3, <4>2, <4>4
        <5>2. k \in DOMAIN ins /\ ins[k] = o
          BY <1>6, <4>2, <4>4, <5>1
        <5>3. QED
          BY <4>1, <4>4, <5>1, <5>2 DEF ToSet
      <4>5. QED
        BY <4>3, <4>4
    <3>4. QED
      BY <3>1, <3>2, <3>3
  <2>8. QED
    BY <2>1, <2>2, <2>3, <2>6, <2>7 DEF IsTree
<1>16. ASSUME NEW o \in L PROVE q[o].out = SchemaOf(q, o)
  <2>1. IsOp(p[o], n, S) /\ o \in 1..n /\ p[o].out = SchemaOf(p, o)
    BY NodeOf DEF Schemas
  <2>2. CASE o # par
    <3>1. \A k \in DOMAIN p[o].inputs : p[o].inputs[k] \in 1..n
      BY <2>1 DEF IsOp
    <3>2. \A k \in DOMAIN p[o].inputs : q[p[o].inputs[k]].out = p[p[o].inputs[k]].out
      BY <1>13, <3>1
    <3>3. /\ q[o].kind = p[o].kind /\ q[o].arg = p[o].arg /\ q[o].out = p[o].out
          /\ q[o].inputs = p[o].inputs
      BY <1>13, <2>1, <2>2
    <3>4. SchemaOf(q, o) = SchemaOf(p, o)
      BY <2>1, <3>2, <3>3, SameSchema
    <3>5. QED
      BY <2>1, <3>3, <3>4
  <2>3. CASE o = par
    <3>1. q[par].kind = p[par].kind /\ q[par].arg = p[par].arg /\ q[par].out = p[par].out /\ q[par].inputs = ins
      BY <1>1, <1>13
    <3>2. \A k \in DOMAIN p[par].inputs : q[ins[k]].out = p[p[par].inputs[k]].out
      <4>1. \A k \in DOMAIN p[par].inputs : p[par].inputs[k] \in 1..n
        BY <2>1, <2>3 DEF IsOp
      <4>2. ASSUME NEW k \in DOMAIN p[par].inputs PROVE q[ins[k]].out = p[p[par].inputs[k]].out
        <5>1. CASE k = i
          <6>1. ins[k] = N /\ p[par].inputs[k] = c
            BY <1>6, <5>1
          <6>2. QED
            BY <1>13, <6>1
        <5>2. CASE k # i
          <6>1. ins[k] = p[par].inputs[k] /\ p[par].inputs[k] \in 1..n
            BY <1>6, <4>1, <5>2
          <6>2. QED
            BY <1>13, <6>1
        <5>3. QED
          BY <5>1, <5>2
      <4>3. QED
        BY <4>2
    <3>3. JoinedSchemas(q, par) = JoinedSchemas(p, par)
      <4>1. /\ DOMAIN q[par].inputs = DOMAIN p[par].inputs
            /\ \A k \in DOMAIN p[par].inputs : q[q[par].inputs[k]].out = p[p[par].inputs[k]].out
        BY <1>6, <3>1, <3>2
      <4>2. QED
        BY ONLY <4>1, SameJoined
    <3>4. p[par].kind \in BinOps => Over(q, par).out = Over(p, par).out
      <4>1. p[par].kind \in BinOps => 1 \in DOMAIN p[par].inputs
        BY <2>1, <2>3 DEF IsOp
      <4>2. QED
        BY <3>1, <3>2, <4>1 DEF Over
    <3>5. p[par].kind \in Sources => p[par].out = SchemaOf(p, par)
      BY <2>1, <2>3
    <3>6. SchemaOf(q, par) = SchemaOf(p, par)
      BY <3>1, <3>3, <3>4 DEF SchemaOf
    <3>7. QED
      BY <2>1, <2>3, <3>1, <3>6
  <2>4. QED
    BY <2>2, <2>3
<1>17. q[N].out = SchemaOf(q, N)
  <2>1. q[c].out = p[c].out /\ p[c].out \in Seq(S)
    BY <1>1, <1>13 DEF IsOp
  <2>2. q[N].kind \in Copying
    BY <1>13 DEF Copying, Unary, LogKinds, Sources, Crosses, BinOps
  <2>3. SchemaOf(q, N) = q[c].out
    BY <1>13, <2>1, <2>2, CopiedSchema
  <2>4. QED
    BY <1>13, <2>1, <2>3
<1>18. QED
  <2>1. Schemas(q, M)
    BY <1>16, <1>17 DEF Schemas
  <2>2. \A o \in 1..n : /\ Alike(q[o], p[o])
                        /\ q[o].output = IF o = c THEN N ELSE p[o].output
                        /\ o # par => q[o].inputs = p[o].inputs
    BY <1>13 DEF Alike
  <2>3. QED
    BY <1>12, <1>13, <1>15, <2>1, <2>2 DEF Inserted, N, q

-----------------------------------------------------------------------------
(* A product x taken out of the tree together with some of its inputs, D.  The *)
(* grafts are what was below them: new operators, the last one of the pool    *)
(* over all of them, take them for their inputs.                             *)
Grafts(p, L, x, D) == {c \in L \ (D \cup {x}) : p[c].output \in D \cup {x}}

News(q, n) == (n + 1)..Len(q)

GraftEdge(q, p, n, L, x, D, w, c) ==
  q[c].output = w /\ (c \in Grafts(p, L, x, D) \/ (c \in News(q, n) /\ c < w))

IsGraft(q, p, n, L, x, D) ==
  /\ Len(p) = n /\ Len(q) > n
  /\ \A o \in 1..n : /\ Alike(q[o], p[o]) /\ q[o].inputs = p[o].inputs
                     /\ o \notin Grafts(p, L, x, D) => q[o].output = p[o].output
  /\ \A d \in D : d \in L /\ p[d].output = x
  /\ \A w \in News(q, n) :
       /\ IsInjective(q[w].inputs) /\ q[w].out = SchemaOf(q, w)
       /\ \A i \in DOMAIN q[w].inputs : GraftEdge(q, p, n, L, x, D, w, q[w].inputs[i])
  /\ \A c \in Grafts(p, L, x, D) \cup (News(q, n) \ {Len(q)}) :
       q[c].output \in News(q, n) /\ c \in ToSet(q[q[c].output].inputs)
  /\ q[Len(q)].output = 0

Regrown(q, q0, p, n, S, L, r, x, D) ==
  LET M == (L \ (D \cup {x})) \cup News(q0, n)
  IN  /\ IsPool(q, S) /\ Replaced(q, q0, x, Len(q0))
      /\ \E g : IsTree(q, M, g, IF x = r THEN Len(q0) ELSE r)
      /\ \A o \in M : o # p[x].output \/ q0[Len(q0)].out = p[x].out => q[o].out = SchemaOf(q, o)

(* New operators in the place of a product of the tree, over its inputs, make a tree. *)
LEMMA GraftTree ==
  ASSUME NEW S, NEW p, IsPool(p, S), NEW L, NEW h, NEW r, IsTree(p, L, h, r), Schemas(p, L),
         NEW x \in L, p[x].output # 0 => p[p[x].output].kind \in Unary, NEW D,
         NEW q0, IsPool(q0, S), IsGraft(q0, p, Len(p), L, x, D)
  PROVE  Regrown(Replace(q0, x, Len(q0)), q0, p, Len(p), S, L, r, x, D)
<1> DEFINE n == Len(p)
           m == Len(q0)
           W == News(q0, n)
           G == Grafts(p, L, x, D)
           K == L \ (D \cup {x})
           M == K \cup W
           par == p[x].output
           s == IF x = r THEN m ELSE r
           q == Replace(q0, x, m)
           g == [o \in M |-> IF o \in W THEN h[x] + ((o - n) - 1)
                             ELSE IF h[o] >= h[x] THEN h[o] + (m - n) ELSE h[o]]
<1>1. /\ n \in Nat /\ m \in Nat /\ m > n /\ x \in 1..n /\ L \subseteq 1..n /\ K \subseteq L
      /\ par # x /\ (par = 0) = (x = r)
      /\ \A o \in L : o \in 1..n /\ h[o] \in 1..n /\ o # 0 /\ o \notin W
      /\ \A w \in W : w \in 1..m /\ w > n /\ w <= m
      /\ m \in W /\ G \subseteq K
  <2>1. n \in Nat /\ m \in Nat /\ m > n
    BY DEF IsPool, IsGraft
  <2>2. L \subseteq 1..n /\ h \in [L -> 1..n]
    BY DEF IsTree
  <2>3. W = (n + 1)..m
    BY DEF News
  <2>4. par # x /\ (par = 0) = (x = r)
    BY NodeOf
  <2>5. G \subseteq K
    BY DEF Grafts
  <2> HIDE DEF W, G, K, par, n, m
  <2>6. \A o \in L : o \in 1..n /\ h[o] \in 1..n /\ o # 0 /\ o \notin W
    BY <2>1, <2>2, <2>3
  <2>7. \A w \in W : w \in 1..m /\ w > n /\ w <= m
    BY <2>1, <2>3
  <2>8. m \in W
    BY <2>1, <2>3
  <2>9. QED
    BY <2>1, <2>2, <2>4, <2>5, <2>6, <2>7, <2>8 DEF K
<1>2. \A o \in L : h[o] \in Nat
  <2>1. \A o \in L : h[o] \in 1..n
    BY <1>1
  <2> HIDE DEF n
  <2>2. QED
    BY <1>1, <2>1
<1>3. x # r => /\ par \in K /\ p[par].kind \in Unary /\ p[par].inputs = <<x>>
               /\ par \notin G /\ h[x] < h[par]
  <2>1. SUFFICES ASSUME x # r
                 PROVE  /\ par \in K /\ p[par].kind \in Unary /\ p[par].inputs = <<x>>
                        /\ par \notin G /\ h[x] < h[par]
    OBVIOUS
  <2>2. /\ par \in L /\ h[x] < h[par] /\ \E i \in DOMAIN p[par].inputs : p[par].inputs[i] = x
    BY <2>1, ParentOf
  <2>3. p[par].kind \in Unary
    BY <1>1, <2>1
  <2>4. DOMAIN p[par].inputs = {1} /\ p[par].inputs = <<p[par].inputs[1]>>
    BY <2>2, <2>3, NodeOf
  <2>5. p[par].inputs = <<x>>
    BY <2>2, <2>4
  <2>6. ASSUME NEW o \in L, p[o].output \in D \cup {x} PROVE h[o] < h[x]
    <3>1. p[o].output \in L /\ p[o].output # 0
      BY <1>1, <2>6 DEF IsGraft
    <3>2. o # r /\ h[o] < h[p[o].output]
      <4>1. o # r
        BY <3>1 DEF IsTree
      <4>2. QED
        BY <4>1, ParentOf
    <3>3. p[o].output = x \/ h[p[o].output] < h[x]
      <4>1. CASE p[o].output \in D
        <5>1. p[p[o].output].output = x /\ x # 0
          BY <1>1, <4>1 DEF IsGraft
        <5>2. p[o].output # r
          BY <5>1 DEF IsTree
        <5>3. QED
          BY <3>1, <5>1, <5>2, ParentOf
      <4>2. QED
        BY <2>6, <4>1
    <3>4. h[o] \in Nat /\ h[x] \in Nat /\ h[p[o].output] \in Nat
      BY <1>2, <3>1
    <3>5. QED
      BY <3>2, <3>3, <3>4
  <2>7. h[x] \in Nat /\ h[par] \in Nat
    BY <1>2, <2>2
  <2>8. par \notin G /\ par \notin D
    <3>1. par \notin G
      BY <2>2, <2>6, <2>7 DEF Grafts
    <3>2. par \notin D
      <4>1. SUFFICES ASSUME par \in D PROVE FALSE
        OBVIOUS
      <4>2. p[par].output \in D \cup {x}
        BY <4>1 DEF IsGraft
      <4>3. QED
        BY <2>2, <2>6, <2>7, <4>2
    <3>3. QED
      BY <3>1, <3>2
  <2>9. QED
    BY <1>1, <2>2, <2>3, <2>5, <2>8
<1>4. /\ \A o \in 1..n : /\ q0[o].kind = p[o].kind /\ q0[o].arg = p[o].arg /\ q0[o].out = p[o].out
                         /\ q0[o].inputs = p[o].inputs
                         /\ o \notin G => q0[o].output = p[o].output
      /\ \A d \in D : d \in L /\ p[d].output = x
      /\ \A w \in W : IsInjective(q0[w].inputs) /\ q0[w].out = SchemaOf(q0, w)
      /\ \A c \in G \cup (W \ {m}) : q0[c].output \in W /\ c \in ToSet(q0[q0[c].output].inputs)
      /\ q0[m].output = 0
  BY DEF IsGraft, Alike
<1>5. \A w \in W : \A i \in DOMAIN q0[w].inputs : GraftEdge(q0, p, n, L, x, D, w, q0[w].inputs[i])
  BY DEF IsGraft
<1>6. x \notin G /\ q0[x].output = par
  BY <1>1, <1>4 DEF Grafts
<1>7. IsPool(q, S) /\ Replaced(q, q0, x, m)
  <2>1. Replaceable(q0, x, m)
    <3>1. x \in 1..m /\ m \in 1..m
      BY <1>1
    <3>2. ASSUME par # 0 PROVE par # m /\ q0[par].kind \in Unary
      <4>1. par \in K /\ p[par].kind \in Unary
        BY <1>1, <1>3, <3>2
      <4>2. par \in 1..n /\ par # m
        BY <1>1, <4>1
      <4>3. q0[par].kind = p[par].kind
        BY <1>4, <4>2
      <4>4. QED
        BY <4>1, <4>2, <4>3
    <3>3. QED
      BY <1>6, <3>1, <3>2 DEF Replaceable
  <2>2. QED
    BY <2>1, ReplaceOps
<1> HIDE DEF q, W, G, K, g
<1>8. /\ Len(q) = m
      /\ \A o \in 1..m : /\ q[o].kind = q0[o].kind /\ q[o].arg = q0[o].arg /\ q[o].out = q0[o].out
                         /\ q[o].output = IF o = m THEN par ELSE q0[o].output
                         /\ q[o].inputs = IF o = par THEN <<m>> ELSE q0[o].inputs
  BY <1>6, <1>7 DEF Replaced, Alike
<1>9. /\ \A o \in K : /\ q[o].kind = p[o].kind /\ q[o].arg = p[o].arg /\ q[o].out = p[o].out
                      /\ q[o].inputs = (IF o = par THEN <<m>> ELSE p[o].inputs)
                      /\ o \notin G => q[o].output = p[o].output
                      /\ o \in G => q[o].output = q0[o].output
      /\ \A w \in W : /\ q[w].out = q0[w].out /\ q[w].inputs = q0[w].inputs /\ w # par
                      /\ q[w].kind = q0[w].kind /\ q[w].arg = q0[w].arg
                      /\ w # m => q[w].output = q0[w].output
      /\ q[m].output = par
  <2>1. ASSUME NEW o \in K
        PROVE  /\ q[o].kind = p[o].kind /\ q[o].arg = p[o].arg /\ q[o].out = p[o].out
               /\ q[o].inputs = (IF o = par THEN <<m>> ELSE p[o].inputs)
               /\ o \notin G => q[o].output = p[o].output
               /\ o \in G => q[o].output = q0[o].output
    <3>1. o \in 1..n /\ o \in 1..m /\ o # m
      BY <1>1
    <3>2. QED
      BY <1>4, <1>8, <3>1
  <2>2. ASSUME NEW w \in W
        PROVE  /\ q[w].out = q0[w].out /\ q[w].inputs = q0[w].inputs /\ w # par
               /\ q[w].kind = q0[w].kind /\ q[w].arg = q0[w].arg
               /\ w # m => q[w].output = q0[w].output
    <3>1. w \in 1..m /\ w # par
      BY <1>1, <1>3
    <3>2. QED
      BY <1>8, <3>1
  <2>3. m \in 1..m
    BY <1>1
  <2>4. QED
    BY <1>8, <2>1, <2>2, <2>3
<1>10. /\ g \in [M -> 1..m]
       /\ \A w \in W : g[w] = h[x] + ((w - n) - 1)
       /\ \A o \in K : g[o] = IF h[o] >= h[x] THEN h[o] + (m - n) ELSE h[o]
  <2>1. \A w \in W : g[w] = h[x] + ((w - n) - 1)
    BY DEF g
  <2>2. \A o \in K : g[o] = IF h[o] >= h[x] THEN h[o] + (m - n) ELSE h[o]
    BY <1>1 DEF g
  <2>3. h[x] \in 1..n
    BY <1>1
  <2>4. \A w \in W : g[w] \in 1..m
    <3>1. ASSUME NEW w \in W PROVE g[w] \in 1..m
      <4>1. g[w] = h[x] + ((w - n) - 1)
        BY <2>1
      <4>2. n \in Nat /\ m \in Nat /\ w \in Int /\ n < w /\ w <= m
        BY <1>1
      <4> HIDE DEF g, n, m
      <4>3. QED
        BY <2>3, <4>1, <4>2
    <3>2. QED
      BY <3>1
  <2>5. \A o \in K : g[o] \in 1..m
    BY <1>1, <2>2
  <2>6. QED
    BY <2>1, <2>2, <2>4, <2>5 DEF g
<1>11. ASSUME NEW o \in K, o # par, NEW i \in DOMAIN p[o].inputs
       PROVE  /\ p[o].inputs[i] \in K /\ p[o].inputs[i] \notin G
              /\ p[p[o].inputs[i]].output = o /\ h[p[o].inputs[i]] < h[o]
  <2> DEFINE c == p[o].inputs[i]
  <2>1. c \in L /\ p[c].output = o /\ h[c] < h[o] /\ o \notin D /\ o # x
    BY <1>1, ChildOf DEF K
  <2>2. c # x
    BY <1>11, <2>1
  <2>3. c \notin D
    BY <1>4, <2>1
  <2>4. c \notin G
    BY <2>1 DEF G, Grafts
  <2>5. QED
    BY <2>1, <2>2, <2>3, <2>4 DEF K
<1>12. IsTree(q, M, g, s)
  <2>1. M \subseteq 1..m
    <3>1. \A o \in K : o \in 1..m
      BY <1>1
    <3>2. QED
      BY <1>1, <3>1
  <2>2. s \in M /\ q[s].output = 0
    <3>1. CASE x = r
      BY <1>1, <1>9, <3>1
    <3>2. CASE x # r
      <4>1. r \in L /\ p[r].output = 0
        BY DEF IsTree
      <4>2. r \notin D /\ r \notin G
        <5>1. \A d \in D : p[d].output # 0
          BY <1>1, <1>4
        <5>2. r \notin G
          <6>1. ASSUME NEW o \in D \cup {x} PROVE o # 0
            BY <1>1, <1>4
          <6>2. QED
            BY <4>1, <6>1 DEF G, Grafts
        <5>3. QED
          BY <4>1, <5>1, <5>2
      <4>3. QED
        BY <1>9, <3>2, <4>1, <4>2 DEF K
    <3>3. QED
      BY <3>1, <3>2
  <2>3. \A o \in M : IsInjective(q[o].inputs)
    <3>1. IsInjective(<<m>>)
      BY DEF IsInjective
    <3>2. \A o \in K : IsInjective(p[o].inputs)
      BY <1>1 DEF IsTree
    <3>3. QED
      BY <1>4, <1>9, <3>1, <3>2
  <2>4. ASSUME NEW o \in K, NEW i \in DOMAIN q[o].inputs PROVE Edge(q, M, g, o, q[o].inputs[i])
    <3>1. CASE o = par
      <4>1. q[o].inputs = <<m>> /\ x # r
        BY <1>1, <1>9, <3>1
      <4>2. q[o].inputs[i] = m
        BY <2>4, <4>1
      <4>3. g[m] < g[par]
        <5>1. h[x] \in Nat /\ h[par] \in Nat /\ h[x] < h[par]
          <6>1. par \in K /\ par \in L /\ h[x] < h[par]
            BY <1>1, <1>3, <4>1
          <6>2. QED
            BY <1>2, <6>1
        <5>2. /\ g[m] = h[x] + ((m - n) - 1)
              /\ g[par] = IF h[par] >= h[x] THEN h[par] + (m - n) ELSE h[par]
          BY <1>1, <1>3, <1>10, <4>1
        <5>3. n \in Nat /\ m \in Nat /\ m > n
          BY <1>1
        <5> HIDE DEF n, m, par
        <5>4. QED
          BY <5>1, <5>2, <5>3
      <4>4. QED
        BY <1>1, <1>9, <3>1, <4>2, <4>3 DEF Edge
    <3>2. CASE o # par
      <4> DEFINE c == p[o].inputs[i]
      <4>1. q[o].inputs = p[o].inputs /\ i \in DOMAIN p[o].inputs
        BY <1>9, <2>4, <3>2
      <4>2. c \in K /\ c \notin G /\ p[c].output = o /\ h[c] < h[o]
        BY <1>11, <3>2, <4>1
      <4>3. g[c] < g[o]
        <5>1. \A y \in K : h[y] \in Nat
          BY <1>1
        <5>2. h[c] \in Nat /\ h[o] \in Nat /\ h[x] \in Nat
          <6>1. c \in K /\ o \in K /\ x \in L
            BY <4>2
          <6>2. QED
            BY <1>2, <5>1, <6>1
        <5> HIDE DEF c
        <5>3. /\ g[c] = IF h[c] >= h[x] THEN h[c] + (m - n) ELSE h[c]
              /\ g[o] = IF h[o] >= h[x] THEN h[o] + (m - n) ELSE h[o]
          <6>1. c \in K /\ o \in K
            BY <4>2
          <6> HIDE DEF g, K, m, n
          <6>2. \A y \in K : g[y] = IF h[y] >= h[x] THEN h[y] + (m - n) ELSE h[y]
            BY <1>10, ZenonT(60)
          <6>3. QED
            BY <6>1, <6>2, ZenonT(60)
        <5>4. n \in Nat /\ m \in Nat /\ m > n
          BY <1>1
        <5> HIDE DEF n, m, g
        <5>5. QED
          BY <4>2, <5>2, <5>3, <5>4
      <4>4. QED
        BY <1>9, <4>1, <4>2, <4>3 DEF Edge
    <3>3. QED
      BY <3>1, <3>2
  <2>5. ASSUME NEW w \in W, NEW i \in DOMAIN q[w].inputs PROVE Edge(q, M, g, w, q[w].inputs[i])
    <3> DEFINE c == q0[w].inputs[i]
    <3>1. q[w].inputs = q0[w].inputs /\ GraftEdge(q0, p, n, L, x, D, w, c)
      BY <1>5, <1>9, <2>5
    <3>2. CASE c \in G
      <4>1. c \in K /\ q[c].output = w
        BY <1>1, <1>9, <3>1, <3>2 DEF GraftEdge
      <4>2. h[c] < h[x]
        <5>1. c \in L /\ p[c].output \in D \cup {x}
          BY <3>2 DEF G, Grafts
        <5>2. p[c].output \in L /\ p[c].output # 0
          BY <1>1, <1>4, <5>1
        <5>3. c # r
          BY <5>2 DEF IsTree
        <5>4. h[c] < h[p[c].output]
          BY <5>1, <5>3, ParentOf
        <5>5. p[c].output = x \/ h[p[c].output] < h[x]
          <6>1. CASE p[c].output \in D
            <7>1. p[p[c].output].output = x /\ x # 0
              BY <1>1, <1>4, <6>1
            <7>2. p[c].output # r
              BY <7>1 DEF IsTree
            <7>3. QED
              BY <5>2, <7>1, <7>2, ParentOf
          <6>2. QED
            BY <5>1, <6>1
        <5>6. h[c] \in Nat /\ h[x] \in Nat /\ h[p[c].output] \in Nat
          <6>1. \A y \in L : h[y] \in Nat
            BY <1>1
          <6>2. QED
            BY <5>1, <5>2, <6>1
        <5>7. QED
          BY <5>4, <5>5, <5>6
      <4>3. g[c] < g[w]
        <5>1. h[c] \in Nat /\ h[x] \in Nat
          <6>1. c \in L
            BY <1>1, <4>1
          <6>2. QED
            BY <1>2, <6>1
        <5>2. g[c] = IF h[c] >= h[x] THEN h[c] + (m - n) ELSE h[c]
          BY <1>10, <4>1
        <5>3. g[w] = h[x] + ((w - n) - 1)
          BY <1>10
        <5>4. w \in Int /\ w > n /\ n \in Nat
          BY <1>1
        <5> HIDE DEF c, n, m
        <5>5. QED
          BY <4>2, <5>1, <5>2, <5>3, <5>4
      <4>4. QED
        BY <3>1, <4>1, <4>3 DEF Edge
    <3>3. CASE c \in W /\ c < w
      <4>1. c # m /\ q[c].output = w
        <5>1. q0[c].output = w /\ c # m
          BY <1>1, <3>1, <3>3 DEF GraftEdge
        <5>2. QED
          BY <1>9, <3>3, <5>1
      <4>2. g[c] < g[w]
        <5>1. h[x] \in Nat
          BY <1>2
        <5> HIDE DEF c
        <5>2. /\ c \in Int /\ w \in Int /\ c < w
              /\ g[c] = h[x] + ((c - n) - 1) /\ g[w] = h[x] + ((w - n) - 1)
          BY <1>1, <1>10, <3>3
        <5>3. n \in Nat
          BY <1>1
        <5> HIDE DEF n, m
        <5>4. QED
          BY <5>1, <5>2, <5>3
      <4>3. QED
        BY <3>1, <3>3, <4>1, <4>2 DEF Edge
    <3>4. QED
      BY <3>1, <3>2, <3>3 DEF GraftEdge, G, W
  <2>6. ASSUME NEW o \in M, o # s PROVE q[o].output \in M /\ o \in ToSet(q[q[o].output].inputs)
    <3>1. CASE o = m
      <4>1. x # r
        BY <2>6, <3>1
      <4>2. par \in K /\ q[par].inputs = <<m>> /\ q[m].output = par
        BY <1>3, <1>9, <4>1
      <4>3. QED
        BY <3>1, <4>2 DEF ToSet
    <3>2. CASE o \in W \ {m}
      BY <1>4, <1>9, <3>2
    <3>3. CASE o \in G
      BY <1>1, <1>4, <1>9, <3>3
    <3>4. CASE o \in K \ G
      <4>1. o \in L /\ o \notin D /\ o # x /\ p[o].output \notin D \cup {x}
        BY <1>1, <3>4 DEF K, G, Grafts
      <4>2. o # r
        BY <2>6, <4>1 DEF IsTree
      <4>3. p[o].output \in L /\ \E i \in DOMAIN p[p[o].output].inputs : p[p[o].output].inputs[i] = o
        BY <4>1, <4>2, ParentOf
      <4>4. p[o].output \in K
        BY <4>1, <4>3 DEF K
      <4>5. p[o].output # par
        <5>1. SUFFICES ASSUME p[o].output = par PROVE FALSE
          OBVIOUS
        <5>2. x # r
          BY <1>1, <4>3, <5>1
        <5>3. QED
          BY <1>3, <4>1, <4>3, <5>1, <5>2
      <4>6. q[o].output = p[o].output /\ q[p[o].output].inputs = p[p[o].output].inputs
        BY <1>9, <3>4, <4>4, <4>5
      <4>7. QED
        BY <4>3, <4>4, <4>6 DEF ToSet
    <3>5. QED
      BY <3>1, <3>2, <3>3, <3>4
  <2>7. QED
    BY <1>8, <1>10, <2>1, <2>2, <2>3, <2>4, <2>5, <2>6 DEF IsTree
<1>13. ASSUME NEW w \in W PROVE q[w].out = SchemaOf(q, w)
  <2>1. IsOp(q0[w], m, S)
    BY <1>1 DEF IsPool
  <2>2. \A i \in DOMAIN q0[w].inputs : q0[w].inputs[i] \in 1..m
    BY <2>1 DEF IsOp
  <2>3. \A i \in DOMAIN q0[w].inputs : q[q0[w].inputs[i]].out = q0[q0[w].inputs[i]].out
    BY <1>8, <2>2
  <2>4. SchemaOf(q, w) = SchemaOf(q0, w)
    <3>1. /\ q[w].kind = q0[w].kind /\ q[w].arg = q0[w].arg /\ q[w].out = q0[w].out
          /\ q[w].inputs = q0[w].inputs
      BY <1>9
    <3>2. QED
      BY <2>1, <2>3, <3>1, SameSchema
  <2>5. QED
    BY <1>4, <1>9, <2>4
<1>14. ASSUME NEW o \in K, o # par PROVE q[o].out = SchemaOf(q, o)
  <2>1. IsOp(p[o], n, S) /\ o \in L /\ p[o].out = SchemaOf(p, o)
    BY <1>1, NodeOf DEF Schemas
  <2>2. \A i \in DOMAIN p[o].inputs : q[p[o].inputs[i]].out = p[p[o].inputs[i]].out
    BY <1>9, <1>11, <1>14
  <2>3. /\ q[o].kind = p[o].kind /\ q[o].arg = p[o].arg /\ q[o].out = p[o].out
        /\ q[o].inputs = p[o].inputs
    BY <1>9, <1>14
  <2>4. SchemaOf(q, o) = SchemaOf(p, o)
    BY <2>1, <2>2, <2>3, SameSchema
  <2>5. QED
    BY <2>1, <2>3, <2>4
<1>15. ASSUME par \in K, q0[m].out = p[x].out PROVE q[par].out = SchemaOf(q, par)
  <2>1. x # r
    BY <1>1, <1>15
  <2>2. IsOp(p[x], n, S) /\ par \in L /\ p[par].out = SchemaOf(p, par) /\ p[x].out \in Seq(S)
    <3>1. par \in L
      BY <1>1, <1>15
    <3>2. p[par].out = SchemaOf(p, par)
      BY <3>1 DEF Schemas
    <3>3. IsOp(p[x], n, S)
      BY NodeOf
    <3>4. QED
      BY <3>1, <3>2, <3>3 DEF IsOp
  <2>3. /\ q[par].kind = p[par].kind /\ q[par].arg = p[par].arg /\ q[par].out = p[par].out
        /\ q[par].inputs = <<m>> /\ q[m].out = p[x].out
    BY <1>1, <1>9, <1>15
  <2>4. p[par].kind \in Unary /\ p[par].inputs = <<x>>
    BY <1>3, <2>1
  <2>5. CASE p[par].kind \in Copying
    <3>1. SchemaOf(p, par) = p[x].out
      BY <2>2, <2>4, <2>5, CopiedSchema
    <3>2. SchemaOf(q, par) = q[m].out
      BY <2>2, <2>3, <2>5, CopiedSchema
    <3>3. QED
      BY <2>2, <2>3, <3>1, <3>2
  <2>6. CASE p[par].kind \notin Copying
    BY <2>2, <2>3, <2>4, <2>6 DEF SchemaOf, Copying, Unary, Sources, BinOps
  <2>7. QED
    BY <2>5, <2>6
<1>16. QED
  <2>1. \A o \in M : o # par \/ q0[m].out = p[x].out => q[o].out = SchemaOf(q, o)
    BY <1>13, <1>14, <1>15
  <2>2. QED
    BY <1>7, <1>12, <2>1 DEF Regrown, q, K, W

-----------------------------------------------------------------------------
(* What UpwardsUntil makes of bStream: the operators remain what they are.    *)
Restreamed(q, p, S) ==
  /\ IsPool(q, S) /\ Len(q) = Len(p)
  /\ \A o \in 1..Len(p) : /\ Alike(q[o], p[o])
                          /\ q[o].inputs = p[o].inputs /\ q[o].output = p[o].output

Streams(op) == {op} \cup {[op EXCEPT !.stream = b] : b \in BOOLEAN}
Restreams(p) == {q \in [1..Len(p) -> UNION {Streams(p[o]) : o \in 1..Len(p)}] :
                   \A o \in 1..Len(p) : q[o] \in Streams(p[o])}
Places(pools, n) == [pool : pools, at : 0..n]

StreamTurn(s, b) ==
  [pool |-> [s.pool EXCEPT ![s.at] = [s.pool[s.at] EXCEPT !.stream = b]],
   at   |-> s.pool[s.at].output]

(* The pools that differ only in what is a stream: same operators, same edges. *)
LEMMA RestreamsType ==
  ASSUME NEW S, NEW p, IsPool(p, S)
  PROVE  p \in Restreams(p) /\ \A q \in Restreams(p) : Restreamed(q, p, S)
<1> DEFINE n == Len(p)
<1>1. n \in Nat /\ p = [o \in 1..n |-> p[o]] /\ \A o \in 1..n : IsOp(p[o], n, S)
  BY DEF IsPool
<1>3. p \in Restreams(p)
  <2>1. \A o \in 1..n : p[o] \in Streams(p[o])
    BY DEF Streams
  <2>2. \A o \in 1..n : p[o] \in UNION {Streams(p[k]) : k \in 1..n}
    BY <2>1
  <2>3. p \in [1..n -> UNION {Streams(p[k]) : k \in 1..n}]
    BY <1>1, <2>2
  <2>4. QED
    BY <2>1, <2>3 DEF Restreams
<1>4. ASSUME NEW q \in Restreams(p) PROVE Restreamed(q, p, S)
  <2>1. q = [o \in 1..n |-> q[o]] /\ Len(q) = n
    BY <1>1 DEF Restreams
  <2>2. ASSUME NEW o \in 1..n
        PROVE  /\ IsOp(q[o], n, S) /\ Alike(q[o], p[o])
               /\ q[o].inputs = p[o].inputs /\ q[o].output = p[o].output
    <3>1. q[o] = p[o] \/ \E b \in BOOLEAN : q[o] = [p[o] EXCEPT !.stream = b]
      BY DEF Restreams, Streams
    <3>2. IsOp(p[o], n, S)
      BY <1>1
    <3>3. DOMAIN q[o] = Fields /\ q[o].stream \in BOOLEAN /\ q[o].kind = p[o].kind /\ q[o].inputs = p[o].inputs
          /\ q[o].output = p[o].output /\ q[o].out = p[o].out /\ q[o].arg = p[o].arg
      BY <3>1, <3>2 DEF IsOp, Fields
    <3>4. QED
      BY <3>2, <3>3 DEF IsOp, Alike
  <2>3. QED
    BY <1>1, <2>1, <2>2 DEF Restreamed, IsPool
<1>5. QED
  BY <1>3, <1>4

(* A turn of the loop of update_stream_property leads to such a pool again. *)
LEMMA StreamTurnType ==
  ASSUME NEW S, NEW p, IsPool(p, S), NEW s \in Places(Restreams(p), Len(p)), s.at # 0,
         NEW b \in BOOLEAN
  PROVE  StreamTurn(s, b) \in Places(Restreams(p), Len(p))
<1> DEFINE n == Len(p)
           a == [s.pool[s.at] EXCEPT !.stream = b]
           q == [s.pool EXCEPT ![s.at] = a]
<1>1. /\ s.pool \in Restreams(p) /\ s.at \in 1..n /\ n \in Nat
      /\ IsPool(s.pool, S) /\ Len(s.pool) = n /\ s.pool[s.at].output = p[s.at].output
  <2>1. s.pool \in Restreams(p) /\ s.at \in 1..n /\ n \in Nat
    BY DEF Places, IsPool
  <2>2. Restreamed(s.pool, p, S)
    BY <2>1, RestreamsType
  <2>3. QED
    BY <2>1, <2>2 DEF Restreamed
<1>2. a \in Streams(p[s.at])
  <2>1. s.pool[s.at] = p[s.at] \/ \E c \in BOOLEAN : s.pool[s.at] = [p[s.at] EXCEPT !.stream = c]
    BY <1>1 DEF Restreams, Streams
  <2>2. a = [p[s.at] EXCEPT !.stream = b]
    BY <2>1
  <2>3. QED
    BY <2>2 DEF Streams
<1>4. q \in Restreams(p)
  <2>1. a \in UNION {Streams(p[k]) : k \in 1..n}
    BY <1>1, <1>2
  <2> HIDE DEF a
  <2>2. q \in [1..n -> UNION {Streams(p[k]) : k \in 1..n}] /\ q[s.at] = a
        /\ \A o \in 1..n : o # s.at => q[o] = s.pool[o]
    BY <1>1, <2>1 DEF Restreams
  <2>3. ASSUME NEW o \in 1..n PROVE q[o] \in Streams(p[o])
    <3>1. CASE o = s.at
      BY <1>2, <2>2, <3>1
    <3>2. CASE o # s.at
      BY <1>1, <2>2, <3>2 DEF Restreams
    <3>3. QED
      BY <3>1, <3>2
  <2>4. QED
    BY <2>2, <2>3 DEF Restreams
<1>5. s.pool[s.at].output \in 0..n
  BY <1>1 DEF IsPool, IsOp
<1>6. QED
  BY <1>4, <1>5 DEF StreamTurn, Places

(* The loop stays within the pools that differ in bStream only.                *)
LEMMA UpdateStreams ==
  ASSUME NEW S, NEW p, IsPool(p, S), NEW o \in 0..Len(p)
  PROVE  Restreamed(UpdateStreamPropertyRecursive(p, o), p, S)
<1> DEFINE n == Len(p)
           A == Places(Restreams(p), n)
           start == [pool |-> p, at |-> o]
           stops == {"groupAggr", "streamCross", "except"} \cup Sources \cup XStreams \cup Windows
           T(s) == IF s.at = 0 \/ s.pool[s.at].kind \in stops THEN s
                   ELSE StreamTurn(s, StreamOf(s.pool, s.at))
           U(f) == [i \in 0..n |-> IF i = 0 THEN start ELSE T(f[i - 1])]
           up == CHOOSE f : f = U(f)
<1>1. n \in Nat /\ start \in A
  BY RestreamsType DEF Places, IsPool
<1>2. ASSUME NEW s \in A PROVE T(s) \in A
  <2>1. StreamOf(s.pool, s.at) \in BOOLEAN
    BY DEF StreamOf
  <2> HIDE DEF A, stops
  <2>2. s.at # 0 => StreamTurn(s, StreamOf(s.pool, s.at)) \in A
    BY <2>1, StreamTurnType DEF A
  <2>3. QED
    BY <2>2
<1> HIDE DEF A, start, T
<1>3. \E f : f = U(f)
  <2> DEFINE Turn == [x \in A \X (1..n) |-> T(x[1])]
  <2>1. Turns(n, A, start, Turn)
    BY <1>1, <1>2 DEF Turns
  <2>2. PICK f : Values(f, n, A, start, Turn)
    <3> HIDE DEF Turn, n
    <3>1. QED
      BY <2>1, Iteration
  <2>3. /\ f[0] = start /\ \A i \in 1..n : f[i] = T(f[i - 1])
    <3>1. \A i \in 1..n : i - 1 \in 0..n
      BY <1>1
    <3>2. \A i \in 1..n : f[i - 1] \in A
      BY <2>2, <3>1 DEF Values
    <3>3. QED
      BY <2>2, <3>2 DEF Values
  <2>4. f = U(f)
    <3>1. f = [i \in 0..n |-> f[i]]
      BY <2>2 DEF Values
    <3>2. \A i \in 0..n : i # 0 => i \in 1..n
      BY <1>1
    <3>3. \A i \in 0..n : f[i] = IF i = 0 THEN start ELSE T(f[i - 1])
      BY <2>3, <3>2
    <3>4. QED
      BY <3>1, <3>3
  <2>5. QED
    BY <2>4
<1>4. up = U(up)
  BY <1>3
<1> HIDE DEF up
<1>5. up[0] = start /\ \A i \in 1..n : up[i] = T(up[i - 1])
  BY <1>1, <1>4
<1>6. \A i \in 0..n : up[i] \in A
  BY <1>1, <1>2, <1>5, Throughout
<1>7. up[n] \in A
  BY <1>1, <1>6
<1>8. UpdateStreamPropertyRecursive(p, o) = up[n].pool
  BY DEF UpdateStreamPropertyRecursive, UpwardsUntil, Above, up, T, start, StreamTurn
<1>9. up[n].pool \in Restreams(p)
  BY <1>7 DEF A, Places
<1>10. QED
  BY <1>8, <1>9, RestreamsType

(* The operators between Rstream and Now, which all become streams.            *)
AllStreams(p, o) ==
  LET stream(q, a) == [q[a] EXCEPT !.stream = TRUE] IN UpwardsUntil(p, o, {}, stream)

(* update_stream_property_recursive changes nothing but what is a stream. *)
LEMMA StreamsUpwards ==
  ASSUME NEW S, NEW p, IsPool(p, S), NEW o \in 0..Len(p)
  PROVE  Restreamed(AllStreams(p, o), p, S)
<1> DEFINE n == Len(p)
           A == Places(Restreams(p), n)
           start == [pool |-> p, at |-> o]
           T(s) == IF s.at = 0 \/ s.pool[s.at].kind \in {} THEN s ELSE StreamTurn(s, TRUE)
           U(f) == [i \in 0..n |-> IF i = 0 THEN start ELSE T(f[i - 1])]
           up == CHOOSE f : f = U(f)
<1>1. n \in Nat /\ start \in A
  BY RestreamsType DEF Places, IsPool
<1>2. ASSUME NEW s \in A PROVE T(s) \in A
  <2> HIDE DEF A
  <2>1. s.at # 0 => StreamTurn(s, TRUE) \in A
    BY StreamTurnType DEF A
  <2>2. QED
    BY <2>1
<1> HIDE DEF A, start, T
<1>3. \E f : f = U(f)
  <2> DEFINE Turn == [x \in A \X (1..n) |-> T(x[1])]
  <2>1. Turns(n, A, start, Turn)
    BY <1>1, <1>2 DEF Turns
  <2>2. PICK f : Values(f, n, A, start, Turn)
    <3> HIDE DEF Turn, n
    <3>1. QED
      BY <2>1, Iteration
  <2>3. /\ f[0] = start /\ \A i \in 1..n : f[i] = T(f[i - 1])
    <3>1. \A i \in 1..n : i - 1 \in 0..n
      BY <1>1
    <3>2. \A i \in 1..n : f[i - 1] \in A
      BY <2>2, <3>1 DEF Values
    <3>3. QED
      BY <2>2, <3>2 DEF Values
  <2>4. f = U(f)
    <3>1. f = [i \in 0..n |-> f[i]]
      BY <2>2 DEF Values
    <3>2. \A i \in 0..n : i # 0 => i \in 1..n
      BY <1>1
    <3>3. \A i \in 0..n : f[i] = IF i = 0 THEN start ELSE T(f[i - 1])
      BY <2>3, <3>2
    <3>4. QED
      BY <3>1, <3>3
  <2>5. QED
    BY <2>4
<1>4. up = U(up)
  BY <1>3
<1> HIDE DEF up
<1>5. up[0] = start /\ \A i \in 1..n : up[i] = T(up[i - 1])
  BY <1>1, <1>4
<1>6. \A i \in 0..n : up[i] \in A
  BY <1>1, <1>2, <1>5, Throughout
<1>7. up[n] \in A
  BY <1>1, <1>6
<1>8. AllStreams(p, o) = up[n].pool
  BY DEF AllStreams, UpwardsUntil, Above, up, T, start, StreamTurn
<1>9. up[n].pool \in Restreams(p)
  BY <1>7 DEF A, Places
<1>10. QED
  BY <1>8, <1>9, RestreamsType

(* A tree is one whatever the schemas and bStream of its operators are.        *)
LEMMA SameLinks ==
  ASSUME NEW p, NEW L, NEW h, NEW r, IsTree(p, L, h, r), NEW q, Len(q) = Len(p),
         \A o \in L : q[o].inputs = p[o].inputs /\ q[o].output = p[o].output
  PROVE  IsTree(q, L, h, r)
<1>1. L \subseteq 1..Len(q) /\ h \in [L -> 1..Len(q)] /\ r \in L /\ q[r].output = 0
  BY DEF IsTree
<1>2. \A o \in L : IsInjective(q[o].inputs)
  BY DEF IsTree
<1>3. \A o \in L : \A i \in DOMAIN q[o].inputs : Edge(q, L, h, o, q[o].inputs[i])
  <2>1. \A o \in L : \A i \in DOMAIN p[o].inputs : Edge(p, L, h, o, p[o].inputs[i])
    BY DEF IsTree
  <2>2. ASSUME NEW o \in L, NEW i \in DOMAIN q[o].inputs PROVE Edge(q, L, h, o, q[o].inputs[i])
    <3>1. Edge(p, L, h, o, p[o].inputs[i]) /\ q[o].inputs = p[o].inputs
      BY <2>1
    <3>2. QED
      BY <3>1 DEF Edge
  <2>3. QED
    BY <2>2
<1>4. \A o \in L : o # r => q[o].output \in L /\ o \in ToSet(q[q[o].output].inputs)
  BY DEF IsTree
<1>5. QED
  BY <1>1, <1>2, <1>3, <1>4 DEF IsTree

(* What is a stream matters neither to the tree nor to its schemas. *)
LEMMA RestreamTree ==
  ASSUME NEW S, NEW p, IsPool(p, S), NEW L, NEW h, NEW r, IsTree(p, L, h, r), Schemas(p, L),
         NEW q, Restreamed(q, p, S)
  PROVE  IsTree(q, L, h, r) /\ Schemas(q, L)
<1>1. L \subseteq 1..Len(p)
  BY DEF IsTree
<1>2. \A o \in L : /\ q[o].kind = p[o].kind /\ q[o].arg = p[o].arg /\ q[o].out = p[o].out
                   /\ q[o].inputs = p[o].inputs /\ q[o].output = p[o].output
  BY <1>1 DEF Restreamed, Alike
<1>3. IsTree(q, L, h, r)
  BY <1>2, SameLinks DEF Restreamed
<1>4. ASSUME NEW o \in L PROVE q[o].out = SchemaOf(q, o)
  <2>1. IsOp(p[o], Len(p), S)
    BY NodeOf
  <2>2. \A i \in DOMAIN p[o].inputs : p[o].inputs[i] \in L
    BY ChildOf
  <2>3. \A i \in DOMAIN p[o].inputs : q[p[o].inputs[i]].out = p[p[o].inputs[i]].out
    BY <1>2, <2>2
  <2>4. SchemaOf(q, o) = SchemaOf(p, o)
    BY <1>2, <2>1, <2>3, SameSchema
  <2>5. QED
    BY <1>2, <2>4 DEF Schemas
<1>5. QED
  BY <1>3, <1>4 DEF Schemas

-----------------------------------------------------------------------------
(* The schemas, which are put right from an operator upwards.                 *)
SchemaStops == {"project", "groupAggr"} \cup Sources \cup BinOps

(* A list as long as another, with all that is in it. *)
Covers(s, t) == Len(s) = Len(t) /\ ToSet(t) \subseteq ToSet(s)

Outs(op, S) == {op} \cup {[op EXCEPT !.out = s] : s \in Seq(S)}
Reschemas(p, S) == {q \in [1..Len(p) -> UNION {Outs(p[o], S) : o \in 1..Len(p)}] :
                      \A o \in 1..Len(p) : q[o] \in Outs(p[o], S) /\ Covers(q[o].out, p[o].out)}

(* At most the operator at which the loop is has not the schema it should.     *)
Right(p, L, o) ==
  \A x \in L : x # o \/ p[x].kind \in SchemaStops => p[x].out = SchemaOf(p, x)

SchemaTurn(s) ==
  [pool |-> [s.pool EXCEPT ![s.at] = [s.pool[s.at] EXCEPT !.out = JoinedSchemas(s.pool, s.at)]],
   at   |-> s.pool[s.at].output]

SchemaPlaces(p, S, L) ==
  {s \in [pool : Reschemas(p, S), at : L \cup {0}] : Right(s.pool, L, s.at)}

Reschemed(q, p, S) ==
  /\ IsPool(q, S) /\ Len(q) = Len(p)
  /\ \A o \in 1..Len(p) : /\ q[o].kind = p[o].kind /\ q[o].arg = p[o].arg
                          /\ q[o].inputs = p[o].inputs /\ q[o].output = p[o].output
                          /\ Covers(q[o].out, p[o].out)

(* The pools that differ only in schemas: same operators, same edges. *)
LEMMA ReschemasType ==
  ASSUME NEW S, NEW p, IsPool(p, S)
  PROVE  p \in Reschemas(p, S) /\ \A q \in Reschemas(p, S) : Reschemed(q, p, S)
<1> DEFINE n == Len(p)
<1>1. n \in Nat /\ p = [o \in 1..n |-> p[o]] /\ \A o \in 1..n : IsOp(p[o], n, S)
  BY DEF IsPool
<1>2. p \in Reschemas(p, S)
  <2>1. \A o \in 1..n : p[o] \in Outs(p[o], S) /\ Covers(p[o].out, p[o].out)
    BY DEF Outs, Covers
  <2>2. \A o \in 1..n : p[o] \in UNION {Outs(p[k], S) : k \in 1..n}
    BY <2>1
  <2>3. p \in [1..n -> UNION {Outs(p[k], S) : k \in 1..n}]
    BY <1>1, <2>2
  <2>4. QED
    BY <2>1, <2>3 DEF Reschemas
<1>3. ASSUME NEW q \in Reschemas(p, S) PROVE Reschemed(q, p, S)
  <2>1. q = [o \in 1..n |-> q[o]] /\ Len(q) = n
    BY <1>1 DEF Reschemas
  <2>2. ASSUME NEW o \in 1..n
        PROVE  /\ IsOp(q[o], n, S) /\ q[o].kind = p[o].kind /\ q[o].arg = p[o].arg
               /\ q[o].inputs = p[o].inputs /\ q[o].output = p[o].output
               /\ Covers(q[o].out, p[o].out)
    <3>1. /\ q[o] = p[o] \/ \E s \in Seq(S) : q[o] = [p[o] EXCEPT !.out = s]
          /\ Covers(q[o].out, p[o].out)
      BY DEF Reschemas, Outs
    <3>2. IsOp(p[o], n, S)
      BY <1>1
    <3>3. DOMAIN q[o] = Fields /\ q[o].stream = p[o].stream /\ q[o].kind = p[o].kind
          /\ q[o].inputs = p[o].inputs /\ q[o].output = p[o].output /\ q[o].arg = p[o].arg
          /\ q[o].out \in Seq(S)
      BY <3>1, <3>2 DEF IsOp, Fields
    <3>4. Len(q[o].out) = Len(p[o].out)
      BY <3>1 DEF Covers
    <3>5. QED
      BY <3>1, <3>2, <3>3, <3>4 DEF IsOp
  <2>3. QED
    BY <1>1, <2>1, <2>2 DEF Reschemed, IsPool
<1>4. QED
  BY <1>2, <1>3

(* When the inputs offer what they did and are as long, so is their joined     *)
(* schema.                                                                   *)
LEMMA JoinedCovers ==
  ASSUME NEW S, NEW p, IsPool(p, S), NEW q, Reschemed(q, p, S), NEW o \in 1..Len(p)
  PROVE  JoinedSchemas(q, o) \in Seq(S) /\ Covers(JoinedSchemas(q, o), JoinedSchemas(p, o))
<1> DEFINE n == Len(p)
           m == Len(p[o].inputs)
           ss == [i \in 1..m |-> q[p[o].inputs[i]].out]
           tt == [i \in 1..m |-> p[p[o].inputs[i]].out]
<1>1. /\ n \in Nat /\ m \in Nat /\ DOMAIN p[o].inputs = 1..m
      /\ \A i \in 1..m : p[o].inputs[i] \in 1..n
  BY PoolOp
<1>2. \A x \in 1..n : p[x].out \in Seq(S) /\ q[x].out \in Seq(S) /\ Covers(q[x].out, p[x].out)
  BY DEF IsPool, IsOp, Reschemed
<1>3. /\ \A i \in 1..m : ss[i] \in Seq(S) /\ tt[i] \in Seq(S) /\ Covers(ss[i], tt[i])
      /\ Len(ss) = m /\ Len(tt) = m
  BY <1>1, <1>2
<1>4. ss \in Seq(Seq(S)) /\ tt \in Seq(Seq(S))
  <2> DEFINE Q == Seq(S)
  <2>1. /\ m \in Nat /\ ss = [i \in 1..m |-> ss[i]] /\ tt = [i \in 1..m |-> tt[i]]
        /\ \A i \in 1..m : ss[i] \in Q /\ tt[i] \in Q
    BY <1>1, <1>3
  <2> HIDE DEF Q, ss, tt, m
  <2>2. ss \in Seq(Q) /\ tt \in Seq(Q)
    BY <2>1
  <2>3. QED
    BY <2>2 DEF Q
<1>5. JoinedSchemas(q, o) = FlattenSeq(ss) /\ JoinedSchemas(p, o) = FlattenSeq(tt)
  BY <1>1 DEF JoinedSchemas, Reschemed
<1> HIDE DEF ss, tt, m
<1>6. FlattenSeq(ss) \in Seq(S) /\ Len(FlattenSeq(ss)) = Len(FlattenSeq(tt))
  <2>1. \A i \in 1..Len(ss) : Len(ss[i]) = Len(tt[i])
    BY <1>3 DEF Covers
  <2>2. QED
    BY <1>3, <1>4, <2>1, FlatType, FlatLengths
<1>7. ToSet(FlattenSeq(tt)) \subseteq ToSet(FlattenSeq(ss))
  <2>1. /\ ToSet(FlattenSeq(ss)) = UNION {ToSet(ss[i]) : i \in 1..m}
        /\ ToSet(FlattenSeq(tt)) = UNION {ToSet(tt[i]) : i \in 1..m}
    BY <1>3, <1>4, FlatMembers
  <2>2. \A i \in 1..m : ToSet(tt[i]) \subseteq ToSet(ss[i])
    BY <1>3 DEF Covers
  <2>3. QED
    BY <2>1, <2>2
<1>8. QED
  BY <1>5, <1>6, <1>7 DEF Covers

FitSchemas(p, L) ==
  /\ \A x \in L : p[x].kind \notin BinOps
  /\ \A x \in L : p[x].kind \notin SchemaStops => Covers(JoinedSchemas(p, x), p[x].out)

(* A turn of the loop of update_schema_recursive: the schema below has been set, next the
   output. *)
LEMMA SchemaTurnType ==
  ASSUME NEW S, NEW p, IsPool(p, S), NEW L, NEW h, NEW r, IsTree(p, L, h, r), FitSchemas(p, L),
         NEW s \in SchemaPlaces(p, S, L), s.at # 0, s.pool[s.at].kind \notin SchemaStops
  PROVE  SchemaTurn(s) \in SchemaPlaces(p, S, L)
<1> DEFINE n == Len(p)
           t == s.pool
           o == s.at
           out == JoinedSchemas(t, o)
           a == [t[o] EXCEPT !.out = out]
           q == [t EXCEPT ![o] = a]
           b == t[o].output
<1>1. /\ t \in Reschemas(p, S) /\ o \in L /\ Right(t, L, o) /\ L \subseteq 1..n /\ o \in 1..n /\ n \in Nat
  BY DEF SchemaPlaces, IsTree, IsPool
<1>2. Reschemed(t, p, S)
  BY <1>1, ReschemasType
<1>3. /\ IsPool(t, S) /\ Len(t) = n
      /\ \A x \in 1..n : /\ t[x].kind = p[x].kind /\ t[x].arg = p[x].arg
                         /\ t[x].inputs = p[x].inputs /\ t[x].output = p[x].output
                         /\ Covers(t[x].out, p[x].out)
  BY <1>2 DEF Reschemed
<1>4. out \in Seq(S) /\ Covers(out, p[o].out)
  <2>1. p[o].kind \notin SchemaStops
    BY <1>1, <1>3
  <2>2. Covers(JoinedSchemas(p, o), p[o].out)
    BY <1>1, <2>1 DEF FitSchemas
  <2>3. out \in Seq(S) /\ Covers(out, JoinedSchemas(p, o))
    BY <1>1, <1>2, JoinedCovers
  <2> HIDE DEF out
  <2>4. QED
    BY <2>2, <2>3 DEF Covers
<1> HIDE DEF out
<1>5. a \in Outs(p[o], S) /\ a.out = out
  <2>1. t[o] = p[o] \/ \E x \in Seq(S) : t[o] = [p[o] EXCEPT !.out = x]
    BY <1>1 DEF Reschemas, Outs
  <2>2. a = [p[o] EXCEPT !.out = out]
    BY <2>1
  <2>3. "out" \in DOMAIN p[o]
    BY <1>1 DEF IsPool, IsOp, Fields
  <2>4. QED
    BY <1>4, <2>2, <2>3 DEF Outs
<1>6. q \in Reschemas(p, S) /\ q[o] = a /\ \A x \in 1..n : x # o => q[x] = t[x]
  <2>1. a \in UNION {Outs(p[k], S) : k \in 1..n}
    BY <1>1, <1>5
  <2> HIDE DEF a
  <2>2. /\ q \in [1..n -> UNION {Outs(p[k], S) : k \in 1..n}]
        /\ q[o] = a /\ \A x \in 1..n : x # o => q[x] = t[x]
    BY <1>1, <2>1 DEF Reschemas
  <2>3. ASSUME NEW x \in 1..n PROVE q[x] \in Outs(p[x], S) /\ Covers(q[x].out, p[x].out)
    <3>1. CASE x = o
      BY <1>4, <1>5, <2>2, <3>1
    <3>2. CASE x # o
      BY <1>1, <2>2, <3>2 DEF Reschemas
    <3>3. QED
      BY <3>1, <3>2
  <2>4. QED
    BY <2>2, <2>3 DEF Reschemas
<1>7. Reschemed(q, p, S)
  BY <1>6, ReschemasType
<1>8. b \in L \cup {0} /\ b = p[o].output
  <2>1. b = p[o].output
    BY <1>1, <1>3
  <2>2. o # r => p[o].output \in L
    BY <1>1, ParentOf
  <2>3. p[r].output = 0
    BY DEF IsTree
  <2>4. QED
    BY <2>1, <2>2, <2>3
<1> HIDE DEF q, b
<1>9. \A x \in 1..n : /\ q[x].kind = p[x].kind /\ q[x].arg = p[x].arg
                      /\ q[x].inputs = p[x].inputs /\ q[x].output = p[x].output
  BY <1>7 DEF Reschemed
<1>10. ASSUME NEW x \in L, x # b \/ q[x].kind \in SchemaStops PROVE q[x].out = SchemaOf(q, x)
  <2>1. x \in 1..n /\ IsOp(p[x], n, S) /\ p[x].kind \notin BinOps
    BY NodeOf DEF FitSchemas
  <2>2. CASE p[x].kind \in SchemaStops
    <3>1. x # o
      BY <1>1, <1>3, <2>2
    <3>2. q[x] = t[x] /\ t[x].out = SchemaOf(t, x)
      BY <1>1, <1>3, <1>6, <2>1, <2>2 DEF Right
    <3>3. SchemaOf(q, x) = SchemaOf(t, x)
      BY <1>3, <2>1, <2>2, <3>2 DEF SchemaOf, SchemaStops
    <3>4. QED
      BY <3>2, <3>3
  <2>3. CASE p[x].kind \notin SchemaStops
    <3>1. x # b
      BY <1>9, <1>10, <2>1, <2>3
    <3>2. \A i \in DOMAIN p[x].inputs : p[x].inputs[i] \in 1..n /\ p[x].inputs[i] # o
      <4>1. \A i \in DOMAIN p[x].inputs : p[x].inputs[i] \in L /\ p[p[x].inputs[i]].output = x
        BY ChildOf
      <4>2. QED
        BY <1>1, <1>8, <3>1, <4>1
    <3>3. \A i \in DOMAIN p[x].inputs : q[p[x].inputs[i]].out = t[p[x].inputs[i]].out
      BY <1>6, <3>2
    <3>4. JoinedSchemas(q, x) = JoinedSchemas(t, x)
      <4>1. q[x].inputs = p[x].inputs /\ t[x].inputs = p[x].inputs
        BY <1>3, <1>9, <2>1
      <4>2. QED
        BY ONLY <3>3, <4>1, SameJoined
    <3>5. SchemaOf(q, x) = JoinedSchemas(q, x) /\ SchemaOf(t, x) = JoinedSchemas(t, x)
      BY <1>3, <1>9, <2>1, <2>3 DEF SchemaOf, SchemaStops
    <3>6. CASE x = o
      BY <1>5, <1>6, <3>4, <3>5, <3>6 DEF out
    <3>7. CASE x # o
      <4>1. q[x] = t[x] /\ t[x].out = SchemaOf(t, x)
        BY <1>1, <1>6, <2>1, <3>7 DEF Right
      <4>2. QED
        BY <3>4, <3>5, <4>1
    <3>8. QED
      BY <3>6, <3>7
  <2>4. QED
    BY <2>2, <2>3
<1>11. Right(q, L, b)
  BY <1>10 DEF Right
<1>12. SchemaTurn(s) = [pool |-> q, at |-> b]
  BY DEF SchemaTurn, q, b, out
<1>13. QED
  BY <1>6, <1>8, <1>11, <1>12 DEF SchemaPlaces

(* update_schema_recursive leaves a tree in which all schemas are right. *)
LEMMA UpdateSchemas ==
  ASSUME NEW S, NEW p, IsPool(p, S), NEW L, NEW h, NEW r, IsTree(p, L, h, r), FitSchemas(p, L),
         NEW o \in L, Right(p, L, o)
  PROVE  /\ Reschemed(UpdateSchemaRecursive(p, o), p, S)
         /\ IsTree(UpdateSchemaRecursive(p, o), L, h, r)
         /\ Schemas(UpdateSchemaRecursive(p, o), L)
<1> DEFINE n == Len(p)
           A == SchemaPlaces(p, S, L)
           start == [pool |-> p, at |-> o]
           Halted(s) == s.at = 0 \/ s.pool[s.at].kind \in SchemaStops
           T(s) == IF Halted(s) THEN s ELSE SchemaTurn(s)
           U(f) == [i \in 0..n |-> IF i = 0 THEN start ELSE T(f[i - 1])]
           up == CHOOSE f : f = U(f)
           q == up[n].pool
<1>1. n \in Nat /\ start \in A
  BY ReschemasType DEF SchemaPlaces, IsPool
<1>2. ASSUME NEW s \in A PROVE T(s) \in A
  BY SchemaTurnType
<1> HIDE DEF A, start, T
<1>4. \E f : f = U(f)
  <2> DEFINE Turn == [x \in A \X (1..n) |-> T(x[1])]
  <2>1. Turns(n, A, start, Turn)
    BY <1>1, <1>2 DEF Turns
  <2>2. PICK f : Values(f, n, A, start, Turn)
    <3> HIDE DEF Turn, n
    <3>1. QED
      BY <2>1, Iteration
  <2>3. /\ f[0] = start /\ \A i \in 1..n : f[i] = T(f[i - 1])
    <3>1. \A i \in 1..n : i - 1 \in 0..n
      BY <1>1
    <3>2. \A i \in 1..n : f[i - 1] \in A
      BY <2>2, <3>1 DEF Values
    <3>3. QED
      BY <2>2, <3>2 DEF Values
  <2>4. f = U(f)
    <3>1. f = [i \in 0..n |-> f[i]]
      BY <2>2 DEF Values
    <3>2. \A i \in 0..n : i # 0 => i \in 1..n
      BY <1>1
    <3>3. \A i \in 0..n : f[i] = IF i = 0 THEN start ELSE T(f[i - 1])
      BY <2>3, <3>2
    <3>4. QED
      BY <3>1, <3>3
  <2>5. QED
    BY <2>4
<1>5. up = U(up)
  BY <1>4
<1> HIDE DEF up
<1>6. up[0] = start /\ \A i \in 1..n : up[i] = T(up[i - 1])
  BY <1>1, <1>5
<1>7. \A i \in 0..n : up[i] \in A
  BY <1>1, <1>2, <1>6, Throughout
<1>8. \A s \in A : /\ Reschemed(s.pool, p, S) /\ s.at \in L \cup {0} /\ Right(s.pool, L, s.at)
  BY ReschemasType DEF A, SchemaPlaces
<1>9. Halted(up[n])
  <2> DEFINE B == {i \in 0..n : Halted(up[i]) \/ h[up[i].at] > i}
             id == [i \in 0..n |-> i]
  <2>1. \A x \in L : h[x] \in 1..n /\ x \in 1..n /\ x # 0
    BY DEF IsTree
  <2>2. id[0] \in B
    <3>1. up[0].at = o
      BY <1>6 DEF start
    <3>2. QED
      BY <1>1, <2>1, <3>1
  <2>3. ASSUME NEW i \in 1..n, id[i - 1] \in B PROVE id[i] \in B
    <3>1. /\ i - 1 \in 0..n /\ i \in 0..n /\ i - 1 \in B /\ up[i] = T(up[i - 1])
      BY <1>1, <1>6, <2>3
    <3> DEFINE s == up[i - 1]
    <3>2. s \in A /\ Reschemed(s.pool, p, S) /\ s.at \in L \cup {0}
      BY <1>7, <1>8, <3>1
    <3>3. CASE Halted(s)
      <4>1. up[i] = s
        BY <3>1, <3>3 DEF T
      <4>2. QED
        BY <3>1, <3>3, <4>1
    <3>4. CASE ~Halted(s)
      <4>1. up[i].at = s.pool[s.at].output /\ s.at \in L
        BY <3>1, <3>2, <3>4 DEF T, SchemaTurn
      <4>2. s.pool[s.at].output = p[s.at].output
        BY <2>1, <3>2, <4>1 DEF Reschemed
      <4>3. CASE s.at = r
        <5>1. up[i].at = 0
          BY <4>1, <4>2, <4>3 DEF IsTree
        <5>2. QED
          BY <3>1, <5>1
      <4>4. CASE s.at # r
        <5>1. up[i].at \in L /\ h[s.at] < h[up[i].at]
          BY <4>1, <4>2, <4>4, ParentOf
        <5>2. h[s.at] > i - 1
          BY <3>1, <3>4
        <5>3. h[s.at] \in Nat /\ h[up[i].at] \in Nat
          BY <2>1, <4>1, <5>1
        <5>4. h[up[i].at] > i
          BY <5>1, <5>2, <5>3
        <5>5. QED
          BY <3>1, <5>4
      <4>5. QED
        BY <4>3, <4>4
    <3>5. QED
      BY <3>3, <3>4
  <2> HIDE DEF B
  <2>4. \A i \in 0..n : id[i] \in B
    <3> HIDE DEF id
    <3>1. QED
      BY <1>1, <2>2, <2>3, Throughout
  <2>5. n \in B
    BY <1>1, <2>4
  <2>6. up[n].at \in L \cup {0}
    BY <1>1, <1>7, <1>8
  <2>7. QED
    BY <1>1, <2>1, <2>5, <2>6 DEF B
<1>10. UpdateSchemaRecursive(p, o) = q
  BY DEF UpdateSchemaRecursive, UpwardsUntil, Above, up, T, start, SchemaTurn, SchemaStops
<1>11. Reschemed(q, p, S) /\ Right(q, L, up[n].at)
  BY <1>1, <1>7, <1>8
<1>12. Schemas(q, L)
  <2>1. ASSUME NEW x \in L PROVE x # up[n].at \/ q[x].kind \in SchemaStops
    <3>1. x # 0
      BY <1>1 DEF IsTree
    <3>2. QED
      BY <1>9, <3>1
  <2>2. QED
    BY <1>11, <2>1 DEF Right, Schemas
<1>13. IsTree(q, L, h, r)
  <2>1. \A x \in L : q[x].inputs = p[x].inputs /\ q[x].output = p[x].output
    BY <1>11 DEF Reschemed, IsTree
  <2>2. QED
    BY <1>11, <2>1, SameLinks DEF Reschemed
<1>14. QED
  BY <1>10, <1>11, <1>12, <1>13
=============================================================================
