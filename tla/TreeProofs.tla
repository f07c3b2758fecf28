------------------------------ MODULE TreeProofs ------------------------------
(****************************************************************************)
(* What is proved of the plan that the generator makes of a query: whatever *)
(* the clauses and the transformations do to the pool, the operators under  *)
(* the root are a tree with the schemas and the types that they should have.*)
(****************************************************************************)
EXTENDS TreeLemmas, QueryProofs

Planted(p, S, L, h, r) == IsPool(p, S) /\ IsTree(p, L, h, r) /\ Schemas(p, L)

-----------------------------------------------------------------------------
(* Walking over the tree.                                                    *)

(* The turns of a walk down past operators of one input.                     *)
Turned(f, n, A, op, kinds) ==
  /\ f[0] = op /\ f[n] = Descend(op, kinds)
  /\ \A i \in 0..n : f[i] \in A
  /\ \A i \in 1..n : f[i] = IF pool[f[i - 1]].kind \in kinds THEN Input(f[i - 1]) ELSE f[i - 1]

(* There is an operator for every turn of the walk, and the last one is its end. *)
LEMMA DescendTurns ==
  ASSUME Len(pool) \in Nat, NEW A, NEW op \in A, NEW kinds,
         \A d \in A : pool[d].kind \in kinds => Input(d) \in A
  PROVE  \E f : Turned(f, Len(pool), A, op, kinds)
<1> DEFINE n == Len(pool)
           T(d) == IF pool[d].kind \in kinds THEN Input(d) ELSE d
           U(f) == [i \in 0..n |-> IF i = 0 THEN op ELSE T(f[i - 1])]
           down == CHOOSE f : f = U(f)
<1>1. n \in Nat /\ op \in A
  OBVIOUS
<1>2. ASSUME NEW d \in A PROVE T(d) \in A
  OBVIOUS
<1> HIDE DEF T
<1>3. \E f : f = U(f)
  <2> DEFINE Turn == [x \in A \X (1..n) |-> T(x[1])]
  <2>1. Turns(n, A, op, Turn)
    BY <1>1, <1>2 DEF Turns
  <2>2. PICK f : Values(f, n, A, op, Turn)
    <3> HIDE DEF Turn, n
    <3>1. QED
      BY <2>1, Iteration
  <2>3. /\ f[0] = op /\ \A i \in 1..n : f[i] = T(f[i - 1])
    <3>1. \A i \in 1..n : i - 1 \in 0..n
      BY <1>1
    <3>2. \A i \in 1..n : f[i - 1] \in A
      BY <2>2, <3>1 DEF Values
    <3>3. QED
      BY <2>2, <3>2 DEF Values
  <2>4. f = U(f)
    <3>1. f = [i \in 0..n |-> f[i]]
      BY <2>2 DEF Values
    <3>2. \A i \in 0..n : i # 0 => i \in 1..n
      BY <1>1
    <3>3. \A i \in 0..n : f[i] = IF i = 0 THEN op ELSE T(f[i - 1])
      BY <2>3, <3>2
    <3>4. QED
      BY <3>1, <3>3
  <2>5. QED
    BY <2>4
<1>4. down = U(down)
  BY <1>3
<1> HIDE DEF down
<1>5. down[0] = op /\ \A i \in 1..n : down[i] = T(down[i - 1])
  BY <1>1, <1>4
<1>6. \A i \in 0..n : down[i] \in A
  BY <1>1, <1>2, <1>5, Throughout
<1>7. Descend(op, kinds) = down[n]
  BY DEF Descend, down, T
<1>8. Turned(down, n, A, op, kinds)
  BY <1>5, <1>6, <1>7 DEF Turned, T
<1>9. QED
  BY <1>8

Reached(L, op, kinds, d) ==
  /\ d \in L
  /\ d = op \/ (d # plan /\ pool[d].output \in L /\ pool[pool[d].output].kind \in kinds)

(* Going down past operators of one input stays in the tree, and what it stops*)
(* at is where it began or under one of those passed.                        *)
LEMMA Descends ==
  ASSUME NEW S, NEW L, NEW h, Planted(pool, S, L, h, plan), NEW op \in L,
         NEW kinds \in SUBSET Unary
  PROVE  Reached(L, op, kinds, Descend(op, kinds))
<1> DEFINE n == Len(pool)
           A == {d \in L : Reached(L, op, kinds, d)}
<1>1. n \in Nat /\ op \in A /\ IsPool(pool, S) /\ IsTree(pool, L, h, plan)
  BY DEF Planted, IsPool, Reached
<1>2. ASSUME NEW d \in A, pool[d].kind \in kinds PROVE Input(d) \in A
  <2>1. d \in L /\ pool[d].kind \in Unary
    BY <1>2
  <2>2. DOMAIN pool[d].inputs = {1} /\ pool[d].inputs[1] \in L
    BY <1>1, <2>1, NodeOf
  <2>3. pool[pool[d].inputs[1]].output = d /\ pool[d].inputs[1] # plan
    BY <1>1, <2>1, <2>2, ChildOf
  <2>4. Reached(L, op, kinds, pool[d].inputs[1])
    BY <1>2, <2>1, <2>2, <2>3 DEF Reached
  <2>5. QED
    BY <2>2, <2>4 DEF Input
<1> HIDE DEF A
<1>3. PICK f : Turned(f, n, A, op, kinds)
  BY <1>1, <1>2, DescendTurns
<1>4. Descend(op, kinds) \in A
  BY <1>1, <1>3 DEF Turned
<1>5. QED
  BY <1>4 DEF A

(* All that PlanTree calls the tree is in it.                                *)
LEMMA TreeInside ==
  ASSUME NEW S, NEW L, NEW h, Planted(pool, S, L, h, plan)
  PROVE  Tree \subseteq L
<1> DEFINE n == Len(pool)
           A == SUBSET L
           start == {plan}
           T(s) == s \cup UNION {ToSet(pool[o].inputs) : o \in s}
           U(f) == [i \in 0..n |-> IF i = 0 THEN start ELSE T(f[i - 1])]
           tree == CHOOSE f : f = U(f)
<1>1. n \in Nat /\ start \in A /\ IsPool(pool, S) /\ IsTree(pool, L, h, plan)
  BY DEF Planted, IsPool, IsTree
<1>2. ASSUME NEW s \in A PROVE T(s) \in A
  <2>1. ASSUME NEW o \in s, NEW c \in ToSet(pool[o].inputs) PROVE c \in L
    <3>1. PICK i \in DOMAIN pool[o].inputs : pool[o].inputs[i] = c
      BY DEF ToSet
    <3>2. o \in L
      OBVIOUS
    <3>3. QED
      BY <1>1, <3>1, <3>2, ChildOf
  <2>2. QED
    BY <2>1
<1> HIDE DEF A, T, start
<1>3. \E f : f = U(f)
  <2> DEFINE Turn == [x \in A \X (1..n) |-> T(x[1])]
  <2>1. Turns(n, A, start, Turn)
    BY <1>1, <1>2 DEF Turns
  <2>2. PICK f : Values(f, n, A, start, Turn)
    <3> HIDE DEF Turn, n
    <3>1. QED
      BY <2>1, Iteration
  <2>3. /\ f[0] = start /\ \A i \in 1..n : f[i] = T(f[i - 1])
    <3>1. \A i \in 1..n : i - 1 \in 0..n
      BY <1>1
    <3>2. \A i \in 1..n : f[i - 1] \in A
      BY <2>2, <3>1 DEF Values
    <3>3. QED
      BY <2>2, <3>2 DEF Values
  <2>4. f = U(f)
    <3>1. f = [i \in 0..n |-> f[i]]
      BY <2>2 DEF Values
    <3>2. \A i \in 0..n : i # 0 => i \in 1..n
      BY <1>1
    <3>3. \A i \in 0..n : f[i] = IF i = 0 THEN start ELSE T(f[i - 1])
      BY <2>3, <3>2
    <3>4. QED
      BY <3>1, <3>3
  <2>5. QED
    BY <2>4
<1>4. tree = U(tree)
  BY <1>3
<1> HIDE DEF tree
<1>5. tree[0] = start /\ \A i \in 1..n : tree[i] = T(tree[i - 1])
  BY <1>1, <1>4
<1>6. \A i \in 0..n : tree[i] \in A
  BY <1>1, <1>2, <1>5, Throughout
<1>7. tree[n] \in A
  BY <1>1, <1>6
<1>8. Tree = tree[n]
  BY DEF Tree, tree, T, start
<1>9. QED
  BY <1>7, <1>8 DEF A

-----------------------------------------------------------------------------
(* The walk of pushSelect: what it is at has a parent of which it is input pos, *)
(* no higher than the selection, and lower once it passed a product.           *)
Passed(L, h, select, s) ==
  /\ s.op \in L /\ s.op # plan /\ pool[s.op].output \in L
  /\ s.pos \in DOMAIN pool[pool[s.op].output].inputs
  /\ pool[pool[s.op].output].inputs[s.pos] = s.op
  /\ h[pool[s.op].output] <= h[select]
  /\ s.useful => h[pool[s.op].output] < h[select]

Walks(L, h, select) ==
  {s \in [op : L, pos : Nat, useful : BOOLEAN] : Passed(L, h, select, s)}

(* The walk down from a selection begins at its input. *)
LEMMA WalkStart ==
  ASSUME NEW S, NEW L, NEW h, Planted(pool, S, L, h, plan), NEW select \in L,
         pool[select].kind = "select"
  PROVE  [op |-> Input(select), pos |-> 1, useful |-> FALSE] \in Walks(L, h, select)
<1>1. IsPool(pool, S) /\ IsTree(pool, L, h, plan)
  BY DEF Planted
<1>2. pool[select].kind \in Unary
  BY DEF Unary, LogKinds, Sources, Crosses, BinOps
<1>3. 1 \in DOMAIN pool[select].inputs /\ h[select] \in Nat
  BY <1>1, <1>2, NodeOf
<1>4. /\ Input(select) \in L /\ pool[Input(select)].output = select
      /\ Input(select) # plan
  BY <1>1, <1>3, ChildOf DEF Input
<1>5. pool[select].inputs[1] = Input(select)
  BY DEF Input
<1> DEFINE s == [op |-> Input(select), pos |-> 1, useful |-> FALSE]
<1>6. s.op = Input(select) /\ s.pos = 1 /\ s.useful = FALSE
  OBVIOUS
<1>7. s \in [op : L, pos : Nat, useful : BOOLEAN]
  BY <1>4
<1> HIDE DEF s
<1>8. Passed(L, h, select, s)
  BY <1>3, <1>4, <1>5, <1>6 DEF Passed
<1>9. s \in Walks(L, h, select)
  BY <1>7, <1>8 DEF Walks
<1>10. QED
  BY <1>9 DEF s

(* What a selection is pushed into is an input.                               *)
LEMMA ChildPosIn ==
  ASSUME NEW S, NEW L, NEW h, Planted(pool, S, L, h, plan), NEW o \in L, NEW bexpr,
         CanBePushed(bexpr, o)
  PROVE  ChildPos(bexpr, o) \in DOMAIN pool[o].inputs
<1> DEFINE i == ChildPos(bexpr, o)
<1>1. IsPool(pool, S) /\ IsTree(pool, L, h, plan)
  BY DEF Planted
<1>2. CASE pool[o].kind = "select"
  <2>1. pool[o].kind \in Unary
    BY <1>2 DEF Unary, LogKinds, Sources, Crosses, BinOps
  <2>2. 1 \in DOMAIN pool[o].inputs
    BY <1>1, <2>1, NodeOf
  <2>3. i = 1
    BY <1>2 DEF ChildPos
  <2>4. QED
    BY <2>2, <2>3
<1>3. CASE pool[o].kind # "select"
  <2>1. TakingInputs(bexpr, o) # {}
    BY <1>3 DEF CanBePushed
  <2>2. TakingInputs(bexpr, o) \subseteq DOMAIN pool[o].inputs
    BY DEF TakingInputs
  <2>3. DOMAIN pool[o].inputs \subseteq Nat
    <3>1. o \in 1..Len(pool)
      BY <1>1, NodeOf
    <3>2. DOMAIN pool[o].inputs = 1..Len(pool[o].inputs) /\ Len(pool[o].inputs) \in Nat
      BY <1>1, <3>1, PoolOp
    <3>3. QED
      BY <3>2
  <2>4. Min(TakingInputs(bexpr, o)) \in TakingInputs(bexpr, o)
    BY <2>1, <2>2, <2>3, Least
  <2>5. i = Min(TakingInputs(bexpr, o))
    BY <1>3 DEF ChildPos
  <2>6. QED
    BY <2>2, <2>4, <2>5
<1>4. QED
  BY <1>2, <1>3

(* A turn of the walk down stays in the tree, above the operator it began at. *)
LEMMA WalkTurn ==
  ASSUME NEW S, NEW L, NEW h, Planted(pool, S, L, h, plan), NEW select \in L,
         pool[select].kind = "select", NEW bexpr, NEW s \in Walks(L, h, select)
  PROVE  Below(bexpr, s) \in Walks(L, h, select)
<1> DEFINE o == s.op
           i == ChildPos(bexpr, o)
           c == pool[o].inputs[i]
           t == [op |-> c, pos |-> i, useful |-> s.useful \/ pool[o].kind # "select"]
<1>1. IsPool(pool, S) /\ IsTree(pool, L, h, plan)
  BY DEF Planted
<1>2. s \in [op : L, pos : Nat, useful : BOOLEAN] /\ Passed(L, h, select, s)
  BY DEF Walks
<1>3. o \in L /\ o # plan /\ pool[o].output \in L
  BY <1>2 DEF Passed
<1>4. h[o] < h[pool[o].output] /\ h[pool[o].output] <= h[select]
  BY <1>1, <1>2, <1>3, ParentOf DEF Passed
<1>5. h[o] \in Nat /\ h[pool[o].output] \in Nat /\ h[select] \in Nat
  <2>1. \A x \in L : h[x] \in 1..Len(pool)
    BY <1>1, NodeOf
  <2>2. \A x \in L : h[x] \in Nat
    BY <2>1
  <2> HIDE DEF o
  <2>3. QED
    BY <1>3, <2>2
<1>6. h[o] < h[select]
  <2> HIDE DEF o
  <2>1. QED
    BY <1>4, <1>5
<1>7. CASE ~CanBePushed(bexpr, o)
  BY <1>7 DEF Below
<1>8. CASE CanBePushed(bexpr, o)
  <2>1. i \in DOMAIN pool[o].inputs
    <3> HIDE DEF o
    <3>1. QED
      BY <1>3, <1>8, ChildPosIn
  <2>2. i \in Nat
    <3>1. o \in 1..Len(pool)
      BY <1>1, <1>3, NodeOf
    <3>2. DOMAIN pool[o].inputs = 1..Len(pool[o].inputs) /\ Len(pool[o].inputs) \in Nat
      BY <1>1, <3>1, PoolOp
    <3>3. QED
      BY <2>1, <3>2
  <2> HIDE DEF i
  <2>3. c \in L /\ pool[c].output = o /\ c # plan
    BY <1>1, <1>3, <2>1, ChildOf
  <2>4. Below(bexpr, s) = t
    BY <1>8 DEF Below, i
  <2>5. t.op = c /\ t.pos = i
    OBVIOUS
  <2>6. t \in [op : L, pos : Nat, useful : BOOLEAN]
    <3>1. (s.useful \/ pool[o].kind # "select") \in BOOLEAN
      OBVIOUS
    <3>2. QED
      BY <2>2, <2>3, <3>1
  <2>7. pool[o].inputs[i] = c
    OBVIOUS
  <2> HIDE DEF t, c, o
  <2>8. Passed(L, h, select, t)
    BY <1>3, <1>5, <1>6, <2>1, <2>3, <2>5, <2>7 DEF Passed
  <2>9. QED
    BY <2>4, <2>6, <2>8 DEF Walks
<1>9. QED
  BY <1>7, <1>8

Start(select) == [op |-> Input(select), pos |-> 1, useful |-> FALSE]

(* The turns of the walk of pushSelect.                                       *)
Walked(f, n, A, select) ==
  /\ f[0] = Start(select) /\ f[n] = Goal(select)
  /\ \A i \in 0..n : f[i] \in A
  /\ \A i \in 1..n : f[i] = Below(pool[select].arg, f[i - 1])

(* There is a place for every turn of this walk too, and the last one is its end. *)
LEMMA GoalTurns ==
  ASSUME Len(pool) \in Nat, NEW select, NEW A, Start(select) \in A,
         \A s \in A : Below(pool[select].arg, s) \in A
  PROVE  \E f : Walked(f, Len(pool), A, select)
<1> DEFINE n == Len(pool)
           start == Start(select)
           T(s) == Below(pool[select].arg, s)
           U(f) == [i \in 0..n |-> IF i = 0 THEN start ELSE T(f[i - 1])]
           down == CHOOSE f : f = U(f)
<1>1. n \in Nat /\ start \in A
  OBVIOUS
<1>2. ASSUME NEW s \in A PROVE T(s) \in A
  OBVIOUS
<1> HIDE DEF T, start
<1>3. \E f : f = U(f)
  <2> DEFINE Turn == [x \in A \X (1..n) |-> T(x[1])]
  <2>1. Turns(n, A, start, Turn)
    BY <1>1, <1>2 DEF Turns
  <2>2. PICK f : Values(f, n, A, start, Turn)
    <3> HIDE DEF Turn, n
    <3>1. QED
      BY <2>1, Iteration
  <2>3. /\ f[0] = start /\ \A i \in 1..n : f[i] = T(f[i - 1])
    <3>1. \A i \in 1..n : i - 1 \in 0..n
      BY <1>1
    <3>2. \A i \in 1..n : f[i - 1] \in A
      BY <2>2, <3>1 DEF Values
    <3>3. QED
      BY <2>2, <3>2 DEF Values
  <2>4. f = U(f)
    <3>1. f = [i \in 0..n |-> f[i]]
      BY <2>2 DEF Values
    <3>2. \A i \in 0..n : i # 0 => i \in 1..n
      BY <1>1
    <3>3. \A i \in 0..n : f[i] = IF i = 0 THEN start ELSE T(f[i - 1])
      BY <2>3, <3>2
    <3>4. QED
      BY <3>1, <3>3
  <2>5. QED
    BY <2>4
<1>4. down = U(down)
  BY <1>3
<1> HIDE DEF down
<1>5. down[0] = start /\ \A i \in 1..n : down[i] = T(down[i - 1])
  BY <1>1, <1>4
<1>6. \A i \in 0..n : down[i] \in A
  BY <1>1, <1>2, <1>5, Throughout
<1>7. Goal(select) = down[n]
  BY DEF Goal, down, T, start, Start
<1>8. Walked(down, n, A, select)
  BY <1>5, <1>6, <1>7 DEF Walked, T, start
<1>9. QED
  BY <1>8

(* The walk ends where its turns lead: what each turn keeps holds of its end.  *)
LEMMA GoalIn ==
  ASSUME Len(pool) \in Nat, NEW select, NEW A, Start(select) \in A,
         \A s \in A : Below(pool[select].arg, s) \in A
  PROVE  Goal(select) \in A
<1>1. PICK f : Walked(f, Len(pool), A, select)
  BY GoalTurns
<1>2. QED
  BY <1>1 DEF Walked

(* Where a selection ends (pushSelect) is in the tree, below where it was. *)
LEMMA GoalPassed ==
  ASSUME NEW S, NEW L, NEW h, Planted(pool, S, L, h, plan), NEW select \in L,
         pool[select].kind = "select"
  PROVE  Passed(L, h, select, Goal(select))
<1> DEFINE A == Walks(L, h, select)
<1>1. Len(pool) \in Nat /\ Start(select) \in A
  BY WalkStart DEF Planted, IsPool, Start
<1>2. \A s \in A : Below(pool[select].arg, s) \in A
  BY WalkTurn
<1> HIDE DEF A
<1>3. Goal(select) \in A
  BY <1>1, <1>2, GoalIn
<1>4. QED
  BY <1>3 DEF A, Walks

-----------------------------------------------------------------------------
(* The transformations.  A good plan is planted with all operators in order,  *)
(* and has no union or difference if it has a product.                       *)
Pure(p, L) == \/ \A o \in L : p[o].kind \notin BinOps
              \/ \A o \in L : p[o].kind \notin Crosses

Good(p, r) == \E S, L, h : Planted(p, S, L, h, r) /\ Pure(p, L)

(* No selection and no project has an argument that none had before.          *)
SameArgs(q, p) ==
  \A o \in 1..Len(q) : q[o].kind \in {"select", "project"} =>
    \E x \in 1..Len(p) : p[x].kind = q[o].kind /\ p[x].arg = q[o].arg

(* Operators that keep their kinds and arguments have no new ones.             *)
LEMMA AlikeArgs ==
  ASSUME NEW q, NEW p, Len(q) = Len(p),
         \A o \in 1..Len(p) : q[o].kind = p[o].kind /\ q[o].arg = p[o].arg
  PROVE  SameArgs(q, p)
BY DEF SameArgs

(* What two changes one after the other do to the arguments.                   *)
LEMMA ArgsTwice ==
  ASSUME NEW p, NEW q, NEW t, SameArgs(t, q), SameArgs(q, p)
  PROVE  SameArgs(t, p)
<1>1. ASSUME NEW o \in 1..Len(t), t[o].kind \in {"select", "project"}
      PROVE  \E x \in 1..Len(p) : p[x].kind = t[o].kind /\ p[x].arg = t[o].arg
  <2>1. PICK y \in 1..Len(q) : q[y].kind = t[o].kind /\ q[y].arg = t[o].arg
    BY <1>1 DEF SameArgs
  <2>2. PICK x \in 1..Len(p) : p[x].kind = q[y].kind /\ p[x].arg = q[y].arg
    BY <1>1, <2>1 DEF SameArgs
  <2>3. QED
    BY <2>1, <2>2
<1>2. QED
  BY <1>1 DEF SameArgs

(* The operators that refer to attributes of their input, and those it offers. *)
Referring == {"select", "project", "groupAggr", "partnWin"}
Offers(p, o) == ToSet(p[p[o].inputs[1]].out)

(* Whatever an operator referred to is still offered to it, also when it has   *)
(* another input; a change that keeps all adds none that refers to anything.   *)
Kept(q, p, o) ==
  /\ q[o].kind = p[o].kind /\ q[o].arg = p[o].arg
  /\ p[o].kind \in Referring => Offers(p, o) \subseteq Offers(q, o)
Keeps(q, p) ==
  Len(p) \in Nat /\ Len(q) \in Nat /\ Len(p) <= Len(q) /\ \A o \in 1..Len(p) : Kept(q, p, o)
AllKept(q, p) == Keeps(q, p) /\ \A w \in News(q, Len(p)) : q[w].kind \notin Referring

(* What two changes one after the other keep.                                  *)
LEMMA KeepsTwice ==
  ASSUME NEW p, NEW q, NEW t, Keeps(t, q), Keeps(q, p)
  PROVE  Keeps(t, p)
<1>1. /\ Len(p) \in Nat /\ Len(q) \in Nat /\ Len(t) \in Nat /\ Len(p) <= Len(q) /\ Len(q) <= Len(t)
      /\ \A o \in 1..Len(p) : Kept(q, p, o)
      /\ \A o \in 1..Len(q) : Kept(t, q, o)
  BY DEF Keeps
<1>2. ASSUME NEW o \in 1..Len(p) PROVE Kept(t, p, o)
  <2>1. Kept(q, p, o) /\ Kept(t, q, o)
    BY <1>1
  <2>2. QED
    BY <2>1 DEF Kept
<1>3. Len(p) <= Len(t)
  BY <1>1
<1>4. QED
  BY <1>1, <1>2, <1>3 DEF Keeps

(* Nor do the two add an operator that refers to anything, if neither does.    *)
LEMMA KeptTwice ==
  ASSUME NEW p, NEW q, NEW t, AllKept(t, q), AllKept(q, p)
  PROVE  AllKept(t, p)
<1>1. /\ Len(p) \in Nat /\ Len(q) \in Nat /\ Len(t) \in Nat /\ Len(p) <= Len(q) /\ Len(q) <= Len(t)
      /\ \A o \in 1..Len(p) : Kept(q, p, o)
      /\ \A o \in 1..Len(q) : Kept(t, q, o)
  BY DEF AllKept, Keeps
<1>2. Keeps(t, p)
  BY KeepsTwice DEF AllKept
<1>3. ASSUME NEW w \in News(t, Len(p)) PROVE t[w].kind \notin Referring
  <2>1. CASE w \in 1..Len(q)
    <3>1. w \in News(q, Len(p)) /\ Kept(t, q, w)
      BY <1>1, <2>1 DEF News
    <3>2. QED
      BY <3>1 DEF AllKept, Kept
  <2>2. CASE w \notin 1..Len(q)
    <3>1. w \in News(t, Len(q))
      BY <1>1, <2>2 DEF News
    <3>2. QED
      BY <3>1 DEF AllKept
  <2>3. QED
    BY <2>1, <2>2
<1>4. QED
  BY <1>2, <1>3 DEF AllKept

(* A change that leaves the inputs alone and takes nothing from any schema.    *)
Enough(q, p, o) ==
  /\ q[o].kind = p[o].kind /\ q[o].arg = p[o].arg
  /\ p[o].kind \in Referring => q[o].inputs = p[o].inputs
  /\ ToSet(p[o].out) \subseteq ToSet(q[o].out)

(* It keeps what every operator is offered.                                    *)
LEMMA SameInputsKeep ==
  ASSUME NEW S, NEW p, NEW q, IsPool(p, S), Len(q) \in Nat, Len(p) <= Len(q),
         \A o \in 1..Len(p) : Enough(q, p, o)
  PROVE  Keeps(q, p)
<1>1. Len(p) \in Nat
  BY DEF IsPool
<1>2. ASSUME NEW o \in 1..Len(p), p[o].kind \in Referring PROVE Offers(p, o) \subseteq Offers(q, o)
  <2>1. p[o].kind \in Unary
    BY <1>2 DEF Referring, Unary, LogKinds, Sources, Crosses, BinOps, Windows
  <2>2. p[o].inputs[1] \in 1..Len(p)
    BY <2>1 DEF IsPool, IsOp
  <2>3. q[o].inputs = p[o].inputs /\ Enough(q, p, p[o].inputs[1])
    BY <1>2, <2>2 DEF Enough
  <2>4. QED
    BY <2>3 DEF Enough, Offers
<1>3. QED
  BY <1>1, <1>2 DEF Keeps, Kept, Enough

(* An operator that takes another one's place and offers all that this did.    *)
LEMMA ReplacedKeeps ==
  ASSUME NEW S, NEW p, NEW q, IsPool(p, S), NEW old \in 1..Len(p), NEW new \in 1..Len(p),
         Replaced(q, p, old, new), ToSet(p[old].out) \subseteq ToSet(p[new].out),
         p[old].output # 0 => p[p[old].output].inputs[1] = old
  PROVE  AllKept(q, p)
<1>1. Len(p) \in Nat /\ Len(q) = Len(p) /\ \A o \in 1..Len(p) : o # 0
  BY DEF IsPool, Replaced
<1>2. \A o \in 1..Len(p) : /\ q[o].kind = p[o].kind /\ q[o].arg = p[o].arg /\ q[o].out = p[o].out
                           /\ q[o].inputs = IF o = p[old].output THEN <<new>> ELSE p[o].inputs
  BY DEF Replaced, Alike
<1>3. ASSUME NEW o \in 1..Len(p), p[o].kind \in Referring PROVE Offers(p, o) \subseteq Offers(q, o)
  <2>1. p[o].kind \in Unary
    BY <1>3 DEF Referring, Unary, LogKinds, Sources, Crosses, BinOps, Windows
  <2>2. p[o].inputs[1] \in 1..Len(p)
    BY <2>1 DEF IsPool, IsOp
  <2>3. CASE o = p[old].output
    <3>1. p[o].inputs[1] = old /\ q[o].inputs[1] = new
      BY <1>1, <1>2, <2>3
    <3>2. QED
      BY <1>2, <3>1 DEF Offers
  <2>4. CASE o # p[old].output
    <3>1. q[o].inputs = p[o].inputs
      BY <1>2, <2>4
    <3>2. QED
      BY <1>2, <2>2, <3>1 DEF Offers
  <2>5. QED
    BY <2>3, <2>4
<1>4. News(q, Len(p)) = {}
  BY <1>1 DEF News
<1>5. QED
  BY <1>1, <1>2, <1>3, <1>4 DEF AllKept, Keeps, Kept

(* The parent of an operator of a tree, when it has one input only.            *)
LEMMA OnlyInput ==
  ASSUME NEW S, NEW p, NEW L, NEW h, NEW r, Planted(p, S, L, h, r), NEW x \in L,
         p[x].output # 0, p[p[x].output].kind \in Unary
  PROVE  p[p[x].output].inputs[1] = x
<1>1. IsPool(p, S) /\ IsTree(p, L, h, r)
  BY DEF Planted
<1>2. x # r
  BY <1>1 DEF IsTree
<1>3. /\ p[x].output \in L
      /\ \E i \in DOMAIN p[p[x].output].inputs : p[p[x].output].inputs[i] = x
  BY <1>1, <1>2, ParentOf
<1>4. DOMAIN p[p[x].output].inputs = {1}
  BY <1>1, <1>3, NodeOf
<1>5. QED
  BY <1>3, <1>4

(* An operator that leaves the tree had the schema of its input.               *)
LEMMA RemovedKeeps ==
  ASSUME NEW S, NEW p, NEW L, NEW h, NEW r, Planted(p, S, L, h, r), NEW x \in L, NEW c,
         Removable(p, x, c), NEW q, Removed(q, p, S, L, h, r, x, c)
  PROVE  AllKept(q, p)
<1>1. IsPool(p, S) /\ IsTree(p, L, h, r)
  BY DEF Planted
<1>2. x \in 1..Len(p) /\ c \in 1..Len(p)
  <2>1. x \in 1..Len(p) /\ p[x].kind \in Unary /\ c = p[x].inputs[1]
    BY <1>1 DEF IsTree, Removable
  <2>2. QED
    BY <1>1, <2>1 DEF IsPool, IsOp
<1>3. p[x].output # 0 => p[p[x].output].inputs[1] = x
  BY OnlyInput DEF Removable
<1>4. Replaced(q, p, x, c) /\ ToSet(p[x].out) \subseteq ToSet(p[c].out)
  BY DEF Removed, Removable
<1>5. QED
  BY <1>1, <1>2, <1>3, <1>4, ReplacedKeeps

(* What is a stream has nothing to do with what is offered.                    *)
LEMMA RestreamedKeeps ==
  ASSUME NEW S, NEW p, NEW q, IsPool(p, S), Restreamed(q, p, S)
  PROVE  AllKept(q, p)
<1>1. Len(q) = Len(p) /\ Len(p) \in Nat /\ \A o \in 1..Len(p) : Enough(q, p, o)
  BY DEF Restreamed, Alike, Enough, IsPool
<1>2. News(q, Len(p)) = {}
  BY <1>1 DEF News
<1>3. QED
  BY <1>1, <1>2, SameInputsKeep DEF AllKept

(* New operators in the place of a product that offer what it offered.         *)
LEMMA GraftKeeps ==
  ASSUME NEW S, NEW p, NEW L, NEW h, NEW r, Planted(p, S, L, h, r), NEW x \in L,
         p[x].output # 0 => p[p[x].output].kind \in Unary,
         NEW D, NEW q0, IsPool(q0, S), IsGraft(q0, p, Len(p), L, x, D),
         \A w \in News(q0, Len(p)) : q0[w].kind \notin Referring,
         ToSet(p[x].out) \subseteq ToSet(q0[Len(q0)].out),
         NEW q, Replaced(q, q0, x, Len(q0))
  PROVE  AllKept(q, p)
<1> DEFINE n == Len(p)
           N == Len(q0)
           a == p[x].output
<1>1. IsPool(p, S) /\ n \in Nat /\ N \in Nat /\ n < N /\ x \in 1..n /\ IsTree(p, L, h, r)
  BY DEF Planted, IsPool, IsTree, IsGraft
<1>2. \A o \in 1..n : Alike(q0[o], p[o]) /\ q0[o].inputs = p[o].inputs
  BY DEF IsGraft
<1>3. q0[x].output = a
  <2>1. x \notin Grafts(p, L, x, D)
    BY DEF Grafts
  <2>2. QED
    BY <1>1, <2>1 DEF IsGraft
<1>4. AllKept(q0, p)
  <2>1. \A o \in 1..n : Enough(q0, p, o)
    BY <1>2 DEF Enough, Alike
  <2>2. n <= N
    BY <1>1
  <2>3. QED
    BY <1>1, <2>1, <2>2, SameInputsKeep DEF AllKept
<1>5. AllKept(q, q0)
  <2>1. x \in 1..N /\ N \in 1..N
    BY <1>1
  <2>2. ToSet(q0[x].out) \subseteq ToSet(q0[N].out)
    BY <1>1, <1>2 DEF Alike
  <2>3. ASSUME a # 0 PROVE q0[a].inputs[1] = x
    <3>1. p[a].inputs[1] = x
      BY <2>3, OnlyInput
    <3>2. a \in 1..n
      BY <1>1, <2>3 DEF IsPool, IsOp
    <3>3. QED
      BY <1>2, <3>1, <3>2
  <2> HIDE DEF a
  <2>4. q0[x].output # 0 => q0[q0[x].output].inputs[1] = x
    BY <1>3, <2>3
  <2>5. QED
    BY <2>1, <2>2, <2>4, ReplacedKeeps
<1>6. QED
  BY <1>4, <1>5, KeptTwice

-----------------------------------------------------------------------------
(* What may stand under what until selections are pushed: the operators of the *)
(* clauses after WHERE are over all selections, and these over all the rest.   *)
Tops == XStreams \cup {"project", "distinct", "groupAggr"}
Flat(kind) == kind \notin Tops \cup {"select"}
Fits(over, under) ==
  /\ under \in Tops => over \in Tops
  /\ under = "select" => over \in Tops \cup {"select"}

Falling(p) == \A o \in 1..Len(p) : \A i \in DOMAIN p[o].inputs : Fits(p[o].kind, p[p[o].inputs[i]].kind)
Falls(q, p) == Falling(p) => Falling(q)

(* What two changes one after the other do to the order of the operators.      *)
LEMMA FallsTwice ==
  ASSUME NEW p, NEW q, NEW t, Falls(t, q), Falls(q, p)
  PROVE  Falls(t, p)
BY DEF Falls

(* Operators that keep their kinds and inputs keep their order.                *)
LEMMA SameEdgesFall ==
  ASSUME NEW S, NEW p, NEW q, IsPool(p, S), Len(q) = Len(p),
         \A o \in 1..Len(p) : q[o].kind = p[o].kind /\ q[o].inputs = p[o].inputs
  PROVE  Falls(q, p)
<1> SUFFICES ASSUME Falling(p), NEW o \in 1..Len(p), NEW i \in DOMAIN p[o].inputs
             PROVE  Fits(q[o].kind, q[q[o].inputs[i]].kind)
  BY DEF Falls, Falling
<1>1. p[o].inputs[i] \in 1..Len(p)
  BY PoolOp
<1>2. Fits(p[o].kind, p[p[o].inputs[i]].kind)
  BY DEF Falling
<1>3. q[p[o].inputs[i]].kind = p[p[o].inputs[i]].kind /\ q[o].kind = p[o].kind /\ q[o].inputs = p[o].inputs
  BY <1>1
<1>4. QED
  BY <1>2, <1>3

(* So does an operator that takes another one's place under one it may be under.*)
LEMMA ReplacedFalls ==
  ASSUME NEW S, NEW p, NEW q, IsPool(p, S), NEW old, NEW new \in 1..Len(p),
         Replaced(q, p, old, new),
         p[old].output \in 1..Len(p) /\ Falling(p) => Fits(p[p[old].output].kind, p[new].kind)
  PROVE  Falls(q, p)
<1>1. Len(q) = Len(p)
  BY DEF Replaced
<1> SUFFICES ASSUME Falling(p), NEW o \in 1..Len(p), NEW i \in DOMAIN q[o].inputs
             PROVE  Fits(q[o].kind, q[q[o].inputs[i]].kind)
  BY <1>1 DEF Falls, Falling
<1>2. \A x \in 1..Len(p) : q[x].kind = p[x].kind
  BY DEF Replaced, Alike
<1>3. q[o].inputs = IF o = p[old].output THEN <<new>> ELSE p[o].inputs
  BY DEF Replaced
<1>4. CASE o = p[old].output
  <2>1. q[o].inputs[i] = new
    BY <1>3, <1>4
  <2>2. QED
    BY <1>2, <1>4, <2>1
<1>5. CASE o # p[old].output
  <2>1. q[o].inputs = p[o].inputs /\ i \in DOMAIN p[o].inputs
    BY <1>3, <1>5
  <2>2. p[o].inputs[i] \in 1..Len(p) /\ Fits(p[o].kind, p[p[o].inputs[i]].kind)
    BY <2>1, PoolOp DEF Falling
  <2>3. QED
    BY <1>2, <2>1, <2>2
<1>6. QED
  BY <1>4, <1>5

(* An operator of a tree is under its output.                                  *)
LEMMA UnderParent ==
  ASSUME NEW S, NEW p, NEW L, NEW h, NEW r, Planted(p, S, L, h, r), Falling(p), NEW x \in L, x # r
  PROVE  Fits(p[p[x].output].kind, p[x].kind)
<1>1. IsPool(p, S) /\ IsTree(p, L, h, r)
  BY DEF Planted
<1>2. p[x].output \in L /\ \E i \in DOMAIN p[p[x].output].inputs : p[p[x].output].inputs[i] = x
  BY <1>1, ParentOf
<1>3. p[x].output \in 1..Len(p)
  BY <1>1, <1>2 DEF IsTree
<1>4. QED
  BY <1>2, <1>3 DEF Falling

(* An operator that leaves the tree makes room for its input.                  *)
LEMMA RemovedFalls ==
  ASSUME NEW S, NEW p, NEW L, NEW h, NEW r, Planted(p, S, L, h, r), NEW x \in L, NEW c,
         Removable(p, x, c), NEW q, Removed(q, p, S, L, h, r, x, c)
  PROVE  Falls(q, p)
<1>1. IsPool(p, S) /\ IsTree(p, L, h, r) /\ Replaced(q, p, x, c)
  BY DEF Planted, Removed
<1>2. x \in 1..Len(p) /\ 1 \in DOMAIN p[x].inputs /\ c = p[x].inputs[1] /\ c \in 1..Len(p)
  <2>1. x \in 1..Len(p) /\ p[x].kind \in Unary /\ c = p[x].inputs[1]
    BY <1>1 DEF IsTree, Removable
  <2>2. DOMAIN p[x].inputs = {1}
    BY <1>1, <2>1, NodeOf
  <2>3. p[x].inputs[1] \in 1..Len(p)
    BY <1>1, <2>1, <2>2, PoolOp
  <2>4. QED
    BY <2>1, <2>2, <2>3
<1>3. ASSUME p[x].output \in 1..Len(p), Falling(p) PROVE Fits(p[p[x].output].kind, p[c].kind)
  <2>1. x # r
    <3>1. p[r].output = 0
      BY <1>1 DEF IsTree
    <3>2. QED
      BY <1>1, <1>3, <3>1 DEF IsPool
  <2>2. Fits(p[p[x].output].kind, p[x].kind)
    BY <1>3, <2>1, UnderParent
  <2>3. Fits(p[x].kind, p[c].kind)
    BY <1>2, <1>3 DEF Falling
  <2>4. QED
    BY <2>2, <2>3 DEF Fits
<1>4. QED
  BY <1>1, <1>2, <1>3, ReplacedFalls

(* New products, over what was under a product, are under what that was under. *)
LEMMA GraftFalls ==
  ASSUME NEW S, NEW p, NEW L, NEW h, NEW r, Planted(p, S, L, h, r), NEW x \in L, p[x].kind \in Crosses,
         NEW D, NEW q0, IsPool(q0, S), IsGraft(q0, p, Len(p), L, x, D),
         \A w \in News(q0, Len(p)) : q0[w].kind \in Crosses,
         NEW q, Replaced(q, q0, x, Len(q0))
  PROVE  Falls(q, p)
<1> DEFINE n == Len(p)
<1>1. IsPool(p, S) /\ IsTree(p, L, h, r) /\ n \in Nat /\ L \subseteq 1..n
  BY DEF Planted, IsTree, IsPool
<1>2. Len(q0) \in Nat /\ Len(q0) > n /\ Len(q0) \in News(q0, n) /\ Len(q0) \in 1..Len(q0)
  <2>1. Len(q0) \in Nat /\ Len(q0) > n
    BY DEF IsPool, IsGraft
  <2>2. QED
    BY <1>1, <2>1 DEF News
<1>3. \A k \in Crosses : Flat(k)
  BY DEF Flat, Crosses, Tops, XStreams
<1>4. \A o \in 1..n : q0[o].kind = p[o].kind /\ q0[o].inputs = p[o].inputs
  BY DEF IsGraft, Alike
<1>5. ASSUME Falling(p), NEW y \in {x} \cup D, NEW c \in L, p[c].output = y PROVE Flat(p[c].kind)
  <2>1. ASSUME NEW b \in L, p[b].output \in L, Flat(p[p[b].output].kind) PROVE Flat(p[b].kind)
    <3>1. b # r
      BY <1>1, <2>1 DEF IsTree
    <3>2. Fits(p[p[b].output].kind, p[b].kind)
      BY <1>5, <3>1, UnderParent
    <3>3. QED
      BY <2>1, <3>2 DEF Fits, Flat
  <2>2. Flat(p[x].kind)
    BY <1>3
  <2>3. y \in L /\ Flat(p[y].kind)
    <3>1. CASE y = x
      BY <2>2, <3>1
    <3>2. CASE y \in D
      <4>1. y \in L /\ p[y].output = x
        BY <3>2 DEF IsGraft
      <4>2. QED
        BY <2>1, <2>2, <4>1
    <3>3. QED
      BY <3>1, <3>2
  <2>4. QED
    BY <1>5, <2>1, <2>3
<1>6. Falls(q0, p)
  <2> SUFFICES ASSUME Falling(p), NEW o \in 1..Len(q0), NEW i \in DOMAIN q0[o].inputs
               PROVE  Fits(q0[o].kind, q0[q0[o].inputs[i]].kind)
    BY DEF Falls, Falling
  <2>1. CASE o \in 1..n
    <3>1. q0[o].inputs = p[o].inputs /\ q0[o].kind = p[o].kind
      BY <1>4, <2>1
    <3>2. p[o].inputs[i] \in 1..n /\ Fits(p[o].kind, p[p[o].inputs[i]].kind)
      BY <1>1, <2>1, <3>1, PoolOp DEF Falling
    <3>3. QED
      BY <1>4, <3>1, <3>2
  <2>2. CASE o \notin 1..n
    <3> DEFINE c == q0[o].inputs[i]
    <3>1. o \in News(q0, n)
      BY <1>1, <1>2, <2>2 DEF News
    <3>2. GraftEdge(q0, p, n, L, x, D, o, c)
      BY <3>1 DEF IsGraft
    <3> HIDE DEF c
    <3>3. CASE c \in Grafts(p, L, x, D)
      <4>1. c \in L /\ p[c].output \in {x} \cup D
        BY <3>3 DEF Grafts
      <4>2. Flat(p[c].kind) /\ q0[c].kind = p[c].kind
        BY <1>1, <1>4, <1>5, <4>1
      <4>3. QED
        BY <4>2 DEF Fits, Flat, c
    <3>4. CASE c \in News(q0, n)
      <4>1. Flat(q0[c].kind)
        BY <1>3, <3>4
      <4>2. QED
        BY <4>1 DEF Fits, Flat, c
    <3>5. QED
      BY <3>2, <3>3, <3>4 DEF GraftEdge
  <2>3. QED
    BY <2>1, <2>2
<1>7. Falls(q, q0)
  <2>1. \A k : Fits(k, q0[Len(q0)].kind)
    BY <1>2, <1>3 DEF Fits, Flat
  <2>2. QED
    BY <1>2, <2>1, ReplacedFalls
<1>8. QED
  BY <1>6, <1>7, FallsTwice

-----------------------------------------------------------------------------
(* A selection more, over an operator with all that another one has.           *)
Copied(q, p, arg, c) ==
  /\ Keeps(q, p) /\ Len(q) = Len(p) + 1 /\ q[Len(q)].kind = "select" /\ q[Len(q)].arg = arg
  /\ ToSet(p[c].out) \subseteq Offers(q, Len(q))

(* A selection put between an operator of the tree and its output.             *)
LEMMA InsertedKeeps ==
  ASSUME NEW S, NEW p, NEW L, NEW h, NEW r, Planted(p, S, L, h, r), NEW c \in L, c # r, NEW arg,
         NEW q, Inserted(q, p, Len(p), S, L, r, c, arg)
  PROVE  Copied(q, p, arg, c)
<1> DEFINE n == Len(p)
           par == p[c].output
           M == L \cup {n + 1}
<1>1. IsPool(p, S) /\ IsTree(p, L, h, r) /\ n \in Nat /\ L \subseteq 1..n /\ r \in L
  BY DEF Planted, IsPool, IsTree
<1>2. /\ IsPool(q, S) /\ Len(q) = n + 1 /\ Schemas(q, M)
      /\ q[n + 1].kind = "select" /\ q[n + 1].arg = arg /\ q[n + 1].inputs = <<c>>
      /\ \A o \in 1..n : /\ q[o].kind = p[o].kind /\ q[o].arg = p[o].arg /\ q[o].out = p[o].out
                         /\ o # par => q[o].inputs = p[o].inputs
  BY DEF Inserted, Alike
<1>3. PICK g : IsTree(q, M, g, r)
  BY DEF Inserted
<1>4. /\ c \in 1..n /\ c # n + 1 /\ n + 1 \in M /\ n + 1 # r /\ \A o \in 1..n : o # n + 1
      /\ n + 1 \in 1..Len(q) /\ \A o \in M : o \in 1..n \/ o = n + 1
  BY <1>1, <1>2
<1>5. q[n + 1].out = p[c].out
  <2>1. q[c].out \in Seq(S)
    BY <1>2, <1>4 DEF IsPool, IsOp
  <2>2. q[n + 1].kind \in Copying
    BY <1>2 DEF Copying, Unary, LogKinds, Sources, Crosses, BinOps
  <2>3. SchemaOf(q, n + 1) = q[c].out
    BY <1>2, <2>1, <2>2, CopiedSchema
  <2>4. QED
    BY <1>2, <1>4, <2>3 DEF Schemas
<1>6. ASSUME p[par].kind \in Unary, par \in 1..n PROVE p[par].inputs[1] = c /\ q[par].inputs[1] = n + 1
  <2>1. par # 0
    BY <1>6
  <2>2. p[par].inputs[1] = c
    BY <1>6, <2>1, OnlyInput
  <2> DEFINE w == q[n + 1].output
  <2>3. w \in M /\ \E i \in DOMAIN q[w].inputs : q[w].inputs[i] = n + 1
    BY <1>3, <1>4, ParentOf
  <2> HIDE DEF w
  <2>4. w # n + 1
    <3>1. DOMAIN <<c>> = {1} /\ <<c>>[1] = c
      OBVIOUS
    <3>2. QED
      BY <1>2, <1>4, <2>3, <3>1
  <2>5. w \in 1..n
    BY <1>4, <2>3, <2>4
  <2>6. w = par
    <3>1. ASSUME w # par PROVE FALSE
      <4>1. q[w].inputs = p[w].inputs
        BY <1>2, <2>5, <3>1
      <4>2. \A i \in DOMAIN p[w].inputs : p[w].inputs[i] \in 1..n
        BY <1>1, <2>5, PoolOp
      <4>3. QED
        BY <1>4, <2>3, <4>1, <4>2
    <3>2. QED
      BY <3>1
  <2>7. q[par].kind \in Unary /\ par \in M
    BY <1>2, <1>6, <2>3, <2>6
  <2>8. DOMAIN q[par].inputs = {1}
    BY <1>2, <1>3, <2>7, NodeOf
  <2>9. QED
    BY <2>2, <2>3, <2>6, <2>8
<1>7. ASSUME NEW o \in 1..n, p[o].kind \in Referring PROVE Offers(p, o) \subseteq Offers(q, o)
  <2>1. p[o].kind \in Unary
    BY <1>7 DEF Referring, Unary, LogKinds, Sources, Crosses, BinOps, Windows
  <2>2. p[o].inputs[1] \in 1..n
    BY <1>1, <2>1 DEF IsPool, IsOp
  <2>3. CASE o = par
    <3>1. p[o].inputs[1] = c /\ q[o].inputs[1] = n + 1
      BY <1>6, <2>1, <2>3
    <3>2. QED
      BY <1>5, <3>1 DEF Offers
  <2>4. CASE o # par
    <3>1. q[o].inputs = p[o].inputs
      BY <1>2, <2>4
    <3>2. QED
      BY <1>2, <2>2, <3>1 DEF Offers
  <2>5. QED
    BY <2>3, <2>4
<1>8. Keeps(q, p)
  <2>1. Len(q) \in Nat /\ n <= Len(q)
    BY <1>1, <1>2
  <2>2. QED
    BY <1>1, <1>2, <1>7, <2>1 DEF Keeps, Kept
<1>9. Offers(q, n + 1) = ToSet(p[c].out)
  <2>1. q[n + 1].inputs[1] = c
    BY <1>2
  <2>2. QED
    BY <1>2, <1>4, <2>1 DEF Offers
<1>10. QED
  BY <1>2, <1>8, <1>9 DEF Copied

(* A change that keeps all after that.                                         *)
LEMMA CopiedThen ==
  ASSUME NEW p, NEW q, NEW t, NEW arg, NEW c, Copied(q, p, arg, c), AllKept(t, q), Len(t) = Len(q)
  PROVE  Copied(t, p, arg, c)
<1>1. Len(p) \in Nat /\ Len(q) = Len(p) + 1 /\ Keeps(t, p)
  BY KeepsTwice DEF Copied, AllKept, Keeps
<1>2. Kept(t, q, Len(q))
  BY <1>1 DEF AllKept, Keeps
<1>3. QED
  BY <1>1, <1>2 DEF Copied, Kept, Referring

(* Some of the operators of a plan, with the kinds they had.                   *)
LEMMA PureStays ==
  ASSUME NEW p, NEW L, Pure(p, L), NEW q, NEW M, M \subseteq L,
         \A o \in M : q[o].kind = p[o].kind
  PROVE  Pure(q, M)
BY DEF Pure

(* An operator that hands on the schema of its input, and this input.          *)
LEMMA Handed ==
  ASSUME NEW S, NEW p, NEW L, NEW h, NEW r, Planted(p, S, L, h, r), NEW x \in L,
         p[x].kind \in Copying
  PROVE  /\ p[x].kind \in Unary /\ 1 \in DOMAIN p[x].inputs /\ p[x].inputs[1] \in L
         /\ p[p[x].inputs[1]].output = x /\ p[x].inputs[1] # x
         /\ p[p[x].inputs[1]].out = p[x].out
<1>1. IsPool(p, S) /\ IsTree(p, L, h, r) /\ p[x].out = SchemaOf(p, x)
  BY DEF Planted, Schemas
<1>2. p[x].kind \in Unary
  BY DEF Copying
<1>3. 1 \in DOMAIN p[x].inputs /\ p[x].inputs[1] \in L /\ p[x].inputs = <<p[x].inputs[1]>>
  BY <1>1, <1>2, NodeOf
<1>4. p[p[x].inputs[1]].output = x /\ p[x].inputs[1] # x
  BY <1>1, <1>3, ChildOf
<1>5. p[p[x].inputs[1]].out \in Seq(S)
  <2>1. IsOp(p[p[x].inputs[1]], Len(p), S)
    BY <1>1, <1>3, NodeOf
  <2>2. QED
    BY <2>1 DEF IsOp
<1> DEFINE c == p[x].inputs[1]
<1>6. p[x].inputs = <<c>> /\ p[c].out \in Seq(S)
  BY <1>3, <1>5
<1> HIDE DEF c
<1>7. SchemaOf(p, x) = p[c].out
  BY <1>6, CopiedSchema
<1>8. QED
  BY <1>1, <1>2, <1>3, <1>4, <1>7 DEF c

(* The root drops out.                                                       *)
LEMMA UncapTree ==
  ASSUME NEW S, NEW p, NEW L, NEW h, Planted(p, S, L, h, plan), p[plan].kind \in Copying
  PROVE  Removed(Uncap(p), p, S, L, h, plan, plan, p[plan].inputs[1])
<1>1. IsPool(p, S) /\ IsTree(p, L, h, plan) /\ Schemas(p, L) /\ plan \in L /\ p[plan].output = 0
  BY DEF Planted, IsTree
<1> DEFINE c == p[plan].inputs[1]
<1>2. p[plan].kind \in Unary /\ p[c].out = p[plan].out
  BY <1>1, Handed
<1>3. Removable(p, plan, c)
  BY <1>1, <1>2 DEF Removable
<1>4. Uncap(p) = Replace(p, plan, c)
  BY <1>1 DEF Uncap, Replace
<1> HIDE DEF c
<1>5. Removed(Replace(p, plan, c), p, S, L, h, plan, plan, c)
  BY <1>1, <1>3, RemoveTree
<1>6. QED
  BY <1>4, <1>5 DEF c

(* t_rstreamNow.                                                             *)
LEMMA RstreamNowTree ==
  ASSUME Good(pool, plan), NEW now, now = Descend(Input(plan), UnderRstream),
         pool[plan].kind = "rstream", pool[now].kind = "nowWin"
  PROVE  /\ Good(RemoveNow(now), IF now = Input(plan) THEN Input(now) ELSE Input(plan))
         /\ SameArgs(RemoveNow(now), pool)
         /\ AllKept(RemoveNow(now), pool) /\ Falls(RemoveNow(now), pool)
<1>1. PICK S, L, h : Planted(pool, S, L, h, plan) /\ Pure(pool, L)
  BY DEF Good
<1> DEFINE c == Input(plan)
           d == Input(now)
           U == Uncap(pool)
           K == L \ {plan}
<1>2. pool[plan].kind \in Copying /\ pool[now].kind \in Copying
  BY DEF Copying, Unary, LogKinds, Sources, Crosses, BinOps, Windows, XStreams
<1>3. plan \in L /\ c \in L /\ c # plan
  <2>1. plan \in L
    BY <1>1 DEF Planted, IsTree
  <2>2. pool[plan].inputs[1] \in L /\ pool[plan].inputs[1] # plan
    BY <1>1, <1>2, <2>1, Handed
  <2>3. QED
    BY <2>1, <2>2 DEF Input
<1>4. Removed(U, pool, S, L, h, plan, plan, c)
  BY <1>1, <1>2, UncapTree DEF Input
<1>5. Reached(L, c, UnderRstream, now)
  <2>1. UnderRstream \in SUBSET Unary
    BY DEF UnderRstream, Unary, LogKinds, Sources, Crosses, BinOps
  <2>2. c \in L
    BY <1>3
  <2> HIDE DEF c
  <2>3. Reached(L, c, UnderRstream, Descend(c, UnderRstream))
    BY <1>1, <2>1, <2>2, Descends
  <2>4. QED
    BY <2>3 DEF c
<1>6. now \in L /\ now # plan
  BY <1>3, <1>5 DEF Reached
<1> HIDE DEF c, U
<1>7. /\ IsPool(U, S) /\ Schemas(U, K) /\ Len(U) = Len(pool)
      /\ \A o \in 1..Len(pool) : Alike(U[o], pool[o])
      /\ \A o \in 1..Len(pool) : U[o].output = IF o = c THEN pool[plan].output ELSE pool[o].output
      /\ \A o \in 1..Len(pool) : U[o].inputs = IF o = pool[plan].output THEN <<c>> ELSE pool[o].inputs
  BY <1>4 DEF Removed, Replaced
<1>8. PICK g : IsTree(U, K, g, c)
  BY <1>4 DEF Removed
<1>9. L \subseteq 1..Len(pool) /\ pool[plan].output = 0 /\ Len(pool) \in Nat
  BY <1>1 DEF Planted, IsTree, IsPool
<1>10. \A o \in L : U[o].kind = pool[o].kind /\ U[o].arg = pool[o].arg /\ U[o].inputs = pool[o].inputs
  BY <1>7, <1>9 DEF Alike
<1>11. Planted(U, S, K, g, c) /\ now \in K
  BY <1>6, <1>7, <1>8 DEF Planted
<1>12. U[now].kind \in Copying /\ U[now].inputs[1] = d
  BY <1>2, <1>6, <1>10 DEF Input
<1>13. /\ U[now].kind \in Unary /\ U[d].out = U[now].out /\ d \in K /\ U[d].output = now
  BY <1>11, <1>12, Handed
<1>14. U[now].output # 0 => U[U[now].output].kind \in Unary
  <2>1. CASE now = c
    <3>1. U[now].output = 0
      BY <1>8, <2>1 DEF IsTree
    <3>2. QED
      BY <3>1
  <2>2. CASE now # c
    <3>1. pool[now].output \in L /\ pool[pool[now].output].kind \in UnderRstream
      BY <1>5, <2>2 DEF Reached
    <3>2. U[now].output = pool[now].output
      BY <1>6, <1>7, <1>9, <2>2
    <3>3. U[U[now].output].kind \in UnderRstream
      BY <1>10, <3>1, <3>2
    <3>4. QED
      BY <3>3 DEF UnderRstream, Unary, LogKinds, Sources, Crosses, BinOps
  <2>3. QED
    BY <2>1, <2>2
<1> DEFINE R == Replace(U, now, d)
           N == K \ {now}
           root == IF now = c THEN d ELSE c
<1>15. Removed(R, U, S, K, g, c, now, d)
  <2>1. Removable(U, now, d)
    BY <1>12, <1>13, <1>14 DEF Removable
  <2> HIDE DEF d
  <2>2. QED
    BY <1>8, <1>7, <1>11, <2>1, RemoveTree
<1> HIDE DEF R
<1>16. /\ IsPool(R, S) /\ Schemas(R, N) /\ Len(R) = Len(pool)
       /\ \A o \in 1..Len(pool) : Alike(R[o], U[o])
  BY <1>7, <1>15 DEF Removed, Replaced
<1>17. PICK f : IsTree(R, N, f, root)
  BY <1>15 DEF Removed
<1> DEFINE a == U[now].output
           Q == AllStreams(R, a)
<1>18. Restreamed(Q, R, S)
  <2>1. a \in 0..Len(R)
    <3>1. IsOp(U[now], Len(U), S)
      BY <1>8, <1>7, <1>11, NodeOf
    <3>2. QED
      BY <1>7, <1>16, <3>1 DEF IsOp
  <2> HIDE DEF a
  <2>2. QED
    BY <1>16, <2>1, StreamsUpwards
<1> HIDE DEF Q
<1>19. IsTree(Q, N, f, root) /\ Schemas(Q, N) /\ IsPool(Q, S) /\ Len(Q) = Len(pool)
  <2> HIDE DEF N, root
  <2>1. IsTree(Q, N, f, root) /\ Schemas(Q, N)
    BY <1>16, <1>17, <1>18, RestreamTree
  <2>2. QED
    BY <1>16, <1>18, <2>1 DEF Restreamed
<1>20. \A o \in 1..Len(pool) : Q[o].kind = pool[o].kind /\ Q[o].arg = pool[o].arg
  BY <1>7, <1>16, <1>18 DEF Alike, Restreamed
<1>21. Pure(Q, N)
  <2>1. N \subseteq L /\ \A o \in N : Q[o].kind = pool[o].kind
    BY <1>9, <1>20
  <2> HIDE DEF N
  <2>2. QED
    BY <1>1, <2>1, PureStays
<1>22. Good(Q, root)
  <2> HIDE DEF N, root
  <2>1. Planted(Q, S, N, f, root)
    BY <1>19 DEF Planted
  <2>2. QED
    BY <1>21, <2>1 DEF Good
<1>23. SameArgs(Q, pool)
  BY <1>19, <1>20, AlikeArgs
<1>24. AllKept(Q, pool)
  <2>1. AllKept(U, pool)
    <3>1. Removable(pool, plan, c)
      <4>1. pool[plan].kind \in Unary /\ pool[pool[plan].inputs[1]].out = pool[plan].out
        BY <1>1, <1>2, <1>3, Handed
      <4>2. QED
        BY <1>9, <4>1 DEF Removable, Input, c
    <3>2. QED
      BY <1>1, <1>3, <1>4, <3>1, RemovedKeeps
  <2>2. AllKept(R, U)
    <3>1. Removable(U, now, d)
      BY <1>12, <1>13, <1>14 DEF Removable
    <3> HIDE DEF d
    <3>2. QED
      BY <1>11, <1>15, <3>1, RemovedKeeps
  <2>3. AllKept(Q, R)
    BY <1>16, <1>18, RestreamedKeeps
  <2>4. QED
    BY <2>1, <2>2, <2>3, KeptTwice
<1>25. Falls(Q, pool)
  <2>1. Falls(U, pool)
    <3>1. Removable(pool, plan, c)
      <4>1. pool[plan].kind \in Unary /\ pool[pool[plan].inputs[1]].out = pool[plan].out
        BY <1>1, <1>2, <1>3, Handed
      <4>2. QED
        BY <1>9, <4>1 DEF Removable, Input, c
    <3>2. QED
      BY <1>1, <1>3, <1>4, <3>1, RemovedFalls
  <2>2. Falls(R, U)
    <3>1. Removable(U, now, d)
      BY <1>12, <1>13, <1>14 DEF Removable
    <3> HIDE DEF d
    <3>2. QED
      BY <1>11, <1>15, <3>1, RemovedFalls
  <2>3. Falls(Q, R)
    <3>1. Len(Q) = Len(R) /\ \A o \in 1..Len(R) : Q[o].kind = R[o].kind /\ Q[o].inputs = R[o].inputs
      BY <1>18 DEF Restreamed, Alike
    <3>2. QED
      BY <1>16, <3>1, SameEdgesFall
  <2>4. QED
    BY <2>1, <2>2, <2>3, FallsTwice
<1>26. RemoveNow(now) = Q
  BY DEF RemoveNow, AllStreams, Above, Q, R, U
<1>27. QED
  BY <1>22, <1>23, <1>24, <1>25, <1>26 DEF c

(* Lists with the same members are the same.                                 *)
LEMMA SameList ==
  ASSUME NEW S, NEW s \in Seq(S), NEW t \in Seq(S), Len(s) = Len(t),
         \A i \in 1..Len(s) : s[i] = t[i]
  PROVE  s = t
<1>1. s = [i \in 1..Len(s) |-> s[i]] /\ t = [i \in 1..Len(t) |-> t[i]]
  OBVIOUS
<1>2. QED
  BY <1>1

(* t_removeProject: the project hands on the attributes of its input.         *)
LEMMA RemoveProjectTree ==
  ASSUME Good(pool, plan), NEW project, project = Descend(plan, {"select", "distinct"} \cup XStreams),
         pool[project].kind = "project", IsUselessProject(project)
  PROVE  /\ Good(Replace(pool, project, Input(project)), RootAfter(project, Input(project)))
         /\ SameArgs(Replace(pool, project, Input(project)), pool)
         /\ AllKept(Replace(pool, project, Input(project)), pool)
         /\ Falls(Replace(pool, project, Input(project)), pool)
<1>1. PICK S, L, h : Planted(pool, S, L, h, plan) /\ Pure(pool, L)
  BY DEF Good
<1> DEFINE kinds == {"select", "distinct"} \cup XStreams
           c == Input(project)
           Q == Replace(pool, project, c)
<1>2. kinds \in SUBSET Unary
  BY DEF Unary, LogKinds, Sources, Crosses, BinOps, XStreams
<1>3. IsPool(pool, S) /\ IsTree(pool, L, h, plan) /\ Schemas(pool, L) /\ plan \in L
  BY <1>1 DEF Planted, IsTree
<1>4. Reached(L, plan, kinds, project)
  <2> HIDE DEF kinds
  <2>1. Reached(L, plan, kinds, Descend(plan, kinds))
    BY <1>1, <1>2, <1>3, Descends
  <2>2. QED
    BY <2>1 DEF kinds
<1>5. project \in L /\ pool[project].kind \in Unary
  BY <1>4 DEF Reached, Unary, LogKinds, Sources, Crosses, BinOps
<1>6. c \in L /\ IsOp(pool[c], Len(pool), S) /\ IsOp(pool[project], Len(pool), S)
  <2>1. pool[project].inputs[1] \in L
    BY <1>3, <1>5, NodeOf
  <2>2. c \in L
    BY <2>1 DEF Input
  <2> HIDE DEF c
  <2>3. QED
    BY <1>3, <1>5, <2>2, NodeOf
<1>7. pool[c].out = pool[project].out
  <2>1. pool[c].out \in Seq(S) /\ pool[project].out \in Seq(S)
    BY <1>6 DEF IsOp
  <2>2. /\ Len(pool[project].out) = Len(pool[c].out)
        /\ \A a \in DOMAIN pool[project].out : pool[project].out[a] = pool[c].out[a]
    BY DEF IsUselessProject, SameAttr
  <2>3. DOMAIN pool[project].out = 1..Len(pool[project].out)
    BY <2>1
  <2> HIDE DEF c
  <2>4. QED
    BY <2>1, <2>2, <2>3, SameList
<1>8. pool[project].output # 0 => pool[pool[project].output].kind \in Unary
  <2>1. CASE project = plan
    BY <1>3, <2>1 DEF IsTree
  <2>2. CASE project # plan
    BY <1>2, <1>4, <2>2 DEF Reached
  <2>3. QED
    BY <2>1, <2>2
<1> DEFINE root == IF project = plan THEN c ELSE plan
           N == L \ {project}
<1>9. Removed(Q, pool, S, L, h, plan, project, c)
  <2>1. Removable(pool, project, c)
    BY <1>5, <1>7, <1>8 DEF Removable, Input
  <2> HIDE DEF c
  <2>2. QED
    BY <1>3, <1>5, <2>1, RemoveTree
<1> HIDE DEF Q
<1>10. /\ IsPool(Q, S) /\ Schemas(Q, N) /\ Len(Q) = Len(pool)
       /\ \A o \in 1..Len(pool) : Q[o].kind = pool[o].kind /\ Q[o].arg = pool[o].arg
  BY <1>9 DEF Removed, Replaced, Alike
<1>11. PICK g : IsTree(Q, N, g, root)
  BY <1>9 DEF Removed
<1>12. Pure(Q, N)
  <2>1. N \subseteq L /\ L \subseteq 1..Len(pool)
    BY <1>3 DEF IsTree
  <2>2. \A o \in N : Q[o].kind = pool[o].kind
    BY <1>10, <2>1
  <2> HIDE DEF N
  <2>3. QED
    BY <1>1, <2>1, <2>2, PureStays
<1>13. Good(Q, root)
  <2> HIDE DEF N, root
  <2>1. Planted(Q, S, N, g, root)
    BY <1>10, <1>11 DEF Planted
  <2>2. QED
    BY <1>12, <2>1 DEF Good
<1>14. SameArgs(Q, pool)
  BY <1>10, AlikeArgs
<1>15. AllKept(Q, pool)
  <2>1. Removable(pool, project, c)
    BY <1>5, <1>7, <1>8 DEF Removable, Input
  <2> HIDE DEF c
  <2>2. QED
    BY <1>1, <1>5, <1>9, <2>1, RemovedKeeps
<1>16. Falls(Q, pool)
  <2>1. Removable(pool, project, c)
    BY <1>5, <1>7, <1>8 DEF Removable, Input
  <2> HIDE DEF c
  <2>2. QED
    BY <1>1, <1>5, <1>9, <2>1, RemovedFalls
<1>17. RootAfter(project, c) = root
  BY DEF RootAfter
<1>18. QED
  BY <1>13, <1>14, <1>15, <1>16, <1>17 DEF Q

Pushes(p, L, r, s) ==
  s \in L /\ p[s].kind = "select" /\ (s # r => p[p[s].output].kind \in Unary)

(* What t_pushSelect finds has no product right above it.                     *)
LEMMA FindSelectTree ==
  ASSUME NEW S, NEW L, NEW h, Planted(pool, S, L, h, plan),
         NEW select, select = Descend(plan, XStreams \cup {"project", "distinct", "groupAggr"}),
         pool[select].kind = "select"
  PROVE  Pushes(pool, L, plan, select)
<1> DEFINE kinds == XStreams \cup {"project", "distinct", "groupAggr"}
<1>1. kinds \in SUBSET Unary
  BY DEF Unary, LogKinds, Sources, Crosses, BinOps, XStreams
<1>2. plan \in L
  BY DEF Planted, IsTree
<1>3. Reached(L, plan, kinds, select)
  <2> HIDE DEF kinds
  <2>1. Reached(L, plan, kinds, Descend(plan, kinds))
    BY <1>1, <1>2, Descends
  <2>2. QED
    BY <2>1 DEF kinds
<1>4. QED
  <2> HIDE DEF kinds
  <2>1. QED
    BY <1>1, <1>3 DEF Reached, Pushes

GoodAt(p, r, s) ==
  \E S, L, h : /\ Planted(p, S, L, h, r) /\ Pure(p, L)
               /\ s # 0 => Pushes(p, L, r, s)

(* A selection s that has moved: a copy of it is over c, and it has left.      *)
Moved(q, p, n, s, c) ==
  /\ Len(q) = n + 1
  /\ \A o \in 1..n : /\ Alike(q[o], p[o])
                     /\ q[o].output = IF o = p[s].inputs[1] THEN p[s].output
                                      ELSE IF o = c THEN n + 1 ELSE p[o].output
  /\ q[n + 1].kind = "select" /\ q[n + 1].arg = p[s].arg
  /\ q[n + 1].inputs = <<c>> /\ q[n + 1].output = p[c].output

Remaining(p, L, s) == (L \cup {Len(p) + 1}) \ {s}
Topmost(p, r, s) == IF s = r THEN p[s].inputs[1] ELSE r

MovedTree(q, p, S, L, r, s) ==
  /\ \E f : Planted(q, S, Remaining(p, L, s), f, Topmost(p, r, s))
  /\ Pure(q, Remaining(p, L, s))
  /\ p[p[s].inputs[1]].kind = "select" => Pushes(q, Remaining(p, L, s), Topmost(p, r, s), p[s].inputs[1])

(* A turn of t_pushSelect: the selection is copied to where it gets to, and    *)
(* taken out where it was.  One under it has no product right above it then.   *)
LEMMA SelectMoves ==
  ASSUME NEW S, NEW L, NEW h, Planted(pool, S, L, h, plan), Pure(pool, L), Pushes(pool, L, plan, at),
         Goal(at).useful, NEW Q, Q = Replace(CopyTo(at, Goal(at)), at, Input(at))
  PROVE  /\ MovedTree(Q, pool, S, L, plan, at) /\ Moved(Q, pool, Len(pool), at, Goal(at).op)
         /\ Copied(Q, pool, pool[at].arg, Goal(at).op) /\ SameArgs(Q, pool)
<1>1. Planted(pool, S, L, h, plan) /\ Pure(pool, L) /\ Pushes(pool, L, plan, at)
  OBVIOUS
<1> DEFINE n == Len(pool)
           c == Goal(at).op
           i == Goal(at).pos
           par == pool[c].output
           below == Input(at)
           arg == pool[at].arg
           P == OverOp(pool, c, i, arg)
           M == L \cup {n + 1}
           N == M \ {at}
           root == IF at = plan THEN below ELSE plan
<1>2. /\ IsPool(pool, S) /\ IsTree(pool, L, h, plan) /\ Schemas(pool, L) /\ L \subseteq 1..n
      /\ n \in Nat /\ plan \in L /\ pool[plan].output = 0
  BY <1>1 DEF Planted, IsTree, IsPool
<1>3. /\ at \in L /\ pool[at].kind = "select" /\ pool[at].kind \in Copying
      /\ at # plan => pool[pool[at].output].kind \in Unary
  BY <1>1 DEF Pushes, Copying, Unary, LogKinds, Sources, Crosses, BinOps
<1>4. /\ pool[at].kind \in Unary /\ below \in L /\ pool[below].output = at /\ below # at
      /\ pool[below].out = pool[at].out /\ below = pool[at].inputs[1]
  BY <1>1, <1>3, Handed DEF Input
<1>5. Passed(L, h, at, Goal(at))
  BY <1>1, <1>3, GoalPassed
<1>6. /\ c \in L /\ c # plan /\ par \in L /\ i \in DOMAIN pool[par].inputs
      /\ pool[par].inputs[i] = c /\ h[par] < h[at]
  BY <1>5 DEF Passed
<1>7. c # at /\ par # at
  <2>1. h[c] < h[par]
    BY <1>2, <1>6, ParentOf
  <2>2. \A x \in L : h[x] \in Nat
    <3>1. \A x \in L : h[x] \in 1..n
      BY <1>2 DEF IsTree
    <3>2. QED
      BY <1>2, <3>1
  <2> HIDE DEF c, par
  <2>3. QED
    BY <1>3, <1>6, <2>1, <2>2
<1>8. Q = Replace(P, at, below)
  <2>1. CopyTo(at, Goal(at)) = OverOp(pool, Goal(at).op, Goal(at).pos, pool[at].arg)
    BY Zenon DEF CopyTo, OverOp
  <2>2. QED
    BY <2>1
<1> HIDE DEF P, c, i, par, arg, below
<1>9. Inserted(P, pool, n, S, L, plan, c, arg)
  BY <1>2, <1>6, InsertTree DEF P, n, par
<1>10. /\ IsPool(P, S) /\ Len(P) = n + 1 /\ Schemas(P, M)
       /\ P[n + 1].kind = "select" /\ P[n + 1].arg = arg
       /\ \A o \in 1..n : /\ P[o].kind = pool[o].kind /\ P[o].arg = pool[o].arg
                          /\ P[o].out = pool[o].out
                          /\ P[o].output = IF o = c THEN n + 1 ELSE pool[o].output
                          /\ o # par => P[o].inputs = pool[o].inputs
  BY <1>9 DEF Inserted, Alike, par
<1>11. PICK g : IsTree(P, M, g, plan)
  BY <1>9 DEF Inserted
<1>12. Removable(P, at, below)
  <2>1. at \in 1..n /\ below \in 1..n
    BY <1>2, <1>3, <1>4
  <2>2. P[at].kind \in Unary /\ P[at].inputs[1] = below /\ P[below].out = P[at].out
    BY <1>4, <1>7, <1>10, <2>1
  <2>3. P[at].output = pool[at].output
    BY <1>7, <1>10, <2>1
  <2>4. CASE at = plan
    BY <1>2, <2>2, <2>3, <2>4 DEF Removable
  <2>5. CASE at # plan
    <3>1. pool[at].output \in 1..n
      <4>1. pool[at].output \in L
        BY <1>2, <1>3, <2>5, ParentOf
      <4>2. QED
        BY <1>2, <4>1
    <3>2. P[P[at].output].kind \in Unary
      BY <1>3, <1>10, <2>3, <2>5, <3>1
    <3>3. QED
      BY <2>2, <3>2 DEF Removable
  <2>6. QED
    BY <2>4, <2>5
<1>13. Removed(Q, P, S, M, g, plan, at, below)
  <2>1. at \in M
    BY <1>3
  <2> HIDE DEF M
  <2>2. QED
    BY <1>8, <1>10, <1>11, <1>12, <2>1, RemoveTree
<1>14. /\ IsPool(Q, S) /\ Schemas(Q, N) /\ Len(Q) = n + 1
       /\ \A o \in 1..(n + 1) : /\ Q[o].kind = P[o].kind /\ Q[o].arg = P[o].arg
                                /\ Q[o].output = IF o = below THEN P[at].output ELSE P[o].output
  BY <1>10, <1>13 DEF Removed, Replaced, Alike
<1>15. PICK f : IsTree(Q, N, f, root)
  BY <1>13 DEF Removed
<1>16. /\ \A o \in 1..n : o \in 1..(n + 1) /\ o # n + 1
       /\ n + 1 \in 1..(n + 1)
       /\ \A o \in 1..(n + 1) : o \in 1..n \/ o = n + 1
  BY <1>2
<1>17. \A o \in 1..n : Q[o].kind = pool[o].kind /\ Q[o].arg = pool[o].arg
  BY <1>10, <1>14, <1>16
<1>18. Q[n + 1].kind = "select" /\ Q[n + 1].arg = arg
  BY <1>10, <1>14, <1>16
<1>19. Pure(Q, N)
  <2>1. \A o \in N : o \in L \/ o = n + 1
    OBVIOUS
  <2>2. \A o \in L : Q[o].kind = pool[o].kind
    BY <1>2, <1>17
  <2>3. Q[n + 1].kind \notin BinOps /\ Q[n + 1].kind \notin Crosses
    BY <1>18 DEF BinOps, Crosses
  <2> HIDE DEF N
  <2>4. QED
    BY <1>1, <2>1, <2>2, <2>3 DEF Pure
<1>20. ASSUME pool[below].kind = "select" PROVE Pushes(Q, N, root, below)
  <2>1. pool[below].kind = "select"
    BY <1>20
  <2>2. below \in N /\ Q[below].kind = "select"
    BY <1>2, <1>4, <1>17, <2>1
  <2>3. ASSUME below # root PROVE Q[Q[below].output].kind \in Unary
    <3>1. at # plan
      BY <2>3
    <3>2. Q[below].output = P[at].output
      BY <1>2, <1>4, <1>14, <1>16
    <3>3. P[at].output = pool[at].output
      BY <1>2, <1>3, <1>7, <1>10
    <3>4. pool[at].output \in L
      BY <1>2, <1>3, <3>1, ParentOf
    <3>5. QED
      BY <1>2, <1>3, <1>17, <3>1, <3>2, <3>3, <3>4, ZenonT(60)
  <2>4. QED
    BY <2>1, <2>2, <2>3 DEF Pushes
<1>21. MovedTree(Q, pool, S, L, plan, at)
  <2>1. N = Remaining(pool, L, at)
    BY DEF Remaining, n
  <2>2. root = Topmost(pool, plan, at) /\ below = pool[at].inputs[1]
    BY <1>4 DEF Topmost
  <2> HIDE DEF N, root
  <2>3. Planted(Q, S, N, f, root)
    BY <1>14, <1>15 DEF Planted
  <2>4. QED
    BY <1>19, <1>20, <2>1, <2>2, <2>3 DEF MovedTree
<1>22. SameArgs(Q, pool)
  <2>1. ASSUME NEW o \in 1..Len(Q), Q[o].kind \in {"select", "project"}
        PROVE  \E x \in 1..n : pool[x].kind = Q[o].kind /\ pool[x].arg = Q[o].arg
    <3>1. CASE o \in 1..n
      BY <1>17, <3>1
    <3>2. CASE o = n + 1
      <4>1. at \in 1..n /\ pool[at].kind = Q[o].kind /\ pool[at].arg = Q[o].arg
        BY <1>2, <1>3, <1>18, <3>2 DEF arg
      <4>2. QED
        BY <4>1
    <3>3. QED
      BY <1>14, <1>16, <3>1, <3>2
  <2>2. QED
    BY <2>1 DEF SameArgs
<1>23. Copied(Q, pool, arg, c)
  <2>1. Copied(P, pool, arg, c)
    BY <1>1, <1>6, <1>9, InsertedKeeps DEF n
  <2>2. Planted(P, S, M, g, plan) /\ at \in M
    BY <1>3, <1>10, <1>11 DEF Planted
  <2> HIDE DEF M
  <2>3. AllKept(Q, P)
    BY <1>12, <1>13, <2>2, RemovedKeeps
  <2>4. QED
    BY <1>10, <1>14, <2>1, <2>3, CopiedThen
<1>24. P[n + 1].inputs = <<c>> /\ P[n + 1].output = par
  <2>1. P[n + 1].inputs = <<c>> /\ \A o \in 1..n : o # par => P[o].inputs = pool[o].inputs
    BY <1>9, <1>10 DEF Inserted
  <2> DEFINE a == P[n + 1].output
  <2>2. n + 1 \in M /\ n + 1 # plan
    BY <1>2
  <2>3. a \in M /\ \E k \in DOMAIN P[a].inputs : P[a].inputs[k] = n + 1
    <3> HIDE DEF M
    <3>1. QED
      BY <1>10, <1>11, <2>2, ParentOf
  <2> HIDE DEF a
  <2>4. c # n + 1
    BY <1>2, <1>6, <1>16
  <2>5. a # n + 1
    BY <2>1, <2>3, <2>4
  <2>6. a \in 1..n
    BY <1>2, <2>3, <2>5
  <2>7. ASSUME a # par PROVE FALSE
    <3>1. P[a].inputs = pool[a].inputs
      BY <2>1, <2>6, <2>7
    <3>2. \A k \in DOMAIN pool[a].inputs : pool[a].inputs[k] \in 1..n
      BY <1>2, <2>6, PoolOp DEF n
    <3>3. QED
      BY <1>16, <2>3, <3>1, <3>2
  <2>8. QED
    BY <2>1, <2>7 DEF a
<1>25. Moved(Q, pool, n, at, c)
  <2>1. P[at].output = pool[at].output /\ at \in 1..n /\ below \in 1..n
    BY <1>2, <1>3, <1>4, <1>7, <1>10
  <2>2. pool[at].output # n + 1
    <3>1. pool[at].output \in 0..n
      BY <1>2, <2>1, PoolOp DEF IsOp, n
    <3>2. QED
      BY <1>2, <3>1
  <2>3. \A o \in 1..(n + 1) : /\ Alike(Q[o], P[o])
                              /\ Q[o].output = IF o = below THEN P[at].output ELSE P[o].output
                              /\ Q[o].inputs = IF o = P[at].output THEN <<below>> ELSE P[o].inputs
    BY <1>10, <1>13 DEF Removed, Replaced
  <2>4. \A o \in 1..n : /\ Alike(P[o], pool[o])
                        /\ P[o].output = IF o = c THEN n + 1 ELSE pool[o].output
    BY <1>10 DEF Alike
  <2>5. \A o \in 1..n : /\ Alike(Q[o], pool[o])
                        /\ Q[o].output = IF o = below THEN pool[at].output
                                         ELSE IF o = c THEN n + 1 ELSE pool[o].output
    BY <1>16, <2>1, <2>3, <2>4 DEF Alike
  <2>6. n + 1 # below
    BY <1>16, <2>1
  <2>7. Q[n + 1].inputs = <<c>> /\ Q[n + 1].output = par
    BY <1>16, <1>24, <2>1, <2>2, <2>3, <2>6
  <2>8. Len(Q) = n + 1 /\ below = pool[at].inputs[1]
    BY <1>4, <1>14
  <2>9. QED
    BY <1>18, <2>5, <2>7, <2>8 DEF Moved, par, arg
<1>26. QED
  BY <1>21, <1>22, <1>23, <1>25 DEF arg, c, n

(* So the plan is good after it, and the next selection has no product above it.*)
LEMMA PushSelectTree ==
  ASSUME GoodAt(pool, plan, at), at # 0, Goal(at).useful,
         NEW Q, Q = Replace(CopyTo(at, Goal(at)), at, Input(at)),
         NEW more, more = IF pool[Input(at)].kind = "select" THEN Input(at) ELSE 0
  PROVE  /\ GoodAt(Q, RootAfter(at, Input(at)), more) /\ SameArgs(Q, pool)
         /\ Copied(Q, pool, pool[at].arg, Goal(at).op)
<1>1. PICK S, L, h : Planted(pool, S, L, h, plan) /\ Pure(pool, L) /\ Pushes(pool, L, plan, at)
  BY DEF GoodAt
<1>2. MovedTree(Q, pool, S, L, plan, at) /\ SameArgs(Q, pool) /\ Copied(Q, pool, pool[at].arg, Goal(at).op)
  BY <1>1, SelectMoves
<1>3. RootAfter(at, Input(at)) = Topmost(pool, plan, at) /\ Input(at) = pool[at].inputs[1]
  BY DEF RootAfter, Topmost, Input
<1>4. GoodAt(Q, Topmost(pool, plan, at), more)
  <2>1. more # 0 => more = pool[at].inputs[1] /\ pool[pool[at].inputs[1]].kind = "select"
    BY <1>3
  <2> DEFINE N == Remaining(pool, L, at)
             root == Topmost(pool, plan, at)
  <2>2. /\ \E f : Planted(Q, S, N, f, root)
        /\ Pure(Q, N)
        /\ more # 0 => Pushes(Q, N, root, more)
    BY <1>2, <2>1 DEF MovedTree
  <2> HIDE DEF N, root
  <2>3. PICK f : Planted(Q, S, N, f, root)
    BY <2>2
  <2>4. GoodAt(Q, root, more)
    BY <2>2, <2>3 DEF GoodAt
  <2>5. QED
    BY <2>4 DEF root
<1>5. QED
  BY <1>2, <1>3, <1>4

-----------------------------------------------------------------------------
(* Products of two.                                                          *)
PairFits(q, S, kind, left, right) ==
  /\ IsPool(q, S) /\ left \in 1..Len(q) /\ right \in 1..Len(q) /\ kind \in Crosses
  /\ Len(q[left].out) + Len(q[right].out) <= MaxAttrs

Paired(t, q, S, kind, left, right) ==
  /\ IsPool(t, S) /\ Len(t) = Len(q) + 1
  /\ t[Len(t)].kind = kind /\ t[Len(t)].inputs = <<left, right>> /\ t[Len(t)].output = 0
  /\ t[Len(t)].out = q[left].out \o q[right].out
  /\ \A o \in 1..Len(q) :
       /\ Alike(t[o], q[o]) /\ t[o].inputs = q[o].inputs
       /\ t[o].output = IF o = left \/ o = right THEN Len(t) ELSE q[o].output

Single(t, q, S, kind, left) ==
  /\ IsPool(t, S) /\ Len(t) = Len(q) + 1
  /\ t[Len(t)].kind = kind /\ t[Len(t)].inputs = <<left>> /\ t[Len(t)].output = 0
  /\ t[Len(t)].out = q[left].out
  /\ \A o \in 1..Len(q) :
       /\ Alike(t[o], q[o]) /\ t[o].inputs = q[o].inputs
       /\ t[o].output = IF o = left THEN Len(t) ELSE q[o].output

(* A cross is the operator that comes last.                                  *)
LEMMA CrossIsLast ==
  ASSUME NEW S, NEW q, IsPool(q, S)
  PROVE  /\ Grown(MkCross(q), q, Len(q), S, "cross", <<>>, <<>>, NoArg)
         /\ Len(MkCross(q)) = Len(q) + 1
<1>1. NewFits(q, S, "cross", <<>>, <<>>, TRUE)
  <2>1. <<>> \in Seq(1..Len(q)) /\ Len(<<>>) = 0 /\ <<>> \in Seq(S)
    OBVIOUS
  <2>2. 0 <= MaxInputs /\ 0 <= MaxAttrs
    BY QueryConstants, InputsAssumption
  <2>3. "cross" \in LogKinds /\ "cross" \notin Unary /\ "cross" \notin BinOps /\ "cross" \notin Sources
    BY DEF LogKinds, Unary, BinOps, Sources, Crosses
  <2>4. QED
    BY <2>1, <2>2, <2>3 DEF NewFits
<1>2. Grown(MkCross(q), q, Len(q), S, "cross", <<>>, <<>>, NoArg)
  BY <1>1, NewOpType DEF MkCross
<1>3. QED
  BY <1>2 DEF Grown

(* A cross with its first input.                                             *)
LEMMA CrossSingle ==
  ASSUME NEW S, NEW q, IsPool(q, S), NEW left \in 1..Len(q), NEW n, n = Len(q) + 1
  PROVE  Single(CrossAddInput(MkCross(q), n, left), q, S, "cross", left)
<1> DEFINE k == Len(q)
           m == MkCross(q)
           t == CrossAddInput(m, n, left)
<1>1. k \in Nat /\ IsOp(q[left], k, S)
  BY DEF IsPool
<1>2. Grown(m, q, k, S, "cross", <<>>, <<>>, NoArg)
  BY CrossIsLast
<1> HIDE DEF m
<1>3. /\ IsPool(m, S) /\ Len(m) = n /\ m[n].kind = "cross" /\ m[n].inputs = <<>>
      /\ m[n].output = 0 /\ m[n].out = <<>>
  BY <1>2 DEF Grown, Made
<1>4. \A o \in 1..k : m[o] = q[o]
  BY <1>2 DEF Grown, ToSet
<1>5. n \in 1..n /\ left \in 1..n /\ left # n /\ \A o \in 1..k : o \in 1..n /\ o # n
  BY <1>1
<1>6. Addable(m, n, left)
  <2>1. Len(m[n].inputs) < MaxInputs
    BY <1>3, InputsAssumption
  <2>2. Len(m[n].out) + Len(m[left].out) <= MaxAttrs
    <3>1. Len(m[n].out) = 0 /\ m[left].out = q[left].out
      BY <1>3, <1>4
    <3>2. Len(q[left].out) \in Nat /\ Len(q[left].out) <= MaxAttrs
      BY <1>1 DEF IsOp
    <3>3. QED
      BY <3>1, <3>2
  <2>3. QED
    BY <1>3, <1>5, <2>1, <2>2 DEF Addable, Crosses
<1>7. IsPool(t, S) /\ Added(t, m, n, left)
  BY <1>3, <1>6, AddInput
<1> HIDE DEF t
<1>8. /\ Len(t) = n /\ t[n].kind = "cross" /\ t[n].output = 0
      /\ t[n].inputs = Append(<<>>, left) /\ t[n].out = <<>> \o q[left].out
      /\ t[left] = [q[left] EXCEPT !.output = n]
      /\ \A o \in (1..k) \ {left} : t[o] = q[o]
  BY <1>3, <1>4, <1>5, <1>7 DEF Added
<1>9. t[n].inputs = <<left>> /\ t[n].out = q[left].out
  <2>1. q[left].out \in Seq(S)
    BY <1>1 DEF IsOp
  <2>2. QED
    BY <1>8, <2>1
<1>10. ASSUME NEW o \in 1..k
       PROVE  /\ Alike(t[o], q[o]) /\ t[o].inputs = q[o].inputs
              /\ t[o].output = IF o = left THEN n ELSE q[o].output
  <2>1. CASE o = left
    BY <1>1, <1>8, <2>1 DEF Alike, IsOp, Fields
  <2>2. CASE o # left
    BY <1>8, <2>2 DEF Alike
  <2>3. QED
    BY <2>1, <2>2
<1>11. Single(t, q, S, "cross", left)
  BY <1>7, <1>8, <1>9, <1>10 DEF Single
<1>12. QED
  BY <1>11 DEF t, m

(* A stream cross, which has its first input from the beginning.              *)
LEMMA StreamSingle ==
  ASSUME NEW S, NEW q, IsPool(q, S), NEW left \in 1..Len(q)
  PROVE  Single(MkStreamCross(q, left), q, S, "streamCross", left)
<1> DEFINE k == Len(q)
           n == k + 1
           t == MkStreamCross(q, left)
<1>1. k \in Nat /\ IsOp(q[left], k, S)
  BY DEF IsPool
<1>2. Grown(t, q, k, S, "streamCross", <<left>>, q[left].out, NoArg)
  <2>1. NewFits(q, S, "streamCross", <<left>>, q[left].out, TRUE)
    <3>1. <<left>> \in Seq(1..k) /\ Len(<<left>>) = 1 /\ 1 <= MaxInputs
      BY InputsAssumption
    <3>2. q[left].out \in Seq(S) /\ Len(q[left].out) <= MaxAttrs
      BY <1>1 DEF IsOp
    <3>3. /\ "streamCross" \in LogKinds /\ "streamCross" \notin Unary
          /\ "streamCross" \notin BinOps /\ "streamCross" \notin Sources
      BY DEF LogKinds, Unary, BinOps, Sources, Crosses
    <3>4. QED
      BY <3>1, <3>2, <3>3 DEF NewFits
  <2>2. QED
    BY <2>1, NewOpType DEF MkStreamCross, CopySchema
<1> HIDE DEF t
<1>3. ToSet(<<left>>) = {left}
  BY DEF ToSet
<1>4. /\ IsPool(t, S) /\ Len(t) = n /\ t[n].kind = "streamCross" /\ t[n].inputs = <<left>>
      /\ t[n].output = 0 /\ t[n].out = q[left].out
      /\ \A o \in 1..k : t[o] = IF o = left THEN [q[o] EXCEPT !.output = n] ELSE q[o]
  BY <1>2, <1>3 DEF Grown, Made
<1>5. ASSUME NEW o \in 1..k
      PROVE  /\ Alike(t[o], q[o]) /\ t[o].inputs = q[o].inputs
             /\ t[o].output = IF o = left THEN n ELSE q[o].output
  <2>1. CASE o = left
    BY <1>1, <1>4, <2>1 DEF Alike, IsOp, Fields
  <2>2. CASE o # left
    BY <1>4, <2>2 DEF Alike
  <2>3. QED
    BY <2>1, <2>2
<1>6. QED
  BY <1>4, <1>5 DEF Single, t, k

(* A binary operator that has its first input gets its second. *)
LEMMA SecondInput ==
  ASSUME NEW S, NEW q, NEW kind, NEW left, NEW right, PairFits(q, S, kind, left, right),
         left # right, NEW t, Single(t, q, S, kind, left), NEW n, n = Len(t),
         NEW u, u = CrossAddInput(t, n, right) \/ u = StreamCrossAddInput(t, n, right)
  PROVE  Paired(u, q, S, kind, left, right)
<1> DEFINE k == Len(q)
<1>1. /\ k \in Nat /\ left \in 1..k /\ right \in 1..k /\ n = k + 1 /\ IsOp(q[right], k, S)
      /\ kind \in Crosses
  BY DEF PairFits, IsPool, Single
<1>2. n \in 1..n /\ right \in 1..n /\ right # n /\ \A o \in 1..k : o \in 1..n /\ o # n
  BY <1>1
<1>3. /\ IsPool(t, S) /\ t[n].kind = kind /\ t[n].inputs = <<left>> /\ t[n].output = 0
      /\ t[n].out = q[left].out /\ t[right].out = q[right].out
      /\ IsOp(t[right], n, S)
  <2>1. IsPool(t, S) /\ t[n].kind = kind /\ t[n].inputs = <<left>> /\ t[n].output = 0
        /\ t[n].out = q[left].out /\ t[right].out = q[right].out
    BY <1>1 DEF Single, Alike
  <2>2. IsOp(t[right], n, S)
    BY <1>2, <2>1 DEF IsPool
  <2>3. QED
    BY <2>1, <2>2
<1>4. Addable(t, n, right)
  <2>1. Len(t[n].inputs) < MaxInputs
    BY <1>3, InputsAssumption
  <2>2. Len(t[n].out) + Len(t[right].out) <= MaxAttrs
    BY <1>3 DEF PairFits
  <2>3. QED
    BY <1>1, <1>2, <1>3, <2>1, <2>2 DEF Addable
<1>5. IsPool(u, S) /\ Added(u, t, n, right)
  BY <1>3, <1>4, AddInput
<1>6. /\ Len(u) = n /\ u[n].kind = kind /\ u[n].inputs = Append(<<left>>, right)
      /\ u[n].output = 0 /\ u[n].out = q[left].out \o q[right].out
      /\ u[right] = [t[right] EXCEPT !.output = n]
      /\ \A o \in (1..n) \ {n, right} : u[o] = t[o]
  BY <1>3, <1>5 DEF Added
<1>7. u[n].inputs = <<left, right>>
  BY <1>6, TwoList
<1>8. ASSUME NEW o \in 1..k
      PROVE  /\ Alike(u[o], q[o]) /\ u[o].inputs = q[o].inputs
             /\ u[o].output = IF o = left \/ o = right THEN n ELSE q[o].output
  <2>1. /\ Alike(t[o], q[o]) /\ t[o].inputs = q[o].inputs
        /\ t[o].output = IF o = left THEN n ELSE q[o].output
    BY DEF Single
  <2>2. CASE o = right
    <3>1. u[o] = [t[o] EXCEPT !.output = n] /\ DOMAIN t[o] = Fields
      BY <1>3, <1>6, <2>2 DEF IsOp
    <3>2. u[o].kind = t[o].kind /\ u[o].arg = t[o].arg /\ u[o].out = t[o].out
          /\ u[o].inputs = t[o].inputs /\ u[o].output = n
      BY <3>1 DEF Fields
    <3>3. QED
      BY <2>1, <2>2, <3>2 DEF Alike
  <2>3. CASE o # right
    <3>1. u[o] = t[o]
      BY <1>2, <1>6, <2>3
    <3>2. QED
      BY <2>1, <2>3, <3>1
  <2>4. QED
    BY <2>2, <2>3
<1>9. QED
  BY <1>1, <1>5, <1>6, <1>7, <1>8 DEF Paired

(* A binary operator over two operators that nobody reads from. *)
LEMMA PairUp ==
  ASSUME NEW S, NEW q, NEW kind, NEW left, NEW right, PairFits(q, S, kind, left, right),
         left # right
  PROVE  Paired(Pair(q, kind, left, right), q, S, kind, left, right)
<1>1. IsPool(q, S) /\ left \in 1..Len(q) /\ kind \in {"cross", "streamCross"}
  BY DEF PairFits, Crosses
<1>2. CASE kind = "cross"
  <2> DEFINE m == MkCross(q)
             t == CrossAddInput(m, Len(m), left)
             u == CrossAddInput(t, Len(m), right)
  <2>1. Len(m) = Len(q) + 1
    BY <1>1, CrossIsLast
  <2>2. Single(t, q, S, kind, left)
    <3> DEFINE n == Len(m)
    <3>1. n = Len(q) + 1
      BY <2>1
    <3> HIDE DEF n
    <3>2. Single(CrossAddInput(MkCross(q), n, left), q, S, "cross", left)
      BY <1>1, <3>1, CrossSingle
    <3>3. QED
      BY <1>2, <3>2 DEF n
  <2> HIDE DEF t
  <2>3. Len(t) = Len(m)
    BY <2>1, <2>2 DEF Single
  <2> HIDE DEF m
  <2>4. u = CrossAddInput(t, Len(t), right)
    BY <2>3
  <2> HIDE DEF u
  <2>5. Paired(u, q, S, kind, left, right)
    BY <2>2, <2>4, SecondInput
  <2>6. Pair(q, kind, left, right) = u
    BY <1>2 DEF Pair, u, t, m
  <2>7. QED
    BY <2>5, <2>6
<1>3. CASE kind = "streamCross"
  <2> DEFINE t == MkStreamCross(q, left)
             u == StreamCrossAddInput(t, Len(t), right)
  <2>1. Single(t, q, S, kind, left)
    BY <1>1, <1>3, StreamSingle
  <2> HIDE DEF t, u
  <2>2. u = CrossAddInput(t, Len(t), right) \/ u = StreamCrossAddInput(t, Len(t), right)
    BY DEF u
  <2>3. Paired(u, q, S, kind, left, right)
    BY <2>1, <2>2, SecondInput
  <2>4. Pair(q, kind, left, right) = u
    BY <1>3 DEF Pair, u, t
  <2>5. QED
    BY <2>3, <2>4
<1>4. QED
  BY <1>1, <1>2, <1>3

-----------------------------------------------------------------------------
(* A product, the schemas of its inputs, and the nest of products of two.     *)
InOuts(p, x) == [i \in DOMAIN p[x].inputs |-> p[p[x].inputs[i]].out]

Product(p, S, L, h, r, x) == Planted(p, S, L, h, r) /\ x \in L /\ p[x].kind \in Crosses

(* The inputs of a product: distinct, read by it alone, and its schema is theirs. *)
LEMMA ProductInputs ==
  ASSUME NEW S, NEW p, NEW L, NEW h, NEW r, NEW x, Product(p, S, L, h, r, x)
  PROVE  /\ IsPool(p, S) /\ Len(p) \in Nat /\ L \subseteq 1..Len(p) /\ x \in 1..Len(p)
         /\ Len(p[x].inputs) \in Nat /\ Len(p[x].inputs) <= MaxInputs
         /\ DOMAIN p[x].inputs = 1..Len(p[x].inputs)
         /\ \A i \in 1..Len(p[x].inputs) :
              /\ p[x].inputs[i] \in L /\ p[x].inputs[i] \in 1..Len(p)
              /\ p[p[x].inputs[i]].output = x /\ p[x].inputs[i] # x
         /\ \A i, j \in 1..Len(p[x].inputs) : p[x].inputs[i] = p[x].inputs[j] => i = j
         /\ InOuts(p, x) \in Seq(Seq(S)) /\ Len(InOuts(p, x)) = Len(p[x].inputs)
         /\ \A i \in 1..Len(p[x].inputs) : InOuts(p, x)[i] = p[p[x].inputs[i]].out
         /\ FlattenSeq(InOuts(p, x)) = p[x].out /\ Len(p[x].out) <= MaxAttrs
<1> DEFINE k == Len(p[x].inputs)
           ins == p[x].inputs
<1>1. /\ IsPool(p, S) /\ IsTree(p, L, h, r) /\ x \in L /\ p[x].kind \in Crosses
      /\ p[x].out = SchemaOf(p, x)
  BY DEF Product, Planted, Schemas
<1>2. L \subseteq 1..Len(p) /\ x \in 1..Len(p) /\ IsInjective(ins)
  BY <1>1 DEF IsTree
<1>3. /\ Len(p) \in Nat /\ k \in Nat /\ DOMAIN ins = 1..k /\ IsOp(p[x], Len(p), S)
  BY <1>1, <1>2, PoolOp
<1>4. k <= MaxInputs /\ Len(p[x].out) <= MaxAttrs
  BY <1>3 DEF IsOp
<1>5. \A i \in 1..k : ins[i] \in L /\ ins[i] \in 1..Len(p) /\ p[ins[i]].output = x /\ ins[i] # x
  <2>1. ASSUME NEW i \in DOMAIN p[x].inputs
        PROVE  /\ p[x].inputs[i] \in L /\ p[p[x].inputs[i]].output = x /\ p[x].inputs[i] # x
    BY <1>1, ChildOf
  <2>2. QED
    BY <1>2, <1>3, <2>1
<1>6. \A i, j \in 1..k : ins[i] = ins[j] => i = j
  BY <1>2, <1>3 DEF IsInjective
<1>7. \A i \in 1..k : p[ins[i]].out \in Seq(S)
  BY <1>1, <1>5 DEF IsPool, IsOp
<1>8. /\ InOuts(p, x) \in Seq(Seq(S)) /\ Len(InOuts(p, x)) = k
      /\ \A i \in 1..k : InOuts(p, x)[i] = p[ins[i]].out
  <2> DEFINE T == Seq(S)
  <2>1. InOuts(p, x) = [i \in 1..k |-> p[ins[i]].out]
    BY <1>3 DEF InOuts
  <2>2. \A i \in 1..k : p[ins[i]].out \in T
    BY <1>7
  <2> HIDE DEF T, k, ins
  <2>3. InOuts(p, x) \in Seq(T) /\ Len(InOuts(p, x)) = k
    BY <1>3, <2>1, <2>2 DEF k
  <2>4. \A i \in 1..k : InOuts(p, x)[i] = p[ins[i]].out
    BY <2>1
  <2>5. QED
    BY <2>3, <2>4 DEF T
<1>9. FlattenSeq(InOuts(p, x)) = p[x].out
  <2>1. SchemaOf(p, x) = JoinedSchemas(p, x)
    BY <1>1 DEF SchemaOf, Crosses, Sources, BinOps
  <2>2. JoinedSchemas(p, x) = FlattenSeq(InOuts(p, x))
    BY DEF JoinedSchemas, InOuts
  <2>3. QED
    BY <1>1, <2>1, <2>2
<1>10. QED
  BY <1>1, <1>2, <1>3, <1>4, <1>5, <1>6, <1>8, <1>9

(* A list of two lists, flattened.                                           *)
LEMMA FlatPair ==
  ASSUME NEW S, NEW u \in Seq(S), NEW v \in Seq(S)
  PROVE  FlattenSeq(<<u, v>>) = u \o v
<1> DEFINE Q == Seq(S)
<1>1. <<u>> \in Seq(Seq(S))
  OBVIOUS
<1>2. FlattenSeq(Append(<<u>>, v)) = FlattenSeq(<<u>>) \o v
  BY <1>1, FlatAppend
<1>3. QED
  BY <1>2, TwoList, FlatSingle

(* Of the operators that make up the nest, the first is n + 1 and takes the    *)
(* first two inputs; each other one takes the one before it and an input.      *)
Left(p, x, w) == IF w = Len(p) + 1 THEN p[x].inputs[1] ELSE w - 1
Right2(p, x, w) == p[x].inputs[(w - Len(p)) + 1]
Holder(p, i) == IF i = 1 THEN Len(p) + 1 ELSE Len(p) + (i - 1)

NestOp(q, p, x, w) ==
  /\ q[w].kind = p[x].kind /\ q[w].inputs = <<Left(p, x, w), Right2(p, x, w)>>
  /\ q[w].out = q[Left(p, x, w)].out \o q[Right2(p, x, w)].out
  /\ q[w].output = IF w = Len(q) THEN 0 ELSE w + 1

NestOf(q, p, S, x, m) ==
  /\ IsPool(q, S) /\ Len(q) = Len(p) + (m - 1)
  /\ \A o \in 1..Len(p) :
       /\ Alike(q[o], p[o]) /\ q[o].inputs = p[o].inputs
       /\ (\A i \in 1..m : p[x].inputs[i] # o) => q[o].output = p[o].output
  /\ \A i \in 1..m : q[p[x].inputs[i]].output = Holder(p, i)
  /\ \A w \in (Len(p) + 1)..Len(q) : NestOp(q, p, x, w)
  /\ q[Len(q)].out = FlattenSeq(FirstOf(InOuts(p, x), m))

(* t_makeCrossBinary begins with the first two inputs of the product. *)
LEMMA NestStart ==
  ASSUME NEW S, NEW p, NEW L, NEW h, NEW r, NEW x, Product(p, S, L, h, r, x),
         Len(p[x].inputs) >= 2
  PROVE  NestOf(Pair(p, p[x].kind, p[x].inputs[1], p[x].inputs[2]), p, S, x, 2)
<1> DEFINE n == Len(p)
           k == Len(p[x].inputs)
           a == p[x].inputs[1]
           b == p[x].inputs[2]
           ss == InOuts(p, x)
           q == Pair(p, p[x].kind, a, b)
<1>1. /\ IsPool(p, S) /\ n \in Nat /\ k \in Nat /\ 1 \in 1..k /\ 2 \in 1..k
      /\ ss \in Seq(Seq(S)) /\ Len(ss) = k /\ p[x].kind \in Crosses
  BY ProductInputs DEF Product
<1>2. a \in 1..n /\ b \in 1..n /\ a # b
  BY <1>1, ProductInputs
<1>3. ss[1] = p[a].out /\ ss[2] = p[b].out
  BY <1>1, ProductInputs
<1>4. p[a].out \in Seq(S) /\ p[b].out \in Seq(S)
  BY <1>1, <1>2 DEF IsPool, IsOp
<1> HIDE DEF a, b
<1>5. FlattenSeq(FirstOf(ss, 2)) = p[a].out \o p[b].out
  <2>1. FirstOf(ss, 2) = <<ss[1], ss[2]>>
    BY DEF FirstOf
  <2>2. QED
    BY <1>3, <1>4, <2>1, FlatPair
<1>6. Len(p[a].out) + Len(p[b].out) <= MaxAttrs
  <2>1. Len(FlattenSeq(FirstOf(ss, 2))) <= Len(FlattenSeq(ss))
    <3>1. 2 \in 0..Len(ss)
      BY <1>1
    <3> HIDE DEF ss
    <3>2. QED
      BY <1>1, <3>1, FrontFlat
  <2>2. Len(FlattenSeq(ss)) = Len(p[x].out) /\ Len(p[x].out) <= MaxAttrs
    BY ProductInputs
  <2>3. /\ Len(p[a].out \o p[b].out) = Len(p[a].out) + Len(p[b].out)
        /\ Len(p[a].out) \in Nat /\ Len(p[b].out) \in Nat
    BY <1>4, Concat
  <2>4. Len(p[x].out) \in Nat /\ MaxAttrs \in Nat
    <3>1. x \in 1..n
      BY ProductInputs
    <3>2. IsOp(p[x], n, S)
      BY <1>1, <3>1 DEF IsPool
    <3>3. p[x].out \in Seq(S)
      BY <3>2 DEF IsOp
    <3>4. QED
      BY <3>3, QueryConstants
  <2>5. Len(p[a].out \o p[b].out) <= Len(p[x].out)
    BY <1>5, <2>1, <2>2
  <2> DEFINE la == Len(p[a].out)
             lb == Len(p[b].out)
             lx == Len(p[x].out)
  <2>6. la + lb <= lx /\ lx <= MaxAttrs /\ la \in Nat /\ lb \in Nat /\ lx \in Nat
    BY <2>2, <2>3, <2>4, <2>5
  <2> HIDE DEF la, lb, lx
  <2>7. la + lb <= MaxAttrs
    BY <2>4, <2>6
  <2>8. QED
    BY <2>7 DEF la, lb
<1>7. Paired(q, p, S, p[x].kind, a, b)
  <2>1. PairFits(p, S, p[x].kind, a, b)
    BY <1>1, <1>2, <1>6 DEF PairFits
  <2>2. QED
    BY <1>2, <2>1, PairUp
<1> HIDE DEF q, ss
<1>8. /\ IsPool(q, S) /\ Len(q) = n + 1 /\ q[n + 1].kind = p[x].kind
      /\ q[n + 1].inputs = <<a, b>> /\ q[n + 1].output = 0 /\ q[n + 1].out = p[a].out \o p[b].out
  BY <1>7 DEF Paired
<1>9. \A o \in 1..n : /\ Alike(q[o], p[o]) /\ q[o].inputs = p[o].inputs
                      /\ q[o].output = IF o = a \/ o = b THEN n + 1 ELSE p[o].output
  BY <1>7, <1>8 DEF Paired
<1>10. Holder(p, 1) = n + 1 /\ Holder(p, 2) = n + 1
  BY <1>1 DEF Holder
<1>11. \A i \in 1..2 : q[p[x].inputs[i]].output = Holder(p, i)
  <2>1. q[a].output = n + 1 /\ q[b].output = n + 1
    BY <1>2, <1>9
  <2>2. \A i \in 1..2 : i = 1 \/ i = 2
    OBVIOUS
  <2>3. QED
    BY <1>10, <2>1, <2>2 DEF a, b
<1>12. ASSUME NEW o \in 1..n, \A i \in 1..2 : p[x].inputs[i] # o PROVE q[o].output = p[o].output
  <2>1. o # a /\ o # b
    BY <1>12 DEF a, b
  <2>2. QED
    BY <1>9, <2>1
<1>13. ASSUME NEW w \in (n + 1)..Len(q) PROVE NestOp(q, p, x, w)
  <2>1. w = n + 1 /\ w = Len(q)
    BY <1>1, <1>8
  <2>2. Left(p, x, w) = a /\ Right2(p, x, w) = b
    <3>1. (w - n) + 1 = 2
      BY <1>1, <2>1
    <3>2. QED
      BY <2>1, <3>1 DEF Left, Right2, a, b
  <2>3. q[a].out = p[a].out /\ q[b].out = p[b].out
    BY <1>2, <1>9 DEF Alike
  <2>4. /\ q[w].kind = p[x].kind /\ q[w].inputs = <<a, b>> /\ q[w].output = 0
        /\ q[w].out = q[a].out \o q[b].out
    BY <1>8, <2>1, <2>3
  <2>5. QED
    BY <2>1, <2>2, <2>4 DEF NestOp
<1>14. q[Len(q)].out = FlattenSeq(FirstOf(ss, 2))
  BY <1>5, <1>8
<1>15. Len(q) = n + (2 - 1)
  BY <1>1, <1>8
<1>16. NestOf(q, p, S, x, 2)
  BY <1>8, <1>9, <1>11, <1>12, <1>13, <1>14, <1>15 DEF NestOf, ss
<1>17. QED
  BY <1>16 DEF q, a, b

(* What an operator of the nest takes is older.                              *)
LEMMA NestPlaces ==
  ASSUME NEW S, NEW p, NEW L, NEW h, NEW r, NEW x, Product(p, S, L, h, r, x), NEW m \in Nat,
         m <= Len(p[x].inputs), NEW w \in (Len(p) + 1)..(Len(p) + (m - 1))
  PROVE  /\ (w - Len(p)) + 1 \in 2..m
         /\ Left(p, x, w) \in 1..(Len(p) + (m - 1)) /\ Left(p, x, w) < w
         /\ Right2(p, x, w) \in 1..Len(p)
         /\ w # Len(p) + 1 => Left(p, x, w) = w - 1 /\ w - 1 \in (Len(p) + 1)..(Len(p) + (m - 1))
         /\ w = Len(p) + 1 => Left(p, x, w) = p[x].inputs[1] /\ p[x].inputs[1] \in 1..Len(p)
<1> DEFINE n == Len(p)
           k == Len(p[x].inputs)
           j == (w - n) + 1
<1>1. n \in Nat /\ k \in Nat /\ \A i \in 1..k : p[x].inputs[i] \in 1..n
  BY ProductInputs
<1>2. /\ w \in (n + 1)..(n + (m - 1)) /\ m <= k
  OBVIOUS
<1> HIDE DEF n, k
<1>3. j \in 2..m /\ 2 <= m /\ j \in 1..k /\ 1 \in 1..k
  BY <1>1, <1>2
<1>4. Right2(p, x, w) \in 1..n
  BY <1>1, <1>3 DEF Right2, n
<1>5. p[x].inputs[1] \in 1..n
  BY <1>1, <1>3
<1>6. CASE w = n + 1
  <2>1. Left(p, x, w) = p[x].inputs[1]
    BY <1>6 DEF Left, n
  <2>2. \A y \in 1..n : y \in 1..(n + (m - 1)) /\ y < w
    BY <1>1, <1>3, <1>6
  <2>3. QED
    BY <1>3, <1>4, <1>5, <1>6, <2>1, <2>2 DEF n, k
<1>7. CASE w # n + 1
  <2>1. Left(p, x, w) = w - 1
    BY <1>7 DEF Left, n
  <2>2. w - 1 \in (n + 1)..(n + (m - 1)) /\ w - 1 \in 1..(n + (m - 1)) /\ w - 1 < w
    BY <1>1, <1>2, <1>7
  <2>3. QED
    BY <1>3, <1>4, <1>7, <2>1, <2>2 DEF n, k
<1>8. QED
  BY <1>6, <1>7

(* Each turn puts what there is and the next input under one binary operator. *)
LEMMA NestTurn ==
  ASSUME NEW S, NEW p, NEW L, NEW h, NEW r, NEW x, Product(p, S, L, h, r, x), NEW m \in Nat,
         m >= 2, m < Len(p[x].inputs), NEW q, NestOf(q, p, S, x, m)
  PROVE  NestOf(Pair(q, p[x].kind, Len(q), p[x].inputs[m + 1]), p, S, x, m + 1)
<1> DEFINE n == Len(p)
           k == Len(p[x].inputs)
           N == Len(q)
           b == p[x].inputs[m + 1]
           ss == InOuts(p, x)
           t == Pair(q, p[x].kind, N, b)
<1>1. /\ n \in Nat /\ k \in Nat /\ m + 1 \in 1..k /\ m \in 0..k /\ m < k /\ \A i \in 1..m : i \in 1..k
      /\ p[x].kind \in Crosses
  <2>1. n \in Nat /\ k \in Nat
    BY ProductInputs
  <2>2. QED
    BY <2>1 DEF Product
<1>2. b \in 1..n /\ ss[m + 1] = p[b].out
  BY <1>1, ProductInputs, SMTT(40)
<1>3. ss \in Seq(Seq(S)) /\ Len(ss) = k /\ Len(FlattenSeq(ss)) = Len(p[x].out) /\ Len(p[x].out) <= MaxAttrs
  BY ProductInputs
<1>4. /\ \A i \in 1..m : p[x].inputs[i] \in 1..n /\ p[x].inputs[i] # b
  <2>1. \A i, j \in 1..k : p[x].inputs[i] = p[x].inputs[j] => i = j
    BY ProductInputs
  <2>2. \A i \in 1..k : p[x].inputs[i] \in 1..n
    BY ProductInputs
  <2>3. ASSUME NEW i \in 1..m PROVE p[x].inputs[i] # b
    <3>1. i \in 1..k /\ i # m + 1
      BY <1>1
    <3>2. QED
      BY <1>1, <2>1, <3>1
  <2>4. QED
    BY <1>1, <2>2, <2>3
<1> HIDE DEF b
<1>5. /\ IsPool(q, S) /\ N = n + (m - 1)
      /\ \A o \in 1..n :
           /\ Alike(q[o], p[o]) /\ q[o].inputs = p[o].inputs
           /\ (\A i \in 1..m : p[x].inputs[i] # o) => q[o].output = p[o].output
      /\ \A i \in 1..m : q[p[x].inputs[i]].output = Holder(p, i)
      /\ \A w \in (n + 1)..N : NestOp(q, p, x, w)
      /\ q[N].out = FlattenSeq(FirstOf(ss, m))
  BY DEF NestOf
<1>6. N \in Nat /\ N > n /\ N \in 1..N /\ N + 1 = n + ((m + 1) - 1) /\ \A o \in 1..n : o \in 1..N /\ o # N
  <2> HIDE DEF n, N, k
  <2>1. N = n + (m - 1) /\ n \in Nat /\ m \in Nat /\ m >= 2
    BY <1>1, <1>5
  <2>2. QED
    BY <2>1
<1>7. q[b].out = ss[m + 1]
  BY <1>2, <1>5 DEF Alike
<1>8. FlattenSeq(FirstOf(ss, m + 1)) = q[N].out \o q[b].out
  <2>1. ss \in Seq(Seq(S)) /\ m \in 0..Len(ss) /\ m < Len(ss)
    BY <1>1, <1>3
  <2> HIDE DEF ss
  <2>2. FlattenSeq(FirstOf(ss, m + 1)) = FlattenSeq(FirstOf(ss, m)) \o ss[m + 1]
    BY <2>1, FrontFlat
  <2>3. QED
    BY <1>5, <1>7, <2>2
<1>9. q[N].out \in Seq(S) /\ q[b].out \in Seq(S)
  <2>1. N \in 1..N /\ b \in 1..N
    BY <1>2, <1>6
  <2>2. QED
    BY <1>5, <2>1 DEF IsPool, IsOp
<1>10. Len(q[N].out) + Len(q[b].out) <= MaxAttrs
  <2> DEFINE la == Len(q[N].out)
             lb == Len(q[b].out)
             lx == Len(p[x].out)
  <2>1. m + 1 \in 0..Len(ss)
    BY <1>1, <1>3
  <2>2. Len(FlattenSeq(FirstOf(ss, m + 1))) <= Len(FlattenSeq(ss))
    <3> HIDE DEF ss
    <3>1. QED
      BY <1>3, <2>1, FrontFlat
  <2>3. Len(q[N].out \o q[b].out) = la + lb /\ la \in Nat /\ lb \in Nat
    BY <1>9, Concat
  <2>4. lx \in Nat /\ MaxAttrs \in Nat
    <3>1. x \in 1..n /\ IsPool(p, S)
      BY ProductInputs
    <3>2. p[x].out \in Seq(S)
      BY <3>1 DEF IsPool, IsOp
    <3>3. QED
      BY <3>2, QueryConstants
  <2>5. la + lb <= lx /\ lx <= MaxAttrs
    BY <1>3, <1>8, <2>2, <2>3
  <2> HIDE DEF la, lb, lx
  <2>6. la + lb <= MaxAttrs
    BY <2>3, <2>4, <2>5
  <2>7. QED
    BY <2>6 DEF la, lb
<1>11. Paired(t, q, S, p[x].kind, N, b)
  <2>1. PairFits(q, S, p[x].kind, N, b)
    BY <1>1, <1>2, <1>5, <1>6, <1>10 DEF PairFits
  <2>2. N # b
    BY <1>2, <1>6
  <2> HIDE DEF N
  <2>3. QED
    BY <2>1, <2>2, PairUp
<1> HIDE DEF t, ss
<1>12. /\ IsPool(t, S) /\ Len(t) = N + 1 /\ t[N + 1].kind = p[x].kind
       /\ t[N + 1].inputs = <<N, b>> /\ t[N + 1].output = 0 /\ t[N + 1].out = q[N].out \o q[b].out
  BY <1>11 DEF Paired
<1>13. \A o \in 1..N : /\ Alike(t[o], q[o]) /\ t[o].inputs = q[o].inputs
                       /\ t[o].output = IF o = N \/ o = b THEN N + 1 ELSE q[o].output
  BY <1>11, <1>12 DEF Paired
<1> HIDE DEF n, N, k
<1>14. ASSUME NEW o \in 1..n
       PROVE  /\ Alike(t[o], p[o]) /\ t[o].inputs = p[o].inputs
              /\ (\A i \in 1..(m + 1) : p[x].inputs[i] # o) => t[o].output = p[o].output
  <2>1. o \in 1..N /\ o # N
    BY <1>6
  <2>2. Alike(t[o], p[o]) /\ t[o].inputs = p[o].inputs
    BY <1>5, <1>13, <2>1 DEF Alike
  <2>3. ASSUME \A i \in 1..(m + 1) : p[x].inputs[i] # o PROVE t[o].output = p[o].output
    <3>1. m + 1 \in 1..(m + 1) /\ \A i \in 1..m : i \in 1..(m + 1)
      OBVIOUS
    <3>2. o # b /\ \A i \in 1..m : p[x].inputs[i] # o
      BY <2>3, <3>1 DEF b
    <3>3. QED
      BY <1>5, <1>13, <2>1, <3>2
  <2>4. QED
    BY <2>2, <2>3
<1>15. ASSUME NEW i \in 1..(m + 1) PROVE t[p[x].inputs[i]].output = Holder(p, i)
  <2>1. CASE i = m + 1
    <3>1. Holder(p, m + 1) = N + 1
      BY <1>6 DEF Holder, n
    <3>2. t[b].output = N + 1
      BY <1>2, <1>6, <1>13
    <3>3. QED
      BY <2>1, <3>1, <3>2 DEF b
  <2>2. CASE i # m + 1
    <3>1. i \in 1..m
      BY <2>2
    <3>2. p[x].inputs[i] \in 1..N /\ p[x].inputs[i] # N /\ p[x].inputs[i] # b
      BY <1>4, <1>6, <3>1
    <3>3. t[p[x].inputs[i]].output = q[p[x].inputs[i]].output
      BY <1>13, <3>2
    <3>4. QED
      BY <1>5, <3>1, <3>3
  <2>3. QED
    BY <2>1, <2>2
<1>16. ASSUME NEW w \in (n + 1)..(N + 1) PROVE NestOp(t, p, x, w)
  <2>1. CASE w = N + 1
    <3>1. Left(p, x, w) = N
      BY <1>1, <1>6, <2>1 DEF Left, n
    <3>2. Right2(p, x, w) = b
      <4>1. (w - n) + 1 = m + 1
        BY <1>1, <1>6, <2>1
      <4>2. QED
        BY <4>1 DEF Right2, b, n
    <3>3. t[N].out = q[N].out /\ t[b].out = q[b].out
      BY <1>2, <1>6, <1>13 DEF Alike
    <3>4. /\ t[w].kind = p[x].kind /\ t[w].inputs = <<N, b>> /\ t[w].output = 0
          /\ t[w].out = t[N].out \o t[b].out /\ w = Len(t)
      BY <1>12, <2>1, <3>3
    <3>5. QED
      BY <3>1, <3>2, <3>4 DEF NestOp
  <2>2. CASE w # N + 1
    <3>1. w \in (n + 1)..N /\ w \in 1..N /\ w \notin 1..n /\ w \in (n + 1)..(n + (m - 1))
      BY <1>1, <1>5, <1>6, <2>2
    <3>2. NestOp(q, p, x, w)
      BY <1>5, <3>1
    <3>3. Left(p, x, w) \in 1..(n + (m - 1)) /\ Right2(p, x, w) \in 1..n
      <4>1. w \in (Len(p) + 1)..(Len(p) + (m - 1)) /\ m <= Len(p[x].inputs)
        BY <1>1, <3>1 DEF n, k
      <4>2. QED
        BY <4>1, NestPlaces DEF n
    <3>4. Left(p, x, w) \in 1..N /\ Right2(p, x, w) \in 1..N
      BY <1>5, <1>6, <3>3
    <3> DEFINE le == Left(p, x, w)
               ri == Right2(p, x, w)
    <3>5. t[le].out = q[le].out /\ t[ri].out = q[ri].out
      BY <1>13, <3>4 DEF Alike
    <3>6. t[w].kind = q[w].kind /\ t[w].inputs = q[w].inputs /\ t[w].out = q[w].out
      BY <1>13, <3>1 DEF Alike
    <3>7. t[w].output = w + 1
      <4>1. w # b
        BY <1>2, <3>1
      <4>2. CASE w = N
        BY <1>13, <3>1, <4>2
      <4>3. CASE w # N
        <5>1. q[w].output = w + 1
          BY <3>2, <4>3 DEF NestOp, N
        <5>2. QED
          BY <1>13, <3>1, <4>1, <4>3, <5>1
      <4>4. QED
        BY <4>2, <4>3
    <3>8. w # Len(t)
      BY <1>12, <2>2
    <3>9. QED
      BY <3>2, <3>5, <3>6, <3>7, <3>8 DEF NestOp
  <2>3. QED
    BY <2>1, <2>2
<1>17. t[Len(t)].out = FlattenSeq(FirstOf(ss, m + 1))
  BY <1>8, <1>12
<1>18. Len(t) = n + ((m + 1) - 1)
  BY <1>6, <1>12
<1>19. NestOf(t, p, S, x, m + 1)
  BY <1>12, <1>14, <1>15, <1>16, <1>17, <1>18 DEF NestOf, n, ss
<1>20. QED
  BY <1>19 DEF t, N, b

(* What t_makeCrossBinary builds is the nest of all inputs: its loop exists,   *)
(* and each of its turns adds one input.                                     *)
LEMMA NestedIs ==
  ASSUME NEW S, NEW L, NEW h, NEW r, NEW x, Product(pool, S, L, h, r, x),
         Len(pool[x].inputs) >= 2
  PROVE  NestOf(Nested(x), pool, S, x, Len(pool[x].inputs))
<1> DEFINE k == Len(pool[x].inputs)
           start == Pair(pool, pool[x].kind, pool[x].inputs[1], pool[x].inputs[2])
           Turn(q, m) == Pair(q, pool[x].kind, Len(q), pool[x].inputs[m])
           Step(g, m) == IF m = 2 THEN start ELSE Turn(g[m - 1], m)
           U(g) == [m \in 2..k |-> Step(g, m)]
           T == {j \in Nat : \E g : /\ g = [m \in 2..k |-> g[m]]
                                    /\ \A m \in 2..k : m <= j + 2 => g[m] = Step(g, m)}
           nest == CHOOSE g : g = U(g)
<1>1. k \in Nat /\ k >= 2 /\ \A m \in 2..k : m \in Nat /\ (m # 2 => m - 1 \in 2..k)
  <2>1. k \in Nat
    BY ProductInputs
  <2>2. QED
    BY <2>1
<1>2. NestOf(start, pool, S, x, 2)
  BY NestStart
<1>3. ASSUME NEW m \in Nat, m >= 2, m < k, NEW q, NestOf(q, pool, S, x, m)
      PROVE  NestOf(Turn(q, m + 1), pool, S, x, m + 1)
  BY <1>3, NestTurn
<1> HIDE DEF start, Turn, k
<1>4. 0 \in T
  <2> DEFINE g == [m \in 2..k |-> start]
  <2>1. g = [m \in 2..k |-> g[m]]
    OBVIOUS
  <2>2. ASSUME NEW m \in 2..k, m <= 0 + 2 PROVE g[m] = Step(g, m)
    <3>1. m = 2
      BY <1>1, <2>2
    <3>2. QED
      BY <3>1
  <2> HIDE DEF g
  <2>3. QED
    BY <2>1, <2>2
<1>5. ASSUME NEW j \in Nat, j \in T PROVE j + 1 \in T
  <2>1. PICK f : /\ f = [m \in 2..k |-> f[m]]
                 /\ \A m \in 2..k : m <= j + 2 => f[m] = Step(f, m)
    BY <1>5
  <2> DEFINE g == [m \in 2..k |-> Step(f, m)]
  <2>2. g = [m \in 2..k |-> g[m]]
    OBVIOUS
  <2>3. \A m \in 2..k : g[m] = Step(f, m)
    OBVIOUS
  <2> HIDE DEF g
  <2>4. ASSUME NEW m \in 2..k, m <= (j + 1) + 2 PROVE g[m] = Step(g, m)
    <3>1. CASE m = 2
      BY <2>3, <3>1
    <3>2. CASE m # 2
      <4>1. m - 1 \in 2..k /\ m - 1 <= j + 2
        BY <1>1, <2>4, <3>2
      <4>2. g[m - 1] = f[m - 1]
        BY <2>1, <2>3, <4>1
      <4>3. QED
        BY <2>3, <3>2, <4>2
    <3>3. QED
      BY <3>1, <3>2
  <2>5. j + 1 \in Nat
    OBVIOUS
  <2>6. QED
    BY <2>2, <2>4, <2>5
<1>6. k \in T
  <2> HIDE DEF T
  <2>1. QED
    BY <1>1, <1>4, <1>5, InductiveSet
<1>7. \E g : g = U(g)
  <2>1. PICK g : /\ g = [m \in 2..k |-> g[m]]
                 /\ \A m \in 2..k : m <= k + 2 => g[m] = Step(g, m)
    BY <1>6
  <2>2. \A m \in 2..k : g[m] = Step(g, m)
    <3>1. \A m \in 2..k : m <= k + 2
      BY <1>1
    <3> HIDE DEF Step
    <3>2. QED
      BY <2>1, <3>1
  <2>3. g = U(g)
    BY <2>1, <2>2
  <2>4. QED
    BY <2>3
<1>8. nest = U(nest)
  BY <1>7
<1> HIDE DEF nest, T
<1>9. \A m \in 2..k : nest[m] = Step(nest, m)
  BY <1>8
<1> DEFINE R == {j \in Nat : j + 2 <= k => NestOf(nest[j + 2], pool, S, x, j + 2)}
<1>10. 0 \in R
  <2>1. nest[2] = start
    BY <1>1, <1>9
  <2>2. QED
    BY <1>2, <2>1
<1>11. ASSUME NEW j \in Nat, j \in R PROVE j + 1 \in R
  <2>1. SUFFICES ASSUME (j + 1) + 2 <= k PROVE NestOf(nest[(j + 1) + 2], pool, S, x, (j + 1) + 2)
    OBVIOUS
  <2> DEFINE m == j + 2
  <2>2. m \in Nat /\ m >= 2 /\ m < k /\ (j + 1) + 2 = m + 1 /\ m + 1 \in 2..k /\ (m + 1) - 1 = m
        /\ m + 1 # 2
    BY <1>1, <2>1
  <2>3. NestOf(nest[m], pool, S, x, m)
    <3>1. j + 2 <= k => NestOf(nest[j + 2], pool, S, x, j + 2)
      BY <1>11
    <3>2. j + 2 <= k
      BY <1>1, <2>1
    <3>3. QED
      BY <3>1, <3>2
  <2> HIDE DEF m
  <2>4. nest[m + 1] = Turn(nest[m], m + 1)
    BY <1>9, <2>2
  <2>5. NestOf(Turn(nest[m], m + 1), pool, S, x, m + 1)
    BY <1>3, <2>2, <2>3
  <2>6. QED
    BY <2>2, <2>4, <2>5
<1> HIDE DEF R
<1>12. Nat \subseteq R
  BY <1>10, <1>11, InductiveSet
<1>13. NestOf(nest[k], pool, S, x, k)
  <2>1. k - 2 \in Nat /\ (k - 2) + 2 = k
    BY <1>1
  <2>2. k - 2 \in R
    BY <1>12, <2>1
  <2>3. QED
    BY <1>1, <2>1, <2>2 DEF R
<1>14. Nested(x) = nest[k]
  BY DEF Nested, nest, k, start, Turn
<1>15. QED
  BY <1>13, <1>14 DEF k

(* With nothing left out but the product itself, the grafts are its inputs.    *)
LEMMA OwnGrafts ==
  ASSUME NEW S, NEW p, NEW L, NEW h, NEW r, NEW x, Product(p, S, L, h, r, x)
  PROVE  /\ \A c \in Grafts(p, L, x, {}) : c \in 1..Len(p) /\ \E i \in 1..Len(p[x].inputs) : c = p[x].inputs[i]
         /\ \A i \in 1..Len(p[x].inputs) : p[x].inputs[i] \in Grafts(p, L, x, {})
<1>1. ASSUME NEW c \in Grafts(p, L, x, {})
      PROVE  c \in 1..Len(p) /\ \E i \in 1..Len(p[x].inputs) : c = p[x].inputs[i]
  <2>1. c \in L /\ p[c].output = x
    BY DEF Grafts
  <2>2. IsTree(p, L, h, r) /\ x \in 1..Len(p) /\ L \subseteq 1..Len(p)
    BY ProductInputs DEF Product, Planted
  <2>3. c # r
    BY <2>1, <2>2 DEF IsTree
  <2>4. \E i \in DOMAIN p[x].inputs : p[x].inputs[i] = c
    BY <2>1, <2>2, <2>3, ParentOf
  <2>5. DOMAIN p[x].inputs = 1..Len(p[x].inputs)
    BY ProductInputs
  <2>6. QED
    BY <2>1, <2>2, <2>4, <2>5
<1>2. ASSUME NEW i \in 1..Len(p[x].inputs) PROVE p[x].inputs[i] \in Grafts(p, L, x, {})
  BY ProductInputs DEF Grafts
<1>3. QED
  BY <1>1, <1>2

(* A list of two.                                                            *)
LEMMA PairList ==
  ASSUME NEW a, NEW b
  PROVE  /\ DOMAIN <<a, b>> = {1, 2} /\ <<a, b>>[1] = a /\ <<a, b>>[2] = b
         /\ a \in ToSet(<<a, b>>) /\ b \in ToSet(<<a, b>>)
         /\ a # b => IsInjective(<<a, b>>)
BY DEF ToSet, IsInjective

NestGrafted(q, p, L, x) ==
  /\ IsGraft(q, p, Len(p), L, x, {}) /\ q[Len(q)].out = p[x].out
  /\ \A w \in News(q, Len(p)) : q[w].kind = p[x].kind

(* The nest may take the place of the product.                               *)
LEMMA NestGraft ==
  ASSUME NEW S, NEW p, NEW L, NEW h, NEW r, NEW x, Product(p, S, L, h, r, x),
         Len(p[x].inputs) >= 2, NEW q, NestOf(q, p, S, x, Len(p[x].inputs))
  PROVE  NestGrafted(q, p, L, x)
<1> DEFINE n == Len(p)
           k == Len(p[x].inputs)
           ins == p[x].inputs
           N == Len(q)
           G == Grafts(p, L, x, {})
           ss == InOuts(p, x)
<1>1. /\ n \in Nat /\ k \in Nat /\ k >= 2 /\ p[x].kind \in Crosses
      /\ \A i \in 1..k : ins[i] \in 1..n /\ ins[i] \in G
      /\ \A c \in G : c \in 1..n /\ \E i \in 1..k : c = ins[i]
      /\ \A i, j \in 1..k : ins[i] = ins[j] => i = j
  <2>1. n \in Nat /\ k \in Nat /\ \A i \in 1..k : ins[i] \in 1..n
    BY ProductInputs
  <2>2. \A i, j \in 1..k : ins[i] = ins[j] => i = j
    BY ProductInputs
  <2>3. \A i \in 1..k : ins[i] \in G
    BY OwnGrafts
  <2>4. \A c \in G : c \in 1..n /\ \E i \in 1..k : c = ins[i]
    BY OwnGrafts
  <2>5. QED
    BY <2>1, <2>2, <2>3, <2>4 DEF Product
<1>2. /\ IsPool(q, S) /\ N = n + (k - 1)
      /\ \A o \in 1..n :
           /\ Alike(q[o], p[o]) /\ q[o].inputs = p[o].inputs
           /\ (\A i \in 1..k : ins[i] # o) => q[o].output = p[o].output
      /\ \A i \in 1..k : q[ins[i]].output = Holder(p, i)
      /\ \A w \in (n + 1)..N : NestOp(q, p, x, w)
      /\ q[N].out = FlattenSeq(FirstOf(ss, k))
  BY DEF NestOf
<1>3. q[N].out = p[x].out
  <2>1. ss \in Seq(Seq(S)) /\ Len(ss) = k /\ FlattenSeq(ss) = p[x].out
    BY ProductInputs
  <2>2. k \in 0..Len(ss) /\ k = Len(ss)
    BY <1>1, <2>1
  <2> HIDE DEF ss, k
  <2>3. FlattenSeq(FirstOf(ss, k)) = FlattenSeq(ss)
    BY <2>1, <2>2, FrontFlat
  <2>4. QED
    BY <1>2, <2>1, <2>3
<1>4. ASSUME NEW w \in (n + 1)..N
      PROVE  /\ w \in 1..N /\ w \notin 1..n /\ (w - n) + 1 \in 2..k /\ (w - n) + 1 \in 1..k
             /\ Left(p, x, w) \in 1..N /\ Right2(p, x, w) \in 1..n /\ Right2(p, x, w) \in 1..N
             /\ w # n + 1 => Left(p, x, w) = w - 1 /\ w - 1 \in (n + 1)..N /\ w - 1 # N /\ w - 1 < w
             /\ w = n + 1 => Left(p, x, w) = ins[1] /\ Right2(p, x, w) = ins[2]
  <2>1. w \in (Len(p) + 1)..(Len(p) + (k - 1)) /\ k \in Nat /\ k <= Len(p[x].inputs)
    BY <1>1, <1>2
  <2>2. /\ (w - n) + 1 \in 2..k
        /\ Left(p, x, w) \in 1..(n + (k - 1))
        /\ Right2(p, x, w) \in 1..n
        /\ w # n + 1 => Left(p, x, w) = w - 1 /\ w - 1 \in (n + 1)..(n + (k - 1))
        /\ w = n + 1 => Left(p, x, w) = ins[1]
    <3> HIDE DEF k, n, ins
    <3>1. w \in (Len(p) + 1)..(Len(p) + (k - 1)) /\ k \in Nat /\ k <= Len(p[x].inputs)
      BY <2>1 DEF n
    <3>2. (w - Len(p)) + 1 \in 2..k /\ Right2(p, x, w) \in 1..Len(p)
      BY <3>1, NestPlaces
    <3>3. Left(p, x, w) \in 1..(Len(p) + (k - 1))
      BY <3>1, NestPlaces
    <3>4. w # Len(p) + 1 => Left(p, x, w) = w - 1 /\ w - 1 \in (Len(p) + 1)..(Len(p) + (k - 1))
      BY <3>1, NestPlaces
    <3>5. w = Len(p) + 1 => Left(p, x, w) = p[x].inputs[1]
      BY <3>1, NestPlaces
    <3>6. QED
      BY <3>2, <3>3, <3>4, <3>5 DEF n, ins
  <2>3. w = n + 1 => Right2(p, x, w) = ins[2]
    <3>1. w = n + 1 => (w - n) + 1 = 2
      BY <1>1
    <3>2. QED
      BY <3>1 DEF Right2
  <2> DEFINE ri == Right2(p, x, w)
  <2>4. ri \in 1..n
    BY <2>2
  <2> HIDE DEF n, k, N, ins, ri
  <2>5. w \in 1..N /\ w \notin 1..n /\ (w - n) + 1 \in 1..k /\ w - 1 # N /\ w - 1 < w /\ ri \in 1..N
    BY <1>1, <1>2, <2>2, <2>4
  <2>6. QED
    BY <1>2, <2>2, <2>3, <2>4, <2>5 DEF ri
<1>5. N \in Nat /\ N > n /\ N \in (n + 1)..N /\ \A o \in 1..n : o \in 1..N /\ o \notin (n + 1)..N
  <2> HIDE DEF n, k, N, ins
  <2>1. QED
    BY <1>1, <1>2
<1> HIDE DEF n, k, N, ins, ss, G
<1>6. News(q, n) = (n + 1)..N
  BY DEF News, N
<1>7. ASSUME NEW w \in (n + 1)..N
      PROVE  /\ q[w].kind = p[x].kind /\ q[w].inputs = <<Left(p, x, w), Right2(p, x, w)>>
             /\ q[w].out = q[Left(p, x, w)].out \o q[Right2(p, x, w)].out
             /\ q[w].output = IF w = N THEN 0 ELSE w + 1
  BY <1>2 DEF NestOp, N
<1>8. ASSUME NEW o \in 1..n
      PROVE  /\ Alike(q[o], p[o]) /\ q[o].inputs = p[o].inputs
             /\ o \notin G => q[o].output = p[o].output
  <2>1. o \notin G => \A i \in 1..k : ins[i] # o
    BY <1>1
  <2>2. QED
    BY <1>2, <2>1
<1>9. ASSUME NEW w \in (n + 1)..N
      PROVE  /\ IsInjective(q[w].inputs) /\ q[w].out = SchemaOf(q, w)
             /\ \A i \in DOMAIN q[w].inputs : GraftEdge(q, p, n, L, x, {}, w, q[w].inputs[i])
  <2> DEFINE le == Left(p, x, w)
             ri == Right2(p, x, w)
  <2>1. le # ri
    <3>1. CASE w = n + 1
      <4>1. 1 \in 1..k /\ 2 \in 1..k
        BY <1>1
      <4>2. QED
        BY <1>1, <1>4, <3>1, <4>1
    <3>2. CASE w # n + 1
      BY <1>4, <1>5, <3>2
    <3>3. QED
      BY <3>1, <3>2
  <2>2. q[w].inputs = <<le, ri>> /\ q[w].out = q[le].out \o q[ri].out /\ q[w].kind \in Crosses
    BY <1>1, <1>7
  <2>3. q[le].out \in Seq(S) /\ q[ri].out \in Seq(S)
    <3>1. le \in 1..Len(q) /\ ri \in 1..Len(q)
      BY <1>4 DEF N
    <3> HIDE DEF le, ri
    <3>2. QED
      BY <1>2, <3>1 DEF IsPool, IsOp
  <2>4. GraftEdge(q, p, n, L, x, {}, w, le)
    <3>1. CASE w = n + 1
      <4>1. le = ins[1] /\ 1 \in 1..k
        BY <1>1, <1>4, <3>1
      <4>2. q[le].output = w
        BY <1>2, <3>1, <4>1 DEF Holder, n
      <4>3. le \in G
        BY <1>1, <4>1
      <4>4. QED
        BY <4>2, <4>3 DEF GraftEdge, G
    <3>2. CASE w # n + 1
      <4>1. le = w - 1 /\ w - 1 \in (n + 1)..N /\ w - 1 # N /\ w - 1 < w /\ (w - 1) + 1 = w
        BY <1>1, <1>4, <3>2
      <4>2. q[w - 1].output = w
        BY <1>7, <4>1
      <4>3. QED
        BY <1>6, <4>1, <4>2 DEF GraftEdge
    <3>3. QED
      BY <3>1, <3>2
  <2>5. GraftEdge(q, p, n, L, x, {}, w, ri)
    <3> DEFINE j == (w - n) + 1
    <3>1. j \in 1..k /\ j # 1 /\ ri = ins[j] /\ n + (j - 1) = w
      <4>1. ri = ins[j]
        BY DEF Right2, ins, n
      <4>2. j \in 2..k
        BY <1>4
      <4>3. QED
        BY <1>1, <4>1, <4>2
    <3> HIDE DEF j
    <3>2. q[ri].output = w /\ ri \in G
      BY <1>1, <1>2, <3>1 DEF Holder, n
    <3>3. QED
      BY <3>2 DEF GraftEdge, G
  <2>6. q[w].out = SchemaOf(q, w)
    <3> HIDE DEF le, ri
    <3>1. SchemaOf(q, w) = JoinedSchemas(q, w)
      BY <2>2 DEF SchemaOf, Crosses, Sources, BinOps
    <3>2. DOMAIN q[w].inputs = 1..2 /\ q[w].inputs[1] = le /\ q[w].inputs[2] = ri
      BY <2>2, PairList
    <3>3. [i \in DOMAIN q[w].inputs |-> q[q[w].inputs[i]].out] = <<q[le].out, q[ri].out>>
      <4>1. [i \in 1..2 |-> q[q[w].inputs[i]].out] = <<q[q[w].inputs[1]].out, q[q[w].inputs[2]].out>>
        OBVIOUS
      <4>2. QED
        BY <3>2, <4>1
    <3>4. JoinedSchemas(q, w) = q[le].out \o q[ri].out
      BY <2>3, <3>3, FlatPair DEF JoinedSchemas
    <3>5. QED
      BY <2>2, <3>1, <3>4
  <2> HIDE DEF le, ri
  <2>7. IsInjective(q[w].inputs) /\ DOMAIN q[w].inputs = {1, 2}
        /\ q[w].inputs[1] = le /\ q[w].inputs[2] = ri
    BY <2>1, <2>2, PairList
  <2>8. \A i \in DOMAIN q[w].inputs : GraftEdge(q, p, n, L, x, {}, w, q[w].inputs[i])
    BY <2>4, <2>5, <2>7
  <2>9. QED
    BY <2>6, <2>7, <2>8
<1>10. ASSUME NEW c \in G \cup ((n + 1)..N \ {N})
       PROVE  q[c].output \in (n + 1)..N /\ c \in ToSet(q[q[c].output].inputs)
  <2>1. CASE c \in G
    <3>1. PICK i \in 1..k : c = ins[i]
      BY <1>1, <2>1
    <3> DEFINE w == Holder(p, i)
    <3>2. w \in (n + 1)..N /\ (c = Left(p, x, w) \/ c = Right2(p, x, w))
      <4>1. CASE i = 1
        <5>1. w = n + 1
          BY <4>1 DEF Holder, n
        <5>2. w \in (n + 1)..N
          BY <1>1, <1>5, <5>1
        <5> HIDE DEF w
        <5>3. QED
          BY <1>4, <3>1, <4>1, <5>1, <5>2
      <4>2. CASE i # 1
        <5>1. w = n + (i - 1)
          BY <4>2 DEF Holder, n
        <5>2. w \in (n + 1)..N /\ (w - n) + 1 = i
          BY <1>1, <1>2, <4>2, <5>1
        <5> HIDE DEF w
        <5>3. Right2(p, x, w) = ins[i]
          BY <5>2 DEF Right2, ins, n
        <5>4. QED
          BY <3>1, <5>2, <5>3
      <4>3. QED
        BY <4>1, <4>2
    <3>3. q[c].output = w
      BY <1>2, <3>1
    <3> HIDE DEF w
    <3>4. c \in ToSet(q[w].inputs)
      <4> DEFINE le == Left(p, x, w)
                 ri == Right2(p, x, w)
      <4>1. q[w].inputs = <<le, ri>> /\ (c = le \/ c = ri)
        BY <1>7, <3>2
      <4> HIDE DEF le, ri
      <4>2. QED
        BY <4>1, PairList
    <3>5. QED
      BY <3>2, <3>3, <3>4
  <2>2. CASE c \in (n + 1)..N \ {N}
    <3> DEFINE w == c + 1
    <3>1. w \in (n + 1)..N /\ w # n + 1 /\ w - 1 = c
      BY <1>1, <1>5, <2>2
    <3>2. q[c].output = w
      BY <1>7, <2>2
    <3> HIDE DEF w
    <3>3. Left(p, x, w) = c
      BY <1>4, <3>1
    <3> DEFINE ri == Right2(p, x, w)
    <3>4. q[w].inputs = <<c, ri>>
      BY <1>7, <3>1, <3>3
    <3> HIDE DEF ri
    <3>5. c \in ToSet(q[w].inputs)
      BY <3>4, PairList
    <3>6. QED
      BY <3>1, <3>2, <3>5
  <2>3. QED
    BY <2>1, <2>2
<1>11. q[N].output = 0
  BY <1>5, <1>7
<1>12. IsGraft(q, p, n, L, x, {})
  BY <1>5, <1>6, <1>8, <1>9, <1>10, <1>11 DEF IsGraft, n, N, G
<1>13. QED
  BY <1>3, <1>6, <1>7, <1>12 DEF NestGrafted, n, N

(* Products are made in the place of one, and the other operators remain.      *)
Producing(q, p) ==
  /\ Len(q) >= Len(p)
  /\ \A o \in 1..Len(p) : q[o].kind = p[o].kind /\ q[o].arg = p[o].arg
  /\ \A w \in News(q, Len(p)) : q[w].kind \in Crosses

(* New products and unions among old operators leave the others' arguments alone. *)
LEMMA ProducingKeeps ==
  ASSUME NEW p, NEW q, Len(p) \in Nat, Len(q) \in Nat, Producing(q, p), NEW L, Pure(p, L),
         L \subseteq 1..Len(p), NEW x \in L, p[x].kind \in Crosses,
         NEW M, M \subseteq L \cup News(q, Len(p))
  PROVE  SameArgs(q, p) /\ Pure(q, M)
<1>1. \A o \in 1..Len(q) : o \in 1..Len(p) \/ o \in News(q, Len(p))
  BY DEF News
<1>2. \A o \in 1..Len(p) : q[o].kind = p[o].kind /\ q[o].arg = p[o].arg
  BY DEF Producing
<1>3. \A w \in News(q, Len(p)) : q[w].kind \in Crosses
  BY DEF Producing
<1>4. SameArgs(q, p)
  <2>1. ASSUME NEW o \in 1..Len(q), q[o].kind \in {"select", "project"}
        PROVE  \E y \in 1..Len(p) : p[y].kind = q[o].kind /\ p[y].arg = q[o].arg
    <3>1. o \notin News(q, Len(p))
      BY <1>3, <2>1 DEF Crosses
    <3>2. QED
      BY <1>1, <1>2, <3>1
  <2>2. QED
    BY <2>1 DEF SameArgs
<1>5. \A o \in L : p[o].kind \notin BinOps
  BY DEF Pure
<1>6. ASSUME NEW o \in M PROVE q[o].kind \notin BinOps
  <2>1. CASE o \in L
    BY <1>2, <1>5, <2>1
  <2>2. CASE o \in News(q, Len(p))
    BY <1>3, <2>2 DEF Crosses, BinOps
  <2>3. QED
    BY <2>1, <2>2
<1>7. QED
  BY <1>4, <1>6 DEF Pure

(* t_makeCrossBinary and t_makeStreamCrossBinary.                             *)
LEMMA MakeBinaryTree ==
  ASSUME Good(pool, plan), NEW cross, cross = Descend(plan, OverCross \cup XStreams),
         pool[cross].kind \in Crosses, Len(pool[cross].inputs) > 2,
         NEW q, q = Nested(cross)
  PROVE  /\ Good(Replace(q, cross, Len(q)), RootAfter(cross, Len(q)))
         /\ SameArgs(Replace(q, cross, Len(q)), pool)
         /\ AllKept(Replace(q, cross, Len(q)), pool)
         /\ Falls(Replace(q, cross, Len(q)), pool)
<1>1. PICK S, L, h : Planted(pool, S, L, h, plan) /\ Pure(pool, L)
  BY DEF Good
<1> DEFINE kinds == OverCross \cup XStreams
           n == Len(pool)
           k == Len(pool[cross].inputs)
           Q == Replace(q, cross, Len(q))
           M == (L \ ({} \cup {cross})) \cup News(q, n)
           root == IF cross = plan THEN Len(q) ELSE plan
<1>2. kinds \in SUBSET Unary
  BY DEF OverCross, Unary, LogKinds, Sources, Crosses, BinOps, XStreams
<1>3. /\ IsPool(pool, S) /\ IsTree(pool, L, h, plan) /\ Schemas(pool, L) /\ plan \in L
      /\ L \subseteq 1..n /\ n \in Nat /\ pool[plan].output = 0
  BY <1>1 DEF Planted, IsTree, IsPool
<1>4. Reached(L, plan, kinds, cross)
  <2> HIDE DEF kinds
  <2>1. Reached(L, plan, kinds, Descend(plan, kinds))
    BY <1>1, <1>2, <1>3, Descends
  <2>2. QED
    BY <2>1 DEF kinds
<1>5. cross \in L /\ (cross # plan => pool[pool[cross].output].kind \in Unary)
  <2> HIDE DEF kinds
  <2>1. QED
    BY <1>2, <1>4 DEF Reached
<1>6. Product(pool, S, L, h, plan, cross)
  BY <1>1, <1>5 DEF Product
<1>7. k \in Nat /\ k >= 2
  <2>1. k \in Nat
    BY <1>6, ProductInputs
  <2> HIDE DEF k
  <2>2. k > 2
    BY DEF k
  <2>3. QED
    BY <2>1, <2>2
<1>8. NestOf(q, pool, S, cross, k)
  BY <1>6, <1>7, NestedIs
<1>9. NestGrafted(q, pool, L, cross)
  BY <1>6, <1>7, <1>8, NestGraft
<1>10. /\ IsGraft(q, pool, n, L, cross, {}) /\ q[Len(q)].out = pool[cross].out
       /\ \A w \in News(q, n) : q[w].kind \in Crosses
  BY <1>9 DEF NestGrafted
<1>11. IsPool(q, S) /\ Len(q) \in Nat /\ Len(q) > n
  BY <1>8, <1>10 DEF NestOf, IsPool, IsGraft
<1>12. pool[cross].output # 0 => pool[pool[cross].output].kind \in Unary
  BY <1>3, <1>5
<1>13. Regrown(Q, q, pool, n, S, L, plan, cross, {})
  <2> DEFINE D == {}
  <2>1. IsGraft(q, pool, Len(pool), L, cross, D)
    BY <1>10
  <2> HIDE DEF D
  <2>2. Regrown(Replace(q, cross, Len(q)), q, pool, Len(pool), S, L, plan, cross, D)
    BY <1>3, <1>5, <1>11, <1>12, <2>1, GraftTree
  <2>3. QED
    BY <2>2 DEF D
<1> HIDE DEF Q
<1>14. IsPool(Q, S) /\ Len(Q) = Len(q) /\ \A o \in 1..Len(q) : Q[o].kind = q[o].kind /\ Q[o].arg = q[o].arg
  BY <1>13 DEF Regrown, Replaced, Alike
<1>15. PICK g : IsTree(Q, M, g, root)
  BY <1>13 DEF Regrown
<1>16. \A o \in M : Q[o].out = SchemaOf(Q, o)
  BY <1>10, <1>13 DEF Regrown
<1>17. Producing(Q, pool)
  <2>1. \A o \in 1..n : o \in 1..Len(q)
    BY <1>3, <1>11
  <2>2. \A w \in News(Q, n) : w \in News(q, n) /\ w \in 1..Len(q)
    BY <1>3, <1>11, <1>14 DEF News
  <2>3. \A o \in 1..n : q[o].kind = pool[o].kind /\ q[o].arg = pool[o].arg
    BY <1>10 DEF IsGraft, Alike
  <2>4. \A o \in 1..n : Q[o].kind = pool[o].kind /\ Q[o].arg = pool[o].arg
    BY <1>14, <2>1, <2>3
  <2>5. \A w \in News(Q, n) : Q[w].kind \in Crosses
    BY <1>10, <1>14, <2>2
  <2>6. Len(Q) >= n
    BY <1>3, <1>11, <1>14
  <2>7. QED
    BY <2>4, <2>5, <2>6 DEF Producing
<1>18. SameArgs(Q, pool) /\ Pure(Q, M)
  <2>1. M \subseteq L \cup News(Q, Len(pool))
    BY <1>14 DEF News
  <2>2. Len(pool) \in Nat /\ Len(Q) \in Nat /\ L \subseteq 1..Len(pool)
    BY <1>3, <1>11, <1>14
  <2> HIDE DEF M
  <2>3. QED
    BY <1>1, <1>5, <1>17, <2>1, <2>2, ProducingKeeps
<1>19. Good(Q, root)
  <2>1. Schemas(Q, M)
    BY <1>16 DEF Schemas
  <2> HIDE DEF M, root
  <2>2. Planted(Q, S, M, g, root)
    BY <1>14, <1>15, <2>1 DEF Planted
  <2>3. QED
    BY <1>18, <2>2 DEF Good
<1>20. AllKept(Q, pool)
  <2> DEFINE D == {}
  <2>1. IsGraft(q, pool, Len(pool), L, cross, D) /\ Replaced(Q, q, cross, Len(q))
    BY <1>10, <1>13 DEF Regrown
  <2>2. \A w \in News(q, Len(pool)) : q[w].kind \notin Referring
    BY <1>10 DEF Referring, Crosses
  <2>3. ToSet(pool[cross].out) \subseteq ToSet(q[Len(q)].out)
    BY <1>10
  <2> HIDE DEF D
  <2>4. QED
    BY <1>1, <1>5, <1>11, <1>12, <2>1, <2>2, <2>3, GraftKeeps
<1>21. Falls(Q, pool)
  <2> DEFINE D == {}
  <2>1. IsGraft(q, pool, Len(pool), L, cross, D) /\ Replaced(Q, q, cross, Len(q))
    BY <1>10, <1>13 DEF Regrown
  <2>2. \A w \in News(q, Len(pool)) : q[w].kind \in Crosses
    BY <1>10
  <2> HIDE DEF D
  <2>3. QED
    BY <1>1, <1>5, <1>11, <2>1, <2>2, GraftFalls
<1>22. RootAfter(cross, Len(q)) = root
  BY DEF RootAfter
<1>23. QED
  BY <1>18, <1>19, <1>20, <1>21, <1>22 DEF Q

-----------------------------------------------------------------------------
(* The product over windows of Now, of which the first one is opened: the      *)
(* stream under it is the first input of the stream cross, the rest of the     *)
(* inputs follow in their order.                                             *)
Under(p, x, f) == p[p[x].inputs[f]].inputs[1]
Rest(p, x, f) == RemoveAt(p[x].inputs, f)
Opened(p, S, L, h, r, x, f) ==
  Product(p, S, L, h, r, x) /\ f \in DOMAIN p[x].inputs /\ p[p[x].inputs[f]].kind = "nowWin"

(* The stream is under the window, and the rest are other operators.           *)
Apart(p, L, x, f, d, u, rest, k) ==
  /\ k \in Nat /\ f \in 1..k /\ d \in L /\ d # x /\ p[d].output = x /\ p[d].inputs = <<u>>
  /\ u \in L /\ u \in 1..Len(p) /\ p[u].output = d /\ u # d /\ u # x
  /\ p[u].out = InOuts(p, x)[f] /\ p[d].out = p[u].out
  /\ \A j \in 1..(k - 1) :
       /\ rest[j] = p[x].inputs[IF j < f THEN j ELSE j + 1]
       /\ rest[j] \in L /\ rest[j] \in 1..Len(p) /\ p[rest[j]].output = x
       /\ rest[j] # u /\ rest[j] # d /\ rest[j] # x
  /\ \A i, j \in 1..(k - 1) : rest[i] = rest[j] => i = j

(* A product of which one input is opened: the parts that StreamCross works with. *)
LEMMA OpenedParts ==
  ASSUME NEW S, NEW p, NEW L, NEW h, NEW r, NEW x, NEW f, Opened(p, S, L, h, r, x, f),
         NEW d, d = p[x].inputs[f], NEW u, u = Under(p, x, f),
         NEW rest, rest = Rest(p, x, f), NEW k, k = Len(p[x].inputs)
  PROVE  Apart(p, L, x, f, d, u, rest, k)
<1> DEFINE ins == p[x].inputs
           g(j) == IF j < f THEN j ELSE j + 1
<1>1. /\ IsPool(p, S) /\ k \in Nat /\ L \subseteq 1..Len(p) /\ DOMAIN ins = 1..k /\ x \in 1..Len(p)
      /\ \A i \in 1..k : ins[i] \in L /\ ins[i] \in 1..Len(p) /\ p[ins[i]].output = x /\ ins[i] # x
  <2>1. IsPool(p, S) /\ k \in Nat /\ L \subseteq 1..Len(p) /\ DOMAIN ins = 1..k /\ x \in 1..Len(p)
    BY ProductInputs DEF Opened
  <2>2. Product(p, S, L, h, r, x)
    BY DEF Opened
  <2>3. \A i \in 1..Len(p[x].inputs) :
          /\ p[x].inputs[i] \in L /\ p[x].inputs[i] \in 1..Len(p)
          /\ p[p[x].inputs[i]].output = x /\ p[x].inputs[i] # x
    BY <2>2, ProductInputs
  <2>4. QED
    BY <2>1, <2>3
<1>2. \A i, j \in 1..k : ins[i] = ins[j] => i = j
  BY ProductInputs, SMTT(40) DEF Opened
<1>3. f \in 1..k /\ p[d].kind = "nowWin" /\ ins[f] = d /\ Planted(p, S, L, h, r)
  BY <1>1 DEF Opened, Product
<1>4. d \in L /\ d # x /\ p[d].output = x /\ InOuts(p, x)[f] = p[d].out
  <2>1. InOuts(p, x)[f] = p[ins[f]].out
    BY <1>3, ProductInputs DEF Opened
  <2>2. QED
    BY <1>1, <1>3, <2>1
<1>5. p[d].kind \in Copying
  BY <1>3 DEF Copying, Unary, LogKinds, Sources, Crosses, BinOps, Windows
<1>6. u = p[d].inputs[1]
  BY DEF Under
<1>7. u \in L /\ p[u].output = d /\ u # d /\ p[u].out = p[d].out /\ p[d].kind \in Unary
  BY <1>3, <1>4, <1>5, <1>6, Handed
<1>8. p[d].inputs = <<u>>
  <2>1. IsTree(p, L, h, r)
    BY <1>3 DEF Planted
  <2>2. p[d].inputs = <<p[d].inputs[1]>>
    BY <1>1, <1>4, <1>7, <2>1, NodeOf
  <2>3. QED
    BY <1>6, <2>2
<1>9. u # x
  <2>1. IsTree(p, L, h, r)
    BY <1>3 DEF Planted
  <2>2. h[d] < h[x]
    <3>1. x \in L /\ f \in DOMAIN p[x].inputs
      BY <1>1, <1>3 DEF Opened, Product
    <3>2. h[p[x].inputs[f]] < h[x]
      BY <1>1, <2>1, <3>1, ChildOf
    <3>3. QED
      BY <1>3, <3>2
  <2>3. h[u] < h[d]
    <3>1. 1 \in DOMAIN p[d].inputs
      BY <1>8
    <3>2. h[p[d].inputs[1]] < h[d]
      BY <1>1, <1>4, <2>1, <3>1, ChildOf
    <3>3. QED
      BY <1>6, <3>2
  <2>4. h[x] \in Nat /\ h[d] \in Nat /\ h[u] \in Nat
    <3>1. \A o \in L : h[o] \in 1..Len(p)
      BY <2>1 DEF IsTree
    <3>2. \A o \in L : h[o] \in Nat
      BY <3>1
    <3>3. QED
      BY <1>4, <1>7, <3>2 DEF Opened, Product
  <2>5. QED
    BY <2>2, <2>3, <2>4
<1>10. \A j \in 1..(k - 1) : rest[j] = ins[g(j)]
  <2>1. ins \in Seq(1..Len(p)) /\ Len(ins) = k
    <3>1. IsOp(p[x], Len(p), S)
      BY <1>1 DEF IsPool
    <3>2. QED
      BY <3>1 DEF IsOp
  <2>2. rest = RemoveAt(ins, f)
    BY DEF Rest
  <2>3. f \in 1..Len(ins)
    BY <1>3, <2>1
  <2> HIDE DEF ins
  <2>4. \A j \in 1..(Len(ins) - 1) : RemoveAt(ins, f)[j] = ins[IF j < f THEN j ELSE j + 1]
    BY <2>1, <2>3, RemoveAtType
  <2>5. QED
    BY <2>1, <2>2, <2>4
<1>11. /\ \A j \in 1..(k - 1) : g(j) \in 1..k /\ g(j) # f
       /\ \A i, j \in 1..(k - 1) : g(i) = g(j) => i = j
  BY <1>1, <1>3
<1> HIDE DEF g
<1>12. ASSUME NEW j \in 1..(k - 1)
       PROVE  /\ rest[j] \in L /\ rest[j] \in 1..Len(p) /\ p[rest[j]].output = x
              /\ rest[j] # u /\ rest[j] # d /\ rest[j] # x
  <2>1. g(j) \in 1..k /\ g(j) # f /\ rest[j] = ins[g(j)]
    BY <1>10, <1>11
  <2>2. rest[j] \in L /\ rest[j] \in 1..Len(p) /\ p[rest[j]].output = x /\ rest[j] # x
    BY <1>1, <2>1
  <2>3. rest[j] # d
    BY <1>2, <1>3, <2>1
  <2>4. rest[j] # u
    BY <1>4, <1>7, <2>2
  <2>5. QED
    BY <2>2, <2>3, <2>4
<1>13. ASSUME NEW i \in 1..(k - 1), NEW j \in 1..(k - 1), rest[i] = rest[j] PROVE i = j
  <2>1. g(i) \in 1..k /\ g(j) \in 1..k /\ ins[g(i)] = ins[g(j)]
    BY <1>10, <1>11, <1>13
  <2>2. g(i) = g(j)
    BY <1>2, <2>1
  <2>3. QED
    BY <1>11, <2>2
<1>14. \A j \in 1..(k - 1) : rest[j] = p[x].inputs[IF j < f THEN j ELSE j + 1]
  BY <1>10 DEF g
<1>15. u \in 1..Len(p)
  BY <1>1, <1>7
<1>16. QED
  BY <1>1, <1>3, <1>4, <1>7, <1>8, <1>9, <1>12, <1>13, <1>14, <1>15 DEF Apart

(* How long the schema is when m of the rest have been joined.                 *)
PartsLen(ss, f, m) == IF m < f THEN Len(ss[f]) + FrontLen(ss, m) ELSE FrontLen(ss, m + 1)

PartsGrow(ss, f, k) ==
  /\ PartsLen(ss, f, 0) = Len(ss[f]) /\ PartsLen(ss, f, k - 1) = Len(FlattenSeq(ss))
  /\ \A m \in 0..(k - 1) : PartsLen(ss, f, m) \in Nat /\ PartsLen(ss, f, m) <= Len(FlattenSeq(ss))
  /\ \A m \in Nat : m + 1 < k =>
       PartsLen(ss, f, m + 1) = PartsLen(ss, f, m) + Len(ss[IF m + 1 < f THEN m + 1 ELSE m + 2])

(* The lengths of the schemas of the inputs before and behind the opened one. *)
LEMMA PartsLens ==
  ASSUME NEW S, NEW ss, ss \in Seq(Seq(S)), NEW k, k = Len(ss), NEW f \in 1..k
  PROVE  PartsGrow(ss, f, k)
<1> DEFINE F == [m \in 0..k |-> FrontLen(ss, m)]
           W == [i \in 1..k |-> Len(ss[i])]
           P(m) == IF m < f THEN W[f] + F[m] ELSE F[m + 1]
           T == Len(FlattenSeq(ss))
<1>1. k \in Nat
  OBVIOUS
<1>2. /\ \A m \in 0..k : F[m] \in Nat /\ F[m] <= T
      /\ \A m \in 0..k : \A b \in 0..k : b <= m => F[b] <= F[m]
  <2>1. ASSUME NEW m \in 0..k
        PROVE  F[m] \in Nat /\ \A b \in 0..k : b <= m => F[b] <= F[m]
    <3>1. FrontLen(ss, m) \in Nat /\ \A b \in 0..k : b <= m => FrontLen(ss, b) <= FrontLen(ss, m)
      BY FrontLens
    <3>2. QED
      BY <3>1
  <2>2. F[k] = T
    <3>1. k \in 0..k
      BY <1>1
    <3>2. FrontLen(ss, k) = T
      BY <3>1, FrontLens
    <3>3. QED
      BY <3>1, <3>2
  <2>3. \A m \in 0..k : m <= k /\ k \in 0..k
    BY <1>1
  <2> HIDE DEF F, T
  <2>4. QED
    BY <2>1, <2>2, <2>3
<1>3. ASSUME NEW m \in 0..k, m < k PROVE m + 1 \in 0..k /\ W[m + 1] \in Nat /\ F[m + 1] = F[m] + W[m + 1]
  <2>1. m + 1 \in 0..k /\ m + 1 \in 1..k
    BY <1>1, <1>3
  <2>2. ss[m + 1] \in Seq(S) /\ FrontLen(ss, m + 1) = FrontLen(ss, m) + Len(ss[m + 1])
    BY <1>3, FrontLens
  <2>3. Len(ss[m + 1]) \in Nat
    BY <2>2
  <2>4. QED
    BY <2>1, <2>2, <2>3
<1>4. F[0] = 0 /\ F[k] = T
  <2>1. 0 \in 0..k /\ k \in 0..k
    BY <1>1
  <2>2. FrontLen(ss, 0) = 0 /\ FrontLen(ss, k) = T
    BY <2>1, FrontLens
  <2>3. QED
    BY <2>1, <2>2
<1>5. \A m \in 0..(k - 1) : PartsLen(ss, f, m) = P(m)
  <2>1. ASSUME NEW m \in 0..(k - 1) PROVE PartsLen(ss, f, m) = P(m)
    <3>1. m \in 0..k /\ m + 1 \in 0..k /\ f \in 1..k
      BY <1>1
    <3>2. QED
      BY <3>1 DEF PartsLen
  <2>2. QED
    BY <2>1
<1> HIDE DEF F, T
<1>6. \A i \in 1..k : W[i] = Len(ss[i])
  OBVIOUS
<1> HIDE DEF W
<1>7. f - 1 \in 0..k /\ f - 1 < k /\ (f - 1) + 1 = f /\ f \in 0..k /\ f \in Nat
  BY <1>1
<1>8. W[f] \in Nat /\ F[f] = F[f - 1] + W[f] /\ F[f - 1] \in Nat /\ F[f] \in Nat /\ T \in Nat
  <2>1. T \in Nat
    BY <1>1, <1>2, <1>4
  <2>2. QED
    BY <1>2, <1>3, <1>7, <2>1
<1>9. P(0) = Len(ss[f])
  <2>1. W[f] = Len(ss[f])
    BY <1>6
  <2>2. 0 < f
    BY <1>1
  <2>3. QED
    BY <1>4, <1>8, <2>1, <2>2
<1>10. P(k - 1) = T
  <2>1. CASE k - 1 < f
    <3>1. k - 1 = f - 1 /\ k = f
      BY <1>1, <2>1
    <3>2. P(k - 1) = W[f] + F[k - 1]
      BY <2>1
    <3>3. QED
      BY <1>4, <1>8, <3>1, <3>2
  <2>2. CASE ~(k - 1 < f)
    <3>1. P(k - 1) = F[(k - 1) + 1] /\ (k - 1) + 1 = k
      BY <1>1, <2>2
    <3>2. QED
      BY <1>4, <3>1
  <2>3. QED
    BY <2>1, <2>2
<1>11. ASSUME NEW m \in 0..(k - 1) PROVE P(m) \in Nat /\ P(m) <= T
  <2>1. m \in 0..k /\ m + 1 \in 0..k
    BY <1>1
  <2>2. CASE m < f
    <3>1. F[m] \in Nat /\ F[m] <= F[f - 1]
      <4>1. m <= f - 1
        BY <1>7, <2>2
      <4>2. QED
        BY <1>2, <1>7, <2>1, <4>1
    <3>2. F[f] <= T
      BY <1>2, <1>7
    <3> DEFINE a == W[f]
               b == F[m]
               c == F[f - 1]
               d == F[f]
    <3>3. a + b \in Nat /\ a + b <= T
      <4>1. d = c + a /\ a \in Nat /\ b \in Nat /\ c \in Nat /\ d \in Nat /\ T \in Nat /\ b <= c /\ d <= T
        BY <1>8, <3>1, <3>2
      <4> HIDE DEF a, b, c, d
      <4>2. QED
        BY <4>1
    <3>4. QED
      BY <2>2, <3>3
  <2>3. CASE ~(m < f)
    BY <1>2, <2>1, <2>3
  <2>4. QED
    BY <2>2, <2>3
<1>12. ASSUME NEW m \in Nat, m + 1 < k
       PROVE  P(m + 1) = P(m) + Len(ss[IF m + 1 < f THEN m + 1 ELSE m + 2])
  <2>1. /\ m \in 0..k /\ m < k /\ m + 1 \in 0..k /\ m + 1 \in 1..k /\ m + 2 \in 1..k
        /\ (m + 1) + 1 = m + 2
    BY <1>1, <1>12
  <2>2. F[m + 1] = F[m] + W[m + 1] /\ F[m + 2] = F[m + 1] + W[m + 2]
    BY <1>3, <1>12, <2>1
  <2>3. F[m] \in Nat /\ F[m + 1] \in Nat /\ W[m + 1] \in Nat /\ W[m + 2] \in Nat
    BY <1>2, <1>3, <1>12, <2>1
  <2>4. W[m + 1] = Len(ss[m + 1]) /\ W[m + 2] = Len(ss[m + 2])
    BY <1>6, <2>1
  <2>5. CASE m + 1 < f
    <3>1. m < f
      BY <1>7, <2>5
    <3>2. P(m + 1) = W[f] + F[m + 1] /\ P(m) = W[f] + F[m]
      BY <2>5, <3>1
    <3> DEFINE a == W[f]
               b == F[m]
               c == F[m + 1]
               d == W[m + 1]
    <3>3. a + c = (a + b) + d
      <4>1. c = b + d /\ a \in Nat /\ b \in Nat /\ c \in Nat /\ d \in Nat
        BY <1>8, <2>2, <2>3
      <4> HIDE DEF a, b, c, d
      <4>2. QED
        BY <4>1
    <3>4. QED
      BY <2>4, <2>5, <3>2, <3>3
  <2>6. CASE ~(m + 1 < f)
    <3>1. P(m + 1) = F[m + 2]
      BY <2>1, <2>6
    <3>2. P(m) = F[m + 1]
      <4>1. CASE m < f
        <5>1. m = f - 1 /\ f = m + 1
          BY <1>7, <2>6, <4>1
        <5>2. P(m) = W[f] + F[m]
          BY <4>1
        <5> DEFINE b == F[m]
                   c == F[m + 1]
                   d == W[m + 1]
        <5>3. d + b = c
          <6>1. c = b + d /\ b \in Nat /\ c \in Nat /\ d \in Nat
            BY <2>2, <2>3
          <6> HIDE DEF b, c, d
          <6>2. QED
            BY <6>1
        <5>4. QED
          BY <5>1, <5>2, <5>3
      <4>2. CASE ~(m < f)
        BY <4>2
      <4>3. QED
        BY <4>1, <4>2
    <3>3. QED
      BY <2>2, <2>4, <2>6, <3>1, <3>2
  <2>7. QED
    BY <2>5, <2>6
<1>13. 0 \in 0..(k - 1) /\ k - 1 \in 0..(k - 1) /\ \A m \in Nat : m + 1 < k => m \in 0..(k - 1) /\ m + 1 \in 0..(k - 1)
  BY <1>1, <1>7
<1> HIDE DEF P
<1>14. QED
  <2>1. PartsLen(ss, f, 0) = Len(ss[f]) /\ PartsLen(ss, f, k - 1) = Len(FlattenSeq(ss))
    BY <1>5, <1>9, <1>10, <1>13 DEF T
  <2>2. \A m \in 0..(k - 1) : PartsLen(ss, f, m) \in Nat /\ PartsLen(ss, f, m) <= Len(FlattenSeq(ss))
    BY <1>5, <1>11 DEF T
  <2>3. ASSUME NEW m \in Nat, m + 1 < k
        PROVE  PartsLen(ss, f, m + 1) = PartsLen(ss, f, m) + Len(ss[IF m + 1 < f THEN m + 1 ELSE m + 2])
    <3>1. PartsLen(ss, f, m + 1) = P(m + 1) /\ PartsLen(ss, f, m) = P(m)
      BY <1>5, <1>13, <2>3
    <3>2. QED
      BY <1>12, <2>3, <3>1
  <2>4. QED
    BY <2>1, <2>2, <2>3 DEF PartsGrow

(* A stream cross, the last operator, over u and the first m of the rest.      *)
CrossHas(op, u, rest, m) ==
  /\ op.kind = "streamCross" /\ op.output = 0 /\ Len(op.inputs) = m + 1 /\ op.inputs[1] = u
  /\ \A j \in 1..m : op.inputs[j + 1] = rest[j]

CrossOf(q, p, S, u, rest, m) ==
  /\ IsPool(q, S) /\ Len(q) = Len(p) + 1
  /\ \A o \in 1..Len(p) :
       /\ Alike(q[o], p[o]) /\ q[o].inputs = p[o].inputs
       /\ o # u /\ (\A j \in 1..m : rest[j] # o) => q[o].output = p[o].output
  /\ q[u].output = Len(q) /\ \A j \in 1..m : q[rest[j]].output = Len(q)
  /\ CrossHas(q[Len(q)], u, rest, m) /\ q[Len(q)].out = SchemaOf(q, Len(q))

CrossLen(q, p, S, u, rest, m, len) == CrossOf(q, p, S, u, rest, m) /\ Len(q[Len(q)].out) = len

(* At first it takes the stream alone.                                         *)
LEMMA CrossStart ==
  ASSUME NEW S, NEW p, IsPool(p, S), NEW u \in 1..Len(p), NEW rest
  PROVE  CrossLen(MkStreamCross(p, u), p, S, u, rest, 0, Len(p[u].out))
<1> DEFINE q == MkStreamCross(p, u)
           N == Len(q)
<1>1. Single(q, p, S, "streamCross", u)
  BY StreamSingle
<1> HIDE DEF q
<1>2. /\ IsPool(q, S) /\ N = Len(p) + 1 /\ q[N].kind = "streamCross" /\ q[N].inputs = <<u>>
      /\ q[N].output = 0 /\ q[N].out = p[u].out
      /\ \A o \in 1..Len(p) :
           /\ Alike(q[o], p[o]) /\ q[o].inputs = p[o].inputs
           /\ q[o].output = IF o = u THEN N ELSE p[o].output
  BY <1>1 DEF Single
<1>3. CrossHas(q[N], u, rest, 0)
  <2>1. Len(<<u>>) = 0 + 1 /\ <<u>>[1] = u /\ \A j \in 1..0 : FALSE
    OBVIOUS
  <2>2. QED
    BY <1>2, <2>1 DEF CrossHas
<1>4. q[u].out = p[u].out /\ p[u].out \in Seq(S)
  BY <1>2 DEF Alike, IsPool, IsOp
<1>5. q[N].out = SchemaOf(q, N)
  <2>1. SchemaOf(q, N) = JoinedSchemas(q, N)
    BY <1>2 DEF SchemaOf, Sources, BinOps
  <2>2. [i \in DOMAIN q[N].inputs |-> q[q[N].inputs[i]].out] = <<q[u].out>>
    <3>1. DOMAIN q[N].inputs = 1..1 /\ q[N].inputs[1] = u
      BY <1>2
    <3>2. [i \in 1..1 |-> q[q[N].inputs[i]].out] = <<q[q[N].inputs[1]].out>>
      OBVIOUS
    <3>3. QED
      BY <3>1, <3>2
  <2>3. JoinedSchemas(q, N) = q[u].out
    BY <1>4, <2>2, FlatSingle DEF JoinedSchemas
  <2>4. QED
    BY <1>2, <1>4, <2>1, <2>3
<1>6. CrossOf(q, p, S, u, rest, 0)
  <2>1. \A j \in 1..0 : FALSE
    OBVIOUS
  <2>2. q[u].output = Len(q)
    BY <1>2
  <2>3. QED
    BY <1>2, <1>3, <1>5, <2>1, <2>2 DEF CrossOf
<1>7. QED
  BY <1>2, <1>6 DEF CrossLen, q

CrossTakes(p, S, u, rest, m, len) ==
  /\ IsPool(p, S) /\ u \in 1..Len(p) /\ m \in Nat /\ m + 1 < MaxInputs /\ rest[m + 1] # u
  /\ \A j \in 1..(m + 1) : rest[j] \in 1..Len(p)
  /\ \A j \in 1..m : rest[j] # rest[m + 1]
  /\ len + Len(p[rest[m + 1]].out) <= MaxAttrs

(* A turn of t_streamCross adds one input more.                                *)
LEMMA CrossTurn ==
  ASSUME NEW S, NEW p, NEW u, NEW rest, NEW m, NEW len, CrossTakes(p, S, u, rest, m, len),
         NEW q, CrossLen(q, p, S, u, rest, m, len),
         NEW t, t = StreamCrossAddInput(q, Len(p) + 1, rest[m + 1])
  PROVE  CrossLen(t, p, S, u, rest, m + 1, len + Len(p[rest[m + 1]].out))
<1> DEFINE n == Len(p)
           N == n + 1
           c == rest[m + 1]
           ins == q[N].inputs
<1>1. /\ IsPool(p, S) /\ n \in Nat /\ m \in Nat /\ m + 1 < MaxInputs /\ u \in 1..n /\ c \in 1..n /\ c # u
      /\ \A j \in 1..m : rest[j] \in 1..n /\ rest[j] # c
      /\ len + Len(p[c].out) <= MaxAttrs
  <2>1. m \in Nat
    BY DEF CrossTakes
  <2>2. m + 1 \in 1..(m + 1) /\ \A j \in 1..m : j \in 1..(m + 1)
    BY <2>1
  <2>3. QED
    BY <2>1, <2>2 DEF CrossTakes, IsPool
<1>2. /\ IsPool(q, S) /\ Len(q) = N /\ Len(q[N].out) = len /\ CrossHas(q[N], u, rest, m)
      /\ q[N].out = SchemaOf(q, N) /\ q[u].output = N
      /\ \A j \in 1..m : q[rest[j]].output = N
  BY DEF CrossLen, CrossOf
<1>3. \A o \in 1..n :
        /\ Alike(q[o], p[o]) /\ q[o].inputs = p[o].inputs
        /\ o # u /\ (\A j \in 1..m : rest[j] # o) => q[o].output = p[o].output
  BY DEF CrossLen, CrossOf
<1>4. /\ q[N].kind = "streamCross" /\ q[N].output = 0 /\ Len(ins) = m + 1 /\ ins[1] = u
      /\ \A j \in 1..m : ins[j + 1] = rest[j]
  BY <1>2 DEF CrossHas
<1> HIDE DEF n, c
<1>5. N \in 1..N /\ N \in Nat /\ \A o \in 1..n : o \in 1..N /\ o # N
  BY <1>1
<1>6. IsOp(q[N], N, S) /\ ins \in Seq(1..N) /\ DOMAIN ins = 1..(m + 1)
  <2>1. IsOp(q[N], N, S)
    BY <1>2, <1>5 DEF IsPool
  <2>2. ins \in Seq(1..N)
    BY <2>1 DEF IsOp
  <2> HIDE DEF ins
  <2>3. DOMAIN ins = 1..(m + 1)
    BY <1>4, <2>2
  <2>4. QED
    BY <2>1, <2>2, <2>3
<1>7. q[c].out = p[c].out /\ q[c].inputs = p[c].inputs
  BY <1>1, <1>3 DEF Alike
<1>8. Addable(q, N, c)
  <2>1. Len(q[N].inputs) < MaxInputs
    BY <1>1, <1>4
  <2>2. Len(q[N].out) + Len(q[c].out) <= MaxAttrs
    BY <1>1, <1>2, <1>7
  <2>3. c \in 1..Len(q) /\ N \in 1..Len(q) /\ N # c
    BY <1>1, <1>2, <1>5
  <2>4. q[N].kind \in Crosses
    BY <1>4 DEF Crosses
  <2>5. QED
    BY <2>1, <2>2, <2>3, <2>4 DEF Addable
<1>9. t = StreamCrossAddInput(q, N, c)
  BY DEF n, c
<1>10. IsPool(t, S) /\ Added(t, q, N, c)
  <2> HIDE DEF N
  <2>1. QED
    BY <1>2, <1>8, <1>9, AddInput
<1>11. t[N].out = SchemaOf(t, N)
  <2>1. ASSUME NEW i \in DOMAIN ins PROVE ins[i] # N
    <3>1. CASE i = 1
      BY <1>1, <1>4, <1>5, <3>1
    <3>2. CASE i # 1
      <4> DEFINE j == i - 1
      <4>1. j \in 1..m /\ i = j + 1
        BY <1>1, <1>6, <3>2
      <4> HIDE DEF j
      <4>2. ins[i] = rest[j] /\ rest[j] \in 1..n
        BY <1>1, <1>4, <4>1
      <4>3. QED
        BY <1>5, <4>2
    <3>3. QED
      BY <3>1, <3>2
  <2>2. \A i \in DOMAIN q[N].inputs : q[N].inputs[i] # N
    BY <2>1
  <2> HIDE DEF N
  <2>3. QED
    BY <1>2, <1>8, <1>10, <2>2, AddedSchema
<1>12. /\ Len(t) = N /\ t[N].kind = "streamCross" /\ t[N].output = 0
       /\ t[N].inputs = Append(ins, c) /\ t[N].out = q[N].out \o q[c].out
       /\ t[c] = [q[c] EXCEPT !.output = N]
       /\ \A o \in (1..N) \ {N, c} : t[o] = q[o]
  BY <1>2, <1>4, <1>10 DEF Added
<1>13. CrossHas(t[N], u, rest, m + 1)
  <2> DEFINE s == Append(ins, c)
  <2>1. Len(s) = (m + 1) + 1 /\ s[(m + 1) + 1] = c /\ \A i \in 1..(m + 1) : s[i] = ins[i]
    <3> HIDE DEF ins
    <3>1. Len(s) = Len(ins) + 1 /\ s[Len(ins) + 1] = c /\ \A i \in 1..Len(ins) : s[i] = ins[i]
      BY <1>6
    <3> HIDE DEF s
    <3>2. QED
      BY <1>4, <3>1
  <2>2. t[N].inputs = s
    BY <1>12
  <2> HIDE DEF s, ins, N
  <2>3. s[1] = u
    <3>1. 1 \in 1..(m + 1)
      BY <1>1
    <3>2. QED
      BY <1>4, <2>1, <3>1
  <2>4. ASSUME NEW j \in 1..(m + 1) PROVE s[j + 1] = rest[j]
    <3>1. CASE j = m + 1
      BY <2>1, <3>1 DEF c
    <3>2. CASE j # m + 1
      <4>1. j \in 1..m /\ j + 1 \in 1..(m + 1)
        BY <1>1, <3>2
      <4>2. QED
        BY <1>4, <2>1, <4>1
    <3>3. QED
      BY <3>1, <3>2
  <2>5. QED
    BY <1>12, <2>1, <2>2, <2>3, <2>4 DEF CrossHas
<1>14. Len(t[N].out) = len + Len(p[c].out)
  <2>1. q[N].out \in Seq(S) /\ p[c].out \in Seq(S)
    <3>1. IsOp(p[c], Len(p), S)
      BY <1>1 DEF IsPool, n
    <3>2. QED
      BY <1>6, <3>1 DEF IsOp
  <2>2. Len(q[N].out \o p[c].out) = Len(q[N].out) + Len(p[c].out)
    BY <2>1, Concat
  <2>3. QED
    BY <1>2, <1>7, <1>12, <2>2
<1>15. ASSUME NEW o \in 1..n
       PROVE  /\ Alike(t[o], q[o]) /\ t[o].inputs = q[o].inputs
              /\ t[o].output = IF o = c THEN N ELSE q[o].output
  <2>1. CASE o = c
    <3>1. DOMAIN q[o] = Fields
      BY <1>2, <1>5 DEF IsPool, IsOp
    <3>2. t[o] = [q[o] EXCEPT !.output = N]
      BY <1>12, <2>1
    <3>3. t[o].kind = q[o].kind /\ t[o].arg = q[o].arg /\ t[o].out = q[o].out
          /\ t[o].inputs = q[o].inputs /\ t[o].output = N
      BY <3>1, <3>2 DEF Fields
    <3>4. QED
      BY <2>1, <3>3 DEF Alike
  <2>2. CASE o # c
    <3>1. t[o] = q[o]
      BY <1>5, <1>12, <2>2
    <3>2. QED
      BY <2>2, <3>1 DEF Alike
  <2>3. QED
    BY <2>1, <2>2
<1> HIDE DEF ins, N
<1>16. ASSUME NEW o \in 1..n
       PROVE  /\ Alike(t[o], p[o]) /\ t[o].inputs = p[o].inputs
              /\ o # u /\ (\A j \in 1..(m + 1) : rest[j] # o) => t[o].output = p[o].output
  <2>1. Alike(t[o], p[o]) /\ t[o].inputs = p[o].inputs
    BY <1>3, <1>15 DEF Alike
  <2>2. ASSUME o # u, \A j \in 1..(m + 1) : rest[j] # o PROVE t[o].output = p[o].output
    <3>1. m + 1 \in 1..(m + 1) /\ \A j \in 1..m : j \in 1..(m + 1)
      BY <1>1
    <3>2. o # c /\ \A j \in 1..m : rest[j] # o
      BY <2>2, <3>1 DEF c
    <3>3. QED
      BY <1>3, <1>15, <2>2, <3>2
  <2>3. QED
    BY <2>1, <2>2
<1>17. t[u].output = N
  BY <1>1, <1>2, <1>15
<1>18. ASSUME NEW j \in 1..(m + 1) PROVE t[rest[j]].output = N
  <2>1. CASE j = m + 1
    BY <1>1, <1>15, <2>1 DEF c
  <2>2. CASE j # m + 1
    <3>1. j \in 1..m
      BY <1>1, <2>2
    <3>2. QED
      BY <1>1, <1>2, <1>15, <3>1
  <2>3. QED
    BY <2>1, <2>2
<1>19. Len(t) = n + 1
  BY <1>12 DEF N
<1>20. CrossOf(t, p, S, u, rest, m + 1)
  BY <1>10, <1>11, <1>12, <1>13, <1>16, <1>17, <1>18, <1>19 DEF CrossOf, n
<1>21. QED
  BY <1>12, <1>14, <1>20 DEF CrossLen, c

CrossUpTo(q, p, S, x, f, m) ==
  /\ CrossOf(q, p, S, Under(p, x, f), Rest(p, x, f), m)
  /\ Len(q[Len(q)].out) = PartsLen(InOuts(p, x), f, m)

(* The stream product begins with what is under the window alone. *)
LEMMA UpToStart ==
  ASSUME NEW S, NEW p, NEW L, NEW h, NEW r, NEW x, NEW f, Opened(p, S, L, h, r, x, f)
  PROVE  CrossUpTo(MkStreamCross(p, Under(p, x, f)), p, S, x, f, 0)
<1> DEFINE d == p[x].inputs[f]
           u == Under(p, x, f)
           rest == Rest(p, x, f)
           k == Len(p[x].inputs)
           ss == InOuts(p, x)
<1>1. IsPool(p, S) /\ Product(p, S, L, h, r, x) /\ ss \in Seq(Seq(S)) /\ k = Len(ss)
  BY ProductInputs DEF Opened
<1>2. Apart(p, L, x, f, d, u, rest, k)
  BY OpenedParts
<1> HIDE DEF d, u, rest
<1>3. u \in 1..Len(p) /\ f \in 1..k /\ p[u].out = ss[f]
  BY <1>2 DEF Apart
<1> DEFINE q == MkStreamCross(p, u)
<1>4. CrossLen(q, p, S, u, rest, 0, Len(p[u].out))
  BY <1>1, <1>3, CrossStart
<1> HIDE DEF q, ss, k
<1>5. PartsGrow(ss, f, k)
  BY <1>1, <1>3, PartsLens
<1>6. CrossOf(q, p, S, u, rest, 0) /\ Len(q[Len(q)].out) = PartsLen(ss, f, 0)
  BY <1>3, <1>4, <1>5 DEF CrossLen, PartsGrow
<1>7. QED
  BY <1>6 DEF CrossUpTo, q, u, rest, ss

(* Each turn adds one of the other inputs to the stream product. *)
LEMMA UpToTurn ==
  ASSUME NEW S, NEW p, NEW L, NEW h, NEW r, NEW x, NEW f, Opened(p, S, L, h, r, x, f),
         NEW m \in Nat, m + 1 < Len(p[x].inputs), NEW q, CrossUpTo(q, p, S, x, f, m)
  PROVE  CrossUpTo(StreamCrossAddInput(q, Len(p) + 1, Rest(p, x, f)[m + 1]), p, S, x, f, m + 1)
<1> DEFINE d == p[x].inputs[f]
           u == Under(p, x, f)
           rest == Rest(p, x, f)
           k == Len(p[x].inputs)
           ss == InOuts(p, x)
           len == PartsLen(ss, f, m)
           T == Len(FlattenSeq(ss))
<1>1. /\ IsPool(p, S) /\ Product(p, S, L, h, r, x) /\ ss \in Seq(Seq(S)) /\ k = Len(ss)
      /\ k \in Nat /\ k <= MaxInputs /\ T <= MaxAttrs /\ m + 1 < k
  <2>1. Product(p, S, L, h, r, x)
    BY DEF Opened
  <2>2. IsPool(p, S) /\ ss \in Seq(Seq(S)) /\ Len(ss) = k
    BY <2>1, ProductInputs
  <2>3. k \in Nat /\ k <= MaxInputs
    BY <2>1, ProductInputs
  <2>4. FlattenSeq(InOuts(p, x)) = p[x].out /\ Len(p[x].out) <= MaxAttrs
    BY <2>1, ProductInputs
  <2>5. m + 1 < k
    OBVIOUS
  <2>6. T <= MaxAttrs
    BY <2>4
  <2>7. QED
    BY <2>1, <2>2, <2>3, <2>5, <2>6
<1>2. Apart(p, L, x, f, d, u, rest, k)
  BY OpenedParts
<1>3. \A i \in 1..k : ss[i] = p[p[x].inputs[i]].out
  BY <1>1, ProductInputs
<1> HIDE DEF d, u, rest, k, ss
<1>4. /\ u \in 1..Len(p) /\ f \in 1..k
      /\ \A j \in 1..(k - 1) : rest[j] = p[x].inputs[IF j < f THEN j ELSE j + 1]
      /\ \A j \in 1..(k - 1) : rest[j] \in 1..Len(p) /\ rest[j] # u
      /\ \A i, j \in 1..(k - 1) : rest[i] = rest[j] => i = j
  BY <1>2 DEF Apart
<1>5. PartsGrow(ss, f, k)
  BY <1>1, <1>4, PartsLens
<1>6. /\ m + 1 \in 1..(k - 1) /\ m \in 0..(k - 1) /\ m + 1 \in 0..(k - 1) /\ m + 1 < MaxInputs
      /\ (m + 1) + 1 = m + 2 /\ m + 1 \in 1..k /\ m + 2 \in 1..k
      /\ \A j \in 1..(m + 1) : j \in 1..(k - 1)
      /\ \A j \in 1..m : j \in 1..(k - 1) /\ j # m + 1
  <2>1. k \in Nat /\ m \in Nat /\ m + 1 < k /\ k <= MaxInputs /\ MaxInputs \in Nat
    BY <1>1, InputsAssumption
  <2>2. m + 1 \in 1..(k - 1) /\ m \in 0..(k - 1) /\ m + 1 \in 0..(k - 1) /\ m + 1 < MaxInputs
    BY <2>1
  <2>3. (m + 1) + 1 = m + 2 /\ m + 1 \in 1..k /\ m + 2 \in 1..k
    BY <2>1
  <2>4. /\ \A j \in 1..(m + 1) : j \in 1..(k - 1)
        /\ \A j \in 1..m : j \in 1..(k - 1) /\ j # m + 1
    BY <2>1
  <2>5. QED
    BY <2>2, <2>3, <2>4
<1>7. p[rest[m + 1]].out = ss[IF m + 1 < f THEN m + 1 ELSE m + 2]
  <2>1. rest[m + 1] = p[x].inputs[IF m + 1 < f THEN m + 1 ELSE (m + 1) + 1]
    BY <1>4, <1>6
  <2>2. CASE m + 1 < f
    BY <1>3, <1>6, <2>1, <2>2
  <2>3. CASE ~(m + 1 < f)
    BY <1>3, <1>6, <2>1, <2>3
  <2>4. QED
    BY <2>2, <2>3
<1>8. /\ PartsLen(ss, f, m + 1) = len + Len(p[rest[m + 1]].out)
      /\ PartsLen(ss, f, m + 1) <= T
  <2>1. PartsLen(ss, f, m + 1) = len + Len(ss[IF m + 1 < f THEN m + 1 ELSE m + 2])
    BY <1>1, <1>5 DEF PartsGrow
  <2>2. PartsLen(ss, f, m + 1) <= T
    BY <1>5, <1>6 DEF PartsGrow
  <2>3. QED
    BY <1>7, <2>1, <2>2
<1>9. PartsLen(ss, f, m + 1) <= MaxAttrs
  <2> DEFINE v == PartsLen(ss, f, m + 1)
  <2>1. v \in Nat /\ v <= T /\ T <= MaxAttrs
    BY <1>1, <1>5, <1>6 DEF PartsGrow
  <2>2. PartsLen(ss, f, k - 1) \in Nat /\ PartsLen(ss, f, k - 1) = T /\ k - 1 \in 0..(k - 1)
    <3>1. k - 1 \in 0..(k - 1)
      BY <1>1, <1>4
    <3>2. QED
      BY <1>5, <3>1 DEF PartsGrow
  <2> HIDE DEF v, T
  <2>3. T \in Nat /\ MaxAttrs \in Nat
    BY <2>2, QueryConstants
  <2>4. v <= MaxAttrs
    BY <2>1, <2>3
  <2>5. QED
    BY <2>4 DEF v
<1> HIDE DEF len, T
<1>10. CrossTakes(p, S, u, rest, m, len)
  BY <1>1, <1>4, <1>6, <1>8, <1>9 DEF CrossTakes
<1>11. CrossLen(q, p, S, u, rest, m, len)
  BY DEF CrossUpTo, CrossLen, u, rest, len, ss
<1> DEFINE t == StreamCrossAddInput(q, Len(p) + 1, rest[m + 1])
<1> HIDE DEF t
<1>12. CrossLen(t, p, S, u, rest, m + 1, len + Len(p[rest[m + 1]].out))
  <2>1. t = StreamCrossAddInput(q, Len(p) + 1, rest[m + 1])
    BY DEF t
  <2>2. QED
    BY <1>10, <1>11, <2>1, CrossTurn
<1>13. CrossOf(t, p, S, u, rest, m + 1) /\ Len(t[Len(t)].out) = PartsLen(ss, f, m + 1)
  BY <1>8, <1>12 DEF CrossLen
<1>14. QED
  BY <1>13 DEF CrossUpTo, t, u, rest, ss

(* What t_streamCross builds is the stream cross of all: its loop exists, and   *)
(* each of its turns adds one of the rest.                                     *)
LEMMA CrossForIs ==
  ASSUME NEW S, NEW L, NEW h, NEW r, NEW x, NEW f, Opened(pool, S, L, h, r, x, f),
         f = Min(NowInputs(x))
  PROVE  CrossUpTo(StreamCrossFor(x), pool, S, x, f, Len(pool[x].inputs) - 1)
<1> DEFINE ins == pool[x].inputs
           others == RemoveAt(ins, f)
           k == Len(others)
           N == Len(pool) + 1
           start == MkStreamCross(pool, Input(ins[f]))
           Turn(q, m) == StreamCrossAddInput(q, N, others[m])
           Step(g, m) == IF m = 0 THEN start ELSE Turn(g[m - 1], m)
           U(g) == [m \in 0..k |-> Step(g, m)]
           T == {j \in Nat : \E g : /\ g = [m \in 0..k |-> g[m]]
                                    /\ \A m \in 0..k : m <= j => g[m] = Step(g, m)}
           new == CHOOSE g : g = U(g)
<1>1. k \in Nat /\ k = Len(ins) - 1
  <2>1. ins \in Seq(1..Len(pool)) /\ f \in 1..Len(ins) /\ Len(ins) \in Nat
    <3>1. DOMAIN ins = 1..Len(ins) /\ x \in 1..Len(pool) /\ IsPool(pool, S) /\ Len(ins) \in Nat
      BY ProductInputs DEF Opened
    <3>2. IsOp(pool[x], Len(pool), S)
      BY <3>1 DEF IsPool
    <3>3. QED
      BY <3>1, <3>2 DEF Opened, IsOp
  <2> HIDE DEF ins
  <2>2. Len(RemoveAt(ins, f)) = Len(ins) - 1
    BY <2>1, RemoveAtType
  <2>3. QED
    BY <2>1, <2>2
<1>2. CrossUpTo(start, pool, S, x, f, 0)
  <2>1. CrossUpTo(MkStreamCross(pool, Under(pool, x, f)), pool, S, x, f, 0)
    BY UpToStart
  <2>2. Input(ins[f]) = Under(pool, x, f)
    BY DEF Under, Input
  <2>3. QED
    BY <2>1, <2>2
<1>3. ASSUME NEW m \in Nat, m < k, NEW q, CrossUpTo(q, pool, S, x, f, m)
      PROVE  CrossUpTo(Turn(q, m + 1), pool, S, x, f, m + 1)
  <2>1. m + 1 < Len(pool[x].inputs)
    <3>1. Len(ins) \in Nat
      BY ProductInputs DEF Opened
    <3> DEFINE l == Len(ins)
    <3>2. l \in Nat /\ k = l - 1 /\ m < k
      BY <1>1, <1>3, <3>1
    <3> HIDE DEF k, l, ins
    <3>3. m + 1 < l
      BY <3>2
    <3>4. QED
      BY <3>3 DEF l, ins
  <2>2. CrossUpTo(StreamCrossAddInput(q, Len(pool) + 1, Rest(pool, x, f)[m + 1]), pool, S, x, f, m + 1)
    BY <1>3, <2>1, UpToTurn
  <2>3. QED
    BY <2>2 DEF Rest
<1> HIDE DEF start, Turn, k, others, ins, N
<1>4. 0 \in T
  <2> DEFINE g == [m \in 0..k |-> start]
  <2>1. g = [m \in 0..k |-> g[m]]
    OBVIOUS
  <2>2. ASSUME NEW m \in 0..k, m <= 0 PROVE g[m] = Step(g, m)
    <3>1. m = 0
      BY <1>1, <2>2
    <3>2. QED
      BY <3>1
  <2> HIDE DEF g
  <2>3. QED
    BY <2>1, <2>2
<1>5. ASSUME NEW j \in Nat, j \in T PROVE j + 1 \in T
  <2>1. PICK g0 : /\ g0 = [m \in 0..k |-> g0[m]]
                  /\ \A m \in 0..k : m <= j => g0[m] = Step(g0, m)
    BY <1>5
  <2> DEFINE g == [m \in 0..k |-> Step(g0, m)]
  <2>2. g = [m \in 0..k |-> g[m]]
    OBVIOUS
  <2>3. \A m \in 0..k : g[m] = Step(g0, m)
    OBVIOUS
  <2> HIDE DEF g
  <2>4. ASSUME NEW m \in 0..k, m <= j + 1 PROVE g[m] = Step(g, m)
    <3>1. CASE m = 0
      BY <2>3, <3>1
    <3>2. CASE m # 0
      <4>1. m - 1 \in 0..k /\ m - 1 <= j
        BY <1>1, <2>4, <3>2
      <4>2. g[m - 1] = g0[m - 1]
        BY <2>1, <2>3, <4>1
      <4>3. QED
        BY <2>3, <3>2, <4>2
    <3>3. QED
      BY <3>1, <3>2
  <2>5. j + 1 \in Nat
    OBVIOUS
  <2>6. QED
    BY <2>2, <2>4, <2>5
<1>6. k \in T
  <2> HIDE DEF T
  <2>1. QED
    BY <1>1, <1>4, <1>5, InductiveSet
<1>7. \E g : g = U(g)
  <2>1. PICK g : /\ g = [m \in 0..k |-> g[m]]
                 /\ \A m \in 0..k : m <= k => g[m] = Step(g, m)
    BY <1>6
  <2>2. \A m \in 0..k : g[m] = Step(g, m)
    <3>1. \A m \in 0..k : m <= k
      BY <1>1
    <3> HIDE DEF Step
    <3>2. QED
      BY <2>1, <3>1
  <2>3. g = U(g)
    BY <2>1, <2>2
  <2>4. QED
    BY <2>3
<1>8. new = U(new)
  BY <1>7
<1> HIDE DEF new, T
<1>9. \A m \in 0..k : new[m] = Step(new, m)
  BY <1>8
<1> DEFINE R == {j \in Nat : j <= k => CrossUpTo(new[j], pool, S, x, f, j)}
<1>10. 0 \in R
  <2>1. new[0] = start
    BY <1>1, <1>9
  <2>2. QED
    BY <1>2, <2>1
<1>11. ASSUME NEW j \in Nat, j \in R PROVE j + 1 \in R
  <2>1. SUFFICES ASSUME j + 1 <= k PROVE CrossUpTo(new[j + 1], pool, S, x, f, j + 1)
    OBVIOUS
  <2>2. j < k /\ j <= k /\ j + 1 \in 0..k /\ (j + 1) - 1 = j /\ j + 1 # 0
    BY <1>1, <2>1
  <2>3. CrossUpTo(new[j], pool, S, x, f, j)
    BY <1>11, <2>2
  <2>4. new[j + 1] = Turn(new[j], j + 1)
    BY <1>9, <2>2
  <2>5. CrossUpTo(Turn(new[j], j + 1), pool, S, x, f, j + 1)
    BY <1>3, <2>2, <2>3
  <2>6. QED
    BY <2>4, <2>5
<1> HIDE DEF R
<1>12. Nat \subseteq R
  BY <1>10, <1>11, InductiveSet
<1>13. CrossUpTo(new[k], pool, S, x, f, k)
  <2>1. k \in R /\ k <= k
    BY <1>1, <1>12
  <2>2. QED
    BY <2>1 DEF R
<1>14. StreamCrossFor(x) = new[k]
  BY DEF StreamCrossFor, new, k, others, start, Turn, ins, N
<1>15. QED
  BY <1>1, <1>13, <1>14 DEF ins

Parts(u, rest, k) == {u} \cup {rest[j] : j \in 1..(k - 1)}

(* With the window left out with the product, the grafts are these.            *)
LEMMA OpenGrafts ==
  ASSUME NEW S, NEW p, NEW L, NEW h, NEW r, NEW x, NEW f, Opened(p, S, L, h, r, x, f),
         NEW d, d = p[x].inputs[f], NEW u, u = Under(p, x, f),
         NEW rest, rest = Rest(p, x, f), NEW k, k = Len(p[x].inputs)
  PROVE  Grafts(p, L, x, {d}) = Parts(u, rest, k)
<1> DEFINE ins == p[x].inputs
           G == Grafts(p, L, x, {d})
<1>1. Apart(p, L, x, f, d, u, rest, k)
  BY OpenedParts
<1>2. /\ k \in Nat /\ f \in 1..k /\ d \in L /\ p[d].output = x /\ p[d].inputs = <<u>>
      /\ u \in L /\ p[u].output = d /\ u # d /\ u # x
      /\ \A j \in 1..(k - 1) :
           /\ rest[j] = ins[IF j < f THEN j ELSE j + 1]
           /\ rest[j] \in L /\ p[rest[j]].output = x /\ rest[j] # d /\ rest[j] # x
  BY <1>1 DEF Apart
<1>3. Product(p, S, L, h, r, x)
  BY DEF Opened
<1>4. IsTree(p, L, h, r) /\ DOMAIN ins = 1..k /\ x \in 1..Len(p) /\ L \subseteq 1..Len(p)
  <2>1. DOMAIN ins = 1..k /\ x \in 1..Len(p) /\ L \subseteq 1..Len(p)
    BY <1>3, ProductInputs
  <2>2. QED
    BY <1>3, <2>1 DEF Product, Planted
<1>5. u \in G /\ \A j \in 1..(k - 1) : rest[j] \in G
  BY <1>2 DEF Grafts
<1>6. ASSUME NEW c \in G PROVE c \in Parts(u, rest, k)
  <2>1. c \in L /\ c # d /\ c # x /\ (p[c].output = d \/ p[c].output = x)
    BY DEF Grafts
  <2>2. c # r
    <3>1. p[c].output # 0
      BY <1>2, <1>4, <2>1
    <3>2. QED
      BY <1>4, <3>1 DEF IsTree
  <2>3. PICK i \in DOMAIN p[p[c].output].inputs : p[p[c].output].inputs[i] = c
    BY <1>4, <2>1, <2>2, ParentOf
  <2>4. CASE p[c].output = d
    <3>1. DOMAIN <<u>> = {1} /\ <<u>>[1] = u
      OBVIOUS
    <3>2. c = u
      BY <1>2, <2>3, <2>4, <3>1
    <3>3. QED
      BY <3>2 DEF Parts
  <2>5. CASE p[c].output = x
    <3>1. i \in 1..k /\ ins[i] = c /\ i # f
      BY <1>4, <2>1, <2>3, <2>5
    <3> DEFINE j == IF i < f THEN i ELSE i - 1
    <3>2. j \in 1..(k - 1) /\ (IF j < f THEN j ELSE j + 1) = i
      BY <1>2, <3>1
    <3> HIDE DEF j
    <3>3. rest[j] = c
      BY <1>2, <3>1, <3>2
    <3>4. QED
      BY <3>2, <3>3 DEF Parts
  <2>6. QED
    BY <2>1, <2>4, <2>5
<1>7. QED
  BY <1>5, <1>6 DEF Parts

CrossGrafted(q, p, L, x, d) ==
  /\ IsGraft(q, p, Len(p), L, x, {d}) /\ Covers(q[Len(q)].out, p[x].out)
  /\ Len(q) = Len(p) + 1 /\ q[Len(q)].kind = "streamCross"

(* The stream cross may take the place of the product and its first window.    *)
LEMMA CrossGraft ==
  ASSUME NEW S, NEW p, NEW L, NEW h, NEW r, NEW x, NEW f, Opened(p, S, L, h, r, x, f),
         NEW d, d = p[x].inputs[f],
         NEW q, CrossUpTo(q, p, S, x, f, Len(p[x].inputs) - 1)
  PROVE  CrossGrafted(q, p, L, x, d)
<1> DEFINE u == Under(p, x, f)
           rest == Rest(p, x, f)
           k == Len(p[x].inputs)
           n == Len(p)
           N == Len(q)
           G == Grafts(p, L, x, {d})
           ins == q[N].inputs
<1>1. Apart(p, L, x, f, d, u, rest, k) /\ G = Parts(u, rest, k)
  BY OpenedParts, OpenGrafts
<1>2. Product(p, S, L, h, r, x)
  BY DEF Opened
<1>3. Len(q[N].out) = Len(p[x].out)
  <2> DEFINE ss == InOuts(p, x)
  <2>1. ss \in Seq(Seq(S)) /\ k = Len(ss) /\ FlattenSeq(ss) = p[x].out
    BY <1>2, ProductInputs
  <2>2. f \in 1..k
    BY <1>1 DEF Apart
  <2>3. PartsGrow(ss, f, k)
    <3> HIDE DEF ss, k
    <3>1. QED
      BY <2>1, <2>2, PartsLens
  <2>4. PartsLen(ss, f, k - 1) = Len(FlattenSeq(ss))
    BY <2>3 DEF PartsGrow
  <2>5. Len(q[N].out) = PartsLen(ss, f, k - 1)
    BY DEF CrossUpTo
  <2>6. QED
    BY <2>1, <2>4, <2>5
<1>4. CrossOf(q, p, S, u, rest, k - 1)
  BY DEF CrossUpTo
<1> HIDE DEF u, rest, k
<1>5. /\ N = n + 1
      /\ \A o \in 1..n :
           /\ Alike(q[o], p[o]) /\ q[o].inputs = p[o].inputs
           /\ o # u /\ (\A j \in 1..(k - 1) : rest[j] # o) => q[o].output = p[o].output
      /\ q[u].output = N /\ \A j \in 1..(k - 1) : q[rest[j]].output = N
      /\ q[N].out = SchemaOf(q, N) /\ q[N].kind = "streamCross" /\ q[N].output = 0
  BY <1>4 DEF CrossOf, CrossHas
<1>6. /\ Len(ins) = (k - 1) + 1 /\ ins[1] = u
      /\ \A j \in 1..(k - 1) : ins[j + 1] = rest[j]
  BY <1>4 DEF CrossOf, CrossHas
<1>7. /\ k \in Nat /\ f \in 1..k /\ d \in L /\ p[d].output = x
      /\ \A j \in 1..(k - 1) : rest[j] # u
      /\ \A i, j \in 1..(k - 1) : rest[i] = rest[j] => i = j
  BY <1>1 DEF Apart
<1>8. n \in Nat /\ N \in Nat
  <2>1. n \in Nat
    BY <1>2, ProductInputs
  <2>2. QED
    BY <1>5, <2>1
<1> HIDE DEF n, N
<1>9. DOMAIN ins = 1..k
  <2>1. IsPool(q, S) /\ N \in 1..N /\ N = Len(q)
    BY <1>4, <1>5, <1>8 DEF CrossOf, N
  <2>2. ins \in Seq(1..N)
    BY <2>1 DEF IsPool, IsOp
  <2> HIDE DEF ins
  <2>3. (k - 1) + 1 = k
    BY <1>7
  <2>4. QED
    BY <1>6, <2>2, <2>3
<1> HIDE DEF ins
<1>10. ASSUME NEW i \in 1..k PROVE i = 1 \/ (i - 1 \in 1..(k - 1) /\ ins[i] = rest[i - 1])
  <2>1. CASE i = 1
    BY <2>1
  <2>2. CASE i # 1
    <3>1. i - 1 \in 1..(k - 1) /\ (i - 1) + 1 = i
      BY <1>7, <2>2
    <3>2. QED
      BY <1>6, <3>1
  <2>3. QED
    BY <2>1, <2>2
<1>11. \A i \in 1..k : ins[i] \in G /\ q[ins[i]].output = N
  <2>1. G = Parts(u, rest, k)
    BY <1>1
  <2>2. u \in G /\ \A j \in 1..(k - 1) : rest[j] \in G
    BY <2>1 DEF Parts
  <2> HIDE DEF G
  <2>3. ASSUME NEW i \in 1..k PROVE ins[i] \in G /\ q[ins[i]].output = N
    <3>1. CASE i = 1
      BY <1>5, <1>6, <2>2, <3>1
    <3>2. CASE i # 1
      <4>1. i - 1 \in 1..(k - 1) /\ ins[i] = rest[i - 1]
        BY <1>10, <3>2
      <4>2. QED
        BY <1>5, <2>2, <4>1
    <3>3. QED
      BY <3>1, <3>2
  <2>4. QED
    BY <2>3
<1>12. \A i, j \in 1..k : ins[i] = ins[j] => i = j
  <2>1. ASSUME NEW i \in 1..k, NEW j \in 1..k, ins[i] = ins[j] PROVE i = j
    <3>1. CASE i = 1 \/ j = 1
      <4>1. \A a \in 1..k : a # 1 => ins[a] # u
        <5>1. ASSUME NEW a \in 1..k, a # 1 PROVE ins[a] # u
          <6>1. a - 1 \in 1..(k - 1) /\ ins[a] = rest[a - 1]
            BY <1>10, <5>1
          <6>2. QED
            BY <1>7, <6>1
        <5>2. QED
          BY <5>1
      <4>2. ins[i] = u /\ ins[j] = u
        BY <1>6, <2>1, <3>1
      <4>3. QED
        BY <4>1, <4>2
    <3>2. CASE i # 1 /\ j # 1
      <4>1. i - 1 = j - 1
        BY <1>7, <1>10, <2>1, <3>2
      <4>2. QED
        BY <1>7, <4>1
    <3>3. QED
      BY <3>1, <3>2
  <2>2. QED
    BY <2>1
<1>13. ASSUME NEW c \in G PROVE q[c].output = N /\ c \in ToSet(ins)
  <2>1. \E i \in 1..k : ins[i] = c
    <3>1. CASE c = u
      <4>1. 1 \in 1..k
        BY <1>7
      <4>2. QED
        BY <1>6, <3>1, <4>1
    <3>2. CASE c # u
      <4>1. PICK j \in 1..(k - 1) : c = rest[j]
        BY <1>1, <3>2 DEF Parts
      <4>2. j + 1 \in 1..k
        BY <1>7
      <4>3. QED
        BY <1>6, <4>1, <4>2
    <3>3. QED
      BY <3>1, <3>2
  <2>2. QED
    BY <1>9, <1>11, <2>1 DEF ToSet
<1>14. News(q, n) = {N}
  BY <1>5, <1>8 DEF News, N
<1>15. \A o \in 1..n : o \notin G => q[o].output = p[o].output
  BY <1>1, <1>5 DEF Parts
<1>16. /\ IsInjective(ins)
       /\ \A i \in DOMAIN ins : GraftEdge(q, p, n, L, x, {d}, N, ins[i])
  BY <1>9, <1>11, <1>12 DEF IsInjective, GraftEdge, G
<1>17. IsGraft(q, p, n, L, x, {d})
  <2>1. Len(p) = n /\ Len(q) > n /\ Len(q) = N
    BY <1>5, <1>8 DEF n, N
  <2>2. \A o \in 1..n : /\ Alike(q[o], p[o]) /\ q[o].inputs = p[o].inputs
                        /\ o \notin Grafts(p, L, x, {d}) => q[o].output = p[o].output
    BY <1>5, <1>15 DEF G
  <2>3. \A e \in {d} : e \in L /\ p[e].output = x
    BY <1>7
  <2>4. \A w \in News(q, n) :
          /\ IsInjective(q[w].inputs) /\ q[w].out = SchemaOf(q, w)
          /\ \A i \in DOMAIN q[w].inputs : GraftEdge(q, p, n, L, x, {d}, w, q[w].inputs[i])
    BY <1>5, <1>14, <1>16 DEF ins
  <2>5. \A c \in Grafts(p, L, x, {d}) \cup (News(q, n) \ {Len(q)}) :
          q[c].output \in News(q, n) /\ c \in ToSet(q[q[c].output].inputs)
    BY <1>13, <1>14, <2>1 DEF ins, G
  <2>6. QED
    BY <1>5, <2>1, <2>2, <2>3, <2>4, <2>5 DEF IsGraft
<1>18. ToSet(p[x].out) \subseteq ToSet(q[N].out)
  <2> DEFINE ss == InOuts(p, x)
             tt == InOuts(q, N)
  <2>1. ss \in Seq(Seq(S)) /\ k = Len(ss) /\ FlattenSeq(ss) = p[x].out /\ IsPool(p, S)
    BY <1>2, ProductInputs DEF k
  <2>2. /\ k \in Nat /\ f \in 1..k /\ u \in 1..n /\ p[u].out = ss[f]
        /\ \A j \in 1..(k - 1) :
             rest[j] = p[x].inputs[IF j < f THEN j ELSE j + 1] /\ rest[j] \in 1..n
    BY <1>1 DEF Apart, n
  <2>3. \A i \in 1..k : ss[i] = p[p[x].inputs[i]].out
    BY <1>2, ProductInputs DEF k
  <2>4. \A o \in 1..n : q[o].out = p[o].out /\ q[o].out \in Seq(S)
    <3>1. \A o \in 1..Len(p) : p[o].out \in Seq(S)
      BY <2>1 DEF IsPool, IsOp
    <3>2. QED
      BY <1>5, <3>1 DEF Alike, n
  <2>5. \A i \in 1..k : tt[i] = q[ins[i]].out
    BY <1>9 DEF InOuts, ins
  <2>6. \A i \in 1..k : ins[i] \in 1..n
    <3>1. ASSUME NEW i \in 1..k PROVE ins[i] \in 1..n
      <4>1. CASE i = 1
        BY <1>6, <2>2, <4>1
      <4>2. CASE i # 1
        BY <1>10, <2>2, <4>2
      <4>3. QED
        BY <4>1, <4>2
    <3>2. QED
      BY <3>1
  <2>7. tt \in Seq(Seq(S)) /\ Len(tt) = k
    <3>1. tt = [i \in 1..k |-> q[ins[i]].out]
      BY <1>9 DEF InOuts, ins
    <3>2. \A i \in 1..k : q[ins[i]].out \in Seq(S)
      BY <2>4, <2>6
    <3> HIDE DEF tt
    <3>3. QED
      BY <2>2, <3>1, <3>2
  <2>8. q[N].out = FlattenSeq(tt)
    <3>1. q[N].out = SchemaOf(q, N) /\ q[N].kind = "streamCross"
      BY <1>5
    <3>2. SchemaOf(q, N) = JoinedSchemas(q, N)
      BY <3>1 DEF SchemaOf, Sources, BinOps
    <3>3. QED
      BY <3>1, <3>2 DEF JoinedSchemas, InOuts
  <2>9. ASSUME NEW i \in 1..k PROVE \E j \in 1..k : tt[j] = ss[i]
    <3>1. CASE i = f
      <4>1. 1 \in 1..k /\ tt[1] = ss[f]
        BY <1>6, <2>2, <2>4, <2>5
      <4>2. QED
        BY <3>1, <4>1
    <3>2. CASE i # f
      <4> DEFINE j == IF i < f THEN i ELSE i - 1
      <4>1. j \in 1..(k - 1) /\ j + 1 \in 1..k /\ (IF j < f THEN j ELSE j + 1) = i
        BY <2>2, <3>2
      <4> HIDE DEF j
      <4>2. ins[j + 1] = rest[j] /\ rest[j] = p[x].inputs[i] /\ rest[j] \in 1..n
        BY <1>6, <2>2, <4>1
      <4>3. tt[j + 1] = ss[i]
        BY <2>3, <2>4, <2>5, <4>1, <4>2
      <4>4. QED
        BY <4>1, <4>3
    <3>3. QED
      BY <3>1, <3>2
  <2> HIDE DEF ss, tt
  <2>10. /\ ToSet(p[x].out) = UNION {ToSet(ss[i]) : i \in 1..k}
         /\ ToSet(q[N].out) = UNION {ToSet(tt[i]) : i \in 1..k}
    BY <2>1, <2>7, <2>8, FlatMembers
  <2>11. QED
    BY <2>9, <2>10
<1>19. QED
  BY <1>3, <1>5, <1>17, <1>18 DEF CrossGrafted, Covers, n, N

(* What is left of the tree once the stream cross has its place in it: only the *)
(* operator above may have a schema that is not the one of its input.          *)
CrossPlaced(q, p, S, L, r, x, d, a) ==
  LET M == (L \ {d, x}) \cup {Len(q)}
  IN  /\ IsPool(q, S) /\ Len(q) = Len(p) + 1 /\ a \in M /\ \E g : IsTree(q, M, g, r)
      /\ FitSchemas(q, M) /\ Right(q, M, a) /\ q[Len(q)].kind = "streamCross"
      /\ \A o \in 1..Len(p) : q[o].kind = p[o].kind /\ q[o].arg = p[o].arg
      /\ AllKept(q, p) /\ Falls(q, p)

(* The stream product takes the place of the product, under what was over it. *)
LEMMA PlaceCross ==
  ASSUME NEW S, NEW p, NEW L, NEW h, NEW r, NEW x, NEW f, Opened(p, S, L, h, r, x, f),
         \A o \in L : p[o].kind \notin BinOps, x # r, p[p[x].output].kind \in Unary,
         NEW d, d = p[x].inputs[f],
         NEW q0, IsPool(q0, S), CrossGrafted(q0, p, L, x, d),
         NEW q, q = Replace(q0, x, Len(q0))
  PROVE  CrossPlaced(q, p, S, L, r, x, d, p[x].output)
<1> DEFINE n == Len(p)
           N == Len(q0)
           a == p[x].output
           G == Grafts(p, L, x, {d})
           M == (L \ {d, x}) \cup {N}
<1>1. /\ IsPool(p, S) /\ IsTree(p, L, h, r) /\ Schemas(p, L) /\ x \in L /\ L \subseteq 1..n /\ n \in Nat
      /\ x \in 1..n /\ d \in L /\ p[d].output = x /\ d # x /\ Planted(p, S, L, h, r)
  <2>1. Product(p, S, L, h, r, x) /\ f \in DOMAIN p[x].inputs
    BY DEF Opened
  <2>2. Planted(p, S, L, h, r) /\ x \in L
    BY <2>1 DEF Product
  <2>3. IsPool(p, S) /\ IsTree(p, L, h, r) /\ Schemas(p, L) /\ L \subseteq 1..n /\ n \in Nat
    BY <2>2 DEF Planted, IsTree, IsPool
  <2>4. p[x].inputs[f] \in L /\ p[p[x].inputs[f]].output = x /\ p[x].inputs[f] # x
    BY <2>1, <2>2, <2>3, ChildOf
  <2>5. QED
    BY <2>2, <2>3, <2>4
<1>2. a \in L /\ a # x /\ a # d /\ a \in 1..n
  <2>1. a \in L /\ h[x] < h[a]
    BY <1>1, ParentOf
  <2>2. h[d] < h[x]
    <3>1. h[p[x].inputs[f]] < h[x]
      BY <1>1, ChildOf DEF Opened
    <3>2. QED
      BY <3>1
  <2>3. h[x] \in Nat /\ h[a] \in Nat /\ h[d] \in Nat
    <3>1. \A o \in L : h[o] \in 1..n
      BY <1>1 DEF IsTree
    <3>2. \A o \in L : h[o] \in Nat
      BY <1>1, <3>1
    <3> HIDE DEF a
    <3>3. QED
      BY <1>1, <2>1, <3>2
  <2> HIDE DEF a
  <2>4. a # x /\ a # d
    BY <2>1, <2>2, <2>3
  <2>5. QED
    BY <1>1, <2>1, <2>4
<1>3. /\ IsGraft(q0, p, n, L, x, {d}) /\ Covers(q0[N].out, p[x].out) /\ N = n + 1
      /\ q0[N].kind = "streamCross" /\ News(q0, n) = {N}
  <2>1. /\ IsGraft(q0, p, n, L, x, {d}) /\ Covers(q0[N].out, p[x].out) /\ N = n + 1
        /\ q0[N].kind = "streamCross"
    BY DEF CrossGrafted
  <2>2. News(q0, n) = N..N /\ N \in Nat
    BY <1>1, <2>1 DEF News
  <2> HIDE DEF N, n
  <2>3. N..N = {N}
    BY <2>2
  <2>4. QED
    BY <2>1, <2>2, <2>3
<1>4. a # 0 /\ p[a].kind \in Unary
  BY <1>1, <1>2
<1>5. Regrown(q, q0, p, n, S, L, r, x, {d})
  <2> DEFINE D == {d}
  <2>1. IsGraft(q0, p, Len(p), L, x, D)
    BY <1>3
  <2>2. p[x].output # 0 => p[p[x].output].kind \in Unary
    BY <1>4
  <2> HIDE DEF D
  <2>3. Regrown(Replace(q0, x, Len(q0)), q0, p, Len(p), S, L, r, x, D)
    BY <1>1, <2>1, <2>2, GraftTree
  <2>4. QED
    BY <2>3 DEF D
<1>6. M = (L \ ({d} \cup {x})) \cup News(q0, n)
  BY <1>3
<1>7. \A o \in 1..n : Alike(q0[o], p[o]) /\ q0[o].inputs = p[o].inputs
  BY <1>3 DEF IsGraft
<1>8. q0[x].output = a
  <2>1. x \notin G
    BY DEF Grafts
  <2>2. QED
    BY <1>1, <1>3, <2>1 DEF IsGraft
<1> HIDE DEF n, N, a, G
<1>9. /\ IsPool(q, S) /\ Len(q) = N
      /\ \A o \in 1..N : Alike(q[o], q0[o]) /\ q[o].inputs = IF o = a THEN <<N>> ELSE q0[o].inputs
  BY <1>5, <1>8 DEF Regrown, Replaced, N
<1>10. N \in 1..N /\ N # a /\ \A o \in 1..n : o \in 1..N /\ o # N
  BY <1>1, <1>2, <1>3
<1>11. \A o \in 1..n : q[o].kind = p[o].kind /\ q[o].arg = p[o].arg /\ q[o].out = p[o].out
  BY <1>7, <1>9, <1>10 DEF Alike
<1>12. q[N].kind = "streamCross" /\ q[N].out = q0[N].out /\ q[a].inputs = <<N>> /\ q[N].out \in Seq(S)
  <2>1. q[N].kind = "streamCross" /\ q[N].out = q0[N].out
    BY <1>3, <1>9, <1>10 DEF Alike
  <2>2. q[a].inputs = <<N>>
    BY <1>2, <1>9, <1>10
  <2>3. q[N].out \in Seq(S)
    BY <1>9, <1>10 DEF IsPool, IsOp
  <2>4. QED
    BY <2>1, <2>2, <2>3
<1>13. PICK g : IsTree(q, M, g, r)
  <2>1. \E g : IsTree(q, (L \ ({d} \cup {x})) \cup News(q0, n), g, IF x = r THEN Len(q0) ELSE r)
    BY <1>5 DEF Regrown
  <2> HIDE DEF M
  <2>2. QED
    BY <1>6, <2>1
<1>14. \A o \in M : o # a => q[o].out = SchemaOf(q, o)
  <2>1. \A o \in (L \ ({d} \cup {x})) \cup News(q0, n) : o # p[x].output => q[o].out = SchemaOf(q, o)
    BY <1>5 DEF Regrown
  <2> HIDE DEF M
  <2>2. QED
    BY <1>6, <2>1 DEF a
<1>15. a \in M
  BY <1>2
<1>16. \A o \in M : q[o].kind \notin BinOps
  <2>1. \A o \in L : q[o].kind \notin BinOps
    BY <1>1, <1>11
  <2>2. q[N].kind \notin BinOps
    BY <1>12 DEF BinOps
  <2>3. QED
    BY <2>1, <2>2
<1>17. q[a].kind \in SchemaStops => q[a].out = SchemaOf(q, a)
  <2>1. SUFFICES ASSUME q[a].kind \in SchemaStops PROVE q[a].out = SchemaOf(q, a)
    OBVIOUS
  <2>2. q[a].kind = p[a].kind /\ q[a].arg = p[a].arg /\ q[a].out = p[a].out
    BY <1>2, <1>11
  <2>3. p[a].kind \in {"project", "groupAggr"}
    BY <1>4, <2>1, <2>2 DEF SchemaStops, Unary
  <2>4. SchemaOf(q, a) = SchemaOf(p, a)
    <3>1. CASE p[a].kind = "project"
      <4>1. q[a].kind = "project"
        BY <2>2, <3>1
      <4>2. /\ SchemaOf(q, a) = ProjectSchema(q[a].arg.exprs)
            /\ SchemaOf(p, a) = ProjectSchema(p[a].arg.exprs)
        <5>1. /\ "project" \notin Sources
              /\ "project" \notin BinOps
          BY DEF Sources, BinOps
        <5>2. SchemaOf(q, a) = ProjectSchema(q[a].arg.exprs)
          BY <4>1, <5>1 DEF SchemaOf
        <5>3. SchemaOf(p, a) = ProjectSchema(p[a].arg.exprs)
          BY <3>1, <5>1 DEF SchemaOf
        <5>4. QED
          BY <5>2, <5>3
      <4>3. QED
        BY <2>2, <4>2
    <3>2. CASE p[a].kind = "groupAggr"
      <4>1. q[a].kind = "groupAggr"
        BY <2>2, <3>2
      <4>2. /\ SchemaOf(q, a) = GroupSchema(q[a].arg.group, q[a].arg.aggrs)
            /\ SchemaOf(p, a) = GroupSchema(p[a].arg.group, p[a].arg.aggrs)
        <5>1. /\ "groupAggr" \notin Sources
              /\ "groupAggr" \notin BinOps
          BY DEF Sources, BinOps
        <5>2. SchemaOf(q, a) = GroupSchema(q[a].arg.group, q[a].arg.aggrs)
          BY <4>1, <5>1 DEF SchemaOf
        <5>3. SchemaOf(p, a) = GroupSchema(p[a].arg.group, p[a].arg.aggrs)
          BY <3>2, <5>1 DEF SchemaOf
        <5>4. QED
          BY <5>2, <5>3
      <4>3. QED
        BY <2>2, <4>2
    <3>3. QED
      BY <2>3, <3>1, <3>2
  <2>5. p[a].out = SchemaOf(p, a)
    BY <1>1, <1>2 DEF Schemas
  <2>6. QED
    BY <2>2, <2>4, <2>5
<1>18. ASSUME NEW o \in M, q[o].kind \notin SchemaStops
       PROVE  Covers(JoinedSchemas(q, o), q[o].out)
  <2>1. CASE o = a
    <3>1. q[a].kind = p[a].kind /\ q[a].out = p[a].out
      BY <1>2, <1>11
    <3>2. p[a].kind \in Copying
      BY <1>4, <1>18, <2>1, <3>1 DEF Copying, SchemaStops
    <3>3. p[p[a].inputs[1]].out = p[a].out
      BY <1>1, <1>2, <3>2, Handed
    <3>4. p[a].inputs[1] = x
      <4>1. PICK i \in DOMAIN p[a].inputs : p[a].inputs[i] = x
        BY <1>1, ParentOf DEF a
      <4>2. DOMAIN p[a].inputs = {1}
        BY <1>1, <1>2, <1>4, NodeOf
      <4>3. QED
        BY <4>1, <4>2
    <3>5. JoinedSchemas(q, a) = q[N].out
      <4>1. DOMAIN <<N>> = {1} /\ <<N>>[1] = N
        OBVIOUS
      <4>2. [i \in {1} |-> q[N].out] = <<q[N].out>>
        OBVIOUS
      <4>3. [i \in DOMAIN q[a].inputs |-> q[q[a].inputs[i]].out] = <<q[N].out>>
        BY <1>12, <4>1, <4>2
      <4>4. QED
        BY <1>12, <4>3, FlatSingle DEF JoinedSchemas
    <3>6. QED
      BY <1>3, <1>12, <2>1, <3>1, <3>3, <3>4, <3>5
  <2>2. CASE o # a
    <3>1. q[o].out = SchemaOf(q, o)
      BY <1>14, <2>2
    <3>2. SchemaOf(q, o) = JoinedSchemas(q, o)
      BY <1>18 DEF SchemaOf, SchemaStops
    <3>3. QED
      BY <3>1, <3>2 DEF Covers
  <2>3. QED
    BY <2>1, <2>2
<1>19. FitSchemas(q, M)
  BY <1>16, <1>18 DEF FitSchemas
<1>20. Right(q, M, a)
  BY <1>14, <1>17 DEF Right
<1> HIDE DEF M
<1>21. M = (L \ {d, x}) \cup {Len(q)} /\ Len(q) = Len(p) + 1 /\ q[Len(q)].kind = "streamCross"
  BY <1>3, <1>9, <1>12 DEF M, n
<1>22. AllKept(q, p)
  <2> DEFINE D == {d}
  <2>1. IsGraft(q0, p, Len(p), L, x, D) /\ ToSet(p[x].out) \subseteq ToSet(q0[Len(q0)].out)
    BY <1>3 DEF Covers, N, n
  <2>2. \A w \in News(q0, Len(p)) : q0[w].kind \notin Referring
    BY <1>3 DEF N, n, Referring
  <2>3. p[x].output # 0 => p[p[x].output].kind \in Unary
    BY <1>4
  <2>4. Replaced(q, q0, x, Len(q0))
    BY <1>5 DEF Regrown
  <2> HIDE DEF D
  <2>5. QED
    BY <1>1, <2>1, <2>2, <2>3, <2>4, GraftKeeps
<1>23. Falls(q, p)
  <2> DEFINE D == {d}
  <2>1. IsGraft(q0, p, Len(p), L, x, D) /\ Replaced(q, q0, x, Len(q0))
    BY <1>3, <1>5 DEF Regrown, N, n
  <2>2. \A w \in News(q0, Len(p)) : q0[w].kind \in Crosses
    BY <1>3 DEF N, n, Crosses
  <2>3. p[x].kind \in Crosses
    BY DEF Opened, Product
  <2> HIDE DEF D
  <2>4. QED
    BY <1>1, <2>1, <2>2, <2>3, GraftFalls
<1>24. QED
  BY <1>9, <1>11, <1>13, <1>15, <1>19, <1>20, <1>21, <1>22, <1>23 DEF CrossPlaced, a, n

(* t_streamCross.                                                            *)
LEMMA StreamCrossTree ==
  ASSUME Good(pool, plan), NEW cross, cross = Descend(Input(plan), OverCross),
         pool[plan].kind = "rstream", pool[cross].kind = "cross", NowInputs(cross) # {}
  PROVE  /\ Good(Uncap(ReplaceCross(cross)), ReplaceCross(cross)[plan].inputs[1])
         /\ SameArgs(Uncap(ReplaceCross(cross)), pool)
         /\ AllKept(Uncap(ReplaceCross(cross)), pool)
         /\ Falls(Uncap(ReplaceCross(cross)), pool)
<1>1. PICK S, L, h : Planted(pool, S, L, h, plan) /\ Pure(pool, L)
  BY DEF Good
<1> DEFINE n == Len(pool)
           top == Input(plan)
           f == Min(NowInputs(cross))
           d == pool[cross].inputs[f]
           a == pool[cross].output
           q0 == StreamCrossFor(cross)
           q1 == Replace(q0, cross, Len(q0))
           q2 == UpdateSchemaRecursive(q1, a)
           q3 == UpdateStreamPropertyRecursive(q2, a)
           Q == Uncap(q3)
           e == q3[plan].inputs[1]
           M == (L \ {d, cross}) \cup {Len(q1)}
           K == M \ {plan}
<1>2. /\ IsPool(pool, S) /\ IsTree(pool, L, h, plan) /\ Schemas(pool, L) /\ plan \in L
      /\ L \subseteq 1..n /\ n \in Nat
  BY <1>1 DEF Planted, IsTree, IsPool
<1>3. pool[plan].kind \in Copying
  BY DEF Copying, Unary, LogKinds, Sources, Crosses, BinOps, XStreams
<1>4. top \in L /\ top # plan /\ pool[top].output = plan
  <2>1. /\ pool[plan].inputs[1] \in L /\ pool[plan].inputs[1] # plan
        /\ pool[pool[plan].inputs[1]].output = plan
    BY <1>1, <1>2, <1>3, Handed
  <2>2. QED
    BY <2>1 DEF Input
<1>5. Reached(L, top, OverCross, cross)
  <2>1. OverCross \in SUBSET Unary
    BY DEF OverCross, Unary, LogKinds, Sources, Crosses, BinOps
  <2> HIDE DEF top
  <2>2. Reached(L, top, OverCross, Descend(top, OverCross))
    BY <1>1, <1>4, <2>1, Descends
  <2>3. QED
    BY <2>2 DEF top
<1>6. cross \in L /\ cross # plan /\ a \in L /\ pool[a].kind \in Unary
  <2>1. CASE cross = top
    <3>1. a = plan /\ pool[plan].kind \in Unary
      BY <1>3, <1>4, <2>1 DEF Copying
    <3>2. QED
      BY <1>2, <1>4, <2>1, <3>1
  <2>2. CASE cross # top
    <3>1. cross \in L /\ cross # plan /\ a \in L /\ pool[a].kind \in OverCross
      BY <1>5, <2>2 DEF Reached
    <3>2. pool[a].kind \in Unary
      BY <3>1 DEF OverCross, Unary, LogKinds, Sources, Crosses, BinOps
    <3>3. QED
      BY <3>1, <3>2
  <2>3. QED
    BY <2>1, <2>2
<1>7. Product(pool, S, L, h, plan, cross)
  BY <1>1, <1>6 DEF Product, Crosses
<1>8. Opened(pool, S, L, h, plan, cross, f)
  <2>1. NowInputs(cross) \subseteq DOMAIN pool[cross].inputs
    BY DEF NowInputs
  <2>2. NowInputs(cross) \in SUBSET Nat
    <3>1. DOMAIN pool[cross].inputs = 1..Len(pool[cross].inputs) /\ Len(pool[cross].inputs) \in Nat
      BY <1>7, ProductInputs
    <3>2. QED
      BY <2>1, <3>1
  <2>3. f \in NowInputs(cross)
    BY <2>2, Least
  <2> HIDE DEF f
  <2>4. f \in DOMAIN pool[cross].inputs /\ pool[pool[cross].inputs[f]].kind = "nowWin"
    BY <2>3 DEF NowInputs
  <2>5. QED
    BY <1>7, <2>4 DEF Opened
<1>9. CrossUpTo(q0, pool, S, cross, f, Len(pool[cross].inputs) - 1)
  <2>1. f = Min(NowInputs(cross))
    OBVIOUS
  <2> HIDE DEF f
  <2>2. QED
    BY <1>8, <2>1, CrossForIs
<1>10. IsPool(q0, S) /\ CrossGrafted(q0, pool, L, cross, d)
  <2>1. IsPool(q0, S)
    BY <1>9 DEF CrossUpTo, CrossOf
  <2> HIDE DEF f, q0
  <2>2. CrossGrafted(q0, pool, L, cross, d)
    BY <1>8, <1>9, CrossGraft
  <2>3. QED
    BY <2>1, <2>2
<1> HIDE DEF f, q0
<1>11. \A o \in L : pool[o].kind \notin BinOps
  <2>1. pool[cross].kind \in Crosses
    BY DEF Crosses
  <2>2. QED
    BY <1>1, <1>6, <2>1 DEF Pure
<1>12. CrossPlaced(q1, pool, S, L, plan, cross, d, a)
  <2>1. pool[pool[cross].output].kind \in Unary
    BY <1>6
  <2>2. CrossPlaced(q1, pool, S, L, plan, cross, d, pool[cross].output)
    <3> HIDE DEF d
    <3>1. d = pool[cross].inputs[f]
      BY DEF d
    <3>2. q1 = Replace(q0, cross, Len(q0))
      OBVIOUS
    <3> HIDE DEF q1
    <3>3. QED
      BY <1>6, <1>8, <1>10, <1>11, <2>1, <3>1, <3>2, PlaceCross
  <2>3. QED
    BY <2>2
<1> HIDE DEF q1
<1>13. /\ IsPool(q1, S) /\ Len(q1) = n + 1 /\ a \in M
       /\ FitSchemas(q1, M) /\ Right(q1, M, a) /\ q1[Len(q1)].kind = "streamCross"
       /\ \A o \in 1..n : q1[o].kind = pool[o].kind /\ q1[o].arg = pool[o].arg
       /\ AllKept(q1, pool) /\ Falls(q1, pool)
  BY <1>12 DEF CrossPlaced
<1>14. PICK g : IsTree(q1, M, g, plan)
  BY <1>12 DEF CrossPlaced
<1> HIDE DEF M, a
<1>15. Reschemed(q2, q1, S) /\ IsTree(q2, M, g, plan) /\ Schemas(q2, M)
  BY <1>13, <1>14, UpdateSchemas
<1> HIDE DEF q2
<1>16. IsPool(q2, S) /\ Len(q2) = n + 1
       /\ \A o \in 1..(n + 1) : q2[o].kind = q1[o].kind /\ q2[o].arg = q1[o].arg
  BY <1>13, <1>15 DEF Reschemed
<1>17. Restreamed(q3, q2, S)
  <2>1. a \in 0..Len(q2)
    <3>1. M \subseteq 1..Len(q2) /\ Len(q2) \in Nat
      BY <1>15, <1>16 DEF IsTree, IsPool
    <3>2. a \in 1..Len(q2)
      BY <1>13, <3>1
    <3>3. QED
      BY <3>1, <3>2
  <2>2. QED
    BY <1>16, <2>1, UpdateStreams
<1> HIDE DEF q3
<1>18. IsTree(q3, M, g, plan) /\ Schemas(q3, M)
  BY <1>15, <1>16, <1>17, RestreamTree
<1>19. /\ IsPool(q3, S) /\ Len(q3) = n + 1
       /\ \A o \in 1..(n + 1) : q3[o].kind = q2[o].kind /\ q3[o].arg = q2[o].arg
  BY <1>16, <1>17 DEF Restreamed, Alike
<1>20. /\ \A o \in 1..n : o \in 1..(n + 1)
       /\ n + 1 \in 1..(n + 1)
       /\ plan \in 1..n
  <2>1. n \in Nat /\ plan \in 1..n
    BY <1>2
  <2>2. ASSUME NEW m \in Nat
        PROVE  m + 1 \in 1..(m + 1) /\ \A o \in 1..m : o \in 1..(m + 1)
    OBVIOUS
  <2> HIDE DEF n
  <2>3. QED
    BY <2>1, <2>2
<1>21. \A o \in 1..n : q3[o].kind = pool[o].kind /\ q3[o].arg = pool[o].arg
  BY <1>13, <1>16, <1>19, <1>20
<1>22. q3[n + 1].kind \in Crosses
  <2>1. q1[n + 1].kind = "streamCross"
    BY <1>13
  <2>2. q3[n + 1].kind = "streamCross"
    BY <1>16, <1>19, <1>20, <2>1
  <2>3. QED
    BY <2>2 DEF Crosses
<1>23. Removed(Q, q3, S, M, g, plan, plan, e)
  <2>1. Planted(q3, S, M, g, plan)
    BY <1>18, <1>19 DEF Planted
  <2>2. q3[plan].kind \in Copying
    BY <1>3, <1>20, <1>21
  <2>3. QED
    BY <2>1, <2>2, UncapTree
<1> HIDE DEF Q, e
<1>24. /\ IsPool(Q, S) /\ Schemas(Q, K) /\ Len(Q) = n + 1
       /\ \A o \in 1..(n + 1) : Q[o].kind = q3[o].kind /\ Q[o].arg = q3[o].arg
  BY <1>19, <1>23 DEF Removed, Replaced, Alike
<1>25. PICK g2 : IsTree(Q, K, g2, e)
  BY <1>23 DEF Removed
<1>26. News(Q, n) = {n + 1}
  <2>1. News(Q, n) = (n + 1)..(n + 1)
    BY <1>24 DEF News
  <2> HIDE DEF n
  <2>2. QED
    BY <1>2, <2>1
<1>27. Producing(Q, pool)
  <2>1. Len(Q) >= n
    BY <1>2, <1>24
  <2>2. \A o \in 1..n : Q[o].kind = pool[o].kind /\ Q[o].arg = pool[o].arg
    BY <1>20, <1>21, <1>24
  <2>3. Q[n + 1].kind \in Crosses
    BY <1>20, <1>22, <1>24
  <2>4. QED
    BY <1>26, <2>1, <2>2, <2>3 DEF Producing
<1>28. SameArgs(Q, pool) /\ Pure(Q, K)
  <2>1. K \subseteq L \cup News(Q, Len(pool))
    BY <1>13, <1>26 DEF M
  <2>2. Len(pool) \in Nat /\ Len(Q) \in Nat /\ L \subseteq 1..Len(pool) /\ pool[cross].kind \in Crosses
    BY <1>2, <1>24 DEF Crosses
  <2> HIDE DEF K
  <2>3. QED
    BY <1>1, <1>6, <1>27, <2>1, <2>2, ProducingKeeps
<1>29. Good(Q, e)
  <2> HIDE DEF K
  <2>1. Planted(Q, S, K, g2, e)
    BY <1>24, <1>25 DEF Planted
  <2>2. QED
    BY <1>28, <2>1 DEF Good
<1>30. ReplaceCross(cross) = q3
  BY DEF ReplaceCross, Above, q3, q2, q1, q0, a
<1>31. AllKept(Q, pool)
  <2>1. AllKept(q2, q1)
    <3>1. Len(q2) = Len(q1) /\ Len(q1) \in Nat /\ \A o \in 1..Len(q1) : Enough(q2, q1, o)
      BY <1>13, <1>15 DEF Reschemed, Covers, Enough, IsPool
    <3>2. News(q2, Len(q1)) = {}
      BY <3>1 DEF News
    <3>3. QED
      BY <1>13, <3>1, <3>2, SameInputsKeep DEF AllKept
  <2>2. AllKept(q3, q2)
    BY <1>16, <1>17, RestreamedKeeps
  <2>3. AllKept(Q, q3)
    <3>1. Planted(q3, S, M, g, plan)
      BY <1>18, <1>19 DEF Planted
    <3>2. Removable(q3, plan, e) /\ plan \in M
      <4>1. q3[plan].kind \in Copying
        BY <1>3, <1>20, <1>21
      <4>2. IsTree(q3, M, g, plan)
        BY <1>18
      <4>3. plan \in M /\ q3[plan].output = 0
        BY <4>2 DEF IsTree
      <4>4. q3[q3[plan].inputs[1]].out = q3[plan].out /\ q3[plan].kind \in Unary
        BY <3>1, <4>1, <4>3, Handed
      <4>5. QED
        BY <4>3, <4>4 DEF Removable, e
    <3>3. QED
      BY <1>23, <3>1, <3>2, RemovedKeeps
  <2>4. QED
    BY <1>13, <2>1, <2>2, <2>3, KeptTwice
<1>32. Falls(Q, pool)
  <2>1. Falls(q2, q1)
    <3>1. Len(q2) = Len(q1) /\ \A o \in 1..Len(q1) : q2[o].kind = q1[o].kind /\ q2[o].inputs = q1[o].inputs
      BY <1>15 DEF Reschemed
    <3>2. QED
      BY <1>13, <3>1, SameEdgesFall
  <2>2. Falls(q3, q2)
    <3>1. Len(q3) = Len(q2) /\ \A o \in 1..Len(q2) : q3[o].kind = q2[o].kind /\ q3[o].inputs = q2[o].inputs
      BY <1>17 DEF Restreamed, Alike
    <3>2. QED
      BY <1>16, <3>1, SameEdgesFall
  <2>3. Falls(Q, q3)
    <3>1. Planted(q3, S, M, g, plan)
      BY <1>18, <1>19 DEF Planted
    <3>2. Removable(q3, plan, e) /\ plan \in M
      <4>1. q3[plan].kind \in Copying
        BY <1>3, <1>20, <1>21
      <4>2. IsTree(q3, M, g, plan)
        BY <1>18
      <4>3. plan \in M /\ q3[plan].output = 0
        BY <4>2 DEF IsTree
      <4>4. q3[q3[plan].inputs[1]].out = q3[plan].out /\ q3[plan].kind \in Unary
        BY <3>1, <4>1, <4>3, Handed
      <4>5. QED
        BY <4>3, <4>4 DEF Removable, e
    <3>3. QED
      BY <1>23, <3>1, <3>2, RemovedFalls
  <2>4. QED
    BY <1>13, <2>1, <2>2, <2>3, FallsTwice
<1>33. QED
  BY <1>28, <1>29, <1>30, <1>31, <1>32 DEF Q, e

-----------------------------------------------------------------------------
(* The naive plan.  A plan without operators of the kinds K.                  *)
Lacking(p, r, K) == \E S, L, h : Planted(p, S, L, h, r) /\ \A o \in L : p[o].kind \notin K

(* A new operator, of which nothing but the output of its inputs changes.      *)
NewLast(q, p, kind, arg) ==
  /\ Len(p) \in Nat /\ Len(q) = Len(p) + 1 /\ q[Len(q)].kind = kind /\ q[Len(q)].arg = arg
  /\ \A o \in 1..Len(p) : q[o].kind = p[o].kind /\ q[o].arg = p[o].arg

Capped(q, p, K, kind, arg) == Lacking(q, Len(q), K) /\ NewLast(q, p, kind, arg)

(* A plan under a new root.                                                  *)
LEMMA CapPlanted ==
  ASSUME NEW S, NEW p, NEW L, NEW h, NEW r, Planted(p, S, L, h, r),
         NEW K, \A o \in L : p[o].kind \notin K, NEW kind \in Unary, kind \notin K,
         NEW out, out \in Seq(S), Len(out) <= MaxAttrs, NEW stream \in BOOLEAN, NEW arg,
         FitsOver(p, r, kind, out, arg)
  PROVE  Capped(NewOp(p, kind, <<r>>, out, stream, arg), p, K, kind, arg)
<1> DEFINE n == Len(p)
           q == NewOp(p, kind, <<r>>, out, stream, arg)
           M == L \cup {n + 1}
<1>1. IsPool(p, S) /\ IsTree(p, L, h, r) /\ Schemas(p, L) /\ n \in Nat
  BY DEF Planted, IsPool
<1>2. r \in 1..n /\ L \subseteq 1..n
  BY <1>1 DEF IsTree
<1>3. NewFits(p, S, kind, <<r>>, out, stream)
  <2>1. <<r>> \in Seq(1..n) /\ Len(<<r>>) = 1
    BY <1>2
  <2>2. 1 <= MaxInputs
    BY InputsAssumption
  <2>3. kind \in LogKinds /\ kind \notin BinOps /\ kind \notin Sources
    BY DEF Unary
  <2>4. QED
    BY <1>1, <2>1, <2>2, <2>3 DEF NewFits
<1> HIDE DEF q
<1>4. /\ Grown(q, p, n, S, kind, <<r>>, out, arg)
      /\ \E g : IsTree(q, M, g, n + 1) /\ g[n + 1] = h[r] + 1
      /\ Schemas(q, M)
  <2>1. q = NewOp(p, kind, <<r>>, out, stream, arg)
    BY DEF q
  <2>2. Capping(q, p, S, L, h, r, kind, out, arg)
    BY <1>1, <1>3, <2>1, CapTree
  <2>3. QED
    BY <2>2 DEF Capping
<1>5. IsPool(q, S) /\ Len(q) = n + 1 /\ q[n + 1].kind = kind /\ q[n + 1].arg = arg
  BY <1>4 DEF Grown, Made
<1>6. \A o \in 1..n : q[o].kind = p[o].kind /\ q[o].arg = p[o].arg
  <2>1. \A o \in 1..n : q[o] = IF o \in ToSet(<<r>>) THEN [p[o] EXCEPT !.output = n + 1] ELSE p[o]
    BY <1>4 DEF Grown
  <2>2. \A o \in 1..n : DOMAIN p[o] = Fields
    BY <1>1 DEF IsPool, IsOp
  <2>3. QED
    BY <2>1, <2>2 DEF Fields
<1>7. PICK g : IsTree(q, M, g, n + 1)
  BY <1>4
<1>8. Planted(q, S, M, g, Len(q))
  BY <1>4, <1>5, <1>7 DEF Planted
<1>9. \A o \in M : q[o].kind \notin K
  BY <1>2, <1>5, <1>6
<1>10. Lacking(q, Len(q), K)
  BY <1>8, <1>9 DEF Lacking
<1>11. NewLast(q, p, kind, arg)
  BY <1>1, <1>5, <1>6 DEF NewLast
<1>12. QED
  BY <1>10, <1>11 DEF Capped, q

(* A root that hands on the schema of the plan under it.                      *)
LEMMA CapCopy ==
  ASSUME NEW p, NEW r, NEW K, Lacking(p, r, K), NEW kind \in Copying, kind \notin K,
         NEW stream, stream \in BOOLEAN \/ stream = p[r].stream, NEW arg
  PROVE  Capped(NewOp(p, kind, <<r>>, p[r].out, stream, arg), p, K, kind, arg)
<1>1. PICK S, L, h : Planted(p, S, L, h, r) /\ \A o \in L : p[o].kind \notin K
  BY DEF Lacking
<1>2. IsOp(p[r], Len(p), S)
  BY <1>1 DEF Planted, IsTree, IsPool
<1>3. p[r].out \in Seq(S) /\ Len(p[r].out) <= MaxAttrs /\ stream \in BOOLEAN
  BY <1>2 DEF IsOp
<1>4. kind \in Unary /\ FitsOver(p, r, kind, p[r].out, arg)
  BY DEF Copying, FitsOver
<1>5. QED
  BY <1>1, <1>3, <1>4, CapPlanted

(* A root with a schema of its own.                                          *)
LEMMA CapNew ==
  ASSUME NEW p, NEW r, NEW K, Lacking(p, r, K), NEW kind \in {"project", "groupAggr"}, kind \notin K,
         NEW out, IsList(out), Len(out) <= MaxAttrs,
         NEW stream, stream \in BOOLEAN \/ stream = p[r].stream, NEW arg,
         FitsOver(p, r, kind, out, arg)
  PROVE  Capped(NewOp(p, kind, <<r>>, out, stream, arg), p, K, kind, arg)
<1>1. PICK S, L, h : Planted(p, S, L, h, r) /\ \A o \in L : p[o].kind \notin K
  BY DEF Lacking
<1> DEFINE T == S \cup ToSet(out)
<1>2. out \in Seq(T)
  <2>1. out \in Seq(ToSet(out)) /\ ToSet(out) \subseteq T
    BY DEF IsList
  <2> HIDE DEF T
  <2>2. QED
    BY <2>1, WiderSeq
<1>3. IsPool(p, S) /\ IsPool(p, T)
  <2>1. S \subseteq T
    OBVIOUS
  <2> HIDE DEF T
  <2>2. QED
    BY <1>1, <2>1, WiderPool DEF Planted
<1> HIDE DEF T
<1>4. Planted(p, T, L, h, r)
  BY <1>1, <1>3 DEF Planted
<1>5. IsOp(p[r], Len(p), S)
  BY <1>1 DEF Planted, IsTree, IsPool
<1>6. stream \in BOOLEAN
  BY <1>5 DEF IsOp
<1>7. kind \in Unary
  BY DEF Unary, LogKinds, Sources, Crosses, BinOps
<1>8. QED
  BY <1>1, <1>2, <1>4, <1>6, <1>7, CapPlanted

-----------------------------------------------------------------------------
(* A table of the FROM clause: its source, under a window if it is a stream.   *)
(* The tree of a table grows beside what the pool had.                        *)
Beside(q, p, T, g) ==
  /\ Len(p) \in Nat /\ Len(q) > Len(p) /\ Planted(q, T, News(q, Len(p)), g, Len(q))
  /\ g[Len(q)] <= Len(q) - Len(p)
  /\ \A o \in 1..Len(p) : q[o] = p[o]
  /\ \A o \in News(q, Len(p)) : q[o].kind \in Sources \cup Windows

(* A table of the catalogue has attributes, and no more than a schema can have. *)
LEMMA TableAttrs ==
  ASSUME NEW table \in DOMAIN Tables
  PROVE  NumAttrs(table) \in Nat /\ 1 <= NumAttrs(table) /\ NumAttrs(table) <= MaxAttrs
         /\ IsStream(table) \in BOOLEAN
<1>1. IsTable(Tables[table]) /\ Len(Tables[table].attrs) \in 1..MaxAttrs /\ MaxAttrs \in Nat
  BY QueryConstants
<1>2. QED
  BY <1>1 DEF NumAttrs, IsStream, IsTable

Sourced(q, p, T, g) ==
  /\ Beside(q, p, T, g) /\ Len(q) = Len(p) + 1
  /\ q[Len(q)].kind \in Sources /\ q[Len(q)].inputs = <<>> /\ q[Len(q)].output = 0

(* A source beside the operators that are there, with the schema of its table. *)
LEMMA SourceBeside ==
  ASSUME NEW S, NEW p, IsPool(p, S), NEW var, NEW table \in DOMAIN Tables
  PROVE  \E T, g : S \subseteq T /\ Sourced(GetSource(p, var, table), p, T, g)
<1> DEFINE n == Len(p)
           m == NumAttrs(table)
           out == [a \in 1..m |-> NamedAttr(var, table, a)]
           T == S \cup {NamedAttr(var, table, a) : a \in 1..m}
           kind == IF IsStream(table) THEN "streamSource" ELSE "relnSource"
           arg == [var |-> var, table |-> table]
           q == NewOp(p, kind, <<>>, out, IsStream(table), arg)
           g == [o \in {n + 1} |-> 1]
<1>1. m \in Nat /\ m <= MaxAttrs /\ IsStream(table) \in BOOLEAN
  BY TableAttrs
<1>2. n \in Nat /\ IsPool(p, T) /\ S \subseteq T
  <2>1. S \subseteq T
    OBVIOUS
  <2> HIDE DEF T
  <2>2. QED
    BY <2>1, WiderPool DEF IsPool
<1>3. out \in Seq(T) /\ Len(out) = m
  <2>1. \A a \in 1..m : NamedAttr(var, table, a) \in T
    OBVIOUS
  <2> HIDE DEF T, m
  <2>2. QED
    BY <1>1, <2>1
<1>4. kind \in Sources /\ kind \in LogKinds /\ kind \notin Unary /\ kind \notin BinOps
  BY DEF Sources, LogKinds, Unary, BinOps
<1> HIDE DEF T, m, out, kind, arg
<1>5. NewFits(p, T, kind, <<>>, out, IsStream(table))
  <2>1. <<>> \in Seq(1..n) /\ Len(<<>>) = 0 /\ 0 <= MaxInputs
    BY InputsAssumption
  <2>2. QED
    BY <1>1, <1>2, <1>3, <1>4, <2>1 DEF NewFits
<1>6. Grown(q, p, n, T, kind, <<>>, out, arg)
  BY <1>5, NewOpType
<1> HIDE DEF q
<1>7. /\ IsPool(q, T) /\ Len(q) = n + 1 /\ q[n + 1].kind = kind
      /\ q[n + 1].inputs = <<>> /\ q[n + 1].output = 0
  BY <1>6 DEF Grown, Made
<1>8. \A o \in 1..n : q[o] = p[o]
  BY <1>6 DEF Grown, ToSet
<1>9. IsTree(q, {n + 1}, g, n + 1) /\ Schemas(q, {n + 1})
  <2>1. q[n + 1].kind \in Sources
    BY <1>4, <1>7
  <2> HIDE DEF n
  <2>2. QED
    BY <1>2, <1>7, <2>1, SourceTree
<1>10. News(q, n) = {n + 1}
  <2>1. News(q, n) = (n + 1)..(n + 1)
    BY <1>7 DEF News
  <2> HIDE DEF n
  <2>2. QED
    BY <1>2, <2>1
<1>11. g[Len(q)] <= Len(q) - n /\ Len(q) > n
  <2>1. g[n + 1] = 1
    OBVIOUS
  <2> HIDE DEF g, n
  <2>2. QED
    BY <1>2, <1>7, <2>1
<1>12. Planted(q, T, News(q, n), g, Len(q))
  <2> HIDE DEF g, n
  <2>1. QED
    BY <1>7, <1>9, <1>10 DEF Planted
<1>13. Beside(q, p, T, g)
  <2> HIDE DEF g
  <2>1. \A o \in News(q, n) : q[o].kind \in Sources \cup Windows
    BY <1>4, <1>7, <1>10
  <2>2. QED
    BY <1>2, <1>8, <1>11, <1>12, <2>1 DEF Beside
<1>14. GetSource(p, var, table) = q
  BY DEF GetSource, MkSource, q, kind, out, arg, m
<1> HIDE DEF g
<1>15. Sourced(q, p, T, g)
  BY <1>4, <1>7, <1>13 DEF Sourced
<1>16. QED
  BY <1>2, <1>14, <1>15

(* A window over such a source, with the same schema. *)
LEMMA WindowBeside ==
  ASSUME NEW T, NEW p, NEW q, NEW g, Beside(q, p, T, g), NEW kind \in Windows, NEW arg,
         NEW t, t = NewOp(q, kind, <<Len(q)>>, q[Len(q)].out, FALSE, arg)
  PROVE  \E f : Beside(t, p, T, f)
<1> DEFINE n == Len(p)
           m == Len(q)
           L == News(q, n)
           M == L \cup {m + 1}
<1>1. /\ n \in Nat /\ m > n /\ Planted(q, T, L, g, m) /\ g[m] <= m - n
      /\ \A o \in 1..n : q[o] = p[o]
      /\ \A o \in L : q[o].kind \in Sources \cup Windows
  BY DEF Beside
<1>2. IsPool(q, T) /\ IsTree(q, L, g, m) /\ Schemas(q, L) /\ m \in Nat /\ L = (n + 1)..m
  BY <1>1 DEF Planted, IsPool, News
<1>3. m \in 1..m /\ IsOp(q[m], m, T)
  BY <1>1, <1>2 DEF IsPool
<1>4. kind \in Unary /\ kind \in Copying
  BY DEF Copying, Unary, LogKinds, Windows, Sources, Crosses, BinOps
<1>5. NewFits(q, T, kind, <<m>>, q[m].out, FALSE)
  <2>1. <<m>> \in Seq(1..m) /\ Len(<<m>>) = 1 /\ 1 <= MaxInputs
    BY <1>3, InputsAssumption
  <2>2. q[m].out \in Seq(T) /\ Len(q[m].out) <= MaxAttrs
    BY <1>3 DEF IsOp
  <2>3. kind \in LogKinds /\ kind \notin BinOps /\ kind \notin Sources
    BY <1>4 DEF Unary
  <2>4. QED
    BY <1>2, <2>1, <2>2, <2>3 DEF NewFits
<1>6. FitsOver(q, m, kind, q[m].out, arg)
  BY <1>4 DEF FitsOver
<1>7. Capping(t, q, T, L, g, m, kind, q[m].out, arg)
  <2> HIDE DEF L, m
  <2>1. t = NewOp(q, kind, <<m>>, q[m].out, FALSE, arg)
    BY DEF m
  <2>2. QED
    BY <1>2, <1>4, <1>5, <1>6, <2>1, CapTree
<1>8. /\ Grown(t, q, m, T, kind, <<m>>, q[m].out, arg) /\ Schemas(t, M)
      /\ \E f : IsTree(t, M, f, m + 1) /\ f[m + 1] = g[m] + 1
  BY <1>7 DEF Capping
<1>9. PICK f : IsTree(t, M, f, m + 1) /\ f[m + 1] = g[m] + 1
  BY <1>8
<1>10. IsPool(t, T) /\ Len(t) = m + 1 /\ t[m + 1].kind = kind
  BY <1>8 DEF Grown, Made
<1>11. \A o \in 1..m : t[o] = IF o = m THEN [q[o] EXCEPT !.output = m + 1] ELSE q[o]
  <2>1. ToSet(<<m>>) = {m}
    BY DEF ToSet
  <2>2. QED
    BY <1>8, <2>1 DEF Grown
<1>12. \A o \in 1..n : t[o] = p[o]
  <2>1. \A o \in 1..n : o \in 1..m /\ o # m
    BY <1>1, <1>2
  <2>2. QED
    BY <1>1, <1>11, <2>1
<1>13. News(t, n) = M /\ m + 1 > n
  <2>1. News(t, n) = (n + 1)..(m + 1)
    BY <1>10 DEF News
  <2> HIDE DEF n, m, L
  <2>2. (n + 1)..(m + 1) = ((n + 1)..m) \cup {m + 1} /\ m + 1 > n
    BY <1>1, <1>2
  <2>3. QED
    BY <1>2, <2>1, <2>2
<1>14. \A o \in M : t[o].kind \in Sources \cup Windows
  <2>1. \A o \in L : o \in 1..m /\ DOMAIN q[o] = Fields
    BY <1>1, <1>2 DEF IsPool, IsOp
  <2>2. \A o \in L : t[o].kind = q[o].kind
    BY <1>11, <2>1 DEF Fields
  <2>3. QED
    BY <1>1, <1>10, <2>2
<1>15. f[m + 1] <= (m + 1) - n
  <2>1. g[m] \in Nat
    BY <1>2, <1>3, NodeOf DEF IsTree
  <2>2. g[m] + 1 <= (m + 1) - n
    BY <1>1, <1>2, <2>1
  <2>3. QED
    BY <1>9, <2>2
<1>16. Planted(t, T, M, f, m + 1)
  BY <1>8, <1>9, <1>10 DEF Planted
<1> HIDE DEF M
<1>17. Beside(t, p, T, f)
  BY <1>1, <1>10, <1>12, <1>13, <1>14, <1>15, <1>16 DEF Beside
<1>18. QED
  BY <1>17

(* A table of the FROM clause.                                               *)
LEMMA TableBeside ==
  ASSUME NEW S, NEW p, IsPool(p, S), NEW var, TableReady(var)
  PROVE  \E T, g : S \subseteq T /\ Beside(TablePlan(p, var), p, T, g)
<1> DEFINE table == query.tables[var]
           win == query.windows[var]
           q == GetSource(p, var, table)
<1>1. table \in DOMAIN Tables
  BY DEF TableReady
<1>2. PICK T, g : S \subseteq T /\ Beside(q, p, T, g)
  BY <1>1, SourceBeside DEF Sourced
<1> HIDE DEF q
<1>3. ASSUME NEW kind \in Windows, NEW arg
      PROVE  \E f : Beside(NewOp(q, kind, <<Len(q)>>, q[Len(q)].out, FALSE, arg), p, T, f)
  BY <1>2, WindowBeside
<1>4. /\ "rangeWin" \in Windows /\ "rowWin" \in Windows /\ "partnWin" \in Windows
      /\ "nowWin" \in Windows
  BY DEF Windows
<1>5. CASE ~IsStream(table)
  <2>1. TablePlan(p, var) = q
    BY <1>5 DEF TablePlan, q
  <2>2. QED
    BY <1>2, <2>1
<1>6. CASE IsStream(table)
  <2>1. win.type \in StreamWins /\ TablePlan(p, var) = ApplyWindow(q, win)
    BY <1>6 DEF TablePlan, TableReady, q
  <2> HIDE DEF win
  <2>2. CASE win.type = "RANGE"
    <3> DEFINE arg == [units |-> win.units]
    <3>1. ApplyWindow(q, win) = NewOp(q, "rangeWin", <<Len(q)>>, q[Len(q)].out, FALSE, arg)
      BY <2>2 DEF ApplyWindow, MkRangeWindow, CopySchema
    <3> HIDE DEF arg
    <3>2. \E f : Beside(NewOp(q, "rangeWin", <<Len(q)>>, q[Len(q)].out, FALSE, arg), p, T, f)
      BY <1>3, <1>4
    <3>3. QED
      BY <1>2, <2>1, <3>1, <3>2
  <2>3. CASE win.type = "ROW"
    <3> DEFINE arg == [rows |-> win.rows]
    <3>1. ApplyWindow(q, win) = NewOp(q, "rowWin", <<Len(q)>>, q[Len(q)].out, FALSE, arg)
      BY <2>3 DEF ApplyWindow, MkRowWindow, CopySchema
    <3> HIDE DEF arg
    <3>2. \E f : Beside(NewOp(q, "rowWin", <<Len(q)>>, q[Len(q)].out, FALSE, arg), p, T, f)
      BY <1>3, <1>4
    <3>3. QED
      BY <1>2, <2>1, <3>1, <3>2
  <2>4. CASE win.type = "PARTITION"
    <3> DEFINE arg == [attrs |-> LogAttrs(win.attrs), rows |-> win.rows]
    <3>1. ApplyWindow(q, win) = NewOp(q, "partnWin", <<Len(q)>>, q[Len(q)].out, FALSE, arg)
      BY <2>4 DEF ApplyWindow, MkPartnWindow, CopySchema
    <3> HIDE DEF arg
    <3>2. \E f : Beside(NewOp(q, "partnWin", <<Len(q)>>, q[Len(q)].out, FALSE, arg), p, T, f)
      BY <1>3, <1>4
    <3>3. QED
      BY <1>2, <2>1, <3>1, <3>2
  <2>5. CASE win.type = "NOW"
    <3>1. ApplyWindow(q, win) = MkNowWindow(q, Len(q))
      BY <2>5 DEF ApplyWindow
    <3>2. QED
      BY <1>2, <1>3, <1>4, <2>1, <3>1, ZenonT(60) DEF MkNowWindow, CopySchema
  <2>6. CASE win.type = "UNBOUNDED"
    <3>1. ApplyWindow(q, win) = q
      BY <2>6 DEF ApplyWindow
    <3>2. QED
      BY <1>2, <2>1, <3>1
  <2>7. QED
    BY <2>1, <2>2, <2>3, <2>4, <2>5, <2>6 DEF StreamWins
<1>7. QED
  BY <1>5, <1>6

(* A table brings no selection and no project.                               *)
LEMMA BesideArgs ==
  ASSUME NEW T, NEW p, NEW q, NEW g, Beside(q, p, T, g)
  PROVE  SameArgs(q, p)
<1>1. Len(p) \in Nat /\ Len(q) \in Nat
  BY DEF Beside, Planted, IsPool
<1>2. ASSUME NEW o \in 1..Len(q), q[o].kind \in {"select", "project"} PROVE o \in 1..Len(p)
  <2>1. o \notin News(q, Len(p))
    BY <1>2 DEF Beside, Sources, Windows
  <2>2. QED
    BY <1>1, <2>1 DEF News
<1>3. \A o \in 1..Len(p) : q[o] = p[o]
  BY DEF Beside
<1>4. QED
  BY <1>2, <1>3 DEF SameArgs

(* The pool is empty before a query (reset_op_pool). *)
LEMMA EmptyPool == IsPool(<<>>, {}) /\ Len(<<>>) = 0
BY DEF IsPool

(* A FROM clause of one table.                                               *)
LEMMA OneTableTree ==
  ASSUME pool = <<>>, TableReady(1), NEW q, q = TablePlan(pool, 1)
  PROVE  Lacking(q, Len(q), BinOps) /\ SameArgs(q, pool)
<1>1. PICK T, g : Beside(q, pool, T, g)
  BY EmptyPool, TableBeside
<1>2. SameArgs(q, pool)
  BY <1>1, BesideArgs
<1>3. /\ Planted(q, T, News(q, Len(pool)), g, Len(q))
      /\ \A o \in News(q, Len(pool)) : q[o].kind \in Sources \cup Windows
  BY <1>1 DEF Beside
<1>4. \A o \in News(q, Len(pool)) : q[o].kind \notin BinOps
  BY <1>3 DEF Sources, Windows, BinOps
<1>5. Lacking(q, Len(q), BinOps)
  BY <1>3, <1>4 DEF Lacking
<1>6. QED
  BY <1>2, <1>5

(* The product of the tables that come first, which was allocated before all.  *)
Joining(p) ==
  \E S, L, h : /\ Planted(p, S, L, h, 1) /\ p[1].kind = "cross"
               /\ \A o \in L : p[o].kind \notin BinOps

(* The product of the naive plan begins without inputs. *)
LEMMA FirstCross == Joining(MkCross(<<>>)) /\ SameArgs(MkCross(<<>>), <<>>)
<1> DEFINE q == MkCross(<<>>)
           h == [o \in {1} |-> 1]
<1>1. Grown(q, <<>>, 0, {}, "cross", <<>>, <<>>, NoArg) /\ Len(q) = 1
  <2>1. Grown(q, <<>>, Len(<<>>), {}, "cross", <<>>, <<>>, NoArg) /\ Len(q) = Len(<<>>) + 1
    BY EmptyPool, CrossIsLast
  <2>2. QED
    BY <2>1, EmptyPool
<1> HIDE DEF q
<1>2. /\ IsPool(q, {}) /\ q[1].kind = "cross" /\ q[1].inputs = <<>> /\ q[1].output = 0
      /\ q[1].out = <<>>
  BY <1>1 DEF Grown, Made
<1>3. IsInjective(<<>>) /\ DOMAIN <<>> = {}
  BY DEF IsInjective
<1>4. IsTree(q, {1}, h, 1)
  <2>1. h \in [{1} -> 1..Len(q)] /\ 1 \in 1..Len(q)
    BY <1>1
  <2> HIDE DEF h
  <2>2. QED
    BY <1>2, <1>3, <2>1 DEF IsTree
<1>5. Schemas(q, {1})
  <2>1. JoinedSchemas(q, 1) = FlattenSeq(<<>>)
    <3>1. [i \in DOMAIN q[1].inputs |-> q[q[1].inputs[i]].out] = <<>>
      BY <1>2
    <3>2. QED
      BY <3>1 DEF JoinedSchemas
  <2>2. FlattenSeq(<<>>) = <<>>
    BY DEF FlattenSeq
  <2>3. SchemaOf(q, 1) = JoinedSchemas(q, 1)
    BY <1>2 DEF SchemaOf, Sources, BinOps
  <2>4. QED
    BY <1>2, <2>1, <2>2, <2>3 DEF Schemas
<1> HIDE DEF h
<1>6. Planted(q, {}, {1}, h, 1)
  BY <1>2, <1>4, <1>5 DEF Planted
<1>7. \A o \in {1} : q[o].kind \notin BinOps
  BY <1>2 DEF BinOps
<1>8. Joining(q)
  BY <1>2, <1>6, <1>7 DEF Joining
<1>9. SameArgs(q, <<>>)
  BY <1>1, <1>2 DEF SameArgs
<1>10. QED
  BY <1>8, <1>9 DEF q

(* What the table brings to the pool takes nothing from it, and the product    *)
(* offers the attributes of the table then, with those that it had.           *)
Joined(t, q, p) ==
  /\ Keeps(q, p) /\ Keeps(t, q) /\ 1 <= Len(p) /\ Len(t) = Len(q)
  /\ ToSet(t[1].out) = ToSet(p[1].out) \cup ToSet(q[Len(q)].out)

(* A table more in the product, unless this refuses it.                       *)
LEMMA JoinTable ==
  ASSUME NEW p, Joining(p), NEW var, TableReady(var), NEW q, q = TablePlan(p, var),
         ~CrossRefuses(q, 1, Len(q), MaxAttrs), NEW t, t = CrossAddInput(q, 1, Len(q))
  PROVE  Joining(t) /\ SameArgs(t, p) /\ Joined(t, q, p)
<1> DEFINE n == Len(p)
           m == Len(q)
<1>1. PICK S, L, h : /\ Planted(p, S, L, h, 1) /\ p[1].kind = "cross"
                     /\ \A o \in L : p[o].kind \notin BinOps
  BY DEF Joining
<1>2. IsPool(p, S) /\ IsTree(p, L, h, 1) /\ Schemas(p, L) /\ n \in Nat
  BY <1>1 DEF Planted, IsPool
<1>3. PICK T, g : S \subseteq T /\ Beside(q, p, T, g)
  BY <1>2, TableBeside
<1> DEFINE M == News(q, n)
<1>4. /\ m > n /\ Planted(q, T, M, g, m) /\ g[m] <= m - n
      /\ \A o \in 1..n : q[o] = p[o]
      /\ \A o \in M : q[o].kind \in Sources \cup Windows
  BY <1>3 DEF Beside
<1>5. IsPool(q, T) /\ IsTree(q, M, g, m) /\ Schemas(q, M) /\ m \in Nat /\ M = (n + 1)..m
  BY <1>4 DEF Planted, IsPool, News
<1>6. L \subseteq 1..n /\ 1 \in L
  BY <1>2 DEF IsTree
<1>7. 1 \in 1..m /\ m \in 1..m /\ 1 # m /\ L \cap M = {}
  <2> HIDE DEF n, m
  <2>1. 1 <= n
    BY <1>2, <1>6
  <2>2. QED
    BY <1>2, <1>4, <1>5, <1>6, <2>1
<1>8. IsTree(q, L, h, 1) /\ Schemas(q, L)
  <2>1. n <= m /\ \A o \in L : q[o] = p[o]
    BY <1>2, <1>4, <1>5, <1>6
  <2>2. IsTree(q, L, h, 1) /\ (Schemas(p, L) => Schemas(q, L))
    BY <1>2, <1>5, <2>1, TreeKept
  <2>3. QED
    BY <1>2, <2>2
<1>9. q[1].kind = "cross" /\ \A o \in L \cup M : q[o].kind \notin BinOps
  <2>1. \A o \in L : q[o] = p[o]
    BY <1>4, <1>6
  <2>2. QED
    BY <1>1, <1>4, <1>6, <2>1 DEF Sources, Windows, BinOps
<1> HIDE DEF m, M
<1>10. Addable(q, 1, m)
  <2>1. IsOp(q[1], m, T)
    BY <1>5, <1>7 DEF IsPool, m
  <2>2. Len(q[1].inputs) \in Nat /\ Len(q[1].inputs) <= MaxInputs /\ MaxInputs \in Nat
    BY <2>1, InputsAssumption DEF IsOp
  <2>3. Len(q[1].inputs) # MaxInputs /\ ~(Len(q[1].out) + Len(q[m].out) > MaxAttrs)
    BY DEF CrossRefuses, m
  <2>4. Len(q[1].out) \in Nat /\ Len(q[m].out) \in Nat /\ MaxAttrs \in Nat
    <3>1. q[1].out \in Seq(T) /\ q[m].out \in Seq(T)
      BY <1>5, <1>7 DEF IsPool, IsOp, m
    <3>2. \A s \in Seq(T) : Len(s) \in Nat
      OBVIOUS
    <3>3. MaxAttrs \in Nat
      BY QueryConstants
    <3>4. QED
      BY <3>1, <3>2, <3>3
  <2>5. Len(q[1].inputs) < MaxInputs
    BY <2>2, <2>3
  <2>6. Len(q[1].out) + Len(q[m].out) <= MaxAttrs
    <3> DEFINE a == Len(q[1].out)
               b == Len(q[m].out)
    <3>1. a \in Nat /\ b \in Nat /\ ~(a + b > MaxAttrs)
      BY <2>3, <2>4
    <3> HIDE DEF a, b
    <3>2. a + b <= MaxAttrs
      BY <2>4, <3>1
    <3>3. QED
      BY <3>2 DEF a, b
  <2>7. QED
    BY <1>7, <1>9, <2>5, <2>6 DEF Addable, Crosses, m
<1>11. IsPool(t, T) /\ Added(t, q, 1, m)
  BY <1>5, <1>10, AddInput DEF m
<1>12. g[m] < Len(q)
  <2>1. g[m] \in Nat
    <3>1. m \in M
      BY <1>5 DEF IsTree
    <3>2. g[m] \in 1..Len(q)
      BY <1>5, <3>1, NodeOf
    <3>3. QED
      BY <3>2
  <2>2. 1 <= n
    BY <1>2, <1>6
  <2> HIDE DEF n
  <2>3. QED
    BY <1>2, <1>4, <1>5, <2>1, <2>2 DEF m
<1>13. (\E f : IsTree(t, L \cup M, f, 1)) /\ Schemas(t, L \cup M)
  BY <1>5, <1>7, <1>8, <1>10, <1>11, <1>12, CrossTree
<1>14. PICK f : IsTree(t, L \cup M, f, 1)
  BY <1>13
<1>15. \A o \in 1..m : t[o].kind = q[o].kind /\ t[o].arg = q[o].arg
  <2>1. DOMAIN q[m] = Fields
    BY <1>5, <1>7 DEF IsPool, IsOp, m
  <2>2. t[m].kind = q[m].kind /\ t[m].arg = q[m].arg
    BY <1>11, <2>1 DEF Added, Fields
  <2>3. t[1].kind = q[1].kind /\ t[1].arg = q[1].arg
    BY <1>11 DEF Added
  <2>4. \A o \in (1..m) \ {1, m} : t[o] = q[o]
    BY <1>11 DEF Added, m
  <2>5. QED
    BY <2>2, <2>3, <2>4
<1>16. L \cup M \subseteq 1..m /\ Len(t) = m
  BY <1>2, <1>4, <1>5, <1>6, <1>11 DEF Added, m
<1>17. Joining(t)
  <2>1. Planted(t, T, L \cup M, f, 1)
    BY <1>11, <1>13, <1>14 DEF Planted
  <2>2. t[1].kind = "cross" /\ \A o \in L \cup M : t[o].kind \notin BinOps
    BY <1>7, <1>9, <1>15, <1>16
  <2>3. QED
    BY <2>1, <2>2 DEF Joining
<1>18. SameArgs(t, p)
  <2>1. SameArgs(q, p)
    BY <1>3, BesideArgs
  <2>2. SameArgs(t, q)
    BY <1>15, <1>16, AlikeArgs DEF m
  <2>3. QED
    BY <2>1, <2>2, ArgsTwice
<1>19. Joined(t, q, p)
  <2>1. q[1].out \in Seq(T) /\ q[m].out \in Seq(T) /\ DOMAIN q[m] = Fields
    BY <1>5, <1>7 DEF IsPool, IsOp, m
  <2>2. t[1].out = q[1].out \o q[m].out
    BY <1>11 DEF Added
  <2>3. ToSet(t[1].out) = ToSet(q[1].out) \cup ToSet(q[m].out)
    <3>1. ToSet(q[1].out \o q[m].out) = ToSet(q[1].out) \cup ToSet(q[m].out)
      BY <2>1, ConcatMembers
    <3>2. QED
      BY <2>2, <3>1
  <2>4. 1 <= n /\ 1 \in 1..n /\ n <= m /\ m \in Nat
    BY <1>2, <1>4, <1>5, <1>6
  <2>5. Keeps(q, p)
    <3>1. \A o \in 1..n : Enough(q, p, o)
      BY <1>4 DEF Enough
    <3>2. Len(q) \in Nat /\ Len(p) <= Len(q)
      BY <2>4 DEF m
    <3>3. QED
      BY <1>2, <3>1, <3>2, SameInputsKeep
  <2>6. Keeps(t, q)
    <3>1. Enough(t, q, 1)
      BY <1>9, <1>11, <2>3 DEF Added, Enough, Referring
    <3>2. Enough(t, q, m)
      BY <1>11, <2>1 DEF Added, Enough, Fields
    <3>3. \A o \in (1..m) \ {1, m} : Enough(t, q, o)
      BY <1>11 DEF Added, Enough, m
    <3>4. \A o \in 1..m : Enough(t, q, o)
      BY <3>1, <3>2, <3>3
    <3>5. Len(t) \in Nat /\ Len(q) <= Len(t)
      BY <1>16, <2>4 DEF m
    <3>6. QED
      BY <1>5, <3>4, <3>5, SameInputsKeep DEF m
  <2>7. q[1] = p[1]
    BY <1>4, <2>4
  <2>8. QED
    BY <1>16, <2>3, <2>4, <2>5, <2>6, <2>7 DEF Joined, m
<1>20. QED
  BY <1>17, <1>18, <1>19

(* A plan of two tables, without products and without arguments.              *)
TwoTables(q) ==
  /\ Lacking(q, Len(q), Crosses) /\ SameArgs(q, <<>>)
  /\ \A o \in 1..Len(q) : q[o].kind \in Sources \cup BinOps

(* genBinOpPlan: the two sources under the union or the difference.           *)
LEMMA BinOpTree ==
  ASSUME NEW a \in DOMAIN Tables, NEW b \in DOMAIN Tables,
         NEW p, p = GetSource(GetSource(<<>>, 1, a), 1, b), NEW kind \in BinOps,
         NEW types, NEW stream, stream \in BOOLEAN \/ stream = (p[1].stream /\ p[2].stream),
         types = SchemaTypes(p[1].out),
         NEW q, q = NewOp(p, kind, <<1, 2>>, BinOpSchema(types), stream, NoArg)
  PROVE  TwoTables(q)
<1> DEFINE p1 == GetSource(<<>>, 1, a)
           L == {1, 2, 3}
           h == [o \in L |-> IF o = 3 THEN 2 ELSE 1]
<1>1. PICK T1, g1 : Sourced(p1, <<>>, T1, g1)
  <2>1. \E T1, g1 : {} \subseteq T1 /\ Sourced(GetSource(<<>>, 1, a), <<>>, T1, g1)
    BY EmptyPool, SourceBeside
  <2>2. QED
    BY <2>1
<1> HIDE DEF p1
<1>2. IsPool(p1, T1) /\ Len(p1) = 1
  BY <1>1, EmptyPool DEF Sourced, Beside, Planted
<1>3. PICK T, g2 : Sourced(p, p1, T, g2)
  <2>1. p = GetSource(p1, 1, b)
    BY DEF p1
  <2>2. \E T, g : T1 \subseteq T /\ Sourced(GetSource(p1, 1, b), p1, T, g)
    BY <1>2, SourceBeside
  <2>3. QED
    BY <2>1, <2>2
<1>4. IsPool(p, T) /\ Len(p) = 2
  BY <1>2, <1>3 DEF Sourced, Beside, Planted
<1>5. ASSUME NEW o \in {1, 2}
      PROVE  p[o].kind \in Sources /\ p[o].inputs = <<>> /\ p[o].output = 0
  <2>1. p[1] = p1[1]
    BY <1>2, <1>3 DEF Sourced, Beside
  <2>2. p[1].kind \in Sources /\ p[1].inputs = <<>> /\ p[1].output = 0
    BY <1>1, <1>2, <2>1 DEF Sourced
  <2>3. p[2].kind \in Sources /\ p[2].inputs = <<>> /\ p[2].output = 0
    BY <1>3, <1>4 DEF Sourced
  <2>4. QED
    BY <2>2, <2>3
<1>6. SameArgs(p, <<>>)
  <2>1. SameArgs(p, p1) /\ SameArgs(p1, <<>>)
    BY <1>1, <1>3, BesideArgs DEF Sourced
  <2>2. QED
    BY <2>1, ArgsTwice
<1> DEFINE out == BinOpSchema(types)
           U == T \cup ToSet(out)
<1>7. out \in Seq(U) /\ Len(out) <= MaxAttrs /\ IsPool(p, U) /\ stream \in BOOLEAN
  <2>1. IsOp(p[1], Len(p), T) /\ IsOp(p[2], Len(p), T)
    BY <1>4 DEF IsPool
  <2> DEFINE k == Len(p[1].out)
  <2>2. k \in Nat /\ k <= MaxAttrs /\ DOMAIN p[1].out = 1..k
    BY <2>1 DEF IsOp
  <2>3. out = [i \in 1..k |-> UnnamedAttr(types[i])]
    BY <2>2 DEF BinOpSchema, SchemaTypes
  <2> HIDE DEF out, k
  <2>4. out = [i \in 1..k |-> out[i]]
    BY <2>3
  <2>5. IsList(out) /\ Len(out) = k
    BY <2>2, <2>4, ListOf
  <2>6. out \in Seq(ToSet(out)) /\ ToSet(out) \subseteq U /\ T \subseteq U
    BY <2>5 DEF IsList
  <2>7. stream \in BOOLEAN
    BY <2>1 DEF IsOp
  <2> HIDE DEF U
  <2>8. out \in Seq(U)
    BY <2>6, WiderSeq
  <2>9. QED
    BY <1>4, <2>2, <2>5, <2>6, <2>7, <2>8, WiderPool
<1>8. kind \in LogKinds /\ kind \notin Unary /\ kind \notin Sources /\ kind \notin Crosses
      /\ kind \notin {"select", "project"}
  BY DEF Unary, BinOps, Sources, LogKinds, Crosses
<1> HIDE DEF out, U
<1>9. NewFits(p, U, kind, <<1, 2>>, out, stream)
  <2>1. <<1, 2>> \in Seq(1..Len(p)) /\ Len(<<1, 2>>) = 2
    BY <1>4
  <2>2. 2 <= MaxInputs
    BY InputsAssumption
  <2>3. QED
    BY <1>7, <1>8, <2>1, <2>2 DEF NewFits
<1>10. Grown(q, p, Len(p), U, kind, <<1, 2>>, out, NoArg)
  BY <1>9, NewOpType DEF out
<1> DEFINE n == Len(p)
<1>11. n = 2 /\ n + 1 = 3
  <2>1. n = 2
    BY <1>4
  <2> HIDE DEF n
  <2>2. QED
    BY <2>1
<1>12. /\ IsPool(q, U) /\ Len(q) = 3 /\ q[3].kind = kind /\ q[3].inputs = <<1, 2>>
       /\ q[3].output = 0 /\ q[3].out = out
  <2>1. /\ IsPool(q, U) /\ Len(q) = n + 1 /\ q[n + 1].kind = kind /\ q[n + 1].inputs = <<1, 2>>
        /\ q[n + 1].output = 0 /\ q[n + 1].out = out
    BY <1>10 DEF Grown, Made
  <2> HIDE DEF n
  <2>2. QED
    BY <1>11, <2>1
<1>13. ASSUME NEW o \in {1, 2}
       PROVE  /\ q[o].kind = p[o].kind /\ q[o].inputs = <<>> /\ q[o].output = 3
              /\ q[o].out = p[o].out /\ q[o].arg = p[o].arg /\ q[o].kind \in Sources
  <2>1. o \in 1..Len(p) /\ o \in ToSet(<<1, 2>>)
    BY <1>4, PairList
  <2>2. q[o] = [p[o] EXCEPT !.output = 3]
    <3>1. q[o] = [p[o] EXCEPT !.output = n + 1]
      BY <1>10, <2>1 DEF Grown
    <3> HIDE DEF n
    <3>2. QED
      BY <1>11, <3>1
  <2>3. DOMAIN p[o] = Fields
    BY <1>4, <2>1, SMTT(40) DEF IsPool, IsOp
  <2>4. QED
    BY <1>4, <1>5, <2>2, <2>3 DEF Fields
<1>14. IsTree(q, L, h, 3)
  <2>1. L \subseteq 1..Len(q) /\ 3 \in L /\ h \in [L -> 1..Len(q)]
    BY <1>12
  <2>2. h[1] < h[3] /\ h[2] < h[3] /\ 1 \in L /\ 2 \in L
    OBVIOUS
  <2>3. \A o \in L : o # 3 => o \in {1, 2}
    OBVIOUS
  <2>4. DOMAIN <<>> = {} /\ IsInjective(<<>>)
    BY DEF IsInjective
  <2>5. /\ DOMAIN q[3].inputs = {1, 2} /\ q[3].inputs[1] = 1 /\ q[3].inputs[2] = 2
        /\ IsInjective(q[3].inputs) /\ 1 \in ToSet(q[3].inputs) /\ 2 \in ToSet(q[3].inputs)
    BY <1>12, PairList
  <2> HIDE DEF h, L
  <2>6. \A o \in L : IsInjective(q[o].inputs)
    <3>1. \A o \in {1, 2} : q[o].inputs = <<>>
      BY <1>13
    <3>2. QED
      BY <2>3, <2>4, <2>5, <3>1
  <2>7. \A i \in DOMAIN q[3].inputs : Edge(q, L, h, 3, q[3].inputs[i])
    BY <1>13, <2>2, <2>5 DEF Edge
  <2>8. \A o \in L : \A i \in DOMAIN q[o].inputs : Edge(q, L, h, o, q[o].inputs[i])
    BY <1>13, <2>3, <2>4, <2>7, SMTT(40)
  <2>9. \A o \in L : o # 3 => q[o].output \in L /\ o \in ToSet(q[q[o].output].inputs)
    BY <1>13, <2>1, <2>3, <2>5
  <2>10. QED
    BY <1>12, <2>1, <2>6, <2>8, <2>9, ZenonT(60) DEF IsTree
<1>15. Schemas(q, L)
  <2>1. \A o \in {1, 2} : q[o].out = SchemaOf(q, o)
    BY <1>13 DEF SchemaOf, Sources, BinOps
  <2>2. Over(q, 3) = q[1]
    BY <1>12, PairList DEF Over
  <2>3. q[3].out = BinOpSchema(SchemaTypes(Over(q, 3).out))
    BY <1>12, <1>13, <2>2 DEF out
  <2>4. kind # "project" /\ kind # "groupAggr"
    BY DEF BinOps
  <2>5. q[3].out = SchemaOf(q, 3)
    BY <1>8, <1>12, <2>3, <2>4 DEF SchemaOf
  <2>6. QED
    BY <2>1, <2>5 DEF Schemas
<1>16. \A o \in L : q[o].kind \notin Crosses
  BY <1>8, <1>12, <1>13 DEF Sources, Crosses
<1> HIDE DEF L, h
<1>17. Lacking(q, Len(q), Crosses)
  <2>1. Planted(q, U, L, h, Len(q))
    BY <1>12, <1>14, <1>15 DEF Planted
  <2>2. QED
    BY <1>16, <2>1 DEF Lacking
<1>18. SameArgs(q, <<>>)
  <2>1. SameArgs(q, p)
    <3>1. \A o \in 1..3 : o \in {1, 2} \/ o = 3
      OBVIOUS
    <3>2. \A o \in 1..Len(q) : q[o].kind \in {"select", "project"} => o \in {1, 2}
      BY <1>8, <1>12, <3>1
    <3>3. \A o \in {1, 2} : o \in 1..Len(p)
      <4>1. \A o \in {1, 2} : o \in 1..2
        OBVIOUS
      <4>2. QED
        BY <1>11, <4>1
    <3>4. QED
      BY <1>13, <3>2, <3>3 DEF SameArgs
  <2>2. QED
    BY <1>6, <2>1, ArgsTwice, SMTT(40)
<1>19. \A o \in 1..Len(q) : q[o].kind \in Sources \cup BinOps
  <2>1. \A o \in 1..3 : o \in {1, 2} \/ o = 3
    OBVIOUS
  <2>2. \A o \in 1..Len(q) : q[o].kind \in Sources \cup {kind}
    BY <1>12, <1>13, <2>1
  <2>3. QED
    BY <2>2
<1>20. QED
  BY <1>17, <1>18, <1>19 DEF TwoTables

-----------------------------------------------------------------------------
(* What the clauses put over the tables.                                     *)

(* The list has an aggregation for each of the SELECT clause, and no other.    *)
AggrTerm(expr) == [attr |-> LogAttr(expr.attr), fn |-> expr.fn]
AggrTerms(n) == {AggrTerm(query.proj[k]) : k \in {k \in 1..n : query.proj[k].kind = "aggr"}}

(* The aggregations are collected in a list.                                 *)
LEMMA AggrsList ==
  ASSUME Len(query.proj) \in Nat
  PROVE  /\ IsList(CollectAggrs) /\ Len(CollectAggrs) \in Nat
         /\ ToSet(CollectAggrs) = AggrTerms(Len(query.proj))
<1> DEFINE n == Len(query.proj)
           Of(expr) == [attr |-> LogAttr(expr.attr), fn |-> expr.fn]
           Add(list, expr) == IF expr.kind # "aggr" \/ Contains(list, Of(expr)) THEN list
                              ELSE Append(list, Of(expr))
           B == {Of(query.proj[k]) : k \in 1..n}
           A == Seq(B)
           T(s, i) == Add(s, query.proj[i])
           start == <<>>
           U(f) == [i \in 0..n |-> IF i = 0 THEN start ELSE T(f[i - 1], i)]
           list == CHOOSE f : f = U(f)
<1>1. n \in Nat /\ start \in A
  OBVIOUS
<1>2. ASSUME NEW s \in A, NEW i \in 1..n PROVE T(s, i) \in A
  <2>1. Of(query.proj[i]) \in B
    OBVIOUS
  <2> HIDE DEF B, Of
  <2>2. QED
    BY <2>1
<1>3. ASSUME NEW i \in 1..n, NEW s \in A, ToSet(s) = AggrTerms(i - 1)
      PROVE  ToSet(T(s, i)) = AggrTerms(i)
  <2> DEFINE x == query.proj[i]
             y == AggrTerm(x)
  <2>1. y = Of(x) /\ y \in B
    BY DEF AggrTerm
  <2>2. \A k : k \in 1..i <=> k \in 1..(i - 1) \/ k = i
    BY <1>1
  <2>3. AggrTerms(i) = AggrTerms(i - 1) \cup (IF x.kind = "aggr" THEN {y} ELSE {})
    BY <2>2 DEF AggrTerms
  <2>4. Contains(s, y) <=> y \in ToSet(s)
    <3>1. DOMAIN s = 1..Len(s)
      OBVIOUS
    <3>2. QED
      BY <3>1 DEF Contains, ToSet
  <2>5. T(s, i) = IF x.kind # "aggr" \/ Contains(s, y) THEN s ELSE Append(s, y)
    BY <2>1
  <2>6. ToSet(Append(s, y)) = ToSet(s) \cup {y}
    <3> HIDE DEF B, y
    <3>1. s \in Seq(B) /\ y \in B
      BY <2>1
    <3>2. /\ Len(s) \in Nat /\ DOMAIN s = 1..Len(s) /\ DOMAIN Append(s, y) = 1..(Len(s) + 1)
          /\ Append(s, y)[Len(s) + 1] = y /\ \A k \in 1..Len(s) : Append(s, y)[k] = s[k]
      BY <3>1
    <3>3. \A k : k \in 1..(Len(s) + 1) <=> k \in 1..Len(s) \/ k = Len(s) + 1
      BY <3>2
    <3>4. QED
      BY <3>2, <3>3 DEF ToSet
  <2> HIDE DEF T, y, x
  <2>7. QED
    BY <1>3, <2>3, <2>4, <2>5, <2>6
<1> HIDE DEF A, T, start
<1>4. \E f : f = U(f)
  <2> DEFINE Turn == [x \in A \X (1..n) |-> T(x[1], x[2])]
  <2>1. Turns(n, A, start, Turn)
    BY <1>1, <1>2 DEF Turns
  <2>2. PICK f : Values(f, n, A, start, Turn)
    <3> HIDE DEF Turn, n
    <3>1. QED
      BY <2>1, Iteration
  <2>3. /\ f[0] = start /\ \A i \in 1..n : f[i] = T(f[i - 1], i)
    <3>1. \A i \in 1..n : i - 1 \in 0..n
      BY <1>1
    <3>2. \A i \in 1..n : f[i - 1] \in A
      BY <2>2, <3>1 DEF Values
    <3>3. QED
      BY <2>2, <3>2 DEF Values
  <2>4. f = U(f)
    <3>1. f = [i \in 0..n |-> f[i]]
      BY <2>2 DEF Values
    <3>2. \A i \in 0..n : i # 0 => i \in 1..n
      BY <1>1
    <3>3. \A i \in 0..n : f[i] = IF i = 0 THEN start ELSE T(f[i - 1], i)
      BY <2>3, <3>2
    <3>4. QED
      BY <3>1, <3>3
  <2>5. QED
    BY <2>4
<1>5. list = U(list)
  BY <1>4
<1> HIDE DEF list
<1>6. list[0] = start /\ \A i \in 1..n : list[i] = T(list[i - 1], i)
  <2>1. 0 \in 0..n /\ \A i \in 1..n : i \in 0..n /\ i # 0
    BY <1>1
  <2>2. \A i \in 0..n : list[i] = IF i = 0 THEN start ELSE T(list[i - 1], i)
    BY <1>5
  <2>3. QED
    BY <2>1, <2>2
<1>7. \A i \in 0..n : list[i] \in A
  BY <1>1, <1>2, <1>6, Throughout
<1>8. list[n] \in A
  BY <1>1, <1>7
<1>9. CollectAggrs = list[n]
  BY DEF CollectAggrs, list, T, start
<1>10. ToSet(CollectAggrs) = AggrTerms(n)
  <2> DEFINE I == {i \in Nat : i <= n => ToSet(list[i]) = AggrTerms(i)}
  <2>1. 0 \in I
    <3>1. ToSet(start) = {} /\ AggrTerms(0) = {}
      BY DEF start, ToSet, AggrTerms
    <3>2. QED
      BY <1>6, <3>1
  <2>2. ASSUME NEW i \in Nat, i \in I PROVE i + 1 \in I
    <3>1. SUFFICES ASSUME i + 1 <= n PROVE ToSet(list[i + 1]) = AggrTerms(i + 1)
      OBVIOUS
    <3>2. i + 1 \in 1..n /\ i \in 0..n /\ i <= n /\ (i + 1) - 1 = i
      BY <1>1, <3>1
    <3>3. ToSet(list[i]) = AggrTerms(i) /\ list[i] \in A
      BY <1>7, <2>2, <3>2
    <3>4. list[i + 1] = T(list[i], i + 1)
      BY <1>6, <3>2
    <3>5. ToSet(T(list[i], i + 1)) = AggrTerms(i + 1)
      BY <1>3, <3>2, <3>3
    <3>6. QED
      BY <3>4, <3>5
  <2> HIDE DEF I
  <2>3. Nat \subseteq I
    BY <2>1, <2>2, InductiveSet
  <2>4. n \in I
    BY <1>1, <2>3
  <2>5. QED
    BY <1>1, <1>9, <2>4 DEF I
<1>11. QED
  <2>1. CollectAggrs \in Seq(B)
    BY <1>8, <1>9 DEF A
  <2> HIDE DEF B
  <2>2. Len(CollectAggrs) \in Nat
    BY <2>1
  <2>3. \A k \in 1..Len(CollectAggrs) : CollectAggrs[k] \in B
    BY <2>1
  <2>4. CollectAggrs = [k \in 1..Len(CollectAggrs) |-> CollectAggrs[k]]
    BY <2>1
  <2>5. QED
    BY <1>10, <2>2, <2>4, ListOf

(* The schema of an aggregation is as long as its two lists.                  *)
LEMMA GroupList ==
  ASSUME NEW group, IsList(group), NEW aggrs, IsList(aggrs)
  PROVE  /\ IsList(GroupSchema(group, aggrs))
         /\ Len(GroupSchema(group, aggrs)) = Len(group) + Len(aggrs)
         /\ ToSet(GroupSchema(group, aggrs)) =
              ToSet(group) \cup {AggrOf(a.attr, a.fn) : a \in ToSet(aggrs)}
<1> DEFINE n == Len(aggrs)
           more == [a \in 1..n |-> AggrOf(aggrs[a].attr, aggrs[a].fn)]
           T == ToSet(group) \cup ToSet(more)
<1>1. n \in Nat /\ DOMAIN aggrs = 1..n
  BY ListElements
<1>2. GroupSchema(group, aggrs) = group \o more
  BY <1>1 DEF GroupSchema
<1> HIDE DEF n
<1>3. more = [a \in 1..n |-> more[a]]
  OBVIOUS
<1>4. ToSet(more) = {AggrOf(a.attr, a.fn) : a \in ToSet(aggrs)}
  BY <1>1 DEF ToSet
<1> HIDE DEF more
<1>5. IsList(more) /\ Len(more) = n
  BY <1>1, <1>3, ListOf
<1>6. group \in Seq(T) /\ more \in Seq(T)
  <2>1. /\ group \in Seq(ToSet(group)) /\ ToSet(group) \subseteq T
        /\ more \in Seq(ToSet(more)) /\ ToSet(more) \subseteq T
    BY <1>5 DEF IsList
  <2> HIDE DEF T
  <2>2. QED
    BY <2>1, WiderSeq
<1> HIDE DEF T
<1>7. group \o more \in Seq(T) /\ Len(group \o more) = Len(group) + n
  BY <1>5, <1>6, Concat
<1> DEFINE all == group \o more
<1>8. Len(all) \in Nat /\ all = [k \in 1..Len(all) |-> all[k]]
  <2>1. all \in Seq(T)
    BY <1>7
  <2> HIDE DEF all
  <2>2. QED
    BY <2>1
<1> HIDE DEF all
<1>9. IsList(all)
  BY <1>8, ListOf
<1>10. ToSet(all) = ToSet(group) \cup ToSet(more)
  BY <1>6, ConcatMembers DEF all
<1>11. QED
  BY <1>2, <1>7, <1>9, <1>4, <1>10 DEF all, n

(* applyPreds_n, a selection.                                                *)
LEMMA SelectCap ==
  ASSUME NEW p, NEW r, Lacking(p, r, BinOps), NEW arg
  PROVE  Capped(MkSelect(p, r, arg), p, BinOps, "select", arg)
<1>1. "select" \in Copying /\ "select" \notin BinOps
  BY DEF Copying, Unary, LogKinds, Sources, Crosses, BinOps
<1>2. QED
  BY <1>1, CapCopy DEF MkSelect, CopySchema

(* applyAggr_n, unless there are too many attributes.                         *)
LEMMA AggrCap ==
  ASSUME NEW p, NEW r, Lacking(p, r, BinOps), NEW group, IsList(group), NEW aggrs, IsList(aggrs),
         Len(group) + Len(aggrs) <= MaxAttrs
  PROVE  Capped(MkGroupAggr(p, r, group, aggrs), p, BinOps, "groupAggr",
                [group |-> group, aggrs |-> aggrs])
<1> DEFINE arg == [group |-> group, aggrs |-> aggrs]
           out == GroupSchema(group, aggrs)
<1>1. IsList(out) /\ Len(out) <= MaxAttrs
  BY GroupList
<1>2. "groupAggr" \notin BinOps /\ "groupAggr" \in {"project", "groupAggr"}
  BY DEF BinOps
<1>3. FitsOver(p, r, "groupAggr", out, arg)
  BY DEF FitsOver
<1>4. MkGroupAggr(p, r, group, aggrs) = NewOp(p, "groupAggr", <<r>>, out, FALSE, arg)
  BY DEF MkGroupAggr
<1> HIDE DEF arg, out
<1>5. Capped(NewOp(p, "groupAggr", <<r>>, out, FALSE, arg), p, BinOps, "groupAggr", arg)
  BY <1>1, <1>2, <1>3, CapNew
<1>6. QED
  BY <1>4, <1>5 DEF arg

(* doProjs_n, unless there are too many expressions.                          *)
LEMMA ProjectCap ==
  ASSUME NEW p, NEW r, Lacking(p, r, BinOps), NEW exprs, IsList(exprs), Len(exprs) <= MaxAttrs
  PROVE  Capped(MkProject(p, r, exprs), p, BinOps, "project", [exprs |-> exprs])
<1> DEFINE arg == [exprs |-> exprs]
           out == ProjectSchema(exprs)
<1>1. IsList(out) /\ Len(out) <= MaxAttrs
  <2>1. Len(exprs) \in Nat /\ DOMAIN exprs = 1..Len(exprs)
    BY ListElements
  <2>2. out = [e \in 1..Len(exprs) |-> IF IsAttrRef(exprs[e]) THEN exprs[e][1].attr
                                       ELSE UnnamedAttr(ExprType(exprs[e]))]
    BY <2>1 DEF ProjectSchema
  <2> HIDE DEF out
  <2>3. out = [e \in 1..Len(exprs) |-> out[e]]
    BY <2>2
  <2>4. QED
    BY <2>1, <2>3, ListOf
<1>2. "project" \notin BinOps /\ "project" \in {"project", "groupAggr"}
  BY DEF BinOps
<1>3. FitsOver(p, r, "project", out, arg)
  BY DEF FitsOver
<1>4. MkProject(p, r, exprs) = NewOp(p, "project", <<r>>, out, p[r].stream, arg)
  BY DEF MkProject
<1> HIDE DEF arg, out
<1>5. Capped(NewOp(p, "project", <<r>>, out, p[r].stream, arg), p, BinOps, "project", arg)
  BY <1>1, <1>2, <1>3, CapNew
<1>6. QED
  BY <1>4, <1>5 DEF arg

(* applyDistinct_n.                                                          *)
LEMMA DistinctCap ==
  ASSUME NEW p, NEW r, Lacking(p, r, BinOps)
  PROVE  Capped(MkDistinct(p, r), p, BinOps, "distinct", NoArg)
<1>1. "distinct" \in Copying /\ "distinct" \notin BinOps
  BY DEF Copying, Unary, LogKinds, Sources, Crosses, BinOps
<1>2. QED
  BY <1>1, CapCopy DEF MkDistinct, CopySchema

(* applyR2SOp_n, of a union too.                                             *)
LEMMA R2SCap ==
  ASSUME NEW p, NEW r, NEW K, K \in {BinOps, Crosses}, Lacking(p, r, K),
         query.r2s \in R2SOps, query.r2s # Absent
  PROVE  \E kind \in XStreams : Capped(R2S(p, r), p, K, kind, NoArg)
<1>1. ASSUME NEW kind \in XStreams
      PROVE  Capped(NewOp(p, kind, <<r>>, p[r].out, TRUE, NoArg), p, K, kind, NoArg)
  <2>1. kind \in Copying /\ kind \notin K
    BY DEF Copying, Unary, LogKinds, XStreams, Sources, Crosses, BinOps
  <2>2. QED
    BY <2>1, CapCopy
<1>2. "istream" \in XStreams /\ "dstream" \in XStreams /\ "rstream" \in XStreams
  BY DEF XStreams
<1>3. CASE query.r2s = "ISTREAM"
  <2>1. R2S(p, r) = NewOp(p, "istream", <<r>>, p[r].out, TRUE, NoArg)
    BY <1>3 DEF R2S, MkIstream, CopySchema
  <2>2. QED
    BY <1>1, <1>2, <2>1
<1>4. CASE query.r2s = "DSTREAM"
  <2>1. R2S(p, r) = NewOp(p, "dstream", <<r>>, p[r].out, TRUE, NoArg)
    BY <1>4 DEF R2S, MkDstream, CopySchema
  <2>2. QED
    BY <1>1, <1>2, <2>1
<1>5. CASE query.r2s = "RSTREAM"
  <2>1. R2S(p, r) = NewOp(p, "rstream", <<r>>, p[r].out, TRUE, NoArg)
    BY <1>5 DEF R2S, MkRstream, CopySchema
  <2>2. QED
    BY <1>1, <1>2, <2>1
<1>6. QED
  BY <1>3, <1>4, <1>5 DEF R2SOps

-----------------------------------------------------------------------------
(* The invariant.  A selection or a project whose expressions have one type.   *)
ArgTyped(op) ==
  /\ op.kind = "select" =>
       \E type \in Types : OfType(op.arg.left, type) /\ OfType(op.arg.right, type)
  /\ op.kind = "project" => \A e \in ToSet(op.arg.exprs) : OfType(e, ExprType(e))
ArgsTyped(p) == \A o \in 1..Len(p) : ArgTyped(p[o])

(* The pool p, the root r and the cursor c with which the function `next`      *)
(* starts: empty while the query is interpreted, the product of the tables    *)
(* joined so far, a plan without a union or without a product, a good tree.   *)
Shaped(p, r, c, next) ==
  /\ next # "overflow" /\ \E S : IsPool(p, S)
  /\ r \in 0..Len(p) /\ c \in Nat
  /\ next \in {"idle"} \cup Interpreting => p = <<>> /\ c = 0
  /\ next = "plan" =>
       IF c = 0 THEN p = <<>> ELSE Joining(p) /\ query.kind = "sfw" /\ c < Len(query.tables)
  /\ next \in {"preds", "aggr", "projs"} => Lacking(p, r, BinOps)
  /\ next = "distinct" => r = 0 \/ Lacking(p, r, BinOps)
  /\ next = "r2s" => Lacking(p, r, BinOps) \/ Lacking(p, r, Crosses)
  /\ next \in (Transforms \ {"push"}) \cup {"done"} => Good(p, r)
  /\ next = "push" => c # 0 /\ GoodAt(p, r, c)

CodeInv == step \in Steps /\ (rc # "ok" => step = "failed")
(* What is left of it once a grouping was given too many attributes.           *)
Spilt(p, r, c) ==
  /\ r \in 0..Len(p) /\ c \in Nat
  /\ \A o \in DOMAIN p :
       /\ p[o].kind \in LogKinds /\ p[o].stream \in BOOLEAN
       /\ p[o].output \in 0..Len(p) /\ Len(p[o].inputs) <= MaxInputs
       /\ Overfull(p[o]) => p[o].kind = "groupAggr"

PlanInv ==
  /\ CodeInv
  /\ IF step = "overflow" THEN Spilt(pool, plan, at)
     ELSE Shaped(pool, plan, at, step) /\ ArgsTyped(pool)

(* The arguments stay typed when none is new, and when the new one is.          *)
LEMMA TypedSame ==
  ASSUME NEW p, NEW q, ArgsTyped(p), SameArgs(q, p)
  PROVE  ArgsTyped(q)
<1> SUFFICES ASSUME NEW o \in 1..Len(q) PROVE ArgTyped(q[o])
  BY DEF ArgsTyped
<1>1. CASE q[o].kind \in {"select", "project"}
  <2>1. PICK x \in 1..Len(p) : p[x].kind = q[o].kind /\ p[x].arg = q[o].arg
    BY <1>1 DEF SameArgs
  <2>2. ArgTyped(p[x])
    BY DEF ArgsTyped
  <2>3. QED
    BY <2>1, <2>2, Zenon DEF ArgTyped
<1>2. CASE q[o].kind \notin {"select", "project"}
  BY <1>2 DEF ArgTyped
<1>3. QED
  BY <1>1, <1>2

(* A new operator with a typed predicate or projection leaves all of them typed. *)
LEMMA TypedNew ==
  ASSUME NEW p, NEW q, NEW kind, NEW arg, ArgsTyped(p), NewLast(q, p, kind, arg),
         NEW op, op.kind = kind, op.arg = arg, ArgTyped(op)
  PROVE  ArgsTyped(q)
<1> SUFFICES ASSUME NEW o \in 1..Len(q) PROVE ArgTyped(q[o])
  BY DEF ArgsTyped
<1>1. CASE o = Len(q)
  <2>1. q[o].kind = op.kind /\ q[o].arg = op.arg
    BY <1>1 DEF NewLast
  <2>2. QED
    BY <2>1, Zenon DEF ArgTyped
<1>2. CASE o # Len(q)
  <2>1. o \in 1..Len(p)
    BY <1>2 DEF NewLast
  <2>2. q[o].kind = p[o].kind /\ q[o].arg = p[o].arg /\ ArgTyped(p[o])
    BY <2>1 DEF NewLast, ArgsTyped
  <2>3. QED
    BY <2>2, Zenon DEF ArgTyped
<1>3. QED
  BY <1>1, <1>2

(* So does a new operator that has neither. *)
LEMMA TypedCap ==
  ASSUME NEW p, NEW q, NEW kind, NEW arg, ArgsTyped(p), NewLast(q, p, kind, arg),
         kind \notin {"select", "project"}
  PROVE  ArgsTyped(q)
<1>1. ArgTyped([kind |-> kind, arg |-> arg])
  BY DEF ArgTyped
<1>2. QED
  BY <1>1, TypedNew

(* A planted tree's pool and root.                                            *)
LEMMA Rooted ==
  ASSUME NEW p, NEW r, \E S, L, h : Planted(p, S, L, h, r)
  PROVE  (\E S : IsPool(p, S)) /\ r \in 1..Len(p) /\ r \in 0..Len(p) /\ r # 0
<1>1. PICK S, L, h : Planted(p, S, L, h, r)
  OBVIOUS
<1>2. IsPool(p, S) /\ r \in 1..Len(p) /\ Len(p) \in Nat
  BY <1>1 DEF Planted, IsTree, IsPool
<1>3. QED
  BY <1>2

(* What starts a step of each kind.                                           *)
LEMMA ShapedLacking ==
  ASSUME NEW p, NEW r, NEW c \in Nat, NEW next, Lacking(p, r, BinOps),
         next \in {"preds", "aggr", "projs", "distinct", "r2s"}
  PROVE  Shaped(p, r, c, next)
<1>1. (\E S : IsPool(p, S)) /\ r \in 0..Len(p)
  BY Rooted DEF Lacking
<1>2. QED
  BY <1>1 DEF Shaped, Interpreting, Transforms

(* A good tree is what every transformation but the push of a selection starts from. *)
LEMMA ShapedGood ==
  ASSUME NEW p, NEW r, NEW next, Good(p, r), next \in (Transforms \ {"push"}) \cup {"done"}
  PROVE  Shaped(p, r, 0, next)
<1>1. (\E S : IsPool(p, S)) /\ r \in 0..Len(p)
  BY Rooted DEF Good
<1>2. next \notin {"idle", "plan", "preds", "aggr", "projs", "distinct", "r2s", "push", "overflow"}
                 \cup Interpreting
  BY DEF Interpreting, Transforms
<1>3. QED
  BY <1>1, <1>2 DEF Shaped

(* A naive plan, with products or with a union but not both, is a good tree. *)
LEMMA LackingGood ==
  ASSUME NEW p, NEW r, Lacking(p, r, BinOps) \/ Lacking(p, r, Crosses)
  PROVE  Good(p, r)
BY DEF Lacking, Good, Pure

-----------------------------------------------------------------------------
(* Steps of the generator.                                                    *)
LEMMA GenerateKeeps ==
  ASSUME PlanInv, step \notin {"failed"}, NEW p, NEW r, NEW c, NEW next \in Steps,
         Shaped(p, r, c, next), ArgsTyped(p), Generate(p, r, c, next)
  PROVE  PlanInv'
<1>1. pool' = p /\ plan' = r /\ at' = c /\ step' = next /\ rc' = rc /\ query' = query
  BY DEF Generate
<1>2. Shaped(pool, plan, at, step)'
  BY <1>1 DEF Shaped
<1>3. ArgsTyped(pool)'
  BY <1>1
<1>4. CodeInv' /\ step' # "overflow"
  BY <1>1 DEF CodeInv, PlanInv, Shaped
<1>5. QED
  BY <1>2, <1>3, <1>4 DEF PlanInv

(* How a registration ends without a plan.                                    *)
LEMMA ShapedEnd ==
  ASSUME NEW p, NEW r, NEW c, NEW next, Shaped(p, r, c, next), NEW how, how \in {"crashed", "failed"}
  PROVE  Shaped(p, r, c, how)
<1>1. (\E S : IsPool(p, S)) /\ r \in 0..Len(p) /\ c \in Nat
  BY DEF Shaped
<1>2. how \notin {"idle", "plan", "preds", "aggr", "projs", "distinct", "r2s", "push", "done", "overflow"}
                 \cup Interpreting \cup Transforms
  BY DEF Interpreting, Transforms
<1>3. QED
  BY <1>1, <1>2 DEF Shaped

(* A limit that is met ends the query, or the process, with nothing more to say. *)
LEMMA StopKeeps ==
  ASSUME PlanInv, step \notin {"failed", "overflow"}, NEW how, how \in {"crashed", "failed"}, Stop(how)
  PROVE  PlanInv'
<1>1. /\ pool' = pool /\ plan' = plan /\ at' = at /\ step' = how /\ query' = query
      /\ how # "failed" => rc' = rc
  BY DEF Stop, planVars
<1>2. Shaped(pool, plan, at, how)
  BY ShapedEnd DEF PlanInv
<1>3. Shaped(pool, plan, at, step)'
  BY <1>1, <1>2 DEF Shaped
<1>4. ArgsTyped(pool)'
  BY <1>1 DEF PlanInv
<1>5. CodeInv'
  BY <1>1 DEF CodeInv, PlanInv, Steps, Ended, Fatal
<1>6. step' # "overflow"
  BY <1>1
<1>7. QED
  BY <1>3, <1>4, <1>5, <1>6, Zenon DEF PlanInv

(* A grouping with too many attributes over a sound pool leaves the rest of it sound. *)
LEMMA SpiltNew ==
  ASSUME NEW S, NEW p, IsPool(p, S), NEW r, r \in 1..Len(p), NEW out, NEW arg
  PROVE  LET q == NewOp(p, "groupAggr", <<r>>, out, FALSE, arg) IN Spilt(q, Len(q), 0)
<1> DEFINE n == Len(p)
           new == [kind |-> "groupAggr", inputs |-> <<r>>, output |-> 0, out |-> out,
                   stream |-> FALSE, arg |-> arg]
           q == NewOp(p, "groupAggr", <<r>>, out, FALSE, arg)
<1>1. Extended(q, p, n, new)
  BY NewOpIs
<1> HIDE DEF q
<1>2. n \in Nat /\ Len(q) = n + 1 /\ DOMAIN q = 1..(n + 1) /\ q[n + 1] = new
  BY <1>1 DEF Extended
<1>3. ASSUME NEW o \in 1..n
      PROVE  /\ q[o].kind = p[o].kind /\ q[o].stream = p[o].stream
             /\ q[o].inputs = p[o].inputs /\ q[o].out = p[o].out
             /\ q[o].output \in {p[o].output, n + 1}
  <2>1. q[o] = [p[o] EXCEPT !.output = n + 1] \/ q[o] = p[o]
    BY <1>1 DEF Extended
  <2>2. IsOp(p[o], n, S)
    BY DEF IsPool
  <2>3. QED
    BY <2>1, <2>2 DEF IsOp, Fields
<1>4. new.kind = "groupAggr" /\ new.stream = FALSE /\ new.output = 0 /\ new.inputs = <<r>>
  OBVIOUS
<1>5. new.kind \in LogKinds /\ new.stream \in BOOLEAN /\ Len(new.inputs) <= MaxInputs
  BY <1>4, InputsAssumption DEF LogKinds
<1>6. \A o \in 1..n : IsOp(p[o], n, S)
  BY DEF IsPool
<1> HIDE DEF new, n
<1>7. ASSUME NEW o \in 1..n
      PROVE  /\ q[o].kind \in LogKinds /\ q[o].stream \in BOOLEAN
             /\ q[o].output \in 0..(n + 1) /\ Len(q[o].inputs) <= MaxInputs /\ ~Overfull(q[o])
  <2>1. q[o].kind \in LogKinds /\ q[o].stream \in BOOLEAN /\ Len(q[o].inputs) <= MaxInputs
    BY <1>3, <1>6 DEF IsOp
  <2>2. p[o].output \in 0..n
    BY <1>6 DEF IsOp
  <2>3. q[o].output \in 0..(n + 1)
    BY <1>2, <1>3, <2>2
  <2>4. q[o].out \in Seq(S) /\ Len(q[o].out) <= MaxAttrs /\ MaxAttrs \in Nat
    BY <1>3, <1>6, QueryConstants DEF IsOp
  <2>5. Len(q[o].out) \in Nat
    BY <2>4
  <2>6. ~Overfull(q[o])
    BY <2>4, <2>5 DEF Overfull
  <2>7. QED
    BY <2>1, <2>3, <2>6
<1>8. ASSUME NEW o \in DOMAIN q
      PROVE  /\ q[o].kind \in LogKinds /\ q[o].stream \in BOOLEAN
             /\ q[o].output \in 0..(n + 1) /\ Len(q[o].inputs) <= MaxInputs
             /\ Overfull(q[o]) => q[o].kind = "groupAggr"
  <2>1. o \in 1..n \/ o = n + 1
    BY <1>2, <1>8
  <2>2. CASE o \in 1..n
    BY <1>7, <2>2
  <2>3. CASE o = n + 1
    <3>1. q[o] = new
      BY <1>2, <2>3
    <3>2. 0 \in 0..(n + 1)
      BY <1>2
    <3>3. QED
      BY <1>4, <1>5, <3>1, <3>2, Zenon
  <2>4. QED
    BY <2>1, <2>2, <2>3
<1>9. Len(q) \in 0..Len(q) /\ 0 \in Nat /\ n + 1 = Len(q)
  BY <1>2
<1>10. Spilt(q, Len(q), 0)
  BY <1>8, <1>9, Zenon DEF Spilt
<1>11. QED
  BY <1>10 DEF q

(* It ends the registration. *)
LEMMA SpillKeeps ==
  ASSUME PlanInv, step = "aggr", NEW S, IsPool(pool, S), plan \in 1..Len(pool), NEW out, NEW arg,
         NEW q, q = NewOp(pool, "groupAggr", <<plan>>, out, FALSE, arg),
         Generate(q, Len(q), 0, "overflow")
  PROVE  PlanInv'
<1>1. Spilt(q, Len(q), 0)
  BY SpiltNew
<1>2. pool' = q /\ plan' = Len(q) /\ at' = 0 /\ step' = "overflow" /\ rc' = rc
  BY DEF Generate
<1>3. CodeInv'
  BY <1>2 DEF PlanInv, CodeInv, Steps, Ended, Fatal
<1>4. Spilt(pool, plan, at)'
  BY <1>1, <1>2 DEF Spilt, Overfull
<1>5. QED
  BY <1>2, <1>3, <1>4 DEF PlanInv

(* A transformation that finds its pattern, and one that does not.             *)
LEMMA TransformKeeps ==
  ASSUME PlanInv, NEW now \in Transforms \ {"push"}, NEW next \in Transforms \ {"push"},
         NEW found \in BOOLEAN, NEW p, NEW r,
         found => Good(p, r) /\ SameArgs(p, pool), Transform(now, found, p, r, next)
  PROVE  PlanInv'
<1>1. step = now /\ Good(pool, plan) /\ ArgsTyped(pool)
  BY DEF Transform, PlanInv, Shaped, Transforms
<1>2. next \in Steps /\ step # "failed"
  BY <1>1 DEF Steps, Transforms
<1>3. CASE found
  <2>1. Generate(p, r, 0, next)
    BY <1>3 DEF Transform
  <2>2. Shaped(p, r, 0, next)
    BY <1>3, ShapedGood
  <2>3. ArgsTyped(p)
    BY <1>1, <1>3, TypedSame
  <2>4. QED
    BY <1>2, <2>1, <2>2, <2>3, GenerateKeeps
<1>4. CASE ~found
  <2>1. Generate(pool, plan, 0, next)
    BY <1>4 DEF Transform
  <2>2. Shaped(pool, plan, 0, next)
    BY <1>1, ShapedGood
  <2>3. QED
    BY <1>1, <1>2, <2>1, <2>2, GenerateKeeps
<1>5. QED
  BY <1>3, <1>4

(* joinTables_n.                                                              *)
LEMMA OneTableStep ==
  ASSUME PlanInv, QueryInv, step = "plan", query.kind = "sfw", OneTable
  PROVE  PlanInv'
<1> DEFINE q == TablePlan(pool, 1)
<1>1. Len(query.tables) = 1 /\ Generate(q, Len(q), 0, "preds")
  BY DEF OneTable
<1>2. pool = <<>>
  <2>1. at \in Nat /\ (at # 0 => at < 1)
    BY <1>1 DEF PlanInv, Shaped
  <2>2. QED
    BY <2>1 DEF PlanInv, Shaped
<1>3. TableReady(1)
  <2>1. IsList(query.tables)
    BY DEF QueryInv, Naive, TablesReady
  <2>2. 1 \in DOMAIN query.tables
    BY <1>1, <2>1, ListElements
  <2>3. QED
    BY <2>2 DEF QueryInv, Naive
<1>4. Lacking(q, Len(q), BinOps) /\ SameArgs(q, pool)
  BY <1>2, <1>3, OneTableTree
<1> HIDE DEF q
<1>5. Shaped(q, Len(q), 0, "preds")
  BY <1>4, ShapedLacking
<1>6. ArgsTyped(q)
  BY <1>4, TypedSame DEF PlanInv
<1>7. "preds" \in Steps
  BY DEF Steps, Naive
<1>8. QED
  BY <1>1, <1>5, <1>6, <1>7, GenerateKeeps

(* The naive plan's loop over FROM, table by table and then to the next clause. *)
LEMMA NextTableStep ==
  ASSUME PlanInv, QueryInv, step = "plan", query.kind = "sfw", NextTable
  PROVE  PlanInv'
<1> DEFINE p == IF at = 0 THEN MkCross(pool) ELSE pool
           q == TablePlan(p, at + 1)
           t == CrossAddInput(q, 1, Len(q))
           last == at + 1 = Len(query.tables)
           c == IF last THEN 0 ELSE at + 1
           next == IF last THEN "preds" ELSE "plan"
<1>1. /\ Len(query.tables) > 1
      /\ IF CrossRefuses(q, 1, Len(q), MaxAttrs) THEN Stop("failed") ELSE Generate(t, 1, c, next)
  BY DEF NextTable
<1>2. at \in Nat /\ at < Len(query.tables) /\ Len(query.tables) \in Nat
  <2>1. IsList(query.tables)
    BY DEF QueryInv, Naive, TablesReady
  <2>2. Len(query.tables) \in Nat
    BY <2>1, ListElements
  <2>3. at \in Nat /\ (at # 0 => at < Len(query.tables))
    BY DEF PlanInv, Shaped
  <2>4. QED
    BY <1>1, <2>2, <2>3
<1>3. TableReady(at + 1)
  <2>1. IsList(query.tables)
    BY DEF QueryInv, Naive, TablesReady
  <2>2. at + 1 \in DOMAIN query.tables
    BY <1>2, <2>1, ListElements
  <2>3. QED
    BY <2>2 DEF QueryInv, Naive
<1>4. Joining(p) /\ SameArgs(p, pool)
  <2>1. CASE at = 0
    <3>1. pool = <<>>
      BY <2>1 DEF PlanInv, Shaped
    <3>2. QED
      BY <2>1, <3>1, FirstCross
  <2>2. CASE at # 0
    <3>1. Joining(pool)
      BY <2>2 DEF PlanInv, Shaped
    <3>2. QED
      BY <2>2, <3>1 DEF SameArgs
  <2>3. QED
    BY <2>1, <2>2
<1>5. ArgsTyped(p)
  BY <1>4, TypedSame DEF PlanInv
<1> HIDE DEF p, q, t
<1>6. CASE CrossRefuses(q, 1, Len(q), MaxAttrs)
  BY <1>1, <1>6, StopKeeps
<1>7. CASE ~CrossRefuses(q, 1, Len(q), MaxAttrs)
  <2>1. q = TablePlan(p, at + 1) /\ t = CrossAddInput(q, 1, Len(q))
    BY DEF q, t
  <2>2. Joining(t) /\ SameArgs(t, p)
    BY <1>3, <1>4, <1>7, <2>1, JoinTable
  <2>3. ArgsTyped(t)
    BY <1>5, <2>2, TypedSame
  <2>4. Lacking(t, 1, BinOps)
    BY <2>2 DEF Joining, Lacking
  <2>5. Shaped(t, 1, c, next)
    <3>1. CASE last
      BY <2>4, <3>1, ShapedLacking
    <3>2. CASE ~last
      <4>1. (\E S : IsPool(t, S)) /\ 1 \in 0..Len(t)
        BY <2>4, Rooted DEF Lacking
      <4>2. at + 1 \in Nat /\ at + 1 # 0 /\ at + 1 < Len(query.tables)
        BY <1>2, <3>2
      <4>3. QED
        BY <2>2, <3>2, <4>1, <4>2 DEF Shaped, Interpreting, Transforms
    <3>3. QED
      BY <3>1, <3>2
  <2>6. next \in Steps
    BY DEF Steps, Naive
  <2>7. Generate(t, 1, c, next)
    BY <1>1, <1>7
  <2> HIDE DEF c, next
  <2>8. QED
    BY <2>3, <2>5, <2>6, <2>7, GenerateKeeps
<1>8. QED
  BY <1>6, <1>7

(* A step that leaves the pool as it is.                                       *)
LEMMA PassKeeps ==
  ASSUME PlanInv, step \notin {"failed", "overflow"}, NEW next \in Steps,
         Shaped(pool, plan, 0, next), Generate(pool, plan, 0, next)
  PROVE  PlanInv'
BY GenerateKeeps DEF PlanInv

(* A predicate of the WHERE clause.                                           *)
LEMMA PredsStep ==
  ASSUME PlanInv, QueryInv, ApplyPreds PROVE PlanInv'
<1> DEFINE arg == LogBExpr(query.preds[at + 1])
           q == MkSelect(pool, plan, arg)
<1>1. /\ step = "preds"
      /\ IF at < Len(query.preds) THEN Generate(q, Len(q), at + 1, "preds") ELSE Generate(pool, plan, 0, "aggr")
  BY DEF ApplyPreds
<1>2. Lacking(pool, plan, BinOps) /\ at \in Nat /\ ArgsTyped(pool)
  BY <1>1 DEF PlanInv, Shaped
<1>3. "preds" \in Steps /\ "aggr" \in Steps /\ step # "failed"
  BY <1>1 DEF Steps, Naive
<1>4. CASE at < Len(query.preds)
  <2>1. Capped(q, pool, BinOps, "select", arg)
    BY <1>2, SelectCap
  <2>2. IsList(query.preds) /\ \A k \in DOMAIN query.preds : PredSound(query.preds[k])
    BY <1>1 DEF QueryInv, Naive, PartsReady
  <2>3. at + 1 \in DOMAIN query.preds
    BY <1>2, <1>4, <2>2, ListElements
  <2> DEFINE pred == query.preds[at + 1]
  <2>4. PredSound(pred)
    BY <2>2, <2>3
  <2>5. arg.left = LogExpr(pred.left) /\ arg.right = LogExpr(pred.right)
    BY DEF LogBExpr
  <2> HIDE DEF pred, arg, q
  <2>6. \E type \in Types : OfType(arg.left, type) /\ OfType(arg.right, type)
    BY <2>4, <2>5 DEF PredSound, Sound
  <2>7. ArgTyped([kind |-> "select", arg |-> arg])
    BY <2>6 DEF ArgTyped
  <2>8. Lacking(q, Len(q), BinOps) /\ NewLast(q, pool, "select", arg)
    BY <2>1 DEF Capped
  <2>9. ArgsTyped(q)
    BY <1>2, <2>7, <2>8, TypedNew
  <2>10. Shaped(q, Len(q), at + 1, "preds")
    BY <1>2, <2>8, ShapedLacking
  <2>11. Generate(q, Len(q), at + 1, "preds")
    BY <1>1, <1>4
  <2>12. QED
    BY <1>3, <2>9, <2>10, <2>11, GenerateKeeps
<1>5. CASE ~(at < Len(query.preds))
  <2>1. Shaped(pool, plan, 0, "aggr") /\ Generate(pool, plan, 0, "aggr")
    BY <1>1, <1>2, <1>5, ShapedLacking
  <2>2. QED
    BY <1>1, <1>3, <2>1, PassKeeps
<1>6. QED
  BY <1>4, <1>5

(* The aggregation.                                                           *)
LEMMA AggrStep ==
  ASSUME PlanInv, QueryInv, ApplyAggr PROVE PlanInv'
<1> DEFINE group == LogAttrs(query.group)
           aggrs == CollectAggrs
           q == MkGroupAggr(pool, plan, group, aggrs)
<1>1. /\ step = "aggr"
      /\ IF Len(aggrs) > MaxGroupAttrs THEN Stop("failed")
         ELSE IF group = <<>> /\ aggrs = <<>> THEN Generate(pool, plan, 0, "projs")
         ELSE IF Len(group) + Len(aggrs) > MaxAttrs THEN Generate(q, Len(q), 0, "overflow")
         ELSE Generate(q, Len(q), 0, "projs")
  BY DEF ApplyAggr
<1>2. Lacking(pool, plan, BinOps) /\ ArgsTyped(pool)
  BY <1>1 DEF PlanInv, Shaped
<1>3. "projs" \in Steps /\ step # "failed"
  BY <1>1 DEF Steps, Naive
<1>4. IsList(query.proj) /\ IsList(query.group)
  BY <1>1 DEF QueryInv, Naive, PartsReady
<1>5. IsList(aggrs) /\ Len(aggrs) \in Nat
  BY <1>4, ListElements, AggrsList
<1>6. IsList(group) /\ Len(group) \in Nat
  <2>1. Len(query.group) \in Nat /\ DOMAIN query.group = 1..Len(query.group)
    BY <1>4, ListElements
  <2>2. group = [k \in 1..Len(query.group) |-> LogAttr(query.group[k])]
    BY <2>1 DEF LogAttrs
  <2>3. group = [k \in 1..Len(query.group) |-> group[k]]
    BY <2>2
  <2> HIDE DEF group
  <2>4. QED
    BY <2>1, <2>3, ListOf
<1> HIDE DEF group, aggrs
<1>7. CASE Len(aggrs) > MaxGroupAttrs
  BY <1>1, <1>7, StopKeeps
<1>8. CASE ~(Len(aggrs) > MaxGroupAttrs) /\ group = <<>> /\ aggrs = <<>>
  BY <1>1, <1>2, <1>3, <1>8, PassKeeps, ShapedLacking
<1>9. CASE /\ ~(Len(aggrs) > MaxGroupAttrs) /\ ~(group = <<>> /\ aggrs = <<>>)
           /\ ~(Len(group) + Len(aggrs) > MaxAttrs)
  <2>1. Generate(q, Len(q), 0, "projs")
    BY <1>1, <1>9
  <2>2. Len(group) + Len(aggrs) <= MaxAttrs
    BY <1>5, <1>6, <1>9, QueryConstants
  <2> DEFINE arg == [group |-> group, aggrs |-> aggrs]
  <2>3. Capped(q, pool, BinOps, "groupAggr", arg)
    BY <1>2, <1>5, <1>6, <2>2, AggrCap
  <2> HIDE DEF q, arg
  <2>4. Lacking(q, Len(q), BinOps) /\ NewLast(q, pool, "groupAggr", arg)
    BY <2>3 DEF Capped
  <2>5. ArgsTyped(q)
    BY <1>2, <2>4, TypedCap
  <2>6. Shaped(q, Len(q), 0, "projs")
    BY <2>4, ShapedLacking
  <2>7. QED
    BY <1>3, <2>1, <2>5, <2>6, GenerateKeeps
<1>10. CASE /\ ~(Len(aggrs) > MaxGroupAttrs) /\ ~(group = <<>> /\ aggrs = <<>>)
            /\ Len(group) + Len(aggrs) > MaxAttrs
  <2> DEFINE arg == [group |-> group, aggrs |-> aggrs]
             out == GroupSchema(group, aggrs)
  <2>1. Generate(q, Len(q), 0, "overflow")
    BY <1>1, <1>10
  <2>2. q = NewOp(pool, "groupAggr", <<plan>>, out, FALSE, arg)
    BY DEF MkGroupAggr
  <2>3. PICK S : IsPool(pool, S) /\ plan \in 1..Len(pool)
    BY <1>2, Rooted DEF Lacking
  <2> HIDE DEF q, arg, out
  <2>4. QED
    BY <1>1, <2>1, <2>2, <2>3, SpillKeeps
<1>11. QED
  BY <1>7, <1>8, <1>9, <1>10

(* The projections.                                                           *)
LEMMA ProjsStep ==
  ASSUME PlanInv, QueryInv, DoProjs PROVE PlanInv'
<1> DEFINE exprs == [e \in DOMAIN query.proj |-> LogExpr(query.proj[e])]
           q == MkProject(pool, plan, exprs)
<1>1. /\ step = "projs"
      /\ CASE Unfit <= 0 -> Generate(q, Len(q), 0, "distinct")
           [] Unfit = 1  -> Generate(pool, 0, 0, "distinct")
           [] Unfit > 1  -> Stop("crashed")
  BY DEF DoProjs
<1>2. Lacking(pool, plan, BinOps) /\ ArgsTyped(pool)
  BY <1>1 DEF PlanInv, Shaped
<1>3. "distinct" \in Steps /\ step # "failed" /\ "crashed" \in Fatal
  BY <1>1 DEF Steps, Naive, Fatal
<1>4. IsList(query.proj) /\ \A e \in DOMAIN query.proj : Sound(query.proj[e])
  BY <1>1 DEF QueryInv, Naive, PartsReady
<1> DEFINE n == Len(query.proj)
<1>5. n \in Nat /\ DOMAIN query.proj = 1..n
  BY <1>4, ListElements
<1>6. Unfit \in Int /\ (Unfit <= 0 => n <= MaxAttrs)
  BY <1>5, QueryConstants DEF Unfit
<1>7. CASE Unfit <= 0
  <2>1. Generate(q, Len(q), 0, "distinct")
    <3>1. ~(Unfit = 1) /\ ~(Unfit > 1)
      BY <1>6, <1>7
    <3> HIDE DEF q
    <3>2. QED
      BY <1>1, <1>7, <3>1
  <2>2. exprs = [e \in 1..n |-> LogExpr(query.proj[e])]
    BY <1>5
  <2> HIDE DEF exprs, n
  <2>3. exprs = [e \in 1..n |-> exprs[e]] /\ \A e \in 1..n : exprs[e] = LogExpr(query.proj[e])
    BY <2>2
  <2>4. IsList(exprs) /\ Len(exprs) = n /\ DOMAIN exprs = 1..n
    BY <1>5, <2>3, ListOf
  <2>5. \A e \in 1..n : OfType(exprs[e], ExprType(exprs[e]))
    BY <1>4, <1>5, <2>3 DEF Sound
  <2>6. ArgTyped([kind |-> "project", arg |-> [exprs |-> exprs]])
    BY <2>4, <2>5 DEF ArgTyped, ToSet
  <2> DEFINE arg == [exprs |-> exprs]
  <2>7. Capped(q, pool, BinOps, "project", arg)
    BY <1>2, <1>6, <1>7, <2>4, ProjectCap
  <2> HIDE DEF q
  <2>8. Lacking(q, Len(q), BinOps) /\ NewLast(q, pool, "project", arg)
    BY <2>7 DEF Capped
  <2>9. ArgsTyped(q)
    BY <1>2, <2>6, <2>8, TypedNew
  <2>10. Shaped(q, Len(q), 0, "distinct")
    BY <2>8, ShapedLacking
  <2>11. Generate(q, Len(q), 0, "distinct")
    BY <2>1
  <2>12. QED
    BY <1>3, <2>9, <2>10, <2>11, GenerateKeeps
<1>8. CASE Unfit = 1
  <2>1. Generate(pool, 0, 0, "distinct")
    BY <1>1, <1>8
  <2>2. (\E S : IsPool(pool, S)) /\ Len(pool) \in Nat
    BY <1>1 DEF PlanInv, Shaped, IsPool
  <2>3. Shaped(pool, 0, 0, "distinct")
    BY <2>2 DEF Shaped, Interpreting, Transforms
  <2>4. QED
    BY <1>2, <1>3, <2>1, <2>3, GenerateKeeps
<1>9. CASE Unfit > 1
  <2>1. Stop("crashed")
    BY <1>1, <1>6, <1>9
  <2>2. QED
    BY <1>1, <2>1, StopKeeps
<1>10. QED
  BY <1>6, <1>7, <1>8, <1>9

(* DISTINCT.                                                                  *)
LEMMA DistinctStep ==
  ASSUME PlanInv, QueryInv, ApplyDistinct PROVE PlanInv'
<1> DEFINE q == MkDistinct(pool, plan)
<1>1. /\ step = "distinct"
      /\ \/ Stop("crashed") \/ Stop("failed")
         \/ plan # 0 /\ Generate(q, Len(q), 0, "r2s")
         \/ plan # 0 /\ Generate(pool, plan, 0, "r2s")
  <2>1. CASE query.distinct
    BY <2>1 DEF ApplyDistinct
  <2>2. CASE ~query.distinct
    BY <2>2 DEF ApplyDistinct
  <2>3. QED
    BY <2>1, <2>2
<1>2. ArgsTyped(pool) /\ (plan # 0 => Lacking(pool, plan, BinOps))
  BY <1>1 DEF PlanInv, Shaped
<1>3. "r2s" \in Steps /\ step # "failed" /\ "crashed" \in Fatal
  BY <1>1 DEF Steps, Naive, Fatal
<1>4. CASE Stop("crashed") \/ Stop("failed")
  BY <1>1, <1>4, StopKeeps
<1>5. CASE plan # 0 /\ Generate(q, Len(q), 0, "r2s")
  <2>1. Capped(q, pool, BinOps, "distinct", NoArg)
    BY <1>2, <1>5, DistinctCap
  <2> HIDE DEF q
  <2>2. Lacking(q, Len(q), BinOps) /\ NewLast(q, pool, "distinct", NoArg)
    BY <2>1 DEF Capped
  <2>3. ArgsTyped(q)
    BY <1>2, <2>2, TypedCap
  <2>4. Shaped(q, Len(q), 0, "r2s")
    BY <2>2, ShapedLacking
  <2>5. QED
    BY <1>3, <1>5, <2>3, <2>4, GenerateKeeps
<1>6. CASE plan # 0 /\ Generate(pool, plan, 0, "r2s")
  BY <1>1, <1>2, <1>3, <1>6, PassKeeps, ShapedLacking
<1>7. QED
  BY <1>1, <1>4, <1>5, <1>6

(* The r2s operator.                                                          *)
LEMMA R2SStep ==
  ASSUME PlanInv, QueryInv, ApplyR2SOps PROVE PlanInv'
<1> DEFINE q == R2S(pool, plan)
<1>1. /\ step = "r2s"
      /\ IF query.r2s = Absent THEN Generate(pool, plan, 0, "rstreamNow")
         ELSE Generate(q, Len(q), 0, "rstreamNow")
  BY DEF ApplyR2SOps
<1>2. ArgsTyped(pool) /\ (Lacking(pool, plan, BinOps) \/ Lacking(pool, plan, Crosses))
  BY <1>1 DEF PlanInv, Shaped
<1>3. /\ "rstreamNow" \in Steps /\ step # "failed" /\ "rstreamNow" \in Transforms \ {"push"}
      /\ query.r2s \in R2SOps
  BY <1>1 DEF Steps, Transforms, QueryInv, TablesReady, Naive
<1>4. CASE query.r2s = Absent
  <2>1. Shaped(pool, plan, 0, "rstreamNow")
    BY <1>2, <1>3, LackingGood, ShapedGood
  <2>2. QED
    BY <1>1, <1>3, <1>4, <2>1, PassKeeps
<1>5. CASE query.r2s # Absent
  <2>1. PICK K \in {BinOps, Crosses} : Lacking(pool, plan, K)
    BY <1>2
  <2>2. PICK kind \in XStreams : Capped(q, pool, K, kind, NoArg)
    BY <1>3, <1>5, <2>1, R2SCap
  <2>3. Generate(q, Len(q), 0, "rstreamNow")
    BY <1>1, <1>5
  <2> HIDE DEF q
  <2>4. Lacking(q, Len(q), K) /\ NewLast(q, pool, kind, NoArg) /\ kind \notin {"select", "project"}
    BY <2>2 DEF Capped, XStreams
  <2>5. ArgsTyped(q)
    BY <1>2, <2>4, TypedCap
  <2>6. Good(q, Len(q))
    BY <2>1, <2>4, LackingGood
  <2>7. Shaped(q, Len(q), 0, "rstreamNow")
    BY <1>3, <2>6, ShapedGood
  <2>8. QED
    BY <1>3, <2>3, <2>5, <2>7, GenerateKeeps
<1>6. QED
  BY <1>4, <1>5

(* A union or a difference: two tables under one operator, with no argument.    *)
LEMMA BinOpPlan ==
  ASSUME QueryInv, GenBinOpPlan
  PROVE  \E q : step = "plan" /\ Generate(q, Len(q), 0, "r2s") /\ TwoTables(q)
<1> DEFINE p == GetSource(GetSource(<<>>, 1, query.tables[1]), 1, query.tables[2])
           types == SchemaTypes(p[1].out)
           q == IF query.kind = "union" THEN MkUnion(p, 1, 2, types) ELSE MkExcept(p, 1, 2, types)
<1>1. step = "plan" /\ query.kind # "sfw" /\ Generate(q, Len(q), 0, "r2s")
  BY DEF GenBinOpPlan
<1>2. /\ query.kind \in BinOps /\ query.tables[1] \in DOMAIN Tables /\ query.tables[2] \in DOMAIN Tables
  BY <1>1 DEF QueryInv, Naive, TablesReady
<1>3. TwoTables(q)
  <2>1. p = GetSource(GetSource(<<>>, 1, query.tables[1]), 1, query.tables[2]) /\ types = SchemaTypes(p[1].out)
    OBVIOUS
  <2>2. CASE query.kind = "union"
    <3>1. q = NewOp(p, "union", <<1, 2>>, BinOpSchema(types), p[1].stream /\ p[2].stream, NoArg)
      BY <2>2, Zenon DEF MkUnion
    <3> HIDE DEF p, q, types
    <3>2. "union" \in BinOps
      BY DEF BinOps
    <3> DEFINE stream == p[1].stream /\ p[2].stream
    <3>3. stream \in BOOLEAN \/ stream = (p[1].stream /\ p[2].stream)
      OBVIOUS
    <3>4. QED
      BY <1>2, <2>1, <3>1, <3>2, <3>3, BinOpTree
  <2>3. CASE query.kind # "union"
    <3>1. q = NewOp(p, "except", <<1, 2>>, BinOpSchema(types), FALSE, NoArg)
      BY <2>3, Zenon DEF MkExcept
    <3> HIDE DEF p, q, types
    <3>2. "except" \in BinOps /\ FALSE \in BOOLEAN
      BY DEF BinOps
    <3>3. QED
      BY <1>2, <2>1, <3>1, <3>2, BinOpTree
  <2>4. QED
    BY <2>2, <2>3
<1> HIDE DEF q
<1>4. QED
  BY <1>1, <1>3

(* A union or a difference keeps the plan good.                               *)
LEMMA BinOpStep ==
  ASSUME PlanInv, QueryInv, GenBinOpPlan PROVE PlanInv'
<1>1. PICK q : /\ step = "plan" /\ Generate(q, Len(q), 0, "r2s")
               /\ Lacking(q, Len(q), Crosses) /\ SameArgs(q, <<>>)
  BY BinOpPlan DEF TwoTables
<1>2. ArgsTyped(<<>>)
  BY DEF ArgsTyped
<1>3. ArgsTyped(q)
  BY <1>1, <1>2, TypedSame
<1>4. (\E S : IsPool(q, S)) /\ Len(q) \in 0..Len(q) /\ 0 \in Nat
  BY <1>1, Rooted DEF Lacking
<1>5. Shaped(q, Len(q), 0, "r2s")
  BY <1>1, <1>4 DEF Shaped, Interpreting, Transforms
<1>6. "r2s" \in Steps /\ step # "failed"
  BY <1>1 DEF Steps, Naive
<1>7. QED
  BY <1>1, <1>3, <1>5, <1>6, GenerateKeeps

(* The naive plan: every clause of a query, and the union or difference of two tables. *)
LEMMA GenPlanStep == PlanInv /\ QueryInv /\ GenPlan => PlanInv'
BY OneTableStep, NextTableStep, PredsStep, AggrStep, ProjsStep, DistinctStep, R2SStep, BinOpStep
   DEF GenPlan, JoinTables

-----------------------------------------------------------------------------
(* Steps of the transformations.                                              *)
LEMMA NamesOfTransforms ==
  /\ "rstreamNow" \in Transforms \ {"push"} /\ "streamCross" \in Transforms \ {"push"}
  /\ "removeProject" \in Transforms \ {"push"} /\ "crossBinary" \in Transforms \ {"push"}
  /\ "streamCrossBinary" \in Transforms \ {"push"} /\ "pushSelect" \in Transforms \ {"push"}
BY DEF Transforms

(* t_rstreamNow, which drops an Rstream over a window Now, keeps the plan good. *)
LEMMA RstreamNowStep == PlanInv /\ RstreamNow => PlanInv'
<1> SUFFICES ASSUME PlanInv, RstreamNow PROVE PlanInv'
  OBVIOUS
<1> DEFINE now == Descend(Input(plan), UnderRstream)
           found == pool[plan].kind = "rstream" /\ pool[now].kind = "nowWin"
           p == RemoveNow(now)
           r == IF now = Input(plan) THEN Input(now) ELSE Input(plan)
<1>1. Transform("rstreamNow", found, p, r, "streamCross")
  BY DEF RstreamNow
<1>2. Good(pool, plan)
  BY <1>1, NamesOfTransforms DEF Transform, PlanInv, Shaped
<1>3. found => Good(p, r) /\ SameArgs(p, pool)
  BY <1>2, RstreamNowTree
<1>4. found \in BOOLEAN
  OBVIOUS
<1> HIDE DEF found, p, r
<1>5. QED
  BY <1>1, <1>3, <1>4, NamesOfTransforms, TransformKeeps

(* t_streamCross, which takes a window Now out of a product, keeps the plan good. *)
LEMMA StreamCrossStep == PlanInv /\ StreamCross => PlanInv'
<1> SUFFICES ASSUME PlanInv, StreamCross PROVE PlanInv'
  OBVIOUS
<1> DEFINE cross == Descend(Input(plan), OverCross)
           found == pool[plan].kind = "rstream" /\ pool[cross].kind = "cross" /\ NowInputs(cross) # {}
           p == Uncap(ReplaceCross(cross))
           r == ReplaceCross(cross)[plan].inputs[1]
<1>1. Transform("streamCross", found, p, r, "removeProject")
  BY DEF StreamCross
<1>2. Good(pool, plan)
  BY <1>1, NamesOfTransforms DEF Transform, PlanInv, Shaped
<1>3. found => Good(p, r) /\ SameArgs(p, pool)
  BY <1>2, StreamCrossTree
<1>4. found \in BOOLEAN
  OBVIOUS
<1> HIDE DEF found, p, r
<1>5. QED
  BY <1>1, <1>3, <1>4, NamesOfTransforms, TransformKeeps

(* t_removeProject keeps the plan good. *)
LEMMA RemoveProjectStep == PlanInv /\ RemoveProject => PlanInv'
<1> SUFFICES ASSUME PlanInv, RemoveProject PROVE PlanInv'
  OBVIOUS
<1> DEFINE project == Descend(plan, {"select", "distinct"} \cup XStreams)
           found == pool[project].kind = "project" /\ IsUselessProject(project)
           p == Replace(pool, project, Input(project))
           r == RootAfter(project, Input(project))
<1>1. Transform("removeProject", found, p, r, "crossBinary")
  BY DEF RemoveProject
<1>2. Good(pool, plan)
  BY <1>1, NamesOfTransforms DEF Transform, PlanInv, Shaped
<1>3. found => Good(p, r) /\ SameArgs(p, pool)
  BY <1>2, RemoveProjectTree
<1>4. found \in BOOLEAN
  OBVIOUS
<1> HIDE DEF found, p, r
<1>5. QED
  BY <1>1, <1>3, <1>4, NamesOfTransforms, TransformKeeps

(* t_makeCrossBinary and t_makeStreamCrossBinary keep the plan good. *)
LEMMA MakeBinaryStep ==
  ASSUME PlanInv, NEW now \in Transforms \ {"push"}, NEW kind \in Crosses,
         NEW next \in Transforms \ {"push"}, MakeBinary(now, kind, next)
  PROVE  PlanInv'
<1> DEFINE cross == Descend(plan, OverCross \cup XStreams)
           found == pool[cross].kind = kind /\ Len(pool[cross].inputs) > 2
           q == Nested(cross)
           p == Replace(q, cross, Len(q))
           r == RootAfter(cross, Len(q))
<1>1. Transform(now, found, p, r, next)
  BY DEF MakeBinary
<1>2. Good(pool, plan)
  BY <1>1 DEF Transform, PlanInv, Shaped, Transforms
<1>3. found => Good(p, r) /\ SameArgs(p, pool)
  BY <1>2, MakeBinaryTree
<1>4. found \in BOOLEAN
  OBVIOUS
<1> HIDE DEF found, p, r
<1>5. QED
  BY <1>1, <1>3, <1>4, TransformKeeps

(* The loop of t_pushSelect, which looks for a selection, changes no operator. *)
LEMMA FindSelectStep == PlanInv /\ FindSelect => PlanInv'
<1> SUFFICES ASSUME PlanInv, FindSelect PROVE PlanInv'
  OBVIOUS
<1> DEFINE select == Descend(plan, XStreams \cup {"project", "distinct", "groupAggr"})
           found == pool[select].kind = "select"
<1>1. step = "pushSelect" /\ Generate(pool, plan, IF found THEN select ELSE 0, IF found THEN "push" ELSE "done")
  BY DEF FindSelect
<1>2. Good(pool, plan) /\ ArgsTyped(pool)
  BY <1>1, NamesOfTransforms DEF PlanInv, Shaped
<1>3. "push" \in Steps /\ "done" \in Steps /\ step # "failed"
  BY <1>1 DEF Steps, Transforms, Ended
<1>4. CASE found
  <2>1. PICK S, L, h : Planted(pool, S, L, h, plan) /\ Pure(pool, L)
    BY <1>2 DEF Good
  <2>2. Pushes(pool, L, plan, select)
    BY <1>4, <2>1, FindSelectTree
  <2>3. Generate(pool, plan, select, "push")
    BY <1>1, <1>4
  <2> HIDE DEF select
  <2>4. GoodAt(pool, plan, select)
    BY <2>1, <2>2 DEF GoodAt
  <2>5. select \in Nat /\ select # 0
    BY <2>1, <2>2 DEF Pushes, Planted, IsTree, IsPool
  <2>6. (\E S1 : IsPool(pool, S1)) /\ plan \in 0..Len(pool)
    BY <1>1 DEF PlanInv, Shaped
  <2>7. Shaped(pool, plan, select, "push")
    BY <2>4, <2>5, <2>6 DEF Shaped, Interpreting
  <2>8. QED
    BY <1>2, <1>3, <2>3, <2>7, GenerateKeeps
<1>5. CASE ~found
  <2>1. Generate(pool, plan, 0, "done")
    BY <1>1, <1>5
  <2>2. Shaped(pool, plan, 0, "done")
    BY <1>2, ShapedGood
  <2>3. QED
    BY <1>1, <1>3, <2>1, <2>2, PassKeeps
<1>6. QED
  BY <1>4, <1>5

(* The selection below one that is pushed has no product right above it.       *)
LEMMA BelowSelect ==
  ASSUME NEW p, NEW r, NEW s, s # 0, GoodAt(p, r, s), NEW b, b = p[s].inputs[1], p[b].kind = "select"
  PROVE  GoodAt(p, r, b)
<1>1. PICK S, L, h : Planted(p, S, L, h, r) /\ Pure(p, L) /\ Pushes(p, L, r, s)
  BY DEF GoodAt
<1>2. s \in L /\ p[s].kind = "select" /\ p[s].kind \in Copying
  BY <1>1 DEF Pushes, Copying, Unary, LogKinds, Sources, Crosses, BinOps
<1>3. p[s].kind \in Unary /\ b \in L /\ p[b].output = s
  BY <1>1, <1>2, Handed
<1>4. Pushes(p, L, r, b)
  BY <1>3 DEF Pushes
<1>5. QED
  BY <1>1, <1>4 DEF GoodAt

(* A good tree with a selection in it is what the push of that selection starts from. *)
LEMMA GoodPush ==
  ASSUME NEW p, NEW r, NEW c, GoodAt(p, r, c), c \in Nat, c # 0
  PROVE  Shaped(p, r, c, "push")
<1>1. (\E S : IsPool(p, S)) /\ r \in 0..Len(p)
  BY Rooted DEF GoodAt
<1>2. QED
  BY <1>1 DEF Shaped, Interpreting

(* The push of a selection keeps the plan good, wherever the selection ends. *)
LEMMA PushSelectStep == PlanInv /\ PushSelect => PlanInv'
<1> SUFFICES ASSUME PlanInv, PushSelect PROVE PlanInv'
  OBVIOUS
<1> DEFINE goal == Goal(at)
           below == Input(at)
           p == Replace(CopyTo(at, goal), at, below)
           r == RootAfter(at, below)
           more == pool[below].kind = "select"
           next == IF more THEN "push" ELSE "done"
           cursor == IF more THEN below ELSE 0
<1>1. /\ step = "push"
      /\ IF goal.useful THEN Generate(p, r, cursor, next) ELSE Generate(pool, plan, cursor, next)
  BY DEF PushSelect
<1>2. at # 0 /\ GoodAt(pool, plan, at) /\ ArgsTyped(pool)
  BY <1>1 DEF PlanInv, Shaped
<1>3. next \in Steps /\ step # "failed"
  BY <1>1 DEF Steps, Transforms, Ended
<1>4. more => GoodAt(pool, plan, below) /\ below \in Nat /\ below # 0
  <2>1. ASSUME more PROVE GoodAt(pool, plan, below)
    BY <1>2, <2>1, BelowSelect DEF Input
  <2>2. ASSUME more PROVE below \in Nat /\ below # 0
    <3>1. PICK S, L, h : Planted(pool, S, L, h, plan) /\ Pushes(pool, L, plan, at)
      BY <1>2 DEF GoodAt
    <3>2. at \in L /\ pool[at].kind \in Copying
      BY <3>1 DEF Pushes, Copying, Unary, LogKinds, Sources, Crosses, BinOps
    <3>3. below \in L
      BY <3>1, <3>2, Handed DEF Input
    <3> HIDE DEF below
    <3>4. QED
      BY <3>1, <3>3 DEF Planted, IsTree, IsPool
  <2>3. QED
    BY <2>1, <2>2
<1>5. ASSUME NEW P, NEW R, GoodAt(P, R, cursor), cursor \in Nat, cursor = 0 <=> ~more
      PROVE  Shaped(P, R, cursor, next)
  <2> HIDE DEF cursor, more
  <2>1. CASE more
    <3>1. cursor # 0
      BY <1>5, <2>1
    <3>2. Shaped(P, R, cursor, "push")
      BY <1>5, <3>1, GoodPush
    <3>3. QED
      BY <2>1, <3>2
  <2>2. CASE ~more
    <3>1. Good(P, R) /\ cursor = 0
      BY <1>5, <2>2 DEF GoodAt, Good
    <3>2. Shaped(P, R, 0, "done")
      BY <3>1, ShapedGood
    <3>3. QED
      BY <2>2, <3>1, <3>2
  <2>3. QED
    BY <2>1, <2>2
<1>6. cursor \in Nat /\ (cursor = 0 <=> ~more)
  BY <1>4
<1>7. CASE goal.useful
  <2>1. GoodAt(p, r, cursor) /\ SameArgs(p, pool)
    <3>1. Goal(at).useful /\ p = Replace(CopyTo(at, Goal(at)), at, Input(at))
          /\ cursor = IF pool[Input(at)].kind = "select" THEN Input(at) ELSE 0
      BY <1>7
    <3>2. r = RootAfter(at, Input(at))
      OBVIOUS
    <3> HIDE DEF p, cursor, r
    <3>3. QED
      BY <1>2, <3>1, <3>2, PushSelectTree
  <2>2. Generate(p, r, cursor, next)
    BY <1>1, <1>7
  <2> HIDE DEF p, r, cursor, next
  <2>3. ArgsTyped(p)
    BY <1>2, <2>1, TypedSame
  <2>4. Shaped(p, r, cursor, next)
    BY <1>5, <1>6, <2>1
  <2>5. QED
    BY <1>3, <2>2, <2>3, <2>4, GenerateKeeps
<1>8. CASE ~goal.useful
  <2>1. Generate(pool, plan, cursor, next)
    BY <1>1, <1>8
  <2>2. GoodAt(pool, plan, cursor)
    BY <1>2, <1>4 DEF GoodAt
  <2> HIDE DEF cursor, next
  <2>3. Shaped(pool, plan, cursor, next)
    BY <1>5, <1>6, <2>2
  <2>4. QED
    BY <1>2, <1>3, <2>1, <2>3, GenerateKeeps
<1>9. QED
  BY <1>7, <1>8

(* Every step of the generator, naive plan and transformations. *)
LEMMA GenLogPlanStep == PlanInv /\ GenLogPlan => PlanInv'
<1> SUFFICES ASSUME PlanInv, GenLogPlan PROVE PlanInv'
  OBVIOUS
<1>1. CASE MakeCrossBinary
  BY <1>1, NamesOfTransforms, MakeBinaryStep DEF MakeCrossBinary, Crosses
<1>2. CASE MakeStreamCrossBinary
  BY <1>2, NamesOfTransforms, MakeBinaryStep DEF MakeStreamCrossBinary, Crosses
<1>3. QED
  BY <1>1, <1>2, RstreamNowStep, StreamCrossStep, RemoveProjectStep, FindSelectStep, PushSelectStep
     DEF GenLogPlan

-----------------------------------------------------------------------------
(* The other steps, which leave the pool empty.                               *)
LEMMA ShapedEmpty ==
  ASSUME NEW next, next \in {"idle", "plan", "failed", "exit"} \cup Interpreting
  PROVE  Shaped(<<>>, 0, 0, next) /\ ArgsTyped(<<>>)
<1>1. (\E S : IsPool(<<>>, S)) /\ 0 \in 0..Len(<<>>) /\ 0 \in Nat
  BY EmptyPool
<1>2. next \notin {"preds", "aggr", "projs", "distinct", "r2s", "done", "overflow"} \cup Transforms
  BY DEF Interpreting, Transforms
<1>3. "push" \in Transforms
  BY DEF Transforms
<1>4. Shaped(<<>>, 0, 0, next)
  BY <1>1, <1>2, <1>3 DEF Shaped
<1>5. QED
  BY <1>4 DEF ArgsTyped

(* A query that is still interpreted has an empty pool. *)
LEMMA EmptyKeeps ==
  ASSUME pool' = <<>>, plan' = 0, at' = 0,
         step' \in {"idle", "plan", "failed", "exit"} \cup Interpreting,
         rc' # "ok" => step' = "failed"
  PROVE  PlanInv'
<1>1. Shaped(pool, plan, at, step)' /\ ArgsTyped(pool)'
  <2>1. ASSUME NEW next, next \in {"idle", "plan", "failed", "exit"} \cup Interpreting
        PROVE  Shaped(<<>>, 0, 0, next)'
    BY <2>1, ShapedEmpty DEF Shaped
  <2>2. ArgsTyped(<<>>)
    BY DEF ArgsTyped
  <2>3. QED
    BY <2>1, <2>2
<1>2. step' \in Steps /\ step' # "overflow"
  BY DEF Steps, Interpreting, Fatal, Naive, Ended
<1>3. QED
  BY <1>1, <1>2 DEF PlanInv, CodeInv

(* The steps of the interpreter leave the pool of operators empty. *)
LEMMA InterpretStep == PlanInv /\ InterpretQuery /\ UNCHANGED planVars => PlanInv'
<1> SUFFICES ASSUME PlanInv, InterpretQuery, UNCHANGED planVars PROVE PlanInv'
  OBVIOUS
<1> DEFINE Leaves(next) == step' \in {next, "failed"} /\ (rc' # "ok" => step' = "failed")
<1>1. ASSUME NEW fault, NEW new, NEW used, NEW next, Proceed(fault, new, used, next)
      PROVE  Leaves(next)
  BY <1>1 DEF Proceed
<1>2. step \in Interpreting
  BY DEF InterpretQuery, GetReferencedTables, InterpretFromClause, InterpretWhereClause,
         InterpretGroupByClause, InterpretSelectClause, InterpretBinOp, Interpreting
<1>3. \E next \in {"from", "where", "group", "select", "binop", "plan"} : Leaves(next)
  <2> HIDE DEF Leaves
  <2>1. CASE GetReferencedTables
    BY <1>1, <2>1 DEF GetReferencedTables
  <2>2. CASE InterpretFromClause \/ InterpretWhereClause
    BY <1>1, <2>2 DEF InterpretFromClause, InterpretWhereClause
  <2>3. CASE InterpretGroupByClause \/ InterpretBinOp
    BY <1>1, <2>3 DEF InterpretGroupByClause, InterpretBinOp
  <2>4. CASE InterpretSelectClause
    BY <1>1, <2>4 DEF InterpretSelectClause, InterpretStarInSelect, InterpretExprsInSelect
  <2>5. QED
    BY <2>1, <2>2, <2>3, <2>4 DEF InterpretQuery
<1>4. step' \in {"plan", "failed"} \cup Interpreting /\ (rc' # "ok" => step' = "failed")
  BY <1>3 DEF Interpreting
<1>5. pool = <<>> /\ at = 0 /\ plan \in 0..Len(pool)
  BY <1>2 DEF PlanInv, Shaped, Interpreting
<1>6. plan = 0
  BY <1>5, EmptyPool
<1>7. pool' = <<>> /\ plan' = 0 /\ at' = 0
  BY <1>5, <1>6 DEF planVars
<1>8. QED
  BY <1>4, <1>7, EmptyKeeps

(* Every step keeps the invariant of the pool and the plan. *)
LEMMA PlanStep == PlanInv /\ QueryInv /\ [Next]_vars => PlanInv'
<1> SUFFICES ASSUME PlanInv, QueryInv, [Next]_vars PROVE PlanInv'
  OBVIOUS
<1>1. CASE Parse /\ UNCHANGED planVars
  <2>1. step = "idle" /\ step' \in {"exit", "tables"} /\ rc' = "ok"
    BY <1>1 DEF Parse
  <2>2. pool = <<>> /\ at = 0 /\ plan \in 0..Len(pool)
    BY <2>1 DEF PlanInv, Shaped
  <2>3. plan = 0
    BY <2>2, EmptyPool
  <2>4. pool' = <<>> /\ plan' = 0 /\ at' = 0
    BY <1>1, <2>2, <2>3 DEF planVars
  <2>5. QED
    BY <2>1, <2>4, EmptyKeeps DEF Interpreting
<1>2. CASE Return
  BY <1>2, EmptyKeeps DEF Return
<1>3. CASE ProcessEnds \/ UNCHANGED vars
  <2>1. /\ step' = step /\ rc' = rc /\ query' = query /\ pool' = pool /\ plan' = plan /\ at' = at
    BY <1>3 DEF ProcessEnds, vars, semVars, planVars
  <2>2. CASE step = "overflow"
    BY <2>1, <2>2 DEF PlanInv, CodeInv, Spilt
  <2>3. CASE step # "overflow"
    <3>1. Shaped(pool, plan, at, step) /\ ArgsTyped(pool) /\ CodeInv
      BY <2>3 DEF PlanInv
    <3>2. Shaped(pool, plan, at, step)'
      BY <2>1, <3>1 DEF Shaped
    <3>3. QED
      BY <2>1, <2>3, <3>1, <3>2 DEF PlanInv, CodeInv
  <2>4. QED
    BY <2>2, <2>3
<1>4. QED
  BY <1>1, <1>2, <1>3, InterpretStep, GenPlanStep, GenLogPlanStep DEF Next

(* The first query finds an empty pool. *)
LEMMA PlanStart == Init => PlanInv
<1> SUFFICES ASSUME Init PROVE PlanInv
  OBVIOUS
<1>1. pool = <<>> /\ plan = 0 /\ at = 0 /\ step = "idle" /\ rc = "ok"
  BY DEF Init, SemInit
<1>2. Shaped(pool, plan, at, step) /\ ArgsTyped(pool)
  BY <1>1, ShapedEmpty
<1>3. QED
  BY <1>1, <1>2 DEF PlanInv, CodeInv, Steps

(* The invariants of expressions, of the query and of the plan, together. *)
LEMMA PlanInvariance == Spec => [](SemInv /\ QueryInv /\ PlanInv)
<1>1. Init => SemInv /\ QueryInv /\ PlanInv
  BY SemStart, QueryStart, PlanStart
<1>2. SemInv /\ QueryInv /\ PlanInv /\ [Next]_vars => (SemInv /\ QueryInv /\ PlanInv)'
  BY SemStep, QueryStep, PlanStep
<1>3. QED
  BY <1>1, <1>2, PTL DEF Spec

-----------------------------------------------------------------------------
(* Theorems.                                                                  *)

(* Whatever is registered, and in whatever state the registration ends, every  *)
(* operator of the pool has a kind, an output in the pool and no more inputs   *)
(* than inputs[] has room for.  None has more attributes than outAttrs[], but *)
(* a grouping whose attributes and aggregates each fit and together do not:   *)
(* add_aggr writes these too, and that write ends the registration.          *)
THEOREM PoolTypeCorrect == Spec => []TypeOK
<1>1. PlanInv => TypeOK
  <2> SUFFICES ASSUME PlanInv PROVE TypeOK
    OBVIOUS
  <2>1. CASE step = "overflow"
    BY <2>1 DEF PlanInv, CodeInv, Spilt, TypeOK
  <2>2. CASE step # "overflow"
    <3>1. Shaped(pool, plan, at, step) /\ CodeInv
      BY <2>2 DEF PlanInv
    <3>2. PICK S : IsPool(pool, S)
      BY <3>1 DEF Shaped
    <3>3. DOMAIN pool = 1..Len(pool) /\ \A o \in DOMAIN pool : IsOp(pool[o], Len(pool), S)
      BY <3>2 DEF IsPool
    <3>4. plan \in 0..Len(pool) /\ at \in Nat
      BY <3>1 DEF Shaped
    <3>5. \A o \in DOMAIN pool : ~Overfull(pool[o])
      <4>1. ASSUME NEW o \in DOMAIN pool PROVE ~Overfull(pool[o])
        <5>1. Len(pool[o].out) \in Nat /\ Len(pool[o].out) <= MaxAttrs /\ MaxAttrs \in Nat
          BY <3>3, QueryConstants DEF IsOp
        <5>2. QED
          BY <5>1 DEF Overfull
      <4>2. QED
        BY <4>1
    <3>6. QED
      BY <3>1, <3>3, <3>4, <3>5 DEF TypeOK, IsOp, CodeInv
  <2>3. QED
    BY <2>1, <2>2
<1>2. QED
  BY <1>1, PlanInvariance, PTL

(* The plan, while there is one.                                              *)
LEMMA CompletePlan ==
  ASSUME PlanInv, Complete
  PROVE  \E S, L, h : Planted(pool, S, L, h, plan)
<1>1. step # "overflow"
  BY DEF Complete, Transforms
<1>2. Shaped(pool, plan, at, step)
  BY <1>1 DEF PlanInv
<1>3. QED
  BY <1>2 DEF Complete, Shaped, Transforms, Good, GoodAt

(* From the naive plan to the last transformation the operators under the     *)
(* root are a tree whose edges agree at both ends, and each has the schema   *)
(* that its inputs give: no patch of output, inputs[0] or outAttrs is missing. *)
THEOREM PlansWellFormed == Spec => []PlanWellFormed
<1>1. PlanInv => PlanWellFormed
  <2> SUFFICES ASSUME PlanInv, Complete
        PROVE  /\ pool[plan].output = 0
               /\ \A o \in Tree : \A i \in DOMAIN pool[o].inputs : pool[pool[o].inputs[i]].output = o
               /\ \A o \in Tree : pool[o].out = SchemaOf(pool, o)
    BY DEF PlanWellFormed
  <2>1. PICK S, L, h : Planted(pool, S, L, h, plan)
    BY CompletePlan
  <2>2. Tree \subseteq L
    BY <2>1, TreeInside
  <2>3. pool[plan].output = 0
    BY <2>1 DEF Planted, IsTree
  <2>4. \A o \in L : \A i \in DOMAIN pool[o].inputs : pool[pool[o].inputs[i]].output = o
    BY <2>1 DEF Planted, IsTree, Edge
  <2>5. \A o \in L : pool[o].out = SchemaOf(pool, o)
    BY <2>1 DEF Planted, Schemas
  <2>6. QED
    BY <2>2, <2>3, <2>4, <2>5
<1>2. QED
  BY <1>1, PlanInvariance, PTL

(* Every expression of a plan has the one type that the catalogue gives its    *)
(* attributes, and so have the two sides of a comparison, however far the    *)
(* transformations have taken it: mk_comp_expr's assertion cannot fail.       *)
THEOREM ExpressionsTyped == Spec => []TypesAgree
<1>1. PlanInv => TypesAgree
  <2> SUFFICES ASSUME PlanInv, Complete, NEW o \in Tree PROVE ArgTyped(pool[o])
    BY DEF TypesAgree, ArgTyped
  <2>1. PICK S, L, h : Planted(pool, S, L, h, plan)
    BY CompletePlan
  <2>2. o \in L /\ L \subseteq 1..Len(pool)
    BY <2>1, TreeInside DEF Planted, IsTree
  <2>3. ArgsTyped(pool)
    BY DEF PlanInv, Complete, Transforms
  <2>4. QED
    BY <2>2, <2>3 DEF ArgsTyped
<1>2. QED
  BY <1>1, PlanInvariance, PTL
=============================================================================
