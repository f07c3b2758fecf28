----------------------------- MODULE PlanManager -----------------------------
(****************************************************************************)
(* The physical plan: the pool of operators, the network they form, the     *)
(* plans added to it query by query (gen_phy_plan.cc, plan_mgr_impl.cc) and *)
(* the passes of optimize_plan that rewrite it (plan_trans.cc): removal of  *)
(* query sources, sinks, merging of selects, sharing of equal operators,    *)
(* merging of projects into joins.                                          *)
(*                                                                          *)
(* Operators are numbered from 1; 0 is the null pointer.  Predicates,       *)
(* projections and window specifications are numbers: what the code         *)
(* compares of two operators of one kind is their `par`.                    *)
(****************************************************************************)
EXTENDS Naturals, FiniteSets, SequencesExt

CONSTANTS
  MaxOps,       \* MAX_OPS, the size of the pool
  MaxBranch,    \* MAX_OUT_BRANCHING, operators reading from one operator
  MaxTables,    \* MAX_TABLES, the size of sourceOps
  MaxOutputs,   \* MAX_OUTPUT, the size of queryOutputs
  MaxQueries,   \* MAX_QUERIES, the size of queryOutOps
  Queries,      \* the queries a script may hold: [plan, output, class], where
                \* class 1 has the highest priority
  MaxCalls      \* bound: base tables, views and queries of one application

OpIds == 1..MaxOps

(* "unary" stands for windows, aggregation, distinct and the relation-to-     *)
(* stream operators; "union" for union and except, "join" for both joins.    *)
Kinds == {"ssgen", "source", "select", "project", "unary", "join", "joinproject",
          "union", "qsrc", "output", "sink"}

(* A logical plan is a sequence of [kind, par], in the order in which         *)
(* genPhysicalPlan comes to its operators: children first, left to right.    *)
(* The list of expressions of a projection is one number.                    *)
Arity(item) == CASE item.kind = "source"            -> 0
                 [] item.kind \in {"join", "union"} -> 2
                 [] OTHER                           -> 1

LogicalKinds == {"source", "select", "project", "unary", "join", "union"}

(* Of the first n items, those that add a result, and those that take one     *)
(* away.  A plan is a tree: there is a result after every item, and one in   *)
(* the end.                                                                  *)
Leaves(p, n)   == Cardinality({k \in 1..n : Arity(p[k]) = 0})
Branches(p, n) == Cardinality({k \in 1..n : Arity(p[k]) = 2})

IsPlan(p) ==
  /\ p \in Seq([kind : LogicalKinds, par : Seq(Nat)])
  /\ \A k \in DOMAIN p : p[k].kind = "source" => p[k].par # <<>>
  /\ \A k \in DOMAIN p : p[k].kind = "project" => Len(p[k].par) = 1
  /\ \A n \in DOMAIN p : Leaves(p, n) > Branches(p, n)
  /\ Leaves(p, Len(p)) = Branches(p, Len(p)) + 1

ASSUME PlanConstants ==
  /\ MaxOps \in Nat \ {0}
  /\ {MaxBranch, MaxTables, MaxOutputs, MaxQueries, MaxCalls} \subseteq Nat
  /\ \A q \in Queries : IsPlan(q.plan) /\ q.output \in BOOLEAN /\ q.class \in Nat \ {0}

VARIABLES
  ops,           \* the array of operators
  used, free,    \* usedOps and freeOps, in list order
  sourceOps,     \* which operator produces which table
  queryOutOps,   \* the query source of each query
  step,          \* what the plan manager is doing, or how it ended
  todo, built,   \* the logical plan still to be translated, and its results
  job,           \* the query being added: has it an output, and its class
  cursor,        \* the operator a pass has come to
  level, following, row, col,   \* findSharedOps: its vectors and indices
  meaning        \* what each output is to compute, for the properties

net      == <<ops, used, free>>
maps     == <<sourceOps, queryOutOps>>
gen      == <<todo, built, job>>
sharing  == <<level, following, row, col>>
planVars == <<net, maps, step, gen, cursor, sharing, meaning>>

Passes == {"unsource", "sinks", "selects", "share", "projects"}
(* Loading may end early: with an error code ("refused" when a pass gives     *)
(* up), on a null pointer, or by writing past the end of an array.           *)
Broken == {"failed", "refused", "nullOp", "nullNeighbour", "nullPred", "overflow"}
Steps  == {"idle", "translate", "qsrc", "output", "done"} \cup Passes \cup Broken

Operators == [kind : Kinds, par : Seq(Nat), in : Seq(OpIds), out : Seq(OpIds), cls : Nat]

TypeOK ==
  /\ ops \in [OpIds -> Operators]
  /\ {used, free} \subseteq Seq(OpIds)
  /\ sourceOps \in Seq([table : Nat, op : OpIds])
  /\ queryOutOps \in Seq(OpIds)
  /\ step \in Steps
  /\ todo \in Seq([kind : Kinds, par : Seq(Nat)])
  /\ built \in Seq(OpIds)
  /\ job \in [output : BOOLEAN, cls : Nat]
  /\ cursor \in {0} \cup OpIds
  /\ {level, following} \subseteq Seq(OpIds)
  /\ row \in Nat /\ col \in Nat
  /\ Len(meaning) <= MaxOutputs

(* createSSGen takes the first operator and enters it as the source of the    *)
(* table whose number is SS_ID.  The memory of the pool is fresh: zero.      *)
SS_ID == 0
Blank == [kind |-> "sink", par |-> <<>>, in |-> <<>>, out |-> <<>>, cls |-> 0]

Init ==
  /\ ops = [o \in OpIds |-> IF o = 1 THEN [Blank EXCEPT !.kind = "ssgen", !.cls = 1]
                                     ELSE Blank]
  /\ used = <<1>>
  /\ free = [k \in 1..(MaxOps - 1) |-> k + 1]
  /\ sourceOps = <<[table |-> SS_ID, op |-> 1]>>
  /\ queryOutOps = <<>>
  /\ step = "idle"
  /\ todo = <<>> /\ built = <<>> /\ job = [output |-> FALSE, cls |-> 0]
  /\ cursor = 0
  /\ level = <<>> /\ following = <<>> /\ row = 1 /\ col = 2
  /\ meaning = <<>>

-----------------------------------------------------------------------------
(* The pool and the edges.                                                   *)

(* The elements of s at the positions K, in their order.                      *)
Picked(s, K) ==
  [i \in 1..Cardinality(K) |-> s[CHOOSE k \in K : Cardinality({j \in K : j <= k}) = i]]
Without(s, x) == Picked(s, {k \in DOMAIN s : s[k] # x})

Times(s, x) == Cardinality({k \in DOMAIN s : s[k] = x})
After(o) == LET k == CHOOSE k \in DOMAIN used : used[k] = o
            IN  IF k = Len(used) THEN 0 ELSE used[k + 1]

(* new_op dereferences freeOps->next: it cannot give out the last operator.  *)
PoolEmpties == Len(free) <= 1

(* addOutput refuses the reader that exceeds MAX_OUT_BRANCHING.              *)
Full(in) == \E k \in DOMAIN in : Len(ops[in[k]].out) + Times(in, in[k]) > MaxBranch

(* new_op sets the kind and clears the edges; the class stays what it was.   *)
NewOp(o, kind, par, in) ==
  [kind |-> kind, par |-> par, in |-> in, out |-> <<>>, cls |-> ops[o].cls]

WithReader(o, kind, par, in) ==
  [p \in OpIds |->
     IF p = o THEN NewOp(o, kind, par, in)
     ELSE [ops[p] EXCEPT !.out = @ \o [k \in 1..Times(in, p) |-> o]]]

(* The mk_ functions: an operator is taken from the pool and reads from `in`.*)
TakeOp ==
  /\ used' = <<Head(free)>> \o used
  /\ free' = Tail(free)

CanMake(in) == ~PoolEmpties /\ ~Full(in)

CannotMake(in) ==
  /\ \/ PoolEmpties /\ step' = "nullOp"
     \/ ~PoolEmpties /\ Full(in) /\ step' = "failed"
  /\ UNCHANGED <<net, maps, gen, cursor, sharing, meaning>>

-----------------------------------------------------------------------------
(* Building: what the server calls while a script is read.                   *)

NextTable == Len(sourceOps) - 1     \* the number TableManager gives next

AddBaseTable ==
  /\ step = "idle"
  /\ \/ /\ CanMake(<<>>)
        /\ Len(sourceOps) < MaxTables
        /\ ops' = WithReader(Head(free), "source", <<NextTable>>, <<>>)
        /\ TakeOp
        /\ sourceOps' = Append(sourceOps, [table |-> NextTable, op |-> Head(free)])
        /\ UNCHANGED <<queryOutOps, step, gen, cursor, sharing, meaning>>
     \/ CannotMake(<<>>)
     \/ /\ CanMake(<<>>)
        /\ Len(sourceOps) >= MaxTables
        /\ step' = "failed"
        /\ UNCHANGED <<net, maps, gen, cursor, sharing, meaning>>

(* mk_stream_source, mk_reln_source: the first entry for the table counts.   *)
Producer(t) ==
  LET k == SelectInSeq(sourceOps, LAMBDA e : e.table = t)
  IN  IF k = 0 THEN 1 ELSE sourceOps[k].op

(* addLogicalQueryPlan, with the class the server sets before.  The plan is   *)
(* over tables that are registered.                                          *)
AddQuery(q) ==
  /\ step = "idle"
  /\ \A k \in DOMAIN q.plan : q.plan[k].kind = "source" => q.plan[k].par[1] < NextTable
  /\ todo' = q.plan
  /\ built' = <<>>
  /\ job' = [output |-> q.output, cls |-> q.class]
  /\ step' = "translate"
  /\ UNCHANGED <<net, maps, cursor, sharing, meaning>>

(* genPhysicalPlan: one operator of the logical plan.                        *)
Inputs == LET n == Arity(Head(todo)) IN SubSeq(built, Len(built) - n + 1, Len(built))
Others == SubSeq(built, 1, Len(built) - Arity(Head(todo)))

TranslateSource ==
  /\ step = "translate" /\ todo # <<>>
  /\ Head(todo).kind = "source"
  /\ built' = Append(built, Producer(Head(todo).par[1]))
  /\ todo' = Tail(todo)
  /\ UNCHANGED <<net, maps, step, job, cursor, sharing, meaning>>

OverSelect == Head(todo).kind = "select" /\ ops[Inputs[1]].kind = "select"

(* mk_select adds the predicate to a select that is there already.           *)
TranslateSelect ==
  /\ step = "translate" /\ todo # <<>>
  /\ OverSelect
  /\ ops' = [ops EXCEPT ![Inputs[1]].par = Head(todo).par \o @]
  /\ todo' = Tail(todo)
  /\ UNCHANGED <<used, free, maps, step, built, job, cursor, sharing, meaning>>

TranslateOperator ==
  /\ step = "translate" /\ todo # <<>>
  /\ Head(todo).kind # "source" /\ ~OverSelect
  /\ \/ /\ CanMake(Inputs)
        /\ ops' = WithReader(Head(free), Head(todo).kind, Head(todo).par, Inputs)
        /\ TakeOp
        /\ built' = Append(Others, Head(free))
        /\ todo' = Tail(todo)
        /\ UNCHANGED <<maps, step, job, cursor, sharing, meaning>>
     \/ CannotMake(Inputs)

Translated ==
  /\ step = "translate" /\ todo = <<>>
  /\ step' = "qsrc"
  /\ UNCHANGED <<net, maps, gen, cursor, sharing, meaning>>

(* mk_qry_src: whoever reads the query as a view reads from this operator.   *)
MakeQuerySource ==
  /\ step = "qsrc"
  /\ \/ /\ CanMake(built)
        /\ Len(queryOutOps) < MaxQueries
        /\ ops' = WithReader(Head(free), "qsrc", <<>>, built)
        /\ TakeOp
        /\ queryOutOps' = Append(queryOutOps, Head(free))
        /\ step' = IF job.output THEN "output" ELSE "idle"
        /\ UNCHANGED <<sourceOps, gen, cursor, sharing, meaning>>
     \/ CannotMake(built)
     \/ /\ CanMake(built)
        /\ Len(queryOutOps) >= MaxQueries
        /\ step' = "failed"
        /\ UNCHANGED <<net, maps, gen, cursor, sharing, meaning>>

(* addQueryClasses walks up from the output and stops where the class is     *)
(* high enough already.                                                      *)
Lower(op, class) == op.cls = 0 \/ op.cls > class

Classified(table, class, out) ==
  LET Reached[o \in OpIds] ==
        IF Lower(table[o], class) THEN {o} \cup UNION {Reached[p] : p \in ToSet(table[o].in)}
                                  ELSE {}
  IN  [o \in OpIds |-> IF o \in Reached[out] THEN [table[o] EXCEPT !.cls = class]
                                              ELSE table[o]]

(* What an operator computes: an expression over tables in which a select is *)
(* part of the select or join it reads from, whoever else reads that.        *)
Term(kind, par, in) == [kind |-> kind, par |-> par, in |-> in]
Computes[o \in OpIds] ==
  LET op    == ops[o]
      below == [k \in DOMAIN op.in |-> Computes[op.in[k]]]
  IN  CASE op.kind \in {"qsrc", "output", "sink"} -> below[1]
        [] op.kind = "select" /\ below[1].kind \in {"select", "join"} ->
             Term(below[1].kind, below[1].par \cup ToSet(op.par), below[1].in)
        [] op.kind = "joinproject" ->
             Term("project", {Last(op.par)}, <<Term("join", ToSet(Front(op.par)), below)>>)
        [] OTHER -> Term(op.kind, ToSet(op.par), below)

(* mk_output, then the classes.                                              *)
MakeOutput ==
  /\ step = "output"
  /\ \/ /\ Len(meaning) < MaxOutputs
        /\ CanMake(built)
        /\ ops' = Classified(WithReader(Head(free), "output", <<Len(meaning) + 1>>, built),
                             job.cls, Head(free))
        /\ TakeOp
        /\ meaning' = Append(meaning, Computes[built[1]])
        /\ step' = "idle"
        /\ UNCHANGED <<maps, gen, cursor, sharing>>
     \/ Len(meaning) < MaxOutputs /\ CannotMake(built)
     \/ /\ Len(meaning) >= MaxOutputs
        /\ step' = "failed"
        /\ UNCHANGED <<net, maps, gen, cursor, sharing, meaning>>

(* map: the query is known as a table from now on.  The schemas may differ.   *)
MapView ==
  /\ step = "idle"
  /\ Len(queryOutOps) > 0 /\ ~job.output
  /\ \A k \in DOMAIN sourceOps : sourceOps[k].op # Last(queryOutOps)
  /\ \/ /\ Len(sourceOps) < MaxTables
        /\ sourceOps' = Append(sourceOps, [table |-> NextTable, op |-> Last(queryOutOps)])
        /\ UNCHANGED <<net, queryOutOps, step, gen, cursor, sharing, meaning>>
     \/ /\ step' = "failed"
        /\ UNCHANGED <<net, maps, gen, cursor, sharing, meaning>>

Optimize ==
  /\ step = "idle"
  /\ step' = "unsource"
  /\ cursor' = Head(used)
  /\ UNCHANGED <<net, maps, gen, sharing, meaning>>

-----------------------------------------------------------------------------
(* The passes go through the operators in use, the newest first, and know     *)
(* the next one before they remove the one they are at.                      *)

Sources == Picked(used, {k \in DOMAIN used : ops[used[k]].kind = "source"})

NextPass ==
  /\ cursor = 0
  /\ \/ /\ step \in {"unsource", "sinks"}
        /\ step' = IF step = "unsource" THEN "sinks" ELSE "selects"
        /\ cursor' = Head(used)
        /\ UNCHANGED sharing
     \/ /\ step = "selects"
        /\ step' = "share"
        /\ level' = Sources /\ following' = <<>> /\ row' = 1 /\ col' = 2
        /\ UNCHANGED cursor
     \/ step = "projects" /\ step' = "done" /\ UNCHANGED <<cursor, sharing>>
  /\ UNCHANGED <<net, maps, gen, meaning>>

At(pass) == step = pass /\ cursor # 0

Leave ==
  /\ cursor' = After(cursor)
  /\ UNCHANGED <<maps, step, gen, sharing, meaning>>

Pass == Leave /\ UNCHANGED net

(* shortCircuitInputOutput: the readers of o read from its input instead, and *)
(* the last of them takes the place of o.                                    *)
\* Mutants: the reader's input is cleared; a reader is redirected once only.
ClearedOf(in, o, i)   == ReplaceAll(in, o, 0)
OnceOf(in, o, i)      == [in EXCEPT ![SelectInSeq(in, LAMBDA p : p = o)] = i]
InsteadOf(in, o, i)   == ReplaceAll(in, o, i)

\* Mutant: the last reader is dropped instead.
NoLastAt(outs, place) == Front(outs)
FilledAt(outs, place) == Front([outs EXCEPT ![place] = Last(outs)])

(* getOutputIndex: the first place for an operator that is not there.        *)
PlaceOf(outs, o) ==
  IF o \in ToSet(outs) THEN SelectInSeq(outs, LAMBDA p : p = o) ELSE 1

Spliced(table, o) ==
  LET i     == table[o].in[1]
      outs  == table[i].out \o table[o].out
      place == PlaceOf(table[i].out, o)
  IN  [p \in OpIds |->
         [table[p] EXCEPT !.out = IF p = i THEN FilledAt(outs, place) ELSE @,
                          !.in  = IF p \in ToSet(table[o].out) THEN InsteadOf(@, o, i) ELSE @]]

FreeOp(o) == used' = Without(used, o) /\ free' = <<o>> \o free

(* The readers are added before o is taken out.                              *)
Fits(o) == Len(ops[ops[o].in[1]].out) + Len(ops[o].out) <= MaxBranch

Bypass(table) ==
  \/ /\ Fits(cursor)
     /\ ops' = Spliced(table, cursor)
     /\ FreeOp(cursor)
     /\ Leave
  \/ /\ ~Fits(cursor)
     /\ step' = "refused"
     /\ UNCHANGED <<net, maps, gen, cursor, sharing, meaning>>

(* removeQuerySources                                                        *)
RemoveQuerySource ==
  /\ At("unsource")
  /\ \/ ops[cursor].kind = "qsrc" /\ Bypass(ops)
     \/ ops[cursor].kind # "qsrc" /\ Pass

(* addSinks                                                                  *)
\* Mutant: what a source produces needs no reader.
UnreadOperator(o) == ops[o].out = <<>> /\ ops[o].kind \notin {"output", "ssgen", "source", "sink"}
\* Mutant: nothing needs a reader.
NeverUnread(o) == FALSE
Unread(o) == ops[o].out = <<>> /\ ops[o].kind \notin {"output", "ssgen"}

AddSink ==
  /\ At("sinks")
  /\ \/ /\ Unread(cursor)
        /\ CanMake(<<cursor>>)
        /\ ops' = WithReader(Head(free), "sink", <<>>, <<cursor>>)
        /\ TakeOp
        /\ Leave
     \/ Unread(cursor) /\ CannotMake(<<cursor>>)
     \/ ~Unread(cursor) /\ Pass

(* mergeSelects: into a select or a join that nobody else reads.             *)
Below == ops[cursor].in[1]

\* Mutant: others may read the operator below.
MergesSharedSelect == ops[cursor].kind = "select" /\ ops[Below].kind \in {"select", "join"}
MergesSelect ==
  /\ ops[cursor].kind = "select"
  /\ ops[Below].kind \in {"select", "join"}
  /\ Len(ops[Below].out) = 1

MergeSelect ==
  /\ At("selects")
  /\ \/ MergesSelect /\ Bypass([ops EXCEPT ![Below].par = @ \o ops[cursor].par])
     \/ ~MergesSelect /\ Pass

(* mergeProjectsToJoin                                                       *)
\* Mutant: others may read the join.
MergesSharedProject == ops[cursor].kind = "project" /\ ops[Below].kind = "join"
MergesProject ==
  /\ ops[cursor].kind = "project"
  /\ ops[Below].kind = "join"
  /\ Len(ops[Below].out) <= 1

MergeProject ==
  /\ At("projects")
  /\ \/ MergesProject /\ Bypass([ops EXCEPT ![Below].kind = "joinproject",
                                           ![Below].par = @ \o ops[cursor].par])
     \/ ~MergesProject /\ Pass

-----------------------------------------------------------------------------
(* findSharedOps: level by level from the sources, every operator is compared *)
(* with those after it and takes over the readers of its equals.             *)

\* Mutant: selects are forgotten.
ForgottenShared == {"ssgen", "source", "output", "sink", "select"}
NeverShared     == {"ssgen", "source", "output", "sink"}

(* compareOperators, given what it says of the inputs: they decide first.  A   *)
(* join without a predicate has a null pointer for one.                       *)
Verdict(a, b, below) ==
  LET A == ops[a]
      B == ops[b]
      unlike == {k \in DOMAIN A.in : below[k] # "same"}
  IN  IF a = b THEN "same"
      ELSE IF A.kind # B.kind \/ Len(A.in) # Len(B.in) THEN "different"
      ELSE IF unlike # {} THEN below[Min(unlike)]
      ELSE IF A.kind = "join" /\ <<>> \in {A.par, B.par} THEN "crash"
      ELSE IF A.kind \notin NeverShared /\ A.par = B.par THEN "same"
      ELSE "different"

Compared[pair \in OpIds \X OpIds] ==
  LET a == pair[1]
      b == pair[2]
  IN  Verdict(a, b, [k \in DOMAIN ops[a].in |-> Compared[<<ops[a].in[k], ops[b].in[k]>>]])
CompareOperators(a, b) ==
  Verdict(a, b, [k \in DOMAIN ops[a].in |-> Compared[<<ops[a].in[k], ops[b].in[k]>>]])

(* mergeOperators: the readers of b become readers of a; b is taken out of    *)
(* the operators in use, and not given back to the free ones.  It may be there *)
(* no more: then its readers know nothing of it, and only a reader is copied *)
(* past the end of those of a.                                               *)
Lost(b)       == ops[b].out # <<>> /\ b \notin ToSet(ops[Head(ops[b].out)].in)
Spills(a, b)  == Len(ops[a].out) + (IF Lost(b) THEN 1 ELSE Len(ops[b].out)) > MaxBranch
Attached(b)   == \A p \in ToSet(ops[b].in) : b \in ToSet(ops[p].out)
\* Mutant: the class of the operator that goes is lost.
Kept(a, b)    == ops[a].cls
Lowest(a, b)  == IF ops[b].cls < ops[a].cls THEN ops[b].cls ELSE ops[a].cls

\* Mutant: b stays a reader of its inputs.
Told(b)        == ToSet(ops[b].out)
FeedingNone(b) == {}
Feeding(b)     == ToSet(ops[b].in)

Merged(a, b) ==
  [p \in OpIds |->
     [ops[p] EXCEPT !.cls = IF p = a THEN Lowest(a, b) ELSE @,
                    !.out = IF p = a THEN @ \o ops[b].out
                            ELSE IF p \in Feeding(b) THEN Without(@, b) ELSE @,
                    !.in  = IF p \in Told(b) THEN ReplaceAll(@, b, a) ELSE @]]

(* The list is relinked through both neighbours of b.                        *)
BetweenOthers(b) == b # Head(used) /\ b # Last(used)

Merge(a, b) ==
  \/ Spills(a, b) /\ step' = "overflow" /\ UNCHANGED net
  \/ /\ ~Spills(a, b)
     /\ Lost(b)
     /\ ops' = [ops EXCEPT ![a].cls = Lowest(a, b)]
     /\ UNCHANGED <<used, free, step>>
  \/ /\ ~Spills(a, b)
     /\ ~Lost(b)
     /\ ops' = Merged(a, b)
     /\ used' = IF Attached(b) THEN Without(used, b) ELSE used
     /\ step' = IF Attached(b) /\ ~BetweenOthers(b) THEN "nullNeighbour" ELSE step
     /\ UNCHANGED free

\* Mutant: the operator that was merged is compared once more.
KeptIn(vector, k) == vector
ErasedFrom(vector, k) == RemoveAt(vector, k)

ComparePair ==
  /\ step = "share" /\ row <= Len(level) /\ col <= Len(level)
  /\ LET a == level[row]
         b == level[col]
     IN  \/ /\ CompareOperators(a, b) = "same"
            /\ Merge(a, b)
            /\ level' = ErasedFrom(level, col)
            /\ UNCHANGED <<following, row, col>>
         \/ /\ CompareOperators(a, b) = "different"
            /\ col' = col + 1
            /\ UNCHANGED <<net, step, level, following, row>>
         \/ /\ CompareOperators(a, b) = "crash"
            /\ step' = "nullPred"
            /\ UNCHANGED <<net, sharing>>
  /\ UNCHANGED <<maps, gen, cursor, meaning>>

EndRow ==
  /\ step = "share" /\ row <= Len(level) /\ col > Len(level)
  /\ following' = following \o ops[level[row]].out
  /\ row' = row + 1
  /\ col' = row + 2
  /\ UNCHANGED <<net, maps, step, gen, cursor, level, meaning>>

Distinct(s) == Picked(s, {k \in DOMAIN s : \A j \in 1..(k - 1) : s[j] # s[k]})

EndLevel ==
  /\ step = "share" /\ row > Len(level)
  /\ \/ /\ level # <<>>
        /\ level' = Distinct(following)
        /\ following' = <<>> /\ row' = 1 /\ col' = 2
        /\ UNCHANGED <<step, cursor>>
     \/ /\ level = <<>>
        /\ step' = "projects"
        /\ cursor' = Head(used)
        /\ UNCHANGED sharing
  /\ UNCHANGED <<net, maps, gen, meaning>>

-----------------------------------------------------------------------------
(* The script decides what is built; the rest runs to its end.               *)
Load ==
  /\ Len(sourceOps) + Len(queryOutOps) <= MaxCalls
  /\ \/ AddBaseTable
     \/ \E q \in Queries : AddQuery(q)
     \/ MapView

Translate == TranslateSource \/ TranslateSelect \/ TranslateOperator \/ Translated
             \/ MakeQuerySource \/ MakeOutput

Rewrite == NextPass \/ RemoveQuerySource \/ AddSink \/ MergeSelect \/ MergeProject
           \/ ComparePair \/ EndRow \/ EndLevel

Over  == step \in {"done"} \cup Broken
Ended == Over /\ UNCHANGED planVars

Next == Load \/ Optimize \/ Translate \/ Rewrite \/ Ended

Spec     == Init /\ [][Next]_planVars
(* The calls return: nothing in them waits for anyone.                       *)
FairSpec == Spec /\ WF_planVars(Translate) /\ WF_planVars(Rewrite)
-----------------------------------------------------------------------------
(* Properties.                                                               *)

(* The network is one and the same seen from both ends: who reads from whom,  *)
(* and how often (a join may read one operator twice), and both ends are in   *)
(* use.  mk_*, shortCircuitInputOutput and mergeOperators each rewrite one    *)
(* side after the other.                                                     *)
EdgesAgree ==
  \A o \in ToSet(used) :
    /\ ToSet(ops[o].in) \cup ToSet(ops[o].out) \subseteq ToSet(used)
    /\ \A p \in ToSet(used) : Times(ops[o].in, p) = Times(ops[p].out, o)

(* Whatever the passes rewrite, every output goes on computing what its query *)
(* asked for when it was added.                                              *)
MeaningKept ==
  \A k \in DOMAIN meaning : \E o \in ToSet(used) :
    ops[o].kind = "output" /\ ops[o].par = <<k>> /\ Computes[o] = meaning[k]

(* The outputs an operator works for.                                        *)
Feeds[o \in OpIds] ==
  IF ops[o].kind = "output" THEN {o} ELSE UNION {Feeds[p] : p \in ToSet(ops[o].out)}

(* addQueryClasses and mergeOperators: an operator has the highest class of   *)
(* the queries it works for, and none if it works for none.  A query that is  *)
(* only a view has no class until an output is computed from it.             *)
ClassIsHighest ==
  step \in {"idle", "done"} \cup Passes =>
    \A o \in ToSet(used) :
      ops[o].kind \notin {"ssgen", "sink"} =>
        ops[o].cls = (IF Feeds[o] = {} THEN 0 ELSE Min({ops[p].cls : p \in Feeds[o]}))

(* findSharedOps "finds replicated operators" and "combines them": in the end *)
(* no two operators do the same to the same input.                           *)
AllShared ==
  step = "done" =>
    \A o, p \in ToSet(used) :
      /\ o # p /\ ops[o].kind \in {"select", "project", "unary", "join", "joinproject", "union"}
      => <<ops[o].kind, ops[o].par, ops[o].in>> # <<ops[p].kind, ops[p].par, ops[p].in>>

(* In the end no query source is left and somebody consumes what any operator *)
(* produces, but for the system stream.                                      *)
Consumed ==
  step = "done" =>
    \A o \in ToSet(used) :
      /\ ops[o].kind # "qsrc"
      /\ ops[o].kind \notin {"output", "sink", "ssgen"} => ops[o].out # <<>>

(* mergeOperators relinks the list through both neighbours of the operator it *)
(* takes out, without a look whether there are two: there always are.        *)
UnlinksSafely == step # "nullNeighbour"

(* Every call comes back: the sharing of operators too, which compares level  *)
(* by level while it changes what the levels are made of.                    *)
CallsReturn == (step \notin {"idle"} /\ ~Over) ~> (step = "idle" \/ Over)

(* Statements of the code's comments that it does not keep.                  *)

(* "Pool of active (used) operators organized as a linked list": what an      *)
(* active operator reads from is active.                                     *)
SharedInUse ==
  step = "done" => \A o \in ToSet(used) : ToSet(ops[o].in) \subseteq ToSet(used)

(* "Store the fact that op is the source operator for tableId": a query over  *)
(* a table reads from its operator.                                          *)
SourceOfTable ==
  \A k \in 2..Len(sourceOps) : Producer(sourceOps[k].table) = sourceOps[k].op

(* An operator and what it is computed from.                                 *)
Upstream[o \in OpIds] == {o} \cup UNION {Upstream[p] : p \in ToSet(ops[o].in)}

(* "We cannot merge if someone is reading from the child operator": nothing   *)
(* an output is computed from reads the join that a projection is about to be *)
(* merged into, but for the projection.                                      *)
ReadByNoOther ==
  At("projects") /\ MergesProject =>
    \A out \in ToSet(used) :
      ops[out].kind = "output" =>
        \A o \in Upstream[out] \ {cursor} : Below \notin ToSet(ops[o].in)

(* "Remove this operator from a plan, and directly connect its input to all   *)
(* its outputs": whatever an output is computed from and reads the projection *)
(* that is about to be removed is among those that are connected.            *)
ReadersTold ==
  At("projects") /\ MergesProject =>
    \A out \in ToSet(used) :
      ops[out].kind = "output" =>
        \A o \in Upstream[out] : cursor \in ToSet(ops[o].in) => o \in ToSet(ops[cursor].out)

(* free_op puts an operator on the list that new_op takes from, whoever has a *)
(* pointer to it: nothing that an output is computed from is ever on that    *)
(* list, though a reader may read an operator twice, and sharing leaves some *)
(* that the lists of readers know nothing of.                                *)
FreedUnread ==
  \A out \in ToSet(used) :
    ops[out].kind = "output" => Upstream[out] \cap ToSet(free) = {}

=============================================================================
