----------------------------- MODULE LogPlanGen -----------------------------
(****************************************************************************)
(* The second half of registerQuery: genLogPlan.  The naive generator       *)
(* (log_naive_plan_gen.cc) turns the Query that SemInterp leaves into a     *)
(* tree of logical operators, clause by clause; the transformations of      *)
(* log_plan_gen.cc then rewrite the tree, each one step here and the last   *)
(* one a step per selection.                                                *)
(****************************************************************************)
EXTENDS SemInterp, LogOp

VARIABLES
  pool,   \* the operators allocated for this query
  plan,   \* the topmost one of the tree
  at      \* FROM tables joined, predicates applied, or the selection to push

planVars == <<pool, plan, at>>
vars     == <<semVars, planVars>>

(* How a registration ends: "exit" when the parser calls exit, "crashed" on a *)
(* null pointer, "overflow" by writing past the end of outAttrs.             *)
Fatal == {"exit", "crashed", "overflow"}
Ended == {"done", "failed"} \cup Fatal

Naive      == {"plan", "preds", "aggr", "projs", "distinct", "r2s"}
Transforms == {"rstreamNow", "streamCross", "removeProject", "crossBinary",
               "streamCrossBinary", "pushSelect", "push"}
Steps == {"idle", "tables", "from", "where", "group", "select", "binop"}
         \cup Naive \cup Transforms \cup Ended

Init == SemInit /\ pool = <<>> /\ plan = 0 /\ at = 0

(* A step of the generation, with the pool and the tree it leaves.           *)
Generate(newPool, newPlan, cursor, next) ==
  /\ pool' = newPool /\ plan' = newPlan /\ at' = cursor /\ step' = next
  /\ UNCHANGED <<text, rc, query, numExprs>>

Stop(how) ==
  /\ step' = how
  /\ rc' = IF how = "failed" THEN "limit" ELSE rc
  /\ UNCHANGED <<text, query, numExprs, planVars>>

-----------------------------------------------------------------------------
(* From the Query to logical attributes and expressions.                     *)

LogAttr(a) == NamedAttr(a.var, query.tables[a.var], a.attr)

LogOperand(leaf) ==
  IF leaf.kind = "const" THEN ConstExpr(leaf) ELSE AttrExpr(LogAttr(leaf.attr), leaf.type)

LogExpr(expr) ==
  IF expr.kind = "aggr"
  THEN <<AttrExpr(AggrOf(LogAttr(expr.attr), expr.fn), expr.type)>>
  ELSE CompExpr([k \in DOMAIN expr.operands |-> LogOperand(expr.operands[k])])

LogBExpr(pred) == [op |-> pred.op, left |-> LogExpr(pred.left), right |-> LogExpr(pred.right)]

LogAttrs(list) == [k \in DOMAIN list |-> LogAttr(list[k])]

LogAttrType(attr) ==
  CASE attr.kind = "named"   -> AttrType(attr.table, attr.attr)
    [] attr.kind = "aggr"    -> OutputType(attr.fn, AttrType(attr.table, attr.attr))
    [] attr.kind = "unnamed" -> attr.type

SchemaTypes(schema) == [a \in DOMAIN schema |-> LogAttrType(schema[a])]

-----------------------------------------------------------------------------
(* The naive plan.                                                           *)

GetSource(p, var, table) == MkSource(p, var, table, NumAttrs(table), IsStream(table))

(* The window goes over the operator allocated last, the source of its stream. *)
ApplyWindow(p, win) ==
  CASE win.type = "RANGE"     -> MkRangeWindow(p, Len(p), win.units)
    [] win.type = "ROW"       -> MkRowWindow(p, Len(p), win.rows)
    [] win.type = "PARTITION" -> MkPartnWindow(p, Len(p), LogAttrs(win.attrs), win.rows)
    [] win.type = "NOW"       -> MkNowWindow(p, Len(p))
    [] win.type = "UNBOUNDED" -> p

TablePlan(p, var) ==
  LET source == GetSource(p, var, query.tables[var])
  IN  IF IsStream(query.tables[var]) THEN ApplyWindow(source, query.windows[var]) ELSE source

(* joinTables_n: one table needs no join; the cross is allocated before all.  *)
OneTable ==
  /\ Len(query.tables) = 1
  /\ LET p == TablePlan(pool, 1) IN Generate(p, Len(p), 0, "preds")

NextTable ==
  LET cross == 1
      p     == TablePlan(IF at = 0 THEN MkCross(pool) ELSE pool, at + 1)
      last  == at + 1 = Len(query.tables)
  IN  /\ Len(query.tables) > 1
      /\ IF CrossRefuses(p, cross, Len(p), MaxAttrs) THEN Stop("failed")
         ELSE Generate(CrossAddInput(p, cross, Len(p)), cross, IF last THEN 0 ELSE at + 1,
                       IF last THEN "preds" ELSE "plan")

JoinTables == step = "plan" /\ query.kind = "sfw" /\ (OneTable \/ NextTable)

ApplyPreds ==
  /\ step = "preds"
  /\ IF at < Len(query.preds)
     THEN LET p == MkSelect(pool, plan, LogBExpr(query.preds[at + 1]))
          IN  Generate(p, Len(p), at + 1, "preds")
     ELSE Generate(pool, plan, 0, "aggr")

(* The aggregations of the SELECT clause, each one once.                     *)
CollectAggrs ==
  LET Of(expr) == [attr |-> LogAttr(expr.attr), fn |-> expr.fn]
      Add(list, expr) == IF expr.kind # "aggr" \/ Contains(list, Of(expr)) THEN list
                         ELSE Append(list, Of(expr))
      list[n \in 0..Len(query.proj)] == IF n = 0 THEN <<>> ELSE Add(list[n - 1], query.proj[n])
  IN  list[Len(query.proj)]

(* add_group_attr and add_aggr check each kind by itself, not outAttrs: what  *)
(* fits singly and not together is written past its end.                     *)
ApplyAggr ==
  LET group == LogAttrs(query.group)
      aggrs == CollectAggrs
      p     == MkGroupAggr(pool, plan, group, aggrs)
  IN  /\ step = "aggr"
      /\ IF Len(aggrs) > MaxGroupAttrs THEN Stop("failed")
         ELSE IF group = <<>> /\ aggrs = <<>> THEN Generate(pool, plan, 0, "projs")
         ELSE IF Len(group) + Len(aggrs) > MaxAttrs THEN Generate(p, Len(p), 0, "overflow")
         ELSE Generate(p, Len(p), 0, "projs")

(* add_project_expr returns null for the first expression that does not fit,  *)
(* and is handed that null with the next: one too many leaves no plan, which  *)
(* applyDistinct_n finds unless it has a distinct to put over it.            *)
Unfit == Len(query.proj) - MaxAttrs
DoProjs ==
  LET p == MkProject(pool, plan, [e \in DOMAIN query.proj |-> LogExpr(query.proj[e])])
  IN  /\ step = "projs"
      /\ CASE Unfit <= 0 -> Generate(p, Len(p), 0, "distinct")
           [] Unfit = 1  -> Generate(pool, 0, 0, "distinct")
           [] Unfit > 1  -> Stop("crashed")

ApplyDistinct ==
  LET p == MkDistinct(pool, plan)
  IN  /\ step = "distinct"
      /\ CASE query.distinct /\ plan = 0  -> Stop("crashed")
           [] query.distinct /\ plan # 0  -> Generate(p, Len(p), 0, "r2s")
           [] ~query.distinct /\ plan = 0 -> Stop("failed")
           [] ~query.distinct /\ plan # 0 -> Generate(pool, plan, 0, "r2s")

R2S(p, op) ==
  CASE query.r2s = "ISTREAM" -> MkIstream(p, op)
    [] query.r2s = "DSTREAM" -> MkDstream(p, op)
    [] query.r2s = "RSTREAM" -> MkRstream(p, op)

ApplyR2SOps ==
  LET p == R2S(pool, plan)
  IN  /\ step = "r2s"
      /\ IF query.r2s = Absent THEN Generate(pool, plan, 0, "rstreamNow")
         ELSE Generate(p, Len(p), 0, "rstreamNow")

(* genBinOpPlan_n: both sources are of variable 0 there, 1 here.             *)
GenBinOpPlan ==
  LET p == GetSource(GetSource(<<>>, 1, query.tables[1]), 1, query.tables[2])
      q == IF query.kind = "union" THEN MkUnion(p, 1, 2, SchemaTypes(p[1].out))
                                   ELSE MkExcept(p, 1, 2, SchemaTypes(p[1].out))
  IN  /\ step = "plan" /\ query.kind # "sfw"
      /\ Generate(q, Len(q), 0, "r2s")

GenPlan == \/ JoinTables \/ ApplyPreds \/ ApplyAggr
           \/ DoProjs \/ ApplyDistinct \/ ApplyR2SOps \/ GenBinOpPlan

-----------------------------------------------------------------------------
(* Walking over the tree.                                                    *)

Input(op) == pool[op].inputs[1]

(* The first operator from op downwards that is not of one of the kinds.      *)
Descend(op, kinds) ==
  LET down[n \in 0..Len(pool)] ==
        IF n = 0 THEN op
        ELSE IF pool[down[n - 1]].kind \in kinds THEN Input(down[n - 1]) ELSE down[n - 1]
  IN  down[Len(pool)]

(* A transformation that finds its pattern leaves a new tree.                *)
Transform(now, found, newPool, newPlan, next) ==
  /\ step = now
  /\ IF found THEN Generate(newPool, newPlan, 0, next) ELSE Generate(pool, plan, 0, next)

(* Puts `new` in the place that `old` has in the tree.                       *)
Replace(p, old, new) ==
  IF p[old].output = 0 THEN [p EXCEPT ![new].output = 0]
  ELSE [p EXCEPT ![new].output = p[old].output, ![p[old].output].inputs = <<new>>]
RootAfter(old, new) == IF plan = old THEN new ELSE plan

(* The topmost operator is dropped.                                          *)
Uncap(p) == [p EXCEPT ![p[plan].inputs[1]].output = 0]

-----------------------------------------------------------------------------
(* The transformations.                                                      *)

\* Mutant: the pattern lets an aggregation stand between Rstream and Now.
OverAggregation == {"select", "project", "distinct", "groupAggr"}
UnderRstream == {"select", "project", "distinct"}

(* t_rstreamNow: what is between Rstream and Now produces streams from now on. *)
RemoveNow(now) ==
  LET stream(p, o) == [p[o] EXCEPT !.stream = TRUE]
      p == Replace(Uncap(pool), now, Input(now))
  IN  UpwardsUntil(p, Above(Uncap(pool), now), {}, stream)

RstreamNow ==
  LET now == Descend(Input(plan), UnderRstream)
  IN  Transform("rstreamNow", pool[plan].kind = "rstream" /\ pool[now].kind = "nowWin",
                RemoveNow(now), IF now = Input(plan) THEN Input(now) ELSE Input(plan),
                "streamCross")

OverCross == {"project", "distinct", "groupAggr", "select"}

NowInputs(cross) == {i \in DOMAIN pool[cross].inputs : pool[pool[cross].inputs[i]].kind = "nowWin"}

(* The stream cross has the stream under the first Now for its first input    *)
(* and the other inputs of the cross, in their order, after it.              *)
StreamCrossFor(cross) ==
  LET first  == Min(NowInputs(cross))
      others == RemoveAt(pool[cross].inputs, first)
      new[n \in 0..Len(others)] ==
        IF n = 0 THEN MkStreamCross(pool, Input(pool[cross].inputs[first]))
        ELSE StreamCrossAddInput(new[n - 1], Len(pool) + 1, others[n])
  IN  new[Len(others)]

\* Mutant: the operators over the stream cross keep their bStream.
WithoutProperty(cross) ==
  LET p == StreamCrossFor(cross)
  IN  UpdateSchemaRecursive(Replace(p, cross, Len(p)), Above(pool, cross))

\* Mutant: the operators over the stream cross keep their schemas.
WithoutSchema(cross) ==
  LET p == StreamCrossFor(cross)
  IN  UpdateStreamPropertyRecursive(Replace(p, cross, Len(p)), Above(pool, cross))

ReplaceCross(cross) ==
  LET p == StreamCrossFor(cross)
      q == UpdateSchemaRecursive(Replace(p, cross, Len(p)), Above(pool, cross))
  IN  UpdateStreamPropertyRecursive(q, Above(pool, cross))

StreamCross ==
  LET cross == Descend(Input(plan), OverCross)
      p     == ReplaceCross(cross)
  IN  Transform("streamCross",
                /\ pool[plan].kind = "rstream" /\ pool[cross].kind = "cross"
                /\ NowInputs(cross) # {},
                Uncap(p), p[plan].inputs[1], "removeProject")

IsUselessProject(project) ==
  LET out == pool[project].out
      in  == pool[Input(project)].out
  IN  Len(out) = Len(in) /\ \A a \in DOMAIN out : SameAttr(out[a], in[a])

RemoveProject ==
  LET project == Descend(plan, {"select", "distinct"} \cup XStreams)
  IN  Transform("removeProject", pool[project].kind = "project" /\ IsUselessProject(project),
                Replace(pool, project, Input(project)), RootAfter(project, Input(project)),
                "crossBinary")

(* A product of n inputs becomes n - 1 products of two, nested to the left.   *)
Pair(p, kind, left, right) ==
  IF kind = "cross"
  THEN LET q == MkCross(p)
       IN  CrossAddInput(CrossAddInput(q, Len(q), left), Len(q), right)
  ELSE LET q == MkStreamCross(p, left) IN StreamCrossAddInput(q, Len(q), right)

Nested(cross) ==
  LET inputs == pool[cross].inputs
      kind   == pool[cross].kind
      nest[n \in 2..Len(inputs)] ==
        IF n = 2 THEN Pair(pool, kind, inputs[1], inputs[2])
        ELSE Pair(nest[n - 1], kind, Len(nest[n - 1]), inputs[n])
  IN  nest[Len(inputs)]

MakeBinary(now, kind, next) ==
  LET cross == Descend(plan, OverCross \cup XStreams)
      p     == Nested(cross)
  IN  Transform(now, pool[cross].kind = kind /\ Len(pool[cross].inputs) > 2,
                Replace(p, cross, Len(p)), RootAfter(cross, Len(p)), next)

MakeCrossBinary       == MakeBinary("crossBinary", "cross", "streamCrossBinary")
MakeStreamCrossBinary == MakeBinary("streamCrossBinary", "streamCross", "pushSelect")

(* t_pushSelect looks for the topmost selection.                             *)
FindSelect ==
  LET select == Descend(plan, XStreams \cup {"project", "distinct", "groupAggr"})
      found  == pool[select].kind = "select"
  IN  /\ step = "pushSelect"
      /\ Generate(pool, plan, IF found THEN select ELSE 0, IF found THEN "push" ELSE "done")

(* The inputs of op that have all attributes of a predicate.                 *)
\* Mutant: only the left side of the predicate is looked at.
LeftInputs(bexpr, op) ==
  {i \in DOMAIN pool[op].inputs : CheckReference(bexpr.left, pool[pool[op].inputs[i]])}

TakingInputs(bexpr, op) ==
  {i \in DOMAIN pool[op].inputs : /\ CheckReference(bexpr.left, pool[pool[op].inputs[i]])
                                  /\ CheckReference(bexpr.right, pool[pool[op].inputs[i]])}

CanBePushed(bexpr, op) ==
  \/ pool[op].kind = "select"
  \/ pool[op].kind \in Crosses /\ TakingInputs(bexpr, op) # {}

ChildPos(bexpr, op) == IF pool[op].kind = "select" THEN 1 ELSE Min(TakingInputs(bexpr, op))

\* Mutant: a selection is pushed below one product only.
OneStep(bexpr, s) ==
  IF ~CanBePushed(bexpr, s.op) \/ s.useful THEN s
  ELSE [op     |-> pool[s.op].inputs[ChildPos(bexpr, s.op)],
        pos    |-> ChildPos(bexpr, s.op),
        useful |-> pool[s.op].kind # "select"]

(* One turn of pushSelect's loop.                                            *)
Below(bexpr, s) ==
  IF ~CanBePushed(bexpr, s.op) THEN s
  ELSE [op     |-> pool[s.op].inputs[ChildPos(bexpr, s.op)],
        pos    |-> ChildPos(bexpr, s.op),
        useful |-> s.useful \/ pool[s.op].kind # "select"]

(* Where a selection gets to: the operator it can be put over, the position   *)
(* of this one among its siblings, and whether a product was passed.         *)
Goal(select) ==
  LET down[n \in 0..Len(pool)] ==
        IF n = 0 THEN [op |-> Input(select), pos |-> 1, useful |-> FALSE]
        ELSE Below(pool[select].arg, down[n - 1])
  IN  down[Len(pool)]

(* pushSelect's copy of the selection over the operator it got to.           *)
CopyTo(select, s) ==
  LET parent == pool[s.op].output
      p      == MkSelect(pool, s.op, pool[select].arg)
  IN  [p EXCEPT ![parent].inputs[s.pos] = Len(p), ![Len(p)].output = parent]

PushSelect ==
  LET goal   == Goal(at)
      below  == Input(at)
      p      == Replace(CopyTo(at, goal), at, below)
      more   == pool[below].kind = "select"
      next   == IF more THEN "push" ELSE "done"
      cursor == IF more THEN below ELSE 0
  IN  /\ step = "push"
      /\ IF goal.useful THEN Generate(p, RootAfter(at, below), cursor, next)
                        ELSE Generate(pool, plan, cursor, next)

GenLogPlan ==
  \/ RstreamNow \/ StreamCross \/ RemoveProject
  \/ MakeCrossBinary \/ MakeStreamCrossBinary
  \/ FindSelect \/ PushSelect

(* The plan goes to the plan manager, or its error code to the caller; the    *)
(* pools are reset before they are used again.                               *)
Return ==
  /\ step \in {"done", "failed"}
  /\ text' = NoText /\ step' = "idle" /\ rc' = "ok" /\ query' = NoQuery /\ numExprs' = 0
  /\ pool' = <<>> /\ plan' = 0 /\ at' = 0

ProcessEnds == step \in Fatal /\ UNCHANGED vars

Next ==
  \/ (Parse \/ InterpretQuery) /\ UNCHANGED planVars
  \/ GenPlan \/ GenLogPlan \/ Return \/ ProcessEnds

Spec == Init /\ [][Next]_vars
=============================================================================
