------------------------------ MODULE SemInterp ------------------------------
(****************************************************************************)
(* The first half of registerQuery: a text is parsed into nodes (nodes.cc)  *)
(* and the semantic interpreter (sem_interp.cc) replaces its names by       *)
(* numbers, clause by clause, until the Query of query.h is complete or an  *)
(* error code ends the registration.  What comes after is LogPlanGen's.     *)
(*                                                                          *)
(* Variables, tables and attributes are numbered from 1: the symbol table   *)
(* is query.vars, and since the names in it are distinct, the k-th table of *)
(* the FROM clause is variable k.                                           *)
(****************************************************************************)
EXTENDS Nodes

CONSTANTS
  Texts,        \* the queries that may be registered
  Tables,       \* the tables registered before them
  MaxNodes,     \* MAXNODE, the parser's nodes
  MaxExprs,     \* the smaller of NUM_EXPRS and MAXEXPR, the pools of expressions
  MaxTables,    \* MAX_TABLES and MAX_SYMBOLS
  MaxAttrs,     \* MAX_ATTRS, attributes of a table or of an operator
  MaxPred,      \* MAX_PRED, predicates of a WHERE clause
  MaxProj,      \* MAX_PROJ, expressions of a SELECT clause
  MaxGroupAttrs \* MAX_GROUP_ATTRS and MAX_PARTN_ATTRS

ASSUME QueryConstants ==
  /\ {MaxNodes, MaxExprs, MaxTables, MaxAttrs, MaxPred, MaxProj, MaxGroupAttrs} \subseteq Nat
  /\ MaxNodes + MaxProj <= MaxExprs
  /\ \A t \in Texts : IsText(t)
  /\ IsList(Tables)
  /\ \A t \in DOMAIN Tables :
       /\ IsTable(Tables[t])
       /\ Len(Tables[t].attrs) \in 1..MaxAttrs
       /\ TableNodes(Tables[t]) <= MaxNodes

VARIABLES
  text,      \* the query being registered
  step,      \* the function at work, or how the registration ended
  rc,        \* the error code it ended with, "ok" if none
  query,     \* the Query under construction
  numExprs   \* expressions allocated by newExpr

semVars == <<text, step, rc, query, numExprs>>

NoText  == "none"
NoQuery == [kind |-> "none", vars |-> <<>>, tables |-> <<>>, windows |-> <<>>,
            preds |-> <<>>, group |-> <<>>, proj |-> <<>>, distinct |-> FALSE, r2s |-> Absent]

SemInit == text = NoText /\ step = "idle" /\ rc = "ok" /\ query = NoQuery /\ numExprs = 0

Body == text.body

(* A step of the interpretation: it fails with a code, or passes the query on. *)
Proceed(fault, newQuery, used, next) ==
  /\ IF fault = "ok" THEN /\ step' = next /\ rc' = "ok"
                          /\ query' = newQuery /\ numExprs' = numExprs + used
                     ELSE /\ step' = "failed" /\ rc' = fault
                          /\ UNCHANGED <<query, numExprs>>
  /\ UNCHANGED text

(* The fault that a loop over 1..n meets first, if any.                      *)
FirstFault(Fault(_), n) ==
  LET bad == {k \in 1..n : Fault(k) # "ok"}
  IN  IF bad = {} THEN "ok" ELSE Fault(Min(bad))

(* The fault of the first of several stages that has one.                    *)
Or(first, second) == IF first # "ok" THEN first ELSE second
Check(wrong, code) == IF wrong THEN code ELSE "ok"

-----------------------------------------------------------------------------
(* The catalogue.                                                            *)

TableIds(name) == {t \in DOMAIN Tables : Tables[t].name = name}
TableId(name)  == Min(TableIds(name))
AttrIds(table, name) == {a \in DOMAIN Tables[table].attrs : Tables[table].attrs[a].name = name}
NumAttrs(table)    == Len(Tables[table].attrs)
AttrType(table, a) == Tables[table].attrs[a].type
IsStream(table)    == Tables[table].stream

OutputType(fn, type) == IF fn = "AVG" THEN "FLOAT" ELSE type

\* Mutant: newnode does not look at the size of its pool.
ParseAll ==
  /\ step = "idle"
  /\ \E t \in Texts : text' = t /\ step' = "tables"
  /\ rc' = "ok" /\ query' = NoQuery /\ numExprs' = 0

(* parseCommand: running out of nodes ends the process, not the query.       *)
Parse ==
  /\ step = "idle"
  /\ \E t \in Texts :
       /\ text' = t
       /\ step' = IF QueryNodes(t) > MaxNodes THEN "exit" ELSE "tables"
  /\ rc' = "ok" /\ query' = NoQuery /\ numExprs' = 0

-----------------------------------------------------------------------------
(* The tables a query refers to.                                             *)

VarName(rel) == IF rel.as # Absent THEN rel.as ELSE rel.table

SfwTablesFault(from) ==
  LET Fault(k) == IF TableIds(from[k].table) = {} THEN "UNKNOWN_TABLE_ERR"
                  ELSE IF \E j \in 1..(k - 1) : VarName(from[j]) = VarName(from[k])
                       THEN "AMBIGUOUS_TABLE_ERR"
                  ELSE Check(k > MaxTables, "limit")
  IN  FirstFault(Fault, Len(from))

SfwTables(from) ==
  [NoQuery EXCEPT !.kind   = "sfw",
                  !.vars   = [k \in DOMAIN from |-> VarName(from[k])],
                  !.tables = [k \in DOMAIN from |-> TableId(from[k].table)],
                  !.r2s    = text.r2s]

BinOpTablesFault ==
  Check(TableIds(Body.left) = {} \/ TableIds(Body.right) = {}, "UNKNOWN_TABLE_ERR")

BinOpTables ==
  [NoQuery EXCEPT !.kind   = Body.kind,
                  !.tables = <<TableId(Body.left), TableId(Body.right)>>,
                  !.r2s    = text.r2s]

(* getReferencedTables, then interpretR2SOp.                                  *)
GetReferencedTables ==
  /\ step = "tables"
  /\ IF Body.kind = "sfw"
     THEN Proceed(SfwTablesFault(Body.from), SfwTables(Body.from), 0, "from")
     ELSE Proceed(BinOpTablesFault, BinOpTables, 0, "binop")

-----------------------------------------------------------------------------
(* Names of attributes.                                                      *)

Vars == DOMAIN query.vars
Named(ref) == IF ref.var = Absent THEN Vars ELSE {v \in Vars : query.vars[v] = ref.var}
Owners(ref) == {v \in Named(ref) : AttrIds(query.tables[v], ref.name) # {}}

AttrFault(ref) ==
  IF Named(ref) = {} THEN "UNKNOWN_VAR_ERR"
  ELSE IF Owners(ref) = {} THEN "UNKNOWN_ATTR_ERR"
  ELSE Check(Cardinality(Owners(ref)) > 1, "AMBIGUOUS_ATTR_ERR")

SemAttr(ref) ==
  LET v == Min(Owners(ref)) IN [var |-> v, attr |-> Min(AttrIds(query.tables[v], ref.name))]

SemAttrType(a) == AttrType(query.tables[a.var], a.attr)

(* A list of attributes, each of which may be one too many.                  *)
AttrListFault(refs) ==
  FirstFault(LAMBDA k : Or(AttrFault(refs[k]), Check(k > MaxGroupAttrs, "limit")), Len(refs))

AttrList(refs) == [k \in DOMAIN refs |-> SemAttr(refs[k])]

-----------------------------------------------------------------------------
(* Expressions.                                                              *)

LeafType(leaf) == IF leaf.kind = "const" THEN leaf.type ELSE SemAttrType(SemAttr(leaf))

LeafFault(leaf) == IF leaf.kind = "const" THEN "ok" ELSE AttrFault(leaf)

SemLeaf(leaf) ==
  IF leaf.kind = "const" THEN leaf
  ELSE [kind |-> "attr", attr |-> SemAttr(leaf), type |-> LeafType(leaf)]

(* COUNT counts the first attribute of the first table, whatever it is given. *)
AggrAttr(expr) == IF expr.fn = "COUNT" THEN [var |-> 1, attr |-> 1] ELSE SemAttr(expr.attr)

(* The parts are all of one type: each is compared with what is on its left.  *)
ExprFault(expr) ==
  IF expr.kind = "aggr" THEN IF expr.fn = "COUNT" THEN "ok" ELSE AttrFault(expr.attr)
  ELSE FirstFault(LAMBDA k : Or(LeafFault(expr.operands[k]),
                                Check(LeafType(expr.operands[k]) # LeafType(expr.operands[1]),
                                      "TYPE_ERR")),
                  Len(expr.operands))

SemExpr(expr) ==
  IF expr.kind = "aggr"
  THEN LET a == AggrAttr(expr)
       IN  [kind |-> "aggr", fn |-> expr.fn, attr |-> a, type |-> OutputType(expr.fn, SemAttrType(a))]
  ELSE [kind     |-> "arith",
        operands |-> [k \in DOMAIN expr.operands |-> SemLeaf(expr.operands[k])],
        type     |-> LeafType(expr.operands[1])]

SemExprNodes(expr) == IF expr.kind = "aggr" THEN 1 ELSE ExprNodes(expr)
TermsNodes(terms) == SumFunction([k \in DOMAIN terms |-> SemExprNodes(terms[k])])

\* Mutant: the two sides of a comparison may have different types.
UntypedCondnFault(condn) == Or(ExprFault(condn.left), ExprFault(condn.right))

CondnFault(condn) ==
  Or(Or(ExprFault(condn.left), ExprFault(condn.right)),
     Check(SemExpr(condn.left).type # SemExpr(condn.right).type, "TYPE_ERR"))

SemCondn(condn) ==
  [op |-> condn.op, left |-> SemExpr(condn.left), right |-> SemExpr(condn.right)]

SemCondnNodes(condn) == SemExprNodes(condn.left) + SemExprNodes(condn.right)
CondnsNodes(condns) == SumFunction([k \in DOMAIN condns |-> SemCondnNodes(condns[k])])

-----------------------------------------------------------------------------
(* The clauses, in the order in which interpretQuery goes through them.       *)

Unit == [NOTIMEUNIT |-> 1, SECOND |-> 1, MINUTE |-> 60, HOUR |-> 3600, DAY |-> 86400]

WinFault(win, table) ==
  IF IsStream(table)
  THEN IF win.type = "PARTITION" THEN AttrListFault(win.attrs) ELSE "ok"
  ELSE Check(win.type # Absent, "WINDOW_OVER_REL_ERR")

(* A stream without a window has the unbounded one; a relation has none.      *)
SemWin(win, table) ==
  CASE win.type = Absent      -> IF IsStream(table) THEN UnboundedWin ELSE NoWin
    [] win.type = "RANGE"     -> [type |-> "RANGE", units |-> win.time.len * Unit[win.time.unit]]
    [] win.type = "PARTITION" -> PartWin(AttrList(win.attrs), win.rows)
    [] OTHER                  -> win

InterpretFromClause ==
  LET Fault(k) == WinFault(Body.from[k].win, query.tables[k])
  IN  /\ step = "from"
      /\ Proceed(FirstFault(Fault, Len(Body.from)),
                 [query EXCEPT !.windows =
                    [k \in DOMAIN Body.from |-> SemWin(Body.from[k].win, query.tables[k])]],
                 0, "where")

InterpretWhereClause ==
  LET Fault(k) == Or(CondnFault(Body.where[k]), Check(k > MaxPred, "limit"))
  IN  /\ step = "where"
      /\ Proceed(FirstFault(Fault, Len(Body.where)),
                 [query EXCEPT !.preds = [k \in DOMAIN Body.where |-> SemCondn(Body.where[k])]],
                 CondnsNodes(Body.where), "group")

InterpretGroupByClause ==
  /\ step = "group"
  /\ Proceed(AttrListFault(Body.group), [query EXCEPT !.group = AttrList(Body.group)], 0, "select")

(* SELECT *: every attribute of every table of the FROM clause.               *)
StarExprs ==
  LET Of(v) == [a \in 1..NumAttrs(query.tables[v]) |->
                  SemExpr(Operand(AttrRef(query.vars[v], Tables[query.tables[v]].attrs[a].name)))]
  IN  FlattenSeq([v \in Vars |-> Of(v)])

InterpretStarInSelect ==
  Proceed(Check(Len(StarExprs) > MaxProj, "limit"),
          [query EXCEPT !.distinct = Body.select.distinct, !.proj = StarExprs],
          Len(StarExprs), "plan")

InterpretExprsInSelect ==
  LET terms == Body.select.terms
      Fault(k) == Or(ExprFault(terms[k]), Check(k > MaxProj, "limit"))
  IN  Proceed(FirstFault(Fault, Len(terms)),
              [query EXCEPT !.distinct = Body.select.distinct,
                            !.proj = [k \in DOMAIN terms |-> SemExpr(terms[k])]],
              TermsNodes(terms), "plan")

InterpretSelectClause ==
  /\ step = "select"
  /\ IF Body.select.terms = <<>> THEN InterpretStarInSelect ELSE InterpretExprsInSelect

SchemaCompatible(left, right) ==
  /\ NumAttrs(left) = NumAttrs(right)
  /\ \A a \in 1..NumAttrs(left) : AttrType(left, a) = AttrType(right, a)

InterpretBinOp ==
  /\ step = "binop"
  /\ Proceed(Check(~SchemaCompatible(query.tables[1], query.tables[2]), "SCHEMA_MISMATCH_ERR"),
             query, 0, "plan")

InterpretQuery ==
  \/ GetReferencedTables
  \/ InterpretFromClause \/ InterpretWhereClause
  \/ InterpretGroupByClause \/ InterpretSelectClause
  \/ InterpretBinOp

(* The nodes of the parser bound the expressions of a query, whose pools are  *)
(* never looked at again once newExpr has returned: the code relies on it.    *)
PoolsSuffice == numExprs <= MaxExprs
=============================================================================
