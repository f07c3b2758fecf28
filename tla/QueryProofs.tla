------------------------------ MODULE QueryProofs ------------------------------
(****************************************************************************)
(* What is proved of the interpretation of a query: the pool of expressions *)
(* is never exhausted, since the parser's nodes are fewer; and the query    *)
(* that the generator is given reads tables of the catalogue, through       *)
(* windows the generator knows, with expressions of one type each.          *)
(****************************************************************************)
EXTENDS PlanTree, DataLemmas

-----------------------------------------------------------------------------
(* The inductive invariant.                                                  *)

(* While it is interpreted a text has passed the parser.                      *)
Interpreting == {"tables", "from", "where", "group", "select", "binop"}
Clauses      == {"from", "where", "group", "select"}
TextInv ==
  /\ step \in Interpreting => text \in Texts /\ QueryNodes(text) <= MaxNodes
  /\ step \in Clauses => Body.kind = "sfw"

(* The symbol table names tables of the catalogue; what is selected is a list. *)
SymbolInv ==
  /\ DOMAIN query = DOMAIN NoQuery /\ Len(query.proj) \in Nat
  /\ step \in Clauses =>
       /\ IsList(query.vars)
       /\ \A v \in Vars : query.tables[v] \in DOMAIN Tables

(* Up to the SELECT clause only the WHERE clause has taken expressions.       *)
ExprsInv ==
  /\ numExprs \in Nat /\ numExprs <= MaxExprs
  /\ step \in {"tables", "from", "where", "binop"} => numExprs = 0
  /\ step \in {"group", "select"} => numExprs <= CondnsNodes(Body.where)

SemInv == TextInv /\ SymbolInv /\ ExprsInv

-----------------------------------------------------------------------------
(* Lists.                                                                    *)
LEMMA ListElements ==
  ASSUME NEW list, IsList(list)
  PROVE  /\ Len(list) \in Nat /\ DOMAIN list = 1..Len(list)
BY DEF IsList

(* A function over 1..n is a list.                                             *)
LEMMA ListOf ==
  ASSUME NEW n \in Nat, NEW f, f = [k \in 1..n |-> f[k]]
  PROVE  IsList(f) /\ Len(f) = n /\ DOMAIN f = 1..n
<1>1. DOMAIN f = 1..n
  OBVIOUS
<1>2. \A k \in 1..n : f[k] \in ToSet(f)
  BY <1>1 DEF ToSet
<1>3. f \in [1..n -> ToSet(f)]
  BY <1>2
<1>4. f \in Seq(ToSet(f))
  BY <1>3
<1>5. Len(f) = n
  BY <1>1, <1>3
<1>6. QED
  BY <1>1, <1>4, <1>5 DEF IsList

(* The nodes of a list are at least the sum of the nodes of its elements. *)
LEMMA SumType ==
  ASSUME NEW list, IsList(list), NEW f, DOMAIN f = DOMAIN list,
         f = [k \in DOMAIN f |-> f[k]], \A k \in DOMAIN f : f[k] \in Nat
  PROVE  SumFunction(f) \in Nat /\ ListNodes(f) \in Nat /\ SumFunction(f) <= ListNodes(f)
<1>1. f \in [1..Len(list) -> Nat] /\ Len(list) \in Nat
  BY ListElements
<1>2. SumFunction(f) \in Nat
  BY <1>1, SumAtMost
<1>3. Len(f) = Len(list)
  BY <1>1
<1>4. QED
  BY <1>1, <1>2, <1>3 DEF ListNodes

(* An expression takes no more places in the pool than nodes were parsed.     *)
LEMMA ExprNodesType ==
  ASSUME NEW expr, IsExpr(expr)
  PROVE  /\ ExprNodes(expr) \in Nat /\ SemExprNodes(expr) \in Nat
         /\ SemExprNodes(expr) <= ExprNodes(expr)
<1>1. CASE expr.kind = "arith"
  <2>1. Len(expr.operands) \in Nat /\ Len(expr.operands) # 0
    BY <1>1 DEF IsExpr, IsArith, IsList
  <2>2. 2 * Len(expr.operands) - 1 \in Nat
    BY <2>1
  <2>3. QED
    BY <1>1, <2>2 DEF ExprNodes, SemExprNodes
<1>2. CASE expr.kind # "arith"
  BY <1>2 DEF ExprNodes, SemExprNodes
<1>3. QED
  BY <1>1, <1>2

(* A window takes a number of nodes from the parser's pool. *)
LEMMA WinNodesType ==
  ASSUME NEW win, win.type = "PARTITION" => IsList(win.attrs) PROVE WinNodes(win) \in Nat
<1>1. CASE win.type = "PARTITION"
  <2>1. ListNodes(AttrNodes(win.attrs)) \in Nat
    BY <1>1, SumType DEF AttrNodes
  <2>2. QED
    BY <1>1, <2>1 DEF WinNodes, Absent
<1>2. CASE win.type # "PARTITION"
  BY <1>2 DEF WinNodes
<1>3. QED
  BY <1>1, <1>2

(* What is summed over a list is below what the list takes, if each element is. *)
LEMMA ListsCompared ==
  ASSUME NEW list, IsList(list), NEW f, NEW g,
         f = [k \in DOMAIN list |-> f[k]], g = [k \in DOMAIN list |-> g[k]],
         \A k \in DOMAIN list : f[k] \in Nat /\ g[k] \in Nat /\ f[k] <= g[k]
  PROVE  SumFunction(f) \in Nat /\ ListNodes(g) \in Nat /\ SumFunction(f) <= ListNodes(g)
<1>1. Len(list) \in Nat /\ f \in [1..Len(list) -> Nat] /\ g \in [1..Len(list) -> Nat]
  BY ListElements
<1>2. SumFunction(f) \in Nat /\ SumFunction(g) \in Nat /\ SumFunction(f) <= SumFunction(g)
  BY <1>1, ListElements, SumAtMost
<1>3. Len(g) = Len(list)
  BY <1>1
<1>4. QED
  BY <1>1, <1>2, <1>3 DEF ListNodes

(* The conditions and the terms of a block fit in the nodes of its text.      *)
LEMMA BlockFits ==
  ASSUME NEW t, IsText(t), t.body.kind = "sfw"
  PROVE  /\ CondnsNodes(t.body.where) \in Nat /\ TermsNodes(t.body.select.terms) \in Nat
         /\ QueryNodes(t) \in Nat
         /\ CondnsNodes(t.body.where) + TermsNodes(t.body.select.terms) <= QueryNodes(t)
<1> DEFINE terms  == t.body.select.terms
           from   == t.body.from
           where  == t.body.where
           group  == t.body.group
           termNodes  == [k \in DOMAIN terms |-> ExprNodes(terms[k])]
           fromNodes  == [k \in DOMAIN from |-> RelVarNodes(from[k])]
           whereNodes == [k \in DOMAIN where |-> CondnNodes(where[k])]
           termCost   == [k \in DOMAIN terms |-> SemExprNodes(terms[k])]
           whereCost  == [k \in DOMAIN where |-> SemCondnNodes(where[k])]
<1>1. /\ IsList(terms) /\ IsList(from) /\ IsList(where) /\ IsList(group)
      /\ \A k \in DOMAIN terms : IsExpr(terms[k])
      /\ \A k \in DOMAIN where : IsExpr(where[k].left) /\ IsExpr(where[k].right)
      /\ \A k \in DOMAIN from : from[k].win.type = "PARTITION" => IsList(from[k].win.attrs)
  BY DEF IsText, IsBlock, IsExpr
<1>2. SumFunction(termCost) \in Nat /\ ListNodes(termNodes) \in Nat
      /\ SumFunction(termCost) <= ListNodes(termNodes)
  <2>1. \A k \in DOMAIN terms :
           termCost[k] \in Nat /\ termNodes[k] \in Nat /\ termCost[k] <= termNodes[k]
    BY <1>1, ExprNodesType
  <2>2. QED
    BY <1>1, <2>1, ListsCompared
<1>3. SumFunction(whereCost) \in Nat /\ ListNodes(whereNodes) \in Nat
      /\ SumFunction(whereCost) <= ListNodes(whereNodes)
  <2>1. ASSUME NEW k \in DOMAIN where
        PROVE  whereCost[k] \in Nat /\ whereNodes[k] \in Nat /\ whereCost[k] <= whereNodes[k]
    <3>1. IsExpr(where[k].left) /\ IsExpr(where[k].right)
      BY <1>1
    <3>2. /\ ExprNodes(where[k].left) \in Nat /\ SemExprNodes(where[k].left) \in Nat
          /\ SemExprNodes(where[k].left) <= ExprNodes(where[k].left)
      BY <3>1, ExprNodesType
    <3>3. /\ ExprNodes(where[k].right) \in Nat /\ SemExprNodes(where[k].right) \in Nat
          /\ SemExprNodes(where[k].right) <= ExprNodes(where[k].right)
      BY <3>1, ExprNodesType
    <3>4. /\ whereCost[k] = SemExprNodes(where[k].left) + SemExprNodes(where[k].right)
          /\ whereNodes[k] = 1 + ExprNodes(where[k].left) + ExprNodes(where[k].right)
      BY DEF SemCondnNodes, CondnNodes
    <3>5. QED
      BY <3>2, <3>3, <3>4
  <2>2. QED
    BY <1>1, <2>1, ListsCompared
<1>4. ListNodes(fromNodes) \in Nat
  <2>1. \A k \in DOMAIN from : fromNodes[k] \in Nat
    BY <1>1, WinNodesType DEF RelVarNodes
  <2>2. QED
    BY <1>1, <2>1, SumType
<1>5. ListNodes(AttrNodes(group)) \in Nat
  BY <1>1, SumType DEF AttrNodes
<1>6. CondnsNodes(where) = SumFunction(whereCost) /\ TermsNodes(terms) = SumFunction(termCost)
  BY DEF CondnsNodes, TermsNodes
<1>7. /\ QueryNodes(t) = 1 + BodyNodes(t.body) + (IF t.r2s = Absent THEN 0 ELSE 1)
      /\ BodyNodes(t.body) = 2 + ListNodes(termNodes) + ListNodes(fromNodes)
                               + ListNodes(whereNodes) + ListNodes(AttrNodes(group))
  BY DEF QueryNodes, BodyNodes
<1> HIDE DEF termNodes, fromNodes, whereNodes, termCost, whereCost, terms, from, where, group
<1>8. /\ CondnsNodes(where) \in Nat /\ TermsNodes(terms) \in Nat /\ QueryNodes(t) \in Nat
      /\ CondnsNodes(where) + TermsNodes(terms) <= QueryNodes(t)
  BY <1>2, <1>3, <1>4, <1>5, <1>6, <1>7
<1>9. QED
  BY <1>8 DEF terms, where

-----------------------------------------------------------------------------
(* The catalogue and the symbol table.                                       *)

(* A loop meets no fault if no turn of it is one.                             *)
LEMMA SomeTable ==
  ASSUME NEW name, TableIds(name) # {} PROVE TableId(name) \in DOMAIN Tables
<1>1. TableIds(name) \in SUBSET Nat /\ TableIds(name) \in SUBSET DOMAIN Tables
  BY QueryConstants, ListElements DEF TableIds
<1>2. QED
  BY <1>1, Least DEF TableId

(* Each table of FROM is in the catalogue once getReferencedTables has passed. *)
LEMMA TablesFound ==
  ASSUME NEW from, IsList(from), SfwTablesFault(from) = "ok", NEW k \in DOMAIN from
  PROVE  TableId(from[k].table) \in DOMAIN Tables
<1> DEFINE Fault(j) == IF TableIds(from[j].table) = {} THEN "UNKNOWN_TABLE_ERR"
                       ELSE IF \E i \in 1..(j - 1) : VarName(from[i]) = VarName(from[j])
                            THEN "AMBIGUOUS_TABLE_ERR"
                       ELSE Check(j > MaxTables, "limit")
           bad == {j \in 1..Len(from) : Fault(j) # "ok"}
<1>1. bad = {}
  <2>1. SfwTablesFault(from) = IF bad = {} THEN "ok" ELSE Fault(Min(bad))
    BY DEF SfwTablesFault, FirstFault
  <2>2. bad # {} => Min(bad) \in bad
    <3>1. bad \in SUBSET Nat
      OBVIOUS
    <3> HIDE DEF bad
    <3>2. QED
      BY <3>1, Least
  <2>3. bad # {} => Fault(Min(bad)) # "ok"
    BY <2>2
  <2> HIDE DEF bad, Fault
  <2>4. QED
    BY <2>1, <2>3
<1>2. Fault(k) = "ok"
  BY <1>1, ListElements
<1>3. TableIds(from[k].table) # {}
  BY <1>2
<1>4. QED
  BY <1>3, SomeTable

(* The conditions and terms of a text take no more nodes than the text. *)
LEMMA TextNodes ==
  ASSUME text \in Texts, Body.kind = "sfw"
  PROVE  /\ CondnsNodes(Body.where) \in Nat /\ TermsNodes(Body.select.terms) \in Nat
         /\ QueryNodes(text) \in Nat
         /\ CondnsNodes(Body.where) + TermsNodes(Body.select.terms) <= QueryNodes(text)
         /\ IsList(Body.from) /\ IsList(Body.select.terms)
<1>1. IsText(text)
  BY QueryConstants
<1>2. QED
  BY <1>1, BlockFits DEF Body, IsText, IsBlock

(* Every text takes a number of nodes from the parser's pool. *)
LEMMA NodesCounted == \A t \in Texts : QueryNodes(t) \in Nat
<1> SUFFICES ASSUME NEW t \in Texts PROVE QueryNodes(t) \in Nat
  OBVIOUS
<1>1. IsText(t)
  BY QueryConstants
<1>2. CASE t.body.kind = "sfw"
  BY <1>1, <1>2, BlockFits
<1>3. CASE t.body.kind # "sfw"
  BY <1>3 DEF QueryNodes, BodyNodes
<1>4. QED
  BY <1>2, <1>3

-----------------------------------------------------------------------------
(* Steps.                                                                    *)

(* SELECT * gives a list.                                                     *)
LEMMA StarIsList ==
  ASSUME IsList(query.vars), \A v \in Vars : query.tables[v] \in DOMAIN Tables
  PROVE  Len(StarExprs) \in Nat
<1> DEFINE Expr(v, a) == SemExpr(Operand(AttrRef(query.vars[v], Tables[query.tables[v]].attrs[a].name)))
           S == {Expr(v, a) : v \in Vars, a \in 1..MaxAttrs}
           Of(v) == [a \in 1..NumAttrs(query.tables[v]) |-> Expr(v, a)]
           all == [v \in Vars |-> Of(v)]
<1>1. ASSUME NEW v \in Vars PROVE Of(v) \in Seq(S)
  <2>1. NumAttrs(query.tables[v]) \in 1..MaxAttrs /\ MaxAttrs \in Nat
    BY QueryConstants DEF NumAttrs
  <2>2. \A a \in 1..NumAttrs(query.tables[v]) : a \in 1..MaxAttrs
    BY <2>1
  <2>3. \A a \in 1..NumAttrs(query.tables[v]) : Expr(v, a) \in S
    BY <2>2
  <2> HIDE DEF S, Expr
  <2>4. NumAttrs(query.tables[v]) \in Nat
    BY <2>1
  <2>5. QED
    BY <2>3, <2>4
<1> HIDE DEF S, Of
<1>2. all \in Seq(Seq(S))
  <2>1. Vars = 1..Len(query.vars) /\ Len(query.vars) \in Nat
    BY ListElements DEF Vars
  <2>2. QED
    BY <1>1, <2>1
<1>3. FlattenSeq(all) \in Seq(S)
  BY <1>2, FlatType
<1>4. StarExprs = FlattenSeq(all)
  BY DEF StarExprs, Of
<1>5. QED
  BY <1>3, <1>4

(* The generator leaves the text, the Query and its expressions alone.        *)
LEMMA GenerationStep ==
  ASSUME GenPlan \/ GenLogPlan, Len(query.proj) \in Nat
  PROVE  UNCHANGED <<text, query, numExprs>> /\ step' \notin Interpreting
<1> DEFINE Later(next) == next \in Naive \cup Transforms \cup Ended
           Leaves == UNCHANGED <<text, query, numExprs>> /\ Later(step')
<1>1. ASSUME NEW p, NEW o, NEW c, NEW next, Later(next), Generate(p, o, c, next) PROVE Leaves
  BY <1>1 DEF Generate
<1>2. ASSUME NEW how, Later(how), Stop(how) PROVE Leaves
  BY <1>2 DEF Stop
<1>3. ASSUME NEW now, NEW found, NEW p, NEW o, NEW next, Later(next), Transform(now, found, p, o, next)
      PROVE  Leaves
  BY <1>1, <1>3 DEF Transform
<1>4. /\ Later("plan") /\ Later("preds") /\ Later("aggr") /\ Later("projs") /\ Later("distinct")
      /\ Later("r2s") /\ Later("rstreamNow") /\ Later("streamCross") /\ Later("removeProject")
      /\ Later("crossBinary") /\ Later("streamCrossBinary") /\ Later("pushSelect")
      /\ Later("push") /\ Later("done") /\ Later("failed") /\ Later("crashed") /\ Later("overflow")
  BY DEF Naive, Transforms, Ended, Fatal
<1>5. Leaves => step' \notin Interpreting
  BY DEF Naive, Transforms, Ended, Fatal, Interpreting
<1> HIDE DEF Later, Leaves
<1>6. CASE JoinTables
  <2>1. CASE OneTable
    <3>1. UNCHANGED <<text, query, numExprs>> /\ step' = "preds"
      BY <2>1 DEF OneTable, Generate
    <3>2. QED
      BY <3>1, <1>4, <1>5 DEF Leaves
  <2>2. CASE NextTable
    <3>1. UNCHANGED <<text, query, numExprs>> /\ step' \in {"failed", "preds", "plan"}
      BY <2>2 DEF NextTable, Generate, Stop
    <3>2. QED
      BY <3>1, <1>4, <1>5 DEF Leaves
  <2>3. QED
    BY <1>6, <2>1, <2>2 DEF JoinTables
<1>7. CASE ApplyPreds
  BY <1>1, <1>4, <1>5, <1>7 DEF ApplyPreds, Leaves
<1>8. CASE ApplyAggr
  BY <1>1, <1>2, <1>4, <1>5, <1>8 DEF ApplyAggr, Leaves
<1>9. CASE DoProjs
  <2>1. Unfit \in Int
    BY QueryConstants DEF Unfit
  <2>2. Unfit <= 0 \/ Unfit = 1 \/ Unfit > 1
    BY <2>1
  <2>3. UNCHANGED <<text, query, numExprs>> /\ step' \in {"distinct", "crashed"}
    BY <1>9, <2>2 DEF DoProjs, Generate, Stop
  <2>4. QED
    BY <2>3, <1>4, <1>5 DEF Leaves
<1>10. CASE ApplyDistinct
  BY <1>1, <1>2, <1>4, <1>5, <1>10 DEF ApplyDistinct, Leaves
<1>11. CASE ApplyR2SOps
  BY <1>1, <1>4, <1>5, <1>11 DEF ApplyR2SOps, Leaves
<1>12. CASE GenBinOpPlan
  BY <1>1, <1>4, <1>5, <1>12 DEF GenBinOpPlan, Leaves
<1>13. CASE RstreamNow
  BY <1>3, <1>4, <1>5, <1>13 DEF RstreamNow, Leaves
<1>14. CASE StreamCross
  BY <1>3, <1>4, <1>5, <1>14 DEF StreamCross, Leaves
<1>15. CASE RemoveProject
  BY <1>3, <1>4, <1>5, <1>15 DEF RemoveProject, Leaves
<1>16. CASE MakeCrossBinary \/ MakeStreamCrossBinary
  BY <1>3, <1>4, <1>5, <1>16 DEF MakeCrossBinary, MakeStreamCrossBinary, MakeBinary, Leaves
<1>17. CASE FindSelect
  BY <1>1, <1>4, <1>5, <1>17 DEF FindSelect, Leaves
<1>18. CASE PushSelect
  BY <1>1, <1>4, <1>5, <1>18 DEF PushSelect, Leaves
<1>19. QED
  BY <1>6, <1>7, <1>8, <1>9, <1>10, <1>11, <1>12, <1>13, <1>14, <1>15, <1>16, <1>17, <1>18
     DEF GenPlan, GenLogPlan

(* Every step keeps what is known of the pool of expressions. *)
LEMMA SemStep == SemInv /\ [Next]_vars => SemInv'
<1> SUFFICES ASSUME SemInv, [Next]_vars PROVE SemInv'
  OBVIOUS
<1>1. MaxExprs \in Nat /\ MaxNodes \in Nat /\ MaxProj \in Nat /\ MaxNodes + MaxProj <= MaxExprs
  BY QueryConstants
<1>2. CASE Parse
  <2>1. PICK t \in Texts :
          text' = t /\ step' = IF QueryNodes(t) > MaxNodes THEN "exit" ELSE "tables"
    BY <1>2 DEF Parse
  <2>2. query' = NoQuery /\ numExprs' = 0
    BY <1>2 DEF Parse
  <2>3. QueryNodes(t) \in Nat
    BY NodesCounted
  <2>4. step' = "tables" => QueryNodes(t) <= MaxNodes
    BY <1>1, <2>1, <2>3
  <2>5. step' \in {"exit", "tables"}
    BY <2>1
  <2>6. TextInv'
    BY <2>1, <2>4, <2>5 DEF TextInv, Interpreting, Clauses
  <2>7. SymbolInv'
    BY <2>2, <2>5 DEF SymbolInv, Clauses, NoQuery
  <2>8. ExprsInv'
    BY <1>1, <2>2, <2>5 DEF ExprsInv
  <2>9. QED
    BY <2>6, <2>7, <2>8 DEF SemInv
<1>3. CASE GetReferencedTables
  <2>1. /\ text' = text /\ text \in Texts /\ QueryNodes(text) <= MaxNodes
        /\ numExprs' = 0 /\ step' \in {"from", "binop", "failed"}
    BY <1>3 DEF GetReferencedTables, Proceed, SemInv, TextInv, ExprsInv, Interpreting
  <2>2. DOMAIN query' = DOMAIN NoQuery /\ Len(query'.proj) \in Nat
    <3>1. query' \in {query, SfwTables(Body.from), BinOpTables}
      BY <1>3 DEF GetReferencedTables, Proceed
    <3>2. /\ DOMAIN SfwTables(Body.from) = DOMAIN NoQuery /\ SfwTables(Body.from).proj = <<>>
          /\ DOMAIN BinOpTables = DOMAIN NoQuery /\ BinOpTables.proj = <<>>
      BY DEF SfwTables, BinOpTables, NoQuery
    <3>3. Len(<<>>) \in Nat
      OBVIOUS
    <3>4. DOMAIN query = DOMAIN NoQuery /\ Len(query.proj) \in Nat
      BY DEF SemInv, SymbolInv
    <3>5. QED
      BY <3>1, <3>2, <3>3, <3>4
  <2>3. ASSUME step' = "from"
        PROVE  /\ Body.kind = "sfw" /\ IsList(query.vars)'
               /\ (\A v \in Vars : query.tables[v] \in DOMAIN Tables)'
    <3>1. Body.kind = "sfw" /\ SfwTablesFault(Body.from) = "ok" /\ query' = SfwTables(Body.from)
      BY <1>3, <2>3 DEF GetReferencedTables, Proceed
    <3>2. IsList(Body.from)
      BY <2>1, <3>1, TextNodes
    <3>3. /\ query'.vars = [k \in DOMAIN Body.from |-> VarName(Body.from[k])]
          /\ query'.tables = [k \in DOMAIN Body.from |-> TableId(Body.from[k].table)]
      BY <3>1 DEF SfwTables, NoQuery
    <3>4. \A v \in DOMAIN Body.from : TableId(Body.from[v].table) \in DOMAIN Tables
      BY <3>1, <3>2, TablesFound
    <3>5. IsList(query'.vars) /\ DOMAIN query'.vars = DOMAIN Body.from
      BY <3>2, <3>3, ListElements, SMTT(40) DEF IsList, ToSet
    <3>6. QED
      BY <3>1, <3>3, <3>4, <3>5 DEF Vars
  <2>4. QED
    BY <1>1, <2>1, <2>2, <2>3 DEF SemInv, TextInv, SymbolInv, ExprsInv, Interpreting, Clauses, Body
<1>4. ASSUME step \in Clauses
      PROVE  /\ text \in Texts /\ QueryNodes(text) <= MaxNodes /\ Body.kind = "sfw"
             /\ CondnsNodes(Body.where) \in Nat /\ TermsNodes(Body.select.terms) \in Nat
             /\ CondnsNodes(Body.where) + TermsNodes(Body.select.terms) <= MaxNodes
             /\ IsList(query.vars) /\ \A v \in Vars : query.tables[v] \in DOMAIN Tables
  <2>1. /\ text \in Texts /\ QueryNodes(text) <= MaxNodes /\ Body.kind = "sfw"
        /\ IsList(query.vars) /\ \A v \in Vars : query.tables[v] \in DOMAIN Tables
    BY <1>4 DEF SemInv, TextInv, SymbolInv, Interpreting, Clauses
  <2>2. QED
    BY <1>1, <2>1, TextNodes
<1>5. ASSUME step \in Clauses, text' = text, DOMAIN query' = DOMAIN query,
             query'.vars = query.vars, query'.tables = query.tables, Len(query'.proj) \in Nat
      PROVE  (Body.kind = "sfw")' /\ SymbolInv' /\ (step' \in Interpreting => TextInv')
  BY <1>4, <1>5 DEF SemInv, TextInv, SymbolInv, Vars, Body
<1>6. CASE InterpretFromClause
  <2>1. step = "from" /\ text' = text /\ numExprs' = 0 /\ step' \in {"where", "failed"}
    BY <1>6 DEF InterpretFromClause, Proceed, SemInv, ExprsInv
  <2>2. /\ DOMAIN query' = DOMAIN query /\ query'.vars = query.vars /\ query'.tables = query.tables
        /\ Len(query'.proj) \in Nat
    BY <1>6 DEF InterpretFromClause, Proceed, SemInv, SymbolInv, NoQuery
  <2>3. QED
    BY <1>1, <1>5, <2>1, <2>2 DEF SemInv, TextInv, ExprsInv, Clauses, Interpreting
<1>7. CASE InterpretWhereClause
  <2>1. step = "where" /\ text' = text /\ step' \in {"group", "failed"} /\ numExprs = 0
    BY <1>7 DEF InterpretWhereClause, Proceed, SemInv, ExprsInv
  <2>2. /\ DOMAIN query' = DOMAIN query /\ query'.vars = query.vars /\ query'.tables = query.tables
        /\ Len(query'.proj) \in Nat
    BY <1>7 DEF InterpretWhereClause, Proceed, SemInv, SymbolInv, NoQuery
  <2>3. numExprs' \in {0, 0 + CondnsNodes(Body.where)}
    BY <1>7, <2>1 DEF InterpretWhereClause, Proceed
  <2>4. numExprs' \in Nat /\ numExprs' <= MaxExprs /\ numExprs' <= CondnsNodes(Body.where)
    BY <1>1, <1>4, <2>1, <2>3 DEF Clauses
  <2>5. QED
    BY <1>1, <1>5, <2>1, <2>2, <2>4 DEF SemInv, TextInv, ExprsInv, Clauses, Interpreting, Body
<1>8. CASE InterpretGroupByClause
  <2>1. step = "group" /\ text' = text /\ step' \in {"select", "failed"}
        /\ numExprs' \in {numExprs, numExprs + 0}
    BY <1>8 DEF InterpretGroupByClause, Proceed
  <2>2. /\ DOMAIN query' = DOMAIN query /\ query'.vars = query.vars /\ query'.tables = query.tables
        /\ Len(query'.proj) \in Nat
    BY <1>8 DEF InterpretGroupByClause, Proceed, SemInv, SymbolInv, NoQuery
  <2>3. numExprs' = numExprs
    BY <2>1 DEF SemInv, ExprsInv
  <2>4. QED
    BY <1>5, <2>1, <2>2, <2>3 DEF SemInv, TextInv, ExprsInv, Clauses, Interpreting, Body
<1>9. CASE InterpretSelectClause
  <2>1. step = "select" /\ text' = text /\ step' \in {"plan", "failed"}
    BY <1>9 DEF InterpretSelectClause, InterpretStarInSelect, InterpretExprsInSelect, Proceed
  <2>2. DOMAIN query' = DOMAIN query /\ query'.vars = query.vars /\ query'.tables = query.tables
    BY <1>9 DEF InterpretSelectClause, InterpretStarInSelect, InterpretExprsInSelect, Proceed,
                SemInv, SymbolInv, NoQuery
  <2>3. Len(query'.proj) \in Nat
    <3>1. Len(query.proj) \in Nat /\ DOMAIN query = DOMAIN NoQuery
      BY DEF SemInv, SymbolInv
    <3>2. CASE step' = "failed"
      BY <1>9, <3>1, <3>2 DEF InterpretSelectClause, InterpretStarInSelect, InterpretExprsInSelect, Proceed
    <3>3. CASE step' # "failed" /\ Body.select.terms = <<>>
      <4>1. query'.proj = StarExprs
        BY <1>9, <3>1, <3>3 DEF InterpretSelectClause, InterpretStarInSelect, Proceed, NoQuery
      <4>2. QED
        BY <1>4, <2>1, <4>1, StarIsList DEF Clauses
    <3>4. CASE step' # "failed" /\ Body.select.terms # <<>>
      <4> DEFINE terms == Body.select.terms
      <4>1. query'.proj = [k \in DOMAIN terms |-> SemExpr(terms[k])]
        BY <1>9, <3>1, <3>4 DEF InterpretSelectClause, InterpretExprsInSelect, Proceed, NoQuery
      <4>2. Len(terms) \in Nat /\ DOMAIN terms = 1..Len(terms)
        BY <1>4, <2>1, TextNodes, ListElements DEF Clauses
      <4> HIDE DEF terms
      <4>3. QED
        BY <4>1, <4>2
    <3>5. QED
      BY <3>2, <3>3, <3>4
  <2>4. /\ numExprs \in Nat /\ numExprs <= CondnsNodes(Body.where) /\ numExprs <= MaxExprs
    BY <2>1 DEF SemInv, ExprsInv
  <2>5. numExprs' \in Nat /\ numExprs' <= MaxExprs
    <3>1. CASE step' = "failed"
      BY <1>9, <2>4, <3>1 DEF InterpretSelectClause, InterpretStarInSelect, InterpretExprsInSelect, Proceed
    <3>2. CASE step' # "failed" /\ Body.select.terms = <<>>
      <4>1. Len(StarExprs) \in Nat
        BY <1>4, <2>1, StarIsList DEF Clauses
      <4>2. numExprs' = numExprs + Len(StarExprs) /\ ~(Len(StarExprs) > MaxProj)
        BY <1>9, <3>2 DEF InterpretSelectClause, InterpretStarInSelect, Proceed, Check
      <4>3. QED
        BY <1>1, <1>4, <2>1, <2>4, <4>1, <4>2 DEF Clauses
    <3>3. CASE step' # "failed" /\ Body.select.terms # <<>>
      <4>1. numExprs' = numExprs + TermsNodes(Body.select.terms)
        BY <1>9, <3>3 DEF InterpretSelectClause, InterpretExprsInSelect, Proceed
      <4>2. QED
        BY <1>1, <1>4, <2>1, <2>4, <4>1 DEF Clauses
    <3>4. QED
      BY <3>1, <3>2, <3>3
  <2>6. QED
    BY <1>5, <2>1, <2>2, <2>5, <2>3 DEF SemInv, TextInv, ExprsInv, Clauses, Interpreting
<1>10. CASE InterpretBinOp
  <2>1. text' = text /\ query' = query /\ numExprs' \in {numExprs, numExprs + 0} /\ step' \in {"plan", "failed"}
    BY <1>10 DEF InterpretBinOp, Proceed
  <2>2. numExprs' = numExprs
    BY <2>1 DEF SemInv, ExprsInv
  <2>3. QED
    BY <2>1, <2>2 DEF SemInv, TextInv, SymbolInv, ExprsInv, Clauses, Interpreting
<1>11. CASE GenPlan \/ GenLogPlan
  <2>1. Len(query.proj) \in Nat
    BY DEF SemInv, SymbolInv
  <2>2. UNCHANGED <<text, query, numExprs>> /\ step' \notin Interpreting
    BY <1>11, <2>1, GenerationStep
  <2>3. QED
    BY <2>2 DEF SemInv, TextInv, SymbolInv, ExprsInv, Clauses, Interpreting
<1>12. CASE Return
  BY <1>1, <1>12 DEF Return, NoQuery, SemInv, TextInv, SymbolInv, ExprsInv, Clauses, Interpreting
<1>13. CASE ProcessEnds \/ UNCHANGED vars
  BY <1>13 DEF ProcessEnds, vars, semVars, SemInv, TextInv, SymbolInv, ExprsInv, Vars, Body
<1>14. QED
  BY <1>2, <1>3, <1>6, <1>7, <1>8, <1>9, <1>10, <1>11, <1>12, <1>13 DEF Next, InterpretQuery

(* An interpreter that has not begun has made no expression. *)
LEMMA SemStart == Init => SemInv
BY QueryConstants DEF Init, SemInit, NoQuery, SemInv, TextInv, SymbolInv, ExprsInv, Interpreting, Clauses

(* newExpr and mk_const_expr never find their pools empty, whatever is        *)
(* registered: there are as many expressions as nodes of the parser, and one  *)
(* more for each attribute of SELECT *.                                       *)
THEOREM ExpressionsFit == Spec => []PoolsSuffice
<1>1. Init => SemInv
  BY SemStart
<1>2. SemInv /\ [Next]_vars => SemInv'
  BY SemStep
<1>3. SemInv => PoolsSuffice
  BY DEF SemInv, ExprsInv, PoolsSuffice
<1>4. QED
  BY <1>1, <1>2, <1>3, PTL DEF Spec

-----------------------------------------------------------------------------
(* The types of expressions.                                                 *)

(* An attribute of the Query is one of a table of the FROM clause.            *)
Known(a) == a.var \in DOMAIN query.tables /\ a.attr \in 1..NumAttrs(query.tables[a.var])
Names(expr) ==
  \/ expr.kind = "aggr" /\ Known(expr.attr)
  \/ expr.kind = "arith" /\ \A k \in DOMAIN expr.operands :
                              \/ expr.operands[k].kind = "const"
                              \/ expr.operands[k].kind = "attr" /\ Known(expr.operands[k].attr)

(* An expression of the Query and the logical one that is made of it have the  *)
(* type that all of their parts have in the catalogue.                        *)
Sound(expr) ==
  /\ expr.type \in Types /\ OfType(LogExpr(expr), expr.type)
  /\ ExprType(LogExpr(expr)) = expr.type /\ Names(expr)

Symbols ==
  /\ IsList(query.vars) /\ 1 \in Vars /\ DOMAIN query.tables = Vars
  /\ \A v \in Vars : query.tables[v] \in DOMAIN Tables

(* An attribute of a table in the catalogue is of one of the types there are. *)
LEMMA AttrOfTable ==
  ASSUME NEW table \in DOMAIN Tables, NEW a \in DOMAIN Tables[table].attrs
  PROVE  AttrType(table, a) \in Types
<1>1. IsTable(Tables[table])
  BY QueryConstants
<1>2. QED
  BY <1>1 DEF IsTable, AttrType

(* An attribute without a fault has a variable and a place in its table.       *)
LEMMA AttrPlace ==
  ASSUME Symbols, NEW ref, Owners(ref) # {}
  PROVE  /\ SemAttr(ref).var \in Vars
         /\ SemAttr(ref).attr \in DOMAIN Tables[query.tables[SemAttr(ref).var]].attrs
<1> DEFINE v == Min(Owners(ref))
           ids == AttrIds(query.tables[v], ref.name)
<1>1. Owners(ref) \in SUBSET Vars /\ Vars \in SUBSET Nat
  BY ListElements DEF Owners, Named, Symbols, Vars
<1>2. v \in Owners(ref)
  BY <1>1, Least
<1>3. v \in Vars /\ ids # {}
  BY <1>1, <1>2 DEF Owners
<1>4. ids \in SUBSET DOMAIN Tables[query.tables[v]].attrs
  BY DEF AttrIds
<1>5. DOMAIN Tables[query.tables[v]].attrs \in SUBSET Nat
  <2>1. IsTable(Tables[query.tables[v]])
    BY <1>3, QueryConstants DEF Symbols
  <2>2. QED
    BY <2>1, ListElements DEF IsTable
<1>6. Min(ids) \in ids
  BY <1>3, <1>4, <1>5, Least
<1>7. SemAttr(ref).var = v /\ SemAttr(ref).attr = Min(ids)
  BY DEF SemAttr
<1> HIDE DEF v, ids
<1>8. QED
  BY <1>3, <1>4, <1>6, <1>7

(* A name that is not refused has a variable whose table has the attribute. *)
LEMMA AttrKnown ==
  ASSUME NEW ref, AttrFault(ref) = "ok" PROVE Owners(ref) # {}
BY DEF AttrFault

(* So it is known.                                                           *)
LEMMA PlaceKnown ==
  ASSUME Symbols, NEW a, a.var \in Vars, a.attr \in DOMAIN Tables[query.tables[a.var]].attrs
  PROVE  Known(a)
<1>1. IsTable(Tables[query.tables[a.var]])
  BY QueryConstants DEF Symbols
<1>2. DOMAIN Tables[query.tables[a.var]].attrs = 1..NumAttrs(query.tables[a.var])
  BY <1>1, ListElements DEF IsTable, NumAttrs
<1>3. QED
  BY <1>2 DEF Known, Symbols

(* The attributes of a list that is not refused are known (GROUP BY and PARTITION BY). *)
LEMMA ListKnown ==
  ASSUME Symbols, NEW refs, IsList(refs), AttrListFault(refs) = "ok"
  PROVE  \A k \in DOMAIN refs : Known(SemAttr(refs[k]))
<1> DEFINE n == Len(refs)
           Fault(k) == Or(AttrFault(refs[k]), Check(k > MaxGroupAttrs, "limit"))
           faulty == {k \in 1..n : Fault(k) # "ok"}
<1>1. n \in Nat /\ DOMAIN refs = 1..n
  BY ListElements
<1>2. (IF faulty = {} THEN "ok" ELSE Fault(Min(faulty))) = "ok"
  BY DEF AttrListFault, FirstFault
<1>3. faulty # {} => Fault(Min(faulty)) # "ok"
  <2>1. faulty \in SUBSET Nat
    OBVIOUS
  <2>2. faulty # {} => Min(faulty) \in faulty
    <3> HIDE DEF faulty
    <3>1. QED
      BY <2>1, Least
  <2>3. QED
    BY <2>2
<1>4. faulty = {}
  <2> HIDE DEF faulty, Fault
  <2>1. QED
    BY <1>2, <1>3
<1>5. ASSUME NEW k \in 1..n PROVE Known(SemAttr(refs[k]))
  <2>1. Fault(k) = "ok"
    BY <1>4, <1>5
  <2>2. AttrFault(refs[k]) = "ok"
    BY <2>1 DEF Or
  <2>3. QED
    BY <2>2, AttrKnown, AttrPlace, PlaceKnown
<1>6. QED
  BY <1>1, <1>5

(* An operand.                                                               *)
LEMMA LeafSound ==
  ASSUME Symbols, NEW leaf, IsLeaf(leaf), leaf.kind = "attr" => Owners(leaf) # {}
  PROVE  LET o == LogOperand(SemLeaf(leaf))
         IN  /\ LeafType(leaf) \in Types /\ o.type = LeafType(leaf)
             /\ o.kind = "attr" => LogAttrType(o.attr) = LeafType(leaf)
             /\ \/ SemLeaf(leaf).kind = "const"
                \/ SemLeaf(leaf).kind = "attr" /\ Known(SemLeaf(leaf).attr)
<1> DEFINE o == LogOperand(SemLeaf(leaf))
           a == SemAttr(leaf)
<1>1. CASE leaf.kind = "const"
  <2>1. o = leaf /\ LeafType(leaf) = leaf.type /\ leaf.type \in Types
    BY <1>1 DEF SemLeaf, LogOperand, ConstExpr, LeafType, IsLeaf
  <2>2. SemLeaf(leaf) = leaf
    BY <1>1 DEF SemLeaf
  <2>3. QED
    BY <1>1, <2>1, <2>2
<1>2. CASE leaf.kind = "attr"
  <2>1. a.var \in Vars /\ a.attr \in DOMAIN Tables[query.tables[a.var]].attrs
    BY <1>2, AttrPlace
  <2>2. LeafType(leaf) = AttrType(query.tables[a.var], a.attr)
    BY <1>2 DEF LeafType, SemAttrType
  <2>3. LeafType(leaf) \in Types
    BY <2>1, <2>2, AttrOfTable DEF Symbols
  <2>4. SemLeaf(leaf) = [kind |-> "attr", attr |-> a, type |-> LeafType(leaf)]
    BY <1>2 DEF SemLeaf
  <2>5. o = AttrExpr(LogAttr(a), LeafType(leaf))
    BY <2>4 DEF LogOperand
  <2>6. o.type = LeafType(leaf) /\ o.attr = LogAttr(a)
    BY <2>5 DEF AttrExpr
  <2>7. LogAttrType(LogAttr(a)) = AttrType(query.tables[a.var], a.attr)
    BY DEF LogAttrType, LogAttr, NamedAttr
  <2>8. Known(a) /\ SemLeaf(leaf).attr = a /\ SemLeaf(leaf).kind = "attr"
    BY <2>1, <2>4, PlaceKnown
  <2>9. QED
    BY <2>2, <2>3, <2>6, <2>7, <2>8
<1>3. QED
  BY <1>1, <1>2 DEF IsLeaf

(* An expression of attributes that are known and of one type.                *)
LEMMA ArithSound ==
  ASSUME Symbols, NEW expr, expr.kind = "arith", IsList(expr.operands), expr.operands # <<>>,
         \A k \in DOMAIN expr.operands :
           /\ IsLeaf(expr.operands[k])
           /\ expr.operands[k].kind = "attr" => Owners(expr.operands[k]) # {}
           /\ LeafType(expr.operands[k]) = LeafType(expr.operands[1])
  PROVE  Sound(SemExpr(expr))
<1> DEFINE ops == expr.operands
           n == Len(ops)
           t == LeafType(ops[1])
           e == SemExpr(expr)
           l == LogExpr(e)
<1>1. n \in Nat /\ DOMAIN ops = 1..n /\ n # 0
  BY DEF IsList
<1>2. e.kind = "arith" /\ e.operands = [k \in 1..n |-> SemLeaf(ops[k])] /\ e.type = t
  BY <1>1 DEF SemExpr
<1> HIDE DEF e, n
<1>3. l = [k \in 1..n |-> LogOperand(SemLeaf(ops[k]))]
  BY <1>2 DEF LogExpr, CompExpr
<1> HIDE DEF l
<1>4. ASSUME NEW k \in 1..n
      PROVE  /\ l[k].type = t /\ (l[k].kind = "attr" => LogAttrType(l[k].attr) = t)
             /\ t \in Types
             /\ \/ SemLeaf(ops[k]).kind = "const"
                \/ SemLeaf(ops[k]).kind = "attr" /\ Known(SemLeaf(ops[k]).attr)
  <2>1. IsLeaf(ops[k]) /\ (ops[k].kind = "attr" => Owners(ops[k]) # {}) /\ LeafType(ops[k]) = t
    BY <1>1
  <2>2. l[k] = LogOperand(SemLeaf(ops[k]))
    BY <1>3
  <2> HIDE DEF t, ops
  <2>3. QED
    BY <2>1, <2>2, LeafSound
<1>5. 1 \in 1..n /\ DOMAIN l = 1..n
  BY <1>1, <1>3
<1> HIDE DEF t
<1>6. OfType(l, t) /\ ExprType(l) = t /\ t \in Types
  BY <1>4, <1>5 DEF OfType, ExprType
<1>7. Names(e)
  <2>1. DOMAIN e.operands = 1..n /\ \A k \in 1..n : e.operands[k] = SemLeaf(ops[k])
    BY <1>2
  <2>2. QED
    BY <1>2, <1>4, <2>1 DEF Names
<1>8. QED
  BY <1>2, <1>6, <1>7 DEF Sound, e, l

(* An aggregation of an attribute that is known, or a count.                  *)
LEMMA AggrSound ==
  ASSUME Symbols, NEW expr, expr.kind = "aggr", expr.fn = "COUNT" \/ Owners(expr.attr) # {}
  PROVE  Sound(SemExpr(expr))
<1> DEFINE a == AggrAttr(expr)
           type == OutputType(expr.fn, SemAttrType(a))
           e == SemExpr(expr)
           l == LogExpr(e)
<1>1. a.var \in Vars /\ a.attr \in DOMAIN Tables[query.tables[a.var]].attrs
  <2>1. CASE expr.fn = "COUNT"
    <3>1. a.var = 1 /\ a.attr = 1 /\ query.tables[1] \in DOMAIN Tables
      BY <2>1 DEF AggrAttr, Symbols
    <3>2. IsTable(Tables[query.tables[1]]) /\ Len(Tables[query.tables[1]].attrs) \in 1..MaxAttrs
      BY <3>1, QueryConstants
    <3>3. 1 \in 1..Len(Tables[query.tables[1]].attrs)
      BY <3>2, QueryConstants
    <3>4. DOMAIN Tables[query.tables[1]].attrs = 1..Len(Tables[query.tables[1]].attrs)
      BY <3>2, ListElements DEF IsTable
    <3>5. QED
      BY <3>1, <3>3, <3>4 DEF Symbols
  <2>2. CASE expr.fn # "COUNT"
    BY <2>2, AttrPlace DEF AggrAttr
  <2>3. QED
    BY <2>1, <2>2
<1>2. SemAttrType(a) = AttrType(query.tables[a.var], a.attr) /\ SemAttrType(a) \in Types
  BY <1>1, AttrOfTable DEF SemAttrType, Symbols
<1>3. type \in Types
  BY <1>2 DEF OutputType, Types
<1>4. e = [kind |-> "aggr", fn |-> expr.fn, attr |-> a, type |-> type]
  BY DEF SemExpr
<1>5. Names(e)
  <2>1. Known(a)
    BY <1>1, PlaceKnown
  <2>2. e.kind = "aggr" /\ e.attr = a
    BY <1>4
  <2>3. QED
    BY <2>1, <2>2 DEF Names
<1> HIDE DEF e, a, type
<1>6. l = <<AttrExpr(AggrOf(LogAttr(a), expr.fn), type)>> /\ e.type = type
  BY <1>4 DEF LogExpr
<1> HIDE DEF l
<1>7. DOMAIN l = {1} /\ l[1] = AttrExpr(AggrOf(LogAttr(a), expr.fn), type)
  BY <1>6
<1>8. l[1].type = type /\ l[1].attr = AggrOf(LogAttr(a), expr.fn) /\ l[1].kind = "attr"
  BY <1>7 DEF AttrExpr
<1>9. LogAttrType(AggrOf(LogAttr(a), expr.fn)) = OutputType(expr.fn, AttrType(query.tables[a.var], a.attr))
  BY DEF LogAttrType, AggrOf, LogAttr, NamedAttr
<1>10. LogAttrType(l[1].attr) = type
  BY <1>2, <1>8, <1>9 DEF type
<1>11. OfType(l, type) /\ ExprType(l) = type
  BY <1>7, <1>8, <1>10 DEF OfType, ExprType
<1>12. QED
  BY <1>3, <1>6, <1>11, <1>5 DEF Sound, e, l

(* What the interpreter finds no fault with is of one type.                    *)
LEMMA ExprSound ==
  ASSUME Symbols, NEW expr, IsExpr(expr), ExprFault(expr) = "ok"
  PROVE  Sound(SemExpr(expr))
<1>1. CASE expr.kind = "aggr"
  <2>1. expr.fn = "COUNT" \/ AttrFault(expr.attr) = "ok"
    BY <1>1 DEF ExprFault
  <2>2. QED
    BY <1>1, <2>1, AttrKnown, AggrSound
<1>2. CASE expr.kind # "aggr"
  <2> DEFINE ops == expr.operands
             n == Len(ops)
             Fault(k) == Or(LeafFault(ops[k]), Check(LeafType(ops[k]) # LeafType(ops[1]), "TYPE_ERR"))
             faulty == {k \in 1..n : Fault(k) # "ok"}
  <2>1. /\ expr.kind = "arith" /\ IsList(ops) /\ ops # <<>>
        /\ \A k \in DOMAIN ops : IsLeaf(ops[k])
    BY <1>2 DEF IsExpr, IsArith
  <2>2. n \in Nat /\ DOMAIN ops = 1..n
    BY <2>1, ListElements
  <2>3. (IF faulty = {} THEN "ok" ELSE Fault(Min(faulty))) = "ok"
    BY <1>2 DEF ExprFault, FirstFault
  <2>4. faulty # {} => Fault(Min(faulty)) # "ok"
    <3>1. faulty \in SUBSET Nat
      OBVIOUS
    <3>2. faulty # {} => Min(faulty) \in faulty
      <4> HIDE DEF faulty
      <4>1. QED
        BY <3>1, Least
    <3>3. QED
      BY <3>2
  <2>5. faulty = {}
    <3> HIDE DEF faulty, Fault
    <3>1. QED
      BY <2>3, <2>4
  <2>6. ASSUME NEW k \in 1..n
        PROVE  LeafFault(ops[k]) = "ok" /\ LeafType(ops[k]) = LeafType(ops[1])
    <3>1. Fault(k) = "ok"
      BY <2>5, <2>6
    <3>2. QED
      BY <3>1 DEF Or, Check
  <2>7. \A k \in 1..n : ops[k].kind = "attr" => Owners(ops[k]) # {}
    BY <2>6, AttrKnown DEF LeafFault
  <2>8. \A k \in DOMAIN ops : /\ IsLeaf(ops[k]) /\ (ops[k].kind = "attr" => Owners(ops[k]) # {})
                              /\ LeafType(ops[k]) = LeafType(ops[1])
    BY <2>1, <2>2, <2>6, <2>7
  <2>9. QED
    BY <2>1, <2>8, ArithSound
<1>3. QED
  BY <1>1, <1>2

(* A condition of the WHERE clause, and a term of the SELECT clause.           *)
PredSound(pred) ==
  /\ Sound(pred.left) /\ Sound(pred.right) /\ pred.left.type = pred.right.type
  /\ pred.left.kind = "arith" /\ pred.right.kind = "arith"

(* Conditions that are not refused compare attributes and values of one type. *)
LEMMA PredsSound ==
  ASSUME Symbols, NEW where, IsList(where),
         \A k \in DOMAIN where : IsArith(where[k].left) /\ IsArith(where[k].right),
         FirstFault(LAMBDA k : Or(CondnFault(where[k]), Check(k > MaxPred, "limit")), Len(where)) = "ok"
  PROVE  \A k \in DOMAIN where : PredSound(SemCondn(where[k]))
<1> DEFINE n == Len(where)
           Fault(k) == Or(CondnFault(where[k]), Check(k > MaxPred, "limit"))
           faulty == {k \in 1..n : Fault(k) # "ok"}
<1>1. n \in Nat /\ DOMAIN where = 1..n
  BY ListElements
<1>2. (IF faulty = {} THEN "ok" ELSE Fault(Min(faulty))) = "ok"
  BY DEF FirstFault
<1>3. faulty # {} => Fault(Min(faulty)) # "ok"
  <2>1. faulty \in SUBSET Nat
    OBVIOUS
  <2>2. faulty # {} => Min(faulty) \in faulty
    <3> HIDE DEF faulty
    <3>1. QED
      BY <2>1, Least
  <2>3. QED
    BY <2>2
<1>4. faulty = {}
  <2> HIDE DEF faulty, Fault
  <2>1. QED
    BY <1>2, <1>3
<1>5. ASSUME NEW k \in 1..n PROVE PredSound(SemCondn(where[k]))
  <2> DEFINE c == where[k]
  <2>1. Fault(k) = "ok"
    BY <1>4, <1>5
  <2>2. CondnFault(c) = "ok"
    BY <2>1 DEF Or
  <2>3. /\ ExprFault(c.left) = "ok" /\ ExprFault(c.right) = "ok"
        /\ SemExpr(c.left).type = SemExpr(c.right).type
    <3> DEFINE sides == Or(ExprFault(c.left), ExprFault(c.right))
               types == Check(SemExpr(c.left).type # SemExpr(c.right).type, "TYPE_ERR")
    <3>1. CondnFault(c) = Or(sides, types)
      BY DEF CondnFault
    <3> HIDE DEF c
    <3>2. sides = "ok" => ExprFault(c.left) = "ok" /\ ExprFault(c.right) = "ok"
      BY DEF Or
    <3>3. types = "ok" => SemExpr(c.left).type = SemExpr(c.right).type
      BY DEF Check
    <3> HIDE DEF sides, types
    <3>4. sides = "ok" /\ types = "ok"
      BY <2>2, <3>1 DEF Or
    <3>5. QED
      BY <3>2, <3>3, <3>4
  <2>4. IsArith(c.left) /\ IsArith(c.right)
    BY <1>1
  <2> HIDE DEF c
  <2>5. Sound(SemExpr(c.left)) /\ Sound(SemExpr(c.right))
    BY <2>3, <2>4, ExprSound DEF IsExpr
  <2>6. SemCondn(c).left = SemExpr(c.left) /\ SemCondn(c).right = SemExpr(c.right)
    BY DEF SemCondn
  <2>7. SemExpr(c.left).kind = "arith" /\ SemExpr(c.right).kind = "arith"
    BY <2>4 DEF IsArith, SemExpr
  <2>8. QED
    BY <2>3, <2>5, <2>6, <2>7 DEF PredSound, c
<1>6. QED
  BY <1>1, <1>5

(* Terms of SELECT that are not refused become expressions of a known type. *)
LEMMA TermsSound ==
  ASSUME Symbols, NEW terms, IsList(terms), \A k \in DOMAIN terms : IsExpr(terms[k]),
         FirstFault(LAMBDA k : Or(ExprFault(terms[k]), Check(k > MaxProj, "limit")), Len(terms)) = "ok"
  PROVE  \A k \in DOMAIN terms : Sound(SemExpr(terms[k]))
<1> DEFINE n == Len(terms)
           Fault(k) == Or(ExprFault(terms[k]), Check(k > MaxProj, "limit"))
           faulty == {k \in 1..n : Fault(k) # "ok"}
<1>1. n \in Nat /\ DOMAIN terms = 1..n
  BY ListElements
<1>2. (IF faulty = {} THEN "ok" ELSE Fault(Min(faulty))) = "ok"
  BY DEF FirstFault
<1>3. faulty # {} => Fault(Min(faulty)) # "ok"
  <2>1. faulty \in SUBSET Nat
    OBVIOUS
  <2>2. faulty # {} => Min(faulty) \in faulty
    <3> HIDE DEF faulty
    <3>1. QED
      BY <2>1, Least
  <2>3. QED
    BY <2>2
<1>4. faulty = {}
  <2> HIDE DEF faulty, Fault
  <2>1. QED
    BY <1>2, <1>3
<1>5. ASSUME NEW k \in 1..n PROVE Sound(SemExpr(terms[k]))
  <2>1. Fault(k) = "ok"
    BY <1>4, <1>5
  <2>2. ExprFault(terms[k]) = "ok" /\ IsExpr(terms[k])
    BY <1>1, <2>1 DEF Or
  <2>3. QED
    BY <2>2, ExprSound
<1>6. QED
  BY <1>1, <1>5

(* SELECT * names attributes that the tables have.                            *)
LEMMA StarSound ==
  ASSUME Symbols
  PROVE  IsList(StarExprs) /\ \A e \in DOMAIN StarExprs : Sound(StarExprs[e])
<1> DEFINE Ref(v, a) == AttrRef(query.vars[v], Tables[query.tables[v]].attrs[a].name)
           Expr(v, a) == SemExpr(Operand(Ref(v, a)))
           S == UNION {{Expr(v, a) : a \in 1..NumAttrs(query.tables[v])} : v \in Vars}
           Of(v) == [a \in 1..NumAttrs(query.tables[v]) |-> Expr(v, a)]
           all == [v \in Vars |-> Of(v)]
<1>1. Vars = 1..Len(query.vars) /\ Len(query.vars) \in Nat
  BY ListElements DEF Vars, Symbols
<1>2. ASSUME NEW v \in Vars
      PROVE  /\ NumAttrs(query.tables[v]) \in Nat
             /\ DOMAIN Tables[query.tables[v]].attrs = 1..NumAttrs(query.tables[v])
  <2>1. IsTable(Tables[query.tables[v]])
    BY QueryConstants DEF Symbols
  <2>2. QED
    BY <2>1, ListElements DEF IsTable, NumAttrs
<1>3. ASSUME NEW v \in Vars, NEW a \in 1..NumAttrs(query.tables[v]) PROVE Sound(Expr(v, a))
  <2> DEFINE ref == Ref(v, a)
             expr == Operand(ref)
  <2>1. ref.var = query.vars[v] /\ ref.name = Tables[query.tables[v]].attrs[a].name /\ ref.kind = "attr"
    BY DEF AttrRef
  <2> HIDE DEF ref
  <2>2. v \in Named(ref)
    BY <2>1 DEF Named
  <2>3. a \in AttrIds(query.tables[v], ref.name)
    BY <1>2, <2>1 DEF AttrIds
  <2>4. Owners(ref) # {}
    BY <2>2, <2>3 DEF Owners
  <2>5. expr.kind = "arith" /\ expr.operands = <<ref>>
    BY DEF Operand
  <2> HIDE DEF expr
  <2>6. IsList(expr.operands) /\ DOMAIN expr.operands = {1} /\ expr.operands[1] = ref
        /\ expr.operands # <<>>
    <3>1. ref \in ToSet(<<ref>>)
      BY DEF ToSet
    <3>2. <<ref>> \in Seq(ToSet(<<ref>>))
      BY <3>1
    <3>3. QED
      BY <2>5, <3>2 DEF IsList
  <2>7. IsLeaf(ref)
    BY <2>1 DEF IsLeaf
  <2>8. \A k \in DOMAIN expr.operands :
           /\ IsLeaf(expr.operands[k])
           /\ expr.operands[k].kind = "attr" => Owners(expr.operands[k]) # {}
           /\ LeafType(expr.operands[k]) = LeafType(expr.operands[1])
    BY <2>4, <2>6, <2>7
  <2>9. Sound(SemExpr(expr))
    BY <2>5, <2>6, <2>8, ArithSound
  <2>10. QED
    BY <2>9 DEF expr, ref
<1> HIDE DEF Expr
<1>4. ASSUME NEW v \in Vars PROVE Of(v) \in Seq(S)
  <2>1. \A a \in 1..NumAttrs(query.tables[v]) : Expr(v, a) \in S
    OBVIOUS
  <2> HIDE DEF S
  <2>2. QED
    BY <1>2, <2>1
<1>5. \A e \in S : Sound(e)
  BY <1>3
<1> HIDE DEF S, Of
<1>6. all \in Seq(Seq(S))
  BY <1>1, <1>4
<1>7. FlattenSeq(all) \in Seq(S)
  BY <1>6, FlatType
<1>8. StarExprs = FlattenSeq(all)
  BY DEF StarExprs, Of, Expr
<1>9. Len(StarExprs) \in Nat /\ StarExprs = [k \in 1..Len(StarExprs) |-> StarExprs[k]]
      /\ DOMAIN StarExprs = 1..Len(StarExprs) /\ \A k \in 1..Len(StarExprs) : StarExprs[k] \in S
  BY <1>7, <1>8
<1>10. QED
  BY <1>5, <1>9, ListOf

-----------------------------------------------------------------------------
(* What the generator is handed.                                             *)

(* A table of the FROM clause is known, and a stream has a window that the     *)
(* generator has an operator for.                                            *)
StreamWins == {"RANGE", "ROW", "PARTITION", "NOW", "UNBOUNDED"}
TableReady(var) ==
  /\ query.tables[var] \in DOMAIN Tables
  /\ IsStream(query.tables[var]) =>
       /\ var \in DOMAIN query.windows /\ query.windows[var].type \in StreamWins
       /\ query.windows[var].type = "PARTITION" => \A a \in ToSet(query.windows[var].attrs) : Known(a)

(* What is selected, grouped and compared is listed and of one type.           *)
PartsReady ==
  /\ IsList(query.preds) /\ \A k \in DOMAIN query.preds : PredSound(query.preds[k])
  /\ IsList(query.proj) /\ \A e \in DOMAIN query.proj : Sound(query.proj[e])
  /\ IsList(query.group) /\ \A k \in DOMAIN query.group : Known(query.group[k])

TablesReady ==
  /\ query.r2s \in R2SOps
  /\ query.kind = "sfw" => IsList(query.tables) /\ Len(query.tables) # 0
  /\ query.kind # "sfw" =>
       query.kind \in BinOps /\ query.tables[1] \in DOMAIN Tables /\ query.tables[2] \in DOMAIN Tables

(* The Query after each clause: complete when the generator starts.            *)
QueryInv ==
  /\ step \in Clauses \cup {"binop"} \cup Naive => TablesReady /\ PartsReady
  /\ step = "binop" => query.kind # "sfw"
  /\ step \in Clauses => query.kind = "sfw" /\ Symbols /\ DOMAIN Body.from = Vars
  /\ step \in {"where", "group", "select"} \cup Naive /\ query.kind = "sfw" =>
       \A v \in DOMAIN query.tables : TableReady(v)

(* A query without conditions, terms and grouping attributes is well-formed. *)
LEMMA NoParts ==
  ASSUME query'.preds = <<>>, query'.proj = <<>>, query'.group = <<>>
  PROVE  PartsReady'
<1>1. IsList(<<>>) /\ DOMAIN <<>> = {}
  BY DEF IsList
<1>2. QED
  BY <1>1 DEF PartsReady

(* The types of what was interpreted hang on the tables alone.                 *)
LEMMA SoundStays ==
  ASSUME query'.tables = query.tables, NEW expr, Sound(expr)
  PROVE  Sound(expr)'
<1>1. ASSUME NEW a PROVE LogAttr(a)' = LogAttr(a)
  BY DEF LogAttr
<1>2. ASSUME NEW leaf PROVE LogOperand(leaf)' = LogOperand(leaf)
  BY <1>1 DEF LogOperand
<1>3. LogExpr(expr)' = LogExpr(expr)
  <2>1. CASE expr.kind = "aggr"
    BY <1>1, <2>1 DEF LogExpr
  <2>2. CASE expr.kind # "aggr"
    BY <1>2, <2>2, Zenon DEF LogExpr
  <2>3. QED
    BY <2>1, <2>2
<1>4. Names(expr)'
  BY DEF Sound, Names, Known
<1>5. QED
  BY <1>3, <1>4 DEF Sound

(* What was interpreted stays sound while the tables of the query stay. *)
LEMMA PartsStay ==
  ASSUME query'.tables = query.tables, query'.preds = query.preds, query'.proj = query.proj,
         IsList(query'.group), \A k \in DOMAIN query'.group : Known(query'.group[k]), PartsReady
  PROVE  PartsReady'
<1>1. ASSUME NEW k \in DOMAIN query.preds PROVE PredSound(query.preds[k])'
  BY <1>1, SoundStays DEF PredSound, PartsReady
<1>2. ASSUME NEW e \in DOMAIN query.proj PROVE Sound(query.proj[e])'
  BY <1>2, SoundStays DEF PartsReady
<1>3. \A k \in DOMAIN query'.group : Known(query.group[k])'
  BY DEF Known
<1>4. QED
  BY <1>1, <1>2, <1>3 DEF PartsReady

(* What a step of a clause leaves alone.                                      *)
LEMMA ClauseKeeps ==
  ASSUME QueryInv, step \in Clauses, text' = text, step' \in Clauses \cup {"plan"}, PartsReady',
         query'.kind = query.kind, query'.vars = query.vars, query'.tables = query.tables,
         query'.r2s = query.r2s, \A v \in DOMAIN query.tables : TableReady(v)'
  PROVE  QueryInv'
<1>1. /\ TablesReady /\ query.kind = "sfw" /\ Symbols
      /\ DOMAIN query.tables = Vars /\ DOMAIN Body.from = Vars
  BY DEF QueryInv, Symbols
<1>2. TablesReady'
  BY <1>1 DEF TablesReady
<1>3. Vars' = Vars /\ Body' = Body
  BY DEF Vars, Body
<1>4. Symbols'
  BY <1>1, <1>3 DEF Symbols
<1>5. step' # "binop"
  BY DEF Clauses
<1>6. QED
  BY <1>1, <1>2, <1>3, <1>4, <1>5 DEF QueryInv

(* A query that failed, and one that is not begun, owe nothing to the generator. *)
LEMMA FailureEnds ==
  ASSUME step' \notin Clauses \cup {"binop"} \cup Naive PROVE QueryInv'
BY DEF QueryInv, Clauses, Naive

(* getReferencedTables.                                                       *)
LEMMA TablesStep ==
  ASSUME SemInv, GetReferencedTables PROVE QueryInv'
<1>1. text' = text /\ text \in Texts
  BY DEF GetReferencedTables, Proceed, SemInv, TextInv, Interpreting
<1>2. text.r2s \in R2SOps /\ Body.kind \in {"sfw", "union", "except"}
      /\ (Body.kind = "sfw" => IsBlock(Body))
  BY <1>1, QueryConstants DEF IsText, Body
<1>3. CASE step' = "failed"
  BY <1>3, FailureEnds DEF Clauses, Naive
<1>4. CASE step' # "failed" /\ Body.kind = "sfw"
  <2> DEFINE from == Body.from
  <2>1. SfwTablesFault(from) = "ok" /\ query' = SfwTables(from) /\ step' = "from"
    BY <1>4 DEF GetReferencedTables, Proceed
  <2>2. /\ query'.kind = "sfw" /\ query'.r2s = text.r2s
        /\ query'.vars = [k \in DOMAIN from |-> VarName(from[k])]
        /\ query'.tables = [k \in DOMAIN from |-> TableId(from[k].table)]
        /\ query'.preds = <<>> /\ query'.proj = <<>> /\ query'.group = <<>>
    BY <2>1 DEF SfwTables, NoQuery
  <2>3. IsList(from) /\ from # <<>>
    BY <1>2, <1>4 DEF IsBlock
  <2>4. Len(from) \in Nat /\ Len(from) # 0 /\ DOMAIN from = 1..Len(from)
    <3>1. Len(from) \in Nat /\ DOMAIN from = 1..Len(from)
      BY <2>3, ListElements
    <3>2. Len(from) # 0
      BY <2>3 DEF IsList
    <3>3. QED
      BY <3>1, <3>2
  <2>5. \A k \in DOMAIN from : TableId(from[k].table) \in DOMAIN Tables
    BY <2>1, <2>3, TablesFound
  <2>6. (Body.from)' = from
    BY <1>1 DEF Body
  <2> HIDE DEF from
  <2> DEFINE n == Len(from)
             names == [k \in 1..n |-> VarName(from[k])]
             tables == [k \in 1..n |-> TableId(from[k].table)]
  <2>7. query'.vars = names /\ query'.tables = tables
    BY <2>2, <2>4
  <2>8. IsList(names) /\ DOMAIN names = 1..n
    BY <2>4, ListOf
  <2>9. IsList(tables) /\ DOMAIN tables = 1..n /\ Len(tables) = n
    BY <2>4, ListOf
  <2>10. \A k \in 1..n : tables[k] \in DOMAIN Tables
    BY <2>4, <2>5
  <2> HIDE DEF names, tables
  <2>11. Vars' = 1..n /\ 1 \in 1..n
    BY <2>4, <2>7, <2>8 DEF Vars
  <2>12. Symbols'
    BY <2>7, <2>8, <2>9, <2>10, <2>11 DEF Symbols
  <2>13. TablesReady'
    BY <1>2, <2>2, <2>4, <2>7, <2>9 DEF TablesReady
  <2>14. PartsReady'
    BY <2>2, NoParts
  <2>15. QED
    BY <2>1, <2>2, <2>4, <2>6, <2>7, <2>9, <2>11, <2>12, <2>13, <2>14 DEF QueryInv, Naive
<1>5. CASE step' # "failed" /\ Body.kind # "sfw"
  <2> DEFINE left == TableId(Body.left)
             right == TableId(Body.right)
  <2>1. BinOpTablesFault = "ok" /\ query' = BinOpTables /\ step' = "binop"
    BY <1>5 DEF GetReferencedTables, Proceed
  <2>2. /\ query'.kind = Body.kind /\ query'.r2s = text.r2s /\ query'.tables = <<left, right>>
        /\ query'.preds = <<>> /\ query'.proj = <<>> /\ query'.group = <<>>
    BY <2>1 DEF BinOpTables, NoQuery
  <2>3. TableIds(Body.left) # {} /\ TableIds(Body.right) # {}
    BY <2>1 DEF BinOpTablesFault, Check
  <2>4. left \in DOMAIN Tables /\ right \in DOMAIN Tables
    BY <2>3, SomeTable
  <2> HIDE DEF left, right
  <2>5. query'.tables[1] = left /\ query'.tables[2] = right
    BY <2>2
  <2>6. query'.kind \in BinOps /\ query'.kind # "sfw"
    BY <1>2, <1>5, <2>2 DEF BinOps
  <2>7. TablesReady'
    BY <1>2, <2>2, <2>4, <2>5, <2>6 DEF TablesReady
  <2>8. PartsReady'
    BY <2>2, NoParts
  <2>9. QED
    BY <2>1, <2>6, <2>7, <2>8 DEF QueryInv, Clauses, Naive
<1>6. QED
  BY <1>3, <1>4, <1>5

(* The text of a query whose clauses are interpreted.                          *)
LEMMA ClauseText ==
  ASSUME SemInv, step \in Clauses
  PROVE  IsBlock(Body) /\ text \in Texts
BY QueryConstants DEF SemInv, TextInv, Clauses, Interpreting, IsText, Body

(* The windows of the FROM clause: every stream gets one.                      *)
LEMMA FromStep ==
  ASSUME SemInv, QueryInv, InterpretFromClause PROVE QueryInv'
<1> DEFINE from == Body.from
<1>1. step = "from" /\ text' = text /\ step' \in {"where", "failed"} /\ step \in Clauses
  BY DEF InterpretFromClause, Proceed, Clauses
<1>2. CASE step' = "failed"
  BY <1>2, FailureEnds DEF Clauses, Naive
<1>3. CASE step' = "where"
  <2>1. DOMAIN query = DOMAIN NoQuery /\ IsBlock(Body)
    BY <1>1, ClauseText DEF SemInv, SymbolInv
  <2>2. query' = [query EXCEPT !.windows = [k \in DOMAIN from |-> SemWin(from[k].win, query.tables[k])]]
    BY <1>3 DEF InterpretFromClause, Proceed
  <2>3. /\ query'.kind = query.kind /\ query'.vars = query.vars /\ query'.tables = query.tables
        /\ query'.r2s = query.r2s /\ query'.preds = query.preds /\ query'.proj = query.proj
        /\ query'.group = query.group
        /\ query'.windows = [k \in DOMAIN from |-> SemWin(from[k].win, query.tables[k])]
    BY <2>1, <2>2 DEF NoQuery
  <2>4. /\ DOMAIN from = DOMAIN query.tables /\ PartsReady /\ Symbols /\ DOMAIN query.tables = Vars
    BY <1>1 DEF QueryInv, Symbols
  <2>5. PartsReady'
    BY <2>3, <2>4, PartsStay DEF PartsReady
  <2>6. ASSUME NEW v \in DOMAIN from PROVE WinFault(from[v].win, query.tables[v]) = "ok"
    <3> DEFINE n == Len(from)
               Fault(k) == WinFault(from[k].win, query.tables[k])
               faulty == {k \in 1..n : Fault(k) # "ok"}
    <3>1. n \in Nat /\ DOMAIN from = 1..n
      BY <2>1, ListElements DEF IsBlock
    <3>2. FirstFault(Fault, n) = "ok"
      BY <1>3 DEF InterpretFromClause, Proceed
    <3>3. (IF faulty = {} THEN "ok" ELSE Fault(Min(faulty))) = "ok"
      BY <3>2 DEF FirstFault
    <3>4. faulty # {} => Fault(Min(faulty)) # "ok"
      <4>1. faulty \in SUBSET Nat
        OBVIOUS
      <4>2. faulty # {} => Min(faulty) \in faulty
        <5> HIDE DEF faulty
        <5>1. QED
          BY <4>1, Least
      <4>3. QED
        BY <4>2
    <3>5. faulty = {}
      <4> HIDE DEF faulty, Fault
      <4>1. QED
        BY <3>3, <3>4
    <3>6. QED
      BY <2>6, <3>1, <3>5
  <2>7. ASSUME NEW v \in DOMAIN query.tables PROVE TableReady(v)'
    <3> DEFINE win == from[v].win
               table == query.tables[v]
    <3>1. query'.windows[v] = SemWin(win, table) /\ win.type \in WinTypes /\ table \in DOMAIN Tables
      BY <2>1, <2>3, <2>4 DEF IsBlock, Symbols
    <3> HIDE DEF win, table
    <3>2. ASSUME IsStream(table) PROVE SemWin(win, table).type \in StreamWins
      <4>1. CASE win.type = Absent
        <5>1. SemWin(win, table) = UnboundedWin
          BY <3>2, <4>1 DEF SemWin, Absent
        <5>2. QED
          BY <5>1 DEF UnboundedWin, StreamWins
      <4>2. CASE win.type = "RANGE"
        BY <4>2 DEF SemWin, StreamWins, Absent
      <4>3. CASE win.type = "PARTITION"
        BY <4>3 DEF SemWin, StreamWins, PartWin, Absent
      <4>4. CASE win.type \notin {Absent, "RANGE", "PARTITION"}
        BY <3>1, <4>4 DEF SemWin, StreamWins, WinTypes
      <4>5. QED
        BY <4>1, <4>2, <4>3, <4>4
    <3>3. query'.tables[v] = table /\ v \in DOMAIN query'.windows
      BY <2>3, <2>4 DEF table
    <3>4. ASSUME IsStream(table), SemWin(win, table).type = "PARTITION"
          PROVE  \A a \in ToSet(SemWin(win, table).attrs) : Known(a)
      <4>1. win.type = "PARTITION"
        <5>1. CASE win.type = Absent
          BY <3>4, <5>1 DEF SemWin, Absent, UnboundedWin
        <5>2. CASE win.type = "RANGE"
          BY <3>4, <5>2 DEF SemWin, Absent
        <5>3. CASE win.type \notin {Absent, "RANGE", "PARTITION"}
          BY <3>4, <5>3 DEF SemWin
        <5>4. QED
          BY <5>1, <5>2, <5>3
      <4>2. SemWin(win, table) = PartWin(AttrList(win.attrs), win.rows)
        BY <4>1 DEF SemWin, Absent
      <4>3. SemWin(win, table).attrs = AttrList(win.attrs)
        BY <4>2 DEF PartWin
      <4>4. IsList(win.attrs)
        BY <2>1, <2>4, <4>1 DEF IsBlock, win
      <4>5. AttrListFault(win.attrs) = "ok"
        <5>1. WinFault(win, table) = "ok"
          BY <2>4, <2>6 DEF win, table
        <5>2. QED
          BY <3>4, <4>1, <5>1 DEF WinFault
      <4>6. \A k \in DOMAIN win.attrs : Known(SemAttr(win.attrs[k]))
        BY <2>4, <4>4, <4>5, ListKnown
      <4>7. QED
        BY <4>3, <4>6 DEF AttrList, ToSet
    <3>5. ASSUME NEW a, Known(a) PROVE Known(a)'
      BY <2>3, <3>5 DEF Known
    <3>6. QED
      BY <3>1, <3>2, <3>3, <3>4, <3>5 DEF TableReady, IsStream
  <2>8. QED
    BY <1>1, <1>3, <2>3, <2>5, <2>7, ClauseKeeps DEF Clauses
<1>4. QED
  BY <1>1, <1>2, <1>3

(* What the clauses after FROM add does not touch the tables.                  *)
LEMMA LaterClause ==
  ASSUME QueryInv, step \in {"where", "group", "select"}, text' = text,
         step' \in {"group", "select", "plan"}, PartsReady',
         query'.kind = query.kind, query'.vars = query.vars, query'.tables = query.tables,
         query'.r2s = query.r2s, query'.windows = query.windows
  PROVE  QueryInv'
<1>1. step \in Clauses /\ step' \in Clauses \cup {"plan"}
  BY DEF Clauses
<1>2. \A v \in DOMAIN query.tables : TableReady(v)'
  BY <1>1 DEF QueryInv, TableReady, Known
<1>3. QED
  BY <1>1, <1>2, ClauseKeeps

(* interpretWhereClause: the conditions it adds compare what is of one type. *)
LEMMA WhereStep ==
  ASSUME SemInv, QueryInv, InterpretWhereClause PROVE QueryInv'
<1> DEFINE where == Body.where
           preds == [k \in DOMAIN where |-> SemCondn(where[k])]
<1>1. step = "where" /\ text' = text /\ step' \in {"group", "failed"} /\ step \in Clauses
  BY DEF InterpretWhereClause, Proceed, Clauses
<1>2. CASE step' = "failed"
  BY <1>2, FailureEnds DEF Clauses, Naive
<1>3. CASE step' = "group"
  <2>1. DOMAIN query = DOMAIN NoQuery /\ IsBlock(Body)
    BY <1>1, ClauseText DEF SemInv, SymbolInv
  <2>2. query' = [query EXCEPT !.preds = preds]
    BY <1>3 DEF InterpretWhereClause, Proceed
  <2>3. FirstFault(LAMBDA k : Or(CondnFault(where[k]), Check(k > MaxPred, "limit")), Len(where)) = "ok"
    BY <1>3 DEF InterpretWhereClause, Proceed
  <2>4. /\ query'.kind = query.kind /\ query'.vars = query.vars /\ query'.tables = query.tables
        /\ query'.r2s = query.r2s /\ query'.windows = query.windows /\ query'.preds = preds
        /\ query'.proj = query.proj /\ query'.group = query.group
    BY <2>1, <2>2 DEF NoQuery
  <2>5. PartsReady /\ Symbols
    BY <1>1 DEF QueryInv
  <2>6. IsList(where) /\ \A k \in DOMAIN where : IsArith(where[k].left) /\ IsArith(where[k].right)
    BY <2>1 DEF IsBlock
  <2> HIDE DEF where
  <2>7. \A k \in DOMAIN where : PredSound(SemCondn(where[k]))
    BY <2>3, <2>5, <2>6, PredsSound
  <2>8. Len(where) \in Nat /\ DOMAIN where = 1..Len(where)
    BY <2>6, ListElements
  <2>9. preds = [k \in 1..Len(where) |-> SemCondn(where[k])]
    BY <2>8
  <2> HIDE DEF preds
  <2>10. preds = [k \in 1..Len(where) |-> preds[k]] /\ \A k \in 1..Len(where) : preds[k] = SemCondn(where[k])
    BY <2>9
  <2>11. IsList(preds) /\ DOMAIN preds = 1..Len(where)
    BY <2>8, <2>10, ListOf
  <2>12. \A k \in DOMAIN preds : PredSound(preds[k])
    BY <2>7, <2>8, <2>10, <2>11
  <2>13. ASSUME NEW k \in DOMAIN preds PROVE PredSound(query.preds[k])'
    <3> DEFINE new == query'.preds[k]
    <3>1. /\ Sound(new.left) /\ Sound(new.right) /\ new.left.type = new.right.type
          /\ new.left.kind = "arith" /\ new.right.kind = "arith"
      BY <2>4, <2>12 DEF PredSound
    <3>2. Sound(query.preds[k].left)' /\ Sound(query.preds[k].right)'
      BY <2>4, <3>1, SoundStays
    <3>3. QED
      BY <3>1, <3>2 DEF PredSound
  <2>14. ASSUME NEW e \in DOMAIN query.proj PROVE Sound(query.proj[e])'
    BY <2>4, <2>5, SoundStays DEF PartsReady
  <2>15. PartsReady'
    <3>1. \A k \in DOMAIN query.group : Known(query.group[k])'
      BY <2>4, <2>5 DEF PartsReady, Known
    <3>2. QED
      BY <2>4, <2>5, <2>11, <2>13, <2>14, <3>1 DEF PartsReady
  <2>16. QED
    BY <1>1, <1>3, <2>4, <2>15, LaterClause
<1>4. QED
  BY <1>1, <1>2, <1>3

(* interpretGroupByClause: it leaves tables, conditions and terms alone. *)
LEMMA GroupStep ==
  ASSUME SemInv, QueryInv, InterpretGroupByClause PROVE QueryInv'
<1> DEFINE group == Body.group
<1>1. step = "group" /\ text' = text /\ step' \in {"select", "failed"} /\ step \in Clauses
  BY DEF InterpretGroupByClause, Proceed, Clauses
<1>2. CASE step' = "failed"
  BY <1>2, FailureEnds DEF Clauses, Naive
<1>3. CASE step' = "select"
  <2>1. DOMAIN query = DOMAIN NoQuery /\ IsBlock(Body)
    BY <1>1, ClauseText DEF SemInv, SymbolInv
  <2>2. query' = [query EXCEPT !.group = AttrList(group)]
    BY <1>3 DEF InterpretGroupByClause, Proceed
  <2>3. /\ query'.kind = query.kind /\ query'.vars = query.vars /\ query'.tables = query.tables
        /\ query'.r2s = query.r2s /\ query'.windows = query.windows /\ query'.preds = query.preds
        /\ query'.proj = query.proj /\ query'.group = AttrList(group)
    BY <2>1, <2>2 DEF NoQuery
  <2>4. IsList(group)
    BY <2>1 DEF IsBlock
  <2> HIDE DEF group
  <2>5. Len(group) \in Nat /\ DOMAIN group = 1..Len(group)
    BY <2>4, ListElements
  <2>6. AttrList(group) = [k \in 1..Len(group) |-> SemAttr(group[k])]
    BY <2>5 DEF AttrList
  <2>7. AttrList(group) = [k \in 1..Len(group) |-> AttrList(group)[k]]
    BY <2>6
  <2>8. IsList(AttrList(group))
    BY <2>5, <2>7, ListOf
  <2>9. \A k \in DOMAIN group : Known(SemAttr(group[k]))
    <3>1. AttrListFault(group) = "ok"
      BY <1>3 DEF InterpretGroupByClause, Proceed, group
    <3>2. Symbols
      BY <1>1 DEF QueryInv
    <3>3. QED
      BY <2>4, <3>1, <3>2, ListKnown
  <2>10. \A k \in DOMAIN query'.group : Known(query'.group[k])
    BY <2>3, <2>5, <2>6, <2>9
  <2>11. PartsReady'
    <3>1. PartsReady /\ IsList(query'.group)
      BY <1>1, <2>3, <2>8 DEF QueryInv
    <3>2. QED
      BY <2>3, <2>10, <3>1, PartsStay
  <2>12. QED
    BY <1>1, <1>3, <2>3, <2>11, LaterClause
<1>4. QED
  BY <1>1, <1>2, <1>3

(* interpretSelectClause: the expressions it adds are of a type of the catalogue. *)
LEMMA SelectStep ==
  ASSUME SemInv, QueryInv, InterpretSelectClause PROVE QueryInv'
<1> DEFINE terms == Body.select.terms
<1>1. step = "select" /\ text' = text /\ step' \in {"plan", "failed"} /\ step \in Clauses
  BY DEF InterpretSelectClause, InterpretStarInSelect, InterpretExprsInSelect, Proceed, Clauses
<1>2. CASE step' = "failed"
  BY <1>2, FailureEnds DEF Clauses, Naive
<1>3. CASE step' = "plan"
  <2>1. DOMAIN query = DOMAIN NoQuery /\ IsBlock(Body)
    BY <1>1, ClauseText DEF SemInv, SymbolInv
  <2>2. PartsReady /\ Symbols
    BY <1>1 DEF QueryInv
  <2>3. /\ query'.kind = query.kind /\ query'.vars = query.vars /\ query'.tables = query.tables
        /\ query'.r2s = query.r2s /\ query'.windows = query.windows /\ query'.preds = query.preds
        /\ query'.group = query.group
    BY <1>3, <2>1 DEF InterpretSelectClause, InterpretStarInSelect, InterpretExprsInSelect, Proceed, NoQuery
  <2>4. IsList(query'.proj) /\ \A e \in DOMAIN query'.proj : Sound(query'.proj[e])
    <3>1. CASE terms = <<>>
      <4>1. query'.proj = StarExprs
        BY <1>3, <2>1, <3>1 DEF InterpretSelectClause, InterpretStarInSelect, Proceed, NoQuery
      <4>2. QED
        BY <2>2, <4>1, StarSound
    <3>2. CASE terms # <<>>
      <4> DEFINE proj == [k \in DOMAIN terms |-> SemExpr(terms[k])]
      <4>1. query'.proj = proj
        BY <1>3, <2>1, <3>2 DEF InterpretSelectClause, InterpretExprsInSelect, Proceed, NoQuery
      <4>2. FirstFault(LAMBDA k : Or(ExprFault(terms[k]), Check(k > MaxProj, "limit")), Len(terms)) = "ok"
        BY <1>3, <3>2 DEF InterpretSelectClause, InterpretExprsInSelect, Proceed
      <4>3. IsList(terms) /\ \A k \in DOMAIN terms : IsExpr(terms[k])
        BY <2>1 DEF IsBlock
      <4> HIDE DEF terms
      <4>4. \A k \in DOMAIN terms : Sound(SemExpr(terms[k]))
        BY <2>2, <4>2, <4>3, TermsSound
      <4>5. Len(terms) \in Nat /\ DOMAIN terms = 1..Len(terms)
        BY <4>3, ListElements
      <4>6. proj = [k \in 1..Len(terms) |-> SemExpr(terms[k])]
        BY <4>5
      <4> HIDE DEF proj
      <4>7. proj = [k \in 1..Len(terms) |-> proj[k]] /\ \A k \in 1..Len(terms) : proj[k] = SemExpr(terms[k])
        BY <4>6
      <4>8. IsList(proj) /\ DOMAIN proj = 1..Len(terms)
        BY <4>5, <4>7, ListOf
      <4>9. QED
        BY <4>1, <4>4, <4>5, <4>7, <4>8
    <3>3. QED
      BY <3>1, <3>2
  <2>5. ASSUME NEW e \in DOMAIN query'.proj PROVE Sound(query.proj[e])'
    BY <2>3, <2>4, <2>5, SoundStays
  <2>6. ASSUME NEW k \in DOMAIN query.preds PROVE PredSound(query.preds[k])'
    BY <2>2, <2>3, <2>6, SoundStays DEF PredSound, PartsReady
  <2>7. PartsReady'
    <3>1. \A k \in DOMAIN query.group : Known(query.group[k])'
      BY <2>2, <2>3 DEF PartsReady, Known
    <3>2. QED
      BY <2>2, <2>3, <2>4, <2>5, <2>6, <3>1 DEF PartsReady
  <2>8. QED
    BY <1>1, <1>3, <2>3, <2>7, LaterClause
<1>4. QED
  BY <1>1, <1>2, <1>3

(* The transformations come after the naive plan.                             *)
LEMMA GenerationOrder ==
  ASSUME GenPlan \/ GenLogPlan, step' \in Naive
  PROVE  step \in Naive
<1>1. CASE GenPlan
  BY <1>1 DEF GenPlan, JoinTables, ApplyPreds, ApplyAggr, DoProjs, ApplyDistinct, ApplyR2SOps,
              GenBinOpPlan, Naive
<1>2. ASSUME NEW now, NEW found, NEW p, NEW o, NEW next, next \in Transforms,
             Transform(now, found, p, o, next)
      PROVE  FALSE
  BY <1>2 DEF Transform, Generate, Naive, Transforms
<1>3. /\ "streamCross" \in Transforms /\ "removeProject" \in Transforms /\ "crossBinary" \in Transforms
      /\ "streamCrossBinary" \in Transforms /\ "pushSelect" \in Transforms
  BY DEF Transforms
<1>4. CASE RstreamNow \/ StreamCross \/ RemoveProject
  BY <1>2, <1>3, <1>4 DEF RstreamNow, StreamCross, RemoveProject
<1>5. CASE MakeCrossBinary \/ MakeStreamCrossBinary
  BY <1>2, <1>3, <1>5 DEF MakeCrossBinary, MakeStreamCrossBinary, MakeBinary
<1>6. CASE FindSelect
  BY <1>6 DEF FindSelect, Generate, Naive
<1>7. CASE PushSelect
  BY <1>7 DEF PushSelect, Generate, Naive
<1>8. QED
  BY <1>1, <1>4, <1>5, <1>6, <1>7 DEF GenLogPlan

(* The generator starts with a complete Query and leaves it alone.             *)
LEMMA QueryStep == SemInv /\ QueryInv /\ [Next]_vars => QueryInv'
<1> SUFFICES ASSUME SemInv, QueryInv, [Next]_vars PROVE QueryInv'
  OBVIOUS
<1>1. CASE Parse
  <2>1. step' \in {"exit", "tables"}
    BY <1>1 DEF Parse
  <2>2. QED
    BY <2>1, FailureEnds DEF Clauses, Naive
<1>2. CASE GetReferencedTables
  BY <1>2, TablesStep
<1>3. CASE InterpretFromClause
  BY <1>3, FromStep
<1>4. CASE InterpretWhereClause
  BY <1>4, WhereStep
<1>5. CASE InterpretGroupByClause
  BY <1>5, GroupStep
<1>6. CASE InterpretSelectClause
  BY <1>6, SelectStep
<1>7. CASE InterpretBinOp
  <2>1. step = "binop" /\ query' = query /\ step' \in {"plan", "failed"}
    BY <1>7 DEF InterpretBinOp, Proceed
  <2>2. CASE step' = "failed"
    BY <2>2, FailureEnds DEF Clauses, Naive
  <2>3. CASE step' = "plan"
    <3>1. TablesReady /\ PartsReady /\ query.kind # "sfw"
      BY <2>1 DEF QueryInv
    <3>2. PartsReady'
      BY <2>1, <3>1, PartsStay DEF PartsReady
    <3>3. QED
      BY <2>1, <2>3, <3>1, <3>2 DEF QueryInv, TablesReady, Clauses
  <2>4. QED
    BY <2>1, <2>2, <2>3
<1>8. CASE GenPlan \/ GenLogPlan
  <2>1. Len(query.proj) \in Nat
    BY DEF SemInv, SymbolInv
  <2>2. query' = query /\ step' \notin Interpreting
    BY <1>8, <2>1, GenerationStep
  <2>3. CASE step' \notin Naive
    BY <2>2, <2>3, FailureEnds DEF Interpreting, Clauses
  <2>4. CASE step' \in Naive
    <3>1. step \in Naive
      BY <1>8, <2>4, GenerationOrder
    <3>2. TablesReady /\ PartsReady /\ (query.kind = "sfw" => \A v \in DOMAIN query.tables : TableReady(v))
      BY <3>1 DEF QueryInv
    <3>3. PartsReady'
      BY <2>2, <3>2, PartsStay DEF PartsReady
    <3>4. step' \notin Clauses \cup {"binop"}
      BY <2>2 DEF Clauses, Interpreting
    <3>5. QED
      BY <2>2, <3>2, <3>3, <3>4 DEF QueryInv, TablesReady, TableReady, Known
  <2>5. QED
    BY <2>3, <2>4
<1>9. CASE Return
  <2>1. step' = "idle"
    BY <1>9 DEF Return
  <2>2. QED
    BY <2>1, FailureEnds DEF Clauses, Naive
<1>10. CASE ProcessEnds \/ UNCHANGED vars
  <2>1. step' = step /\ text' = text /\ query' = query
    BY <1>10 DEF ProcessEnds, vars, semVars
  <2>2. PartsReady => PartsReady'
    BY <2>1, PartsStay DEF PartsReady
  <2>3. QED
    BY <2>1, <2>2 DEF QueryInv, TablesReady, TableReady, Symbols, Vars, Body, Known
<1>11. QED
  BY <1>1, <1>2, <1>3, <1>4, <1>5, <1>6, <1>7, <1>8, <1>9, <1>10 DEF Next, InterpretQuery

(* A query that is not begun owes nothing to the generator. *)
LEMMA QueryStart == Init => QueryInv
BY DEF Init, SemInit, QueryInv, Clauses, Naive
=============================================================================
