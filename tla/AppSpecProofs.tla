---------------------------- MODULE AppSpecProofs ----------------------------
(****************************************************************************)
(* Proofs about AppSpec, for any texts, any sizes of the arrays and any     *)
(* number of commands.                                                      *)
(****************************************************************************)
EXTENDS AppSpec, TLAPS

(* The texts end where the next one begins, and until something fails the     *)
(* plan manager has an operator of every query, under the query's number.    *)
TextsInv == TextsApart /\ \A k \in DOMAIN queries : queries[k].to < next

QueriesInv ==
  result = "reading" =>
    /\ Len(queryOutOps) = Len(queries)
    /\ \A k \in DOMAIN queryOutOps : queryOutOps[k].query = k - 1
    /\ bQueryIdValid => queryId < Len(queries)

(* No two tables have one name; no two have one producer.  A view is on a     *)
(* query that is there, and the query a view is still to come for is on none. *)
NamesDistinct ==
  \A j, k \in DOMAIN tableList : tableList[j].name = tableList[k].name => j = k

ProducersInv ==
  result = "reading" =>
    /\ \A j, k \in 2..Len(sourceOps) : sourceOps[j].producer = sourceOps[k].producer => j = k
    /\ \A k \in 2..Len(sourceOps) :
         LET p == sourceOps[k].producer
         IN  \/ p[1] = "source" /\ p[2] < numSources
             \/ /\ p[1] = "query" /\ p[2] \in DOMAIN queryOutOps
                /\ bQueryIdValid => p[2] # queryId + 1

(* A query reads tables that were there when it was registered.               *)
ReadsInv ==
  result = "reading" =>
    \A k \in DOMAIN queryOutOps : \A id \in queryOutOps[k].reads : id < Len(tableList)

IInv ==
  /\ TypeOK
  /\ TablesProduced /\ TablesComplete /\ NamesDistinct
  /\ TextsInv /\ QueriesInv /\ ReadsInv
  /\ MapFindsQuery /\ NumbersAgree /\ ProducersInv

-----------------------------------------------------------------------------
(* Type correctness.                                                         *)

(* An empty catalogue is of the types of the state. *)
LEMMA TypeInit == Init => TypeOK
<1> SUFFICES ASSUME Init PROVE TypeOK
  OBVIOUS
<1> USE AppConstants DEF Init
<1>1. [table |-> 0, producer |-> <<"sysstream", 0>>] \in SourceEntries
  BY DEF SourceEntries
<1>2. sourceOps \in Seq(SourceEntries) /\ Len(sourceOps) = 1
  BY <1>1
<1>3. /\ tableList \in Seq(TableTexts) /\ queries \in Seq([from : Nat, to : Nat])
      /\ queryOutOps \in Seq(QueryEntries)
      /\ {baseTableSources, queryOutputs} \subseteq Seq(Nat)
  OBVIOUS
<1>4. /\ Len(tableList) = 0 /\ Len(queries) = 0 /\ Len(queryOutOps) = 0
      /\ Len(baseTableSources) = 0 /\ Len(queryOutputs) = 0
  OBVIOUS
<1>5. /\ 1 <= MaxTables /\ 0 <= MaxTables /\ 0 <= MaxQueries /\ 0 <= MaxPlanOutput
      /\ 0 \in 0..MaxCommands /\ 0 \in 0..MaxSources /\ 0 \in 0..MaxOutput
  OBVIOUS
<1>6. class \in Classes /\ tableSpec \subseteq TableTexts /\ query \subseteq QueryTexts
  OBVIOUS
<1>7. /\ result \in {"reading", "loaded", "failed", "unmapped"}
      /\ commands \in 0..MaxCommands
      /\ state \in {"S_INIT", "S_APP_SPEC", "S_PLAN_GEN"}
      /\ queryId \in Nat /\ bQueryIdValid \in BOOLEAN
      /\ numSources \in 0..MaxSources /\ numOutput \in 0..MaxOutput
      /\ next \in Nat
  BY <1>5
<1>8. QED
  BY <1>2, <1>3, <1>4, <1>5, <1>6, <1>7 DEF TypeOK

(* What a base table or a view does to the managers.                         *)
LEMMA RegisterTableType ==
  ASSUME TypeOK, NEW t \in TableTexts, ~TableRefused(t)
  PROVE  RegisterTable(t) \in Seq(TableTexts) /\ Len(RegisterTable(t)) <= MaxTables
<1>1. /\ Len(tableList) < MaxTables /\ Len(tableList) \in Nat /\ MaxTables \in Nat
      /\ tableList \in Seq(TableTexts)
  <2>1. /\ tableList \in Seq(TableTexts) /\ Len(tableList) <= MaxTables
        /\ MaxTables \in Nat
    BY AppConstants DEF TypeOK
  <2>2. Len(tableList) # MaxTables
    BY DEF TableRefused
  <2>3. QED
    BY <2>1, <2>2
<1>2. /\ Append(tableList, t) \in Seq(TableTexts)
      /\ Len(Append(tableList, t)) = Len(tableList) + 1
  BY <1>1
<1>3. CASE AttrsRefused(t)
  <2>1. RegisterTable(t) = SubSeq(Append(tableList, t), 1, Len(tableList))
    BY <1>1, <1>2, <1>3 DEF RegisterTable, Unregistered
  <2>2. SubSeq(Append(tableList, t), 1, Len(tableList)) = tableList
    BY <1>1
  <2>3. QED
    BY <1>1, <2>1, <2>2
<1>4. CASE ~AttrsRefused(t)
  BY <1>1, <1>2, <1>4, AppConstants DEF RegisterTable
<1>5. QED
  BY <1>3, <1>4

PlanType ==
  /\ sourceOps \in Seq(SourceEntries) /\ queryOutOps \in Seq(QueryEntries)
  /\ {baseTableSources, queryOutputs} \subseteq Seq(Nat)
  /\ Len(sourceOps) <= MaxTables /\ Len(baseTableSources) <= MaxTables
  /\ Len(queryOutOps) <= MaxQueries /\ Len(queryOutputs) <= MaxPlanOutput

(* What the types say of the maps of the plan manager, and of the limits. *)
LEMMA PlanTyped ==
  ASSUME TypeOK
  PROVE  /\ sourceOps \in Seq(SourceEntries) /\ Len(sourceOps) <= MaxTables
         /\ queryOutOps \in Seq(QueryEntries) /\ Len(queryOutOps) <= MaxQueries
         /\ baseTableSources \in Seq(Nat) /\ Len(baseTableSources) <= MaxTables
         /\ queryOutputs \in Seq(Nat) /\ Len(queryOutputs) <= MaxPlanOutput
         /\ tableList \in Seq(TableTexts)
         /\ {MaxTables, MaxQueries, MaxPlanOutput} \subseteq Nat
BY AppConstants DEF TypeOK

(* A list below its limit may get one element more. *)
LEMMA AppendFits ==
  ASSUME NEW S, NEW s \in Seq(S), NEW e \in S, NEW n \in Nat, Len(s) < n
  PROVE  Append(s, e) \in Seq(S) /\ Len(Append(s, e)) <= n
OBVIOUS

(* addBaseTable keeps the types of the plan manager's maps. *)
LEMMA AddBaseTableType ==
  ASSUME TypeOK, NEW source \in Nat, AddBaseTable(source)
  PROVE  PlanType' /\ result' \in {"reading", "failed"}
<1> DEFINE entry == [table |-> TableId, producer |-> <<"source", source>>]
<1>1. /\ TableId \in Nat
      /\ entry \in SourceEntries
  BY PlanTyped DEF TableId, SourceEntries
<1>2. CASE Rejected /\ UNCHANGED plan
  BY <1>2, PlanTyped DEF PlanType, plan, Rejected
<1>3. CASE ~(Rejected /\ UNCHANGED plan)
  <2>1. /\ Len(baseTableSources) < MaxTables
        /\ baseTableSources' = Append(baseTableSources, source)
        /\ UNCHANGED <<queryOutOps, queryOutputs>>
        /\ \/ /\ Len(sourceOps) < MaxTables
              /\ sourceOps' = Append(sourceOps, entry)
              /\ Accepted
           \/ Rejected /\ UNCHANGED sourceOps
    BY <1>3 DEF AddBaseTable
  <2> HIDE DEF entry
  <2>2. baseTableSources' \in Seq(Nat) /\ Len(baseTableSources') <= MaxTables
    BY <2>1, PlanTyped, AppendFits
  <2>3. sourceOps' \in Seq(SourceEntries) /\ Len(sourceOps') <= MaxTables
    <3>1. CASE Len(sourceOps) < MaxTables /\ sourceOps' = Append(sourceOps, entry)
      BY <3>1, <1>1, PlanTyped, AppendFits
    <3>2. CASE UNCHANGED sourceOps
      BY <3>2, PlanTyped
    <3>3. QED
      BY <2>1, <3>1, <3>2
  <2>4. result' \in {"reading", "failed"}
    BY <2>1 DEF Accepted, Rejected
  <2>5. PlanType'
    BY <2>1, <2>2, <2>3, PlanTyped DEF PlanType
  <2>6. QED
    BY <2>4, <2>5
<1>4. QED
  BY <1>2, <1>3

(* map keeps the types of the plan manager's maps. *)
LEMMA MapViewType ==
  ASSUME TypeOK, MapView
  PROVE  PlanType' /\ result' \in {"reading", "failed", "unmapped"}
<1>1. CASE UNCHANGED plan
  <2>1. PlanType'
    BY PlanTyped, <1>1 DEF PlanType, plan
  <2>2. result' \in {"reading", "failed", "unmapped"}
    BY <1>1 DEF MapView, Accepted, Rejected
  <2>3. QED
    BY <2>1, <2>2
<1>2. ASSUME NEW k \in OperatorsOf(queryId),
             Len(sourceOps) < MaxTables,
             sourceOps' = Append(sourceOps, [table |-> TableId, producer |-> <<"query", k>>]),
             Accepted,
             UNCHANGED <<queryOutOps, baseTableSources, queryOutputs>>
      PROVE  PlanType' /\ result' \in {"reading", "failed", "unmapped"}
  <2> DEFINE entry == [table |-> TableId, producer |-> <<"query", k>>]
  <2>1. TableId \in Nat
    BY PlanTyped DEF TableId
  <2>2. k \in Nat
    BY PlanTyped DEF OperatorsOf
  <2>3. entry \in SourceEntries
    BY <2>1, <2>2 DEF SourceEntries
  <2>4. sourceOps' = Append(sourceOps, entry)
    BY <1>2
  <2> HIDE DEF entry
  <2>5. sourceOps' \in Seq(SourceEntries) /\ Len(sourceOps') <= MaxTables
    BY <1>2, <2>3, <2>4, PlanTyped, AppendFits
  <2>6. PlanType'
    BY <1>2, <2>5, PlanTyped DEF PlanType
  <2>7. result' \in {"reading", "failed", "unmapped"}
    BY <1>2 DEF Accepted
  <2>8. QED
    BY <2>6, <2>7
<1>3. QED
  BY <1>1, <1>2 DEF MapView

(* The numbers of the tables that a query names are numbers. *)
LEMMA IdsType == ASSUME TypeOK, NEW names PROVE Ids(names) \in SUBSET Nat
BY DEF TypeOK, Ids

(* addLogicalQueryPlan keeps the types of the plan manager's maps. *)
LEMMA AddPlanType ==
  ASSUME TypeOK, NEW q \in QueryTexts, NEW hasOutput \in BOOLEAN, AddPlan(q, hasOutput)
  PROVE  PlanType' /\ result' \in {"reading", "failed"}
<1> DEFINE entry == [query |-> Len(queries), reads |-> Ids(q.reads), class |-> class]
<1>1. numOutput \in Nat
  BY AppConstants DEF TypeOK
<1>2. entry \in QueryEntries
  BY IdsType DEF TypeOK, QueryEntries
<1>3. CASE Rejected /\ UNCHANGED plan
  BY <1>3, PlanTyped DEF PlanType, plan, Rejected
<1>4. CASE ~(Rejected /\ UNCHANGED plan)
  <2>1. /\ Len(queryOutOps) < MaxQueries
        /\ queryOutOps' = Append(queryOutOps, entry)
        /\ UNCHANGED <<sourceOps, baseTableSources>>
    BY <1>4 DEF AddPlan
  <2> HIDE DEF entry
  <2>2. queryOutOps' \in Seq(QueryEntries) /\ Len(queryOutOps') <= MaxQueries
    BY <1>2, <2>1, PlanTyped, AppendFits
  <2>3. \/ UNCHANGED queryOutputs
        \/ /\ Len(queryOutputs) < MaxPlanOutput
           /\ queryOutputs' = Append(queryOutputs, numOutput)
    BY <1>4 DEF AddPlan
  <2>4. queryOutputs' \in Seq(Nat) /\ Len(queryOutputs') <= MaxPlanOutput
    <3>1. CASE UNCHANGED queryOutputs
      BY <3>1, PlanTyped
    <3>2. CASE /\ Len(queryOutputs) < MaxPlanOutput
               /\ queryOutputs' = Append(queryOutputs, numOutput)
      BY <1>1, <3>2, PlanTyped, AppendFits
    <3>3. QED
      BY <2>3, <3>1, <3>2
  <2>5. result' \in {"reading", "failed"}
    BY <1>4 DEF AddPlan, Accepted, Rejected
  <2>6. PlanType'
    BY <2>1, <2>2, <2>4, PlanTyped DEF PlanType
  <2>7. QED
    BY <2>5, <2>6
<1>5. QED
  BY <1>3, <1>4

(* registerQuery keeps the types of the buffer of texts and of the maps. *)
LEMMA RegisterQueryType ==
  ASSUME TypeOK, NEW q \in QueryTexts, NEW hasOutput \in BOOLEAN, RegisterQuery(q, hasOutput)
  PROVE  /\ PlanType' /\ result' \in {"reading", "failed"}
         /\ queryId' \in Nat /\ next' \in Nat
         /\ queries' \in Seq([from : Nat, to : Nat]) /\ Len(queries') <= MaxQueries
<1> USE AppConstants DEF TypeOK
<1>1. CASE Rejected /\ UNCHANGED <<queryId, texts, plan>>
  BY <1>1 DEF PlanType, plan, texts, Rejected
<1>2. CASE ~TooManyQueries /\ StoreText(q) /\ AddPlan(q, hasOutput)
  <2>1. PlanType' /\ result' \in {"reading", "failed"}
    BY <1>2, AddPlanType
  <2>2. /\ q.len \in Nat /\ next \in Nat /\ MaxQueries \in Nat
        /\ queries \in Seq([from : Nat, to : Nat]) /\ Len(queries) <= MaxQueries
    OBVIOUS
  <2> HIDE DEF TypeOK
  <2>3. [from |-> next, to |-> next + q.len] \in [from : Nat, to : Nat]
    BY <2>2
  <2>4. queries' \in Seq([from : Nat, to : Nat]) /\ Len(queries') <= MaxQueries
    <3>1. Len(queries) < MaxQueries
      BY <1>2, <2>2 DEF TooManyQueries
    <3>2. queries' = Append(queries, [from |-> next, to |-> next + q.len])
      BY <1>2 DEF StoreText
    <3>3. QED
      BY <2>2, <2>3, <3>1, <3>2, AppendFits
  <2>5. queryId' \in Nat /\ next' \in Nat
    <3>1. queryId' = Len(queries) /\ next' = next + q.len + 1
      BY <1>2 DEF StoreText
    <3>2. QED
      BY <2>2, <3>1, SMTT(30)
  <2>6. QED
    BY <2>1, <2>4, <2>5
<1>3. QED
  BY <1>1, <1>2 DEF RegisterQuery

(* Reading a command keeps the counter of commands below its bound. *)
LEMMA ReadType ==
  ASSUME TypeOK, Read
  PROVE  /\ commands' \in 0..MaxCommands
         /\ state' \in {"S_INIT", "S_APP_SPEC", "S_PLAN_GEN"}
<1>1. commands \in 0..MaxCommands /\ MaxCommands \in Nat
  BY AppConstants DEF TypeOK
<1>2. commands' \in 0..MaxCommands
  BY <1>1 DEF Read
<1>3. QED
  BY <1>2 DEF TypeOK, Read

(* A counter below its bound may be increased. *)
LEMMA CountType ==
  ASSUME NEW n \in Nat, NEW k \in 0..n, k < n PROVE k + 1 \in 0..n
OBVIOUS

(* Every command keeps the types of the state. *)
LEMMA TypeStep == TypeOK /\ [Next]_vars => TypeOK'
<1> SUFFICES ASSUME TypeOK, [Next]_vars PROVE TypeOK'
  OBVIOUS
<1> USE AppConstants DEF TypeOK
<1>1. CASE UNCHANGED vars
  BY <1>1 DEF vars, loader, texts, plan
<1>2. CASE BeginAppSpecification
  BY <1>2 DEF BeginAppSpecification, loader, texts, plan
<1>3. ASSUME Read, Refused PROVE TypeOK'
  BY <1>3, ReadType DEF Refused, Rejected, loader, texts, plan
<1>4. CASE ParseError
  BY <1>3, <1>4 DEF ParseError
<1>5. CASE QueryClassCommand
  <2>1. /\ Read /\ Accepted /\ class' \in Classes
        /\ UNCHANGED <<tableSpec, query, queryId, bQueryIdValid, numSources, numOutput,
                       tableList, texts, plan>>
    BY <1>5 DEF QueryClassCommand
  <2>2. QED
    BY <2>1, ReadType DEF Accepted, texts, plan
<1>6. CASE TableCommand
  <2>1. ASSUME NEW t \in TableTexts, Read, tableSpec' = {t}, Accepted,
               UNCHANGED <<query, queryId, bQueryIdValid, numSources, numOutput, class,
                           tableList, texts, plan>>
        PROVE  TypeOK'
    BY <2>1, ReadType DEF Accepted, texts, plan
  <2>2. QED
    BY <1>3, <1>6, <2>1 DEF TableCommand
<1>7. CASE SourceCommand
  <2>1. ASSUME Read, numSources < MaxSources, numSources' = numSources + 1,
               NEW t \in tableSpec, RegisterBaseTable(t),
               UNCHANGED <<query, queryId, bQueryIdValid, numOutput, class, texts>>
        PROVE  TypeOK'
    <3> numSources' \in 0..MaxSources
      BY <2>1, CountType
    <3> commands' \in 0..MaxCommands /\ state' \in {"S_INIT", "S_APP_SPEC", "S_PLAN_GEN"}
      BY <2>1, ReadType
    <3>1. CASE Rejected /\ UNCHANGED <<tableSpec, tableList, plan>>
      BY <2>1, <3>1 DEF Rejected, texts, plan
    <3>2. CASE /\ ~TableRefused(t) /\ tableList' = RegisterTable(t)
               /\ Rejected /\ UNCHANGED <<tableSpec, plan>>
      BY <2>1, <3>2, RegisterTableType DEF Rejected, texts, plan
    <3>3. CASE /\ ~TableRefused(t) /\ tableList' = RegisterTable(t)
               /\ AddBaseTable(numSources)
               /\ tableSpec' = IF result' = "reading" THEN {} ELSE tableSpec
      <4>1. PlanType' /\ result' \in {"reading", "failed"}
        <5>1. numSources \in Nat
          OBVIOUS
        <5> HIDE DEF TypeOK
        <5>2. QED
          BY <3>3, <5>1, AddBaseTableType
      <4>2. tableList' \in Seq(TableTexts) /\ Len(tableList') <= MaxTables
        BY <2>1, <3>3, RegisterTableType
      <4>3. tableSpec' \subseteq TableTexts
        BY <3>3
      <4>4. QED
        BY <2>1, <4>1, <4>2, <4>3 DEF texts, PlanType
    <3>4. QED
      BY <2>1, <3>1, <3>2, <3>3 DEF RegisterBaseTable
  <2>2. QED
    BY <1>3, <1>7, <2>1 DEF SourceCommand
<1>8. CASE QueryCommand
  <2>1. ASSUME NEW q \in QueryTexts, Read, query' = {q}, Accepted,
               UNCHANGED <<tableSpec, queryId, bQueryIdValid, numSources, numOutput, class,
                           tableList, texts, plan>>
        PROVE  TypeOK'
    BY <2>1, ReadType DEF Accepted, texts, plan
  <2>2. QED
    BY <1>3, <1>8, <2>1 DEF QueryCommand
<1>9. CASE DestCommand
  <2>1. ASSUME Read, numOutput < MaxOutput, numOutput' = numOutput + 1,
               NEW q \in query, RegisterQuery(q, TRUE),
               query' = IF result' = "failed" THEN query ELSE {},
               UNCHANGED <<tableSpec, bQueryIdValid, numSources, class, tableList>>
        PROVE  TypeOK'
    <3>1. numOutput' \in 0..MaxOutput
      BY <2>1, CountType
    <3>2. commands' \in 0..MaxCommands /\ state' \in {"S_INIT", "S_APP_SPEC", "S_PLAN_GEN"}
      BY <2>1, ReadType
    <3>3. /\ PlanType' /\ result' \in {"reading", "failed"}
          /\ queryId' \in Nat /\ next' \in Nat
          /\ queries' \in Seq([from : Nat, to : Nat]) /\ Len(queries') <= MaxQueries
      BY <2>1, RegisterQueryType
    <3>4. query' \subseteq QueryTexts
      BY <2>1
    <3>5. QED
      BY <2>1, <3>1, <3>2, <3>3, <3>4 DEF PlanType
  <2>2. QED
    BY <1>3, <1>9, <2>1 DEF DestCommand
<1>10. CASE VQueryCommand
  <2>1. PICK q \in QueryTexts : RegisterQuery(q, FALSE)
    BY <1>10 DEF VQueryCommand
  <2>2. bQueryIdValid' \in BOOLEAN
    BY <1>10 DEF VQueryCommand
  <2>3. /\ PlanType' /\ result' \in {"reading", "failed"}
        /\ queryId' \in Nat /\ next' \in Nat
        /\ queries' \in Seq([from : Nat, to : Nat]) /\ Len(queries') <= MaxQueries
    BY <2>1, RegisterQueryType
  <2>4. commands' \in 0..MaxCommands /\ state' \in {"S_INIT", "S_APP_SPEC", "S_PLAN_GEN"}
    BY <1>10, ReadType DEF VQueryCommand
  <2>5. UNCHANGED <<tableSpec, query, numSources, numOutput, class, tableList>>
    BY <1>10 DEF VQueryCommand
  <2>6. QED
    BY <2>2, <2>3, <2>4, <2>5 DEF PlanType
<1>11. CASE VTableCommand
  <2>1. ASSUME Read, NEW t \in TableTexts, RegisterView(t),
               IF result' = "reading" THEN ResetId ELSE UNCHANGED bQueryIdValid,
               UNCHANGED <<tableSpec, query, queryId, numSources, numOutput, class, texts>>
        PROVE  TypeOK'
    <3>1. bQueryIdValid' \in BOOLEAN
      BY <2>1 DEF ResetId
    <3> commands' \in 0..MaxCommands /\ state' \in {"S_INIT", "S_APP_SPEC", "S_PLAN_GEN"}
      BY <2>1, ReadType
    <3>2. CASE Rejected /\ UNCHANGED <<tableList, plan>>
      BY <2>1, <3>1, <3>2 DEF Rejected, texts, plan
    <3>3. CASE /\ ~TableRefused(t) /\ tableList' = RegisterTable(t)
               /\ Rejected /\ UNCHANGED plan
      BY <2>1, <3>1, <3>3, RegisterTableType DEF Rejected, texts, plan
    <3>4. CASE /\ ~TableRefused(t) /\ tableList' = RegisterTable(t) /\ MapView
      <4>1. PlanType' /\ result' \in {"reading", "failed", "unmapped"}
        BY <3>4, MapViewType
      <4>2. tableList' \in Seq(TableTexts) /\ Len(tableList') <= MaxTables
        BY <3>4, RegisterTableType
      <4>3. QED
        BY <2>1, <3>1, <4>1, <4>2 DEF texts, PlanType
    <3>5. QED
      BY <2>1, <3>2, <3>3, <3>4 DEF RegisterView
  <2>2. QED
    BY <1>3, <1>11, <2>1 DEF VTableCommand
<1>12. CASE EndOfScript
  BY <1>12 DEF EndOfScript, Rejected, loader, texts, plan
<1>13. CASE Ended
  BY <1>1, <1>13 DEF Ended
<1>14. QED
  BY <1>1, <1>2, <1>4, <1>5, <1>6, <1>7, <1>8, <1>9, <1>10, <1>11, <1>12, <1>13 DEF Next

(* Every state of the loading is well typed, whatever the script; the arrays  *)
(* of the loader and of the managers never hold more than their sizes.       *)
THEOREM TypeCorrect == Spec => []TypeOK
BY TypeInit, TypeStep, PTL DEF Spec

-----------------------------------------------------------------------------
(* The strengthening and its preservation, one part at a time.                *)

(* The invariant holds before the script is read. *)
LEMMA IInit == Init => IInv
<1> SUFFICES ASSUME Init PROVE IInv
  OBVIOUS
<1>1. TypeOK
  BY TypeInit
<1>2. TablesProduced /\ TablesComplete
  BY DEF Init, TablesProduced, TablesComplete
<1>3. TextsInv /\ QueriesInv /\ MapFindsQuery
  BY DEF Init, TextsInv, TextsApart, QueriesInv, MapFindsQuery
<1>4. NamesDistinct /\ ReadsInv /\ NumbersAgree
  BY DEF Init, NamesDistinct, ReadsInv, NumbersAgree
<1>5. ProducersInv
  <2>1. 2..Len(sourceOps) = {}
    BY DEF Init
  <2>2. QED
    BY <2>1 DEF ProducersInv
<1>6. QED
  BY <1>1, <1>2, <1>3, <1>4, <1>5 DEF IInv

(* The table manager's list changes in RegisterTable only.                    *)
LEMMA TablesStep ==
  ASSUME TypeOK, [Next]_vars
  PROVE  \/ UNCHANGED tableList
         \/ \E t \in TableTexts : ~TableRefused(t) /\ tableList' = RegisterTable(t)
<1> USE DEF vars
<1>1. CASE SourceCommand
  BY <1>1 DEF SourceCommand, Refused, RegisterBaseTable, TypeOK
<1>2. CASE VTableCommand
  BY <1>2 DEF VTableCommand, Refused, RegisterView
<1>3. CASE ~SourceCommand /\ ~VTableCommand
  BY <1>3 DEF Next, BeginAppSpecification, ParseError, Refused, QueryClassCommand, TableCommand,
     QueryCommand, DestCommand, VQueryCommand, EndOfScript, Ended
<1>4. QED
  BY <1>1, <1>2, <1>3

(* Every command leaves whole tables only, unless the script ends with it. *)
LEMMA CompleteStep == TypeOK /\ TablesComplete /\ [Next]_vars => TablesComplete'
<1> SUFFICES ASSUME TypeOK, TablesComplete, [Next]_vars PROVE TablesComplete'
  OBVIOUS
<1>1. CASE UNCHANGED tableList
  BY <1>1 DEF TablesComplete, AttrsRefused
<1>2. ASSUME NEW t \in TableTexts, tableList' = RegisterTable(t) PROVE TablesComplete'
  <2>1. tableList \in Seq(TableTexts) /\ Len(tableList) \in Nat
    BY DEF TypeOK
  <2>2. CASE AttrsRefused(t)
    <3>1. tableList' = SubSeq(Append(tableList, t), 1, Len(tableList))
      BY <1>2, <2>1, <2>2 DEF RegisterTable, Unregistered
    <3>2. SubSeq(Append(tableList, t), 1, Len(tableList)) = tableList
      BY <2>1
    <3>3. QED
      BY <3>1, <3>2 DEF TablesComplete, AttrsRefused
  <2>3. CASE ~AttrsRefused(t)
    <3>1. tableList' = Append(tableList, t)
      BY <1>2, <2>3 DEF RegisterTable
    <3>2. ASSUME NEW k \in DOMAIN tableList' PROVE ~AttrsRefused(tableList'[k])
      <4>1. CASE k \in DOMAIN tableList
        BY <2>1, <3>1, <4>1 DEF TablesComplete
      <4>2. CASE k \notin DOMAIN tableList
        BY <2>1, <2>3, <3>1, <4>2
      <4>3. QED
        BY <4>1, <4>2
    <3>3. QED
      BY <3>2 DEF TablesComplete, AttrsRefused
  <2>4. QED
    BY <2>2, <2>3
<1>3. QED
  BY <1>1, <1>2, TablesStep

(* What a sequence holds is of its type. *)
LEMMA ElementType ==
  ASSUME NEW S, NEW s \in Seq(S), NEW k \in 1..Len(s) PROVE s[k] \in S
OBVIOUS

(* A step leaves the texts or stores one more, in the buffer.                 *)
LEMMA TextsStep == TypeOK /\ TextsInv /\ [Next]_vars => TextsInv'
<1> SUFFICES ASSUME TypeOK, TextsInv, [Next]_vars PROVE TextsInv'
  OBVIOUS
<1>1. UNCHANGED texts \/ \E q \in QueryTexts : ~NoRoom(q) /\ StoreText(q)
  <2>1. CASE DestCommand
    BY <2>1 DEF DestCommand, Refused, RegisterQuery, TypeOK
  <2>2. CASE VQueryCommand
    BY <2>2 DEF VQueryCommand, RegisterQuery
  <2>3. CASE ~DestCommand /\ ~VQueryCommand
    BY <2>3 DEF Next, BeginAppSpecification, ParseError, Refused, QueryClassCommand, TableCommand,
       QueryCommand, SourceCommand, VTableCommand, EndOfScript, Ended, vars
  <2>4. QED
    BY <2>1, <2>2, <2>3
<1>2. CASE UNCHANGED texts
  BY <1>2 DEF texts, TextsInv, TextsApart
<1>3. ASSUME NEW q \in QueryTexts, ~NoRoom(q), StoreText(q) PROVE TextsInv'
  <2> DEFINE text == [from |-> next, to |-> next + q.len]
  <2>1. /\ q.len \in Nat /\ next \in Nat /\ QryBufLen \in Nat
        /\ queries \in Seq([from : Nat, to : Nat]) /\ Len(queries) \in Nat
    BY AppConstants DEF TypeOK
  <2>2. queries' = Append(queries, text) /\ next' = next + q.len + 1
    BY <1>3 DEF StoreText
  <2>3. /\ text.to < QryBufLen /\ text.to < next' /\ text.from = next /\ next < next'
        /\ next' \in Nat
    BY <1>3, <2>1, <2>2 DEF NoRoom
  <2>4. text \in [from : Nat, to : Nat]
    BY <2>1
  <2> HIDE DEF text
  <2>5. /\ DOMAIN queries' = 1..(Len(queries) + 1) /\ DOMAIN queries = 1..Len(queries)
        /\ \A k \in 1..Len(queries) : queries'[k] = queries[k]
        /\ queries'[Len(queries) + 1] = text
    BY <2>1, <2>2, <2>4
  <2>6. ASSUME NEW k \in DOMAIN queries'
        PROVE  /\ queries'[k].to < QryBufLen /\ queries'[k].to < next'
               /\ \A j \in 1..(k - 1) : queries'[j].to < queries'[k].from
    <3>1. CASE k \in 1..Len(queries)
      <4>1. queries'[k] = queries[k] /\ queries[k].to \in Nat /\ next' \in Nat
        <5>1. queries[k] \in [from : Nat, to : Nat] /\ queries[k].to \in Nat
          <6>1. queries[k] \in [from : Nat, to : Nat]
            BY <2>1, <3>1, ElementType
          <6>2. QED
            BY <6>1
        <5>2. QED
          BY <2>3, <2>5, <3>1, <5>1
      <4>2. queries[k].to < QryBufLen /\ queries[k].to < next
        BY <2>5, <3>1 DEF TextsInv, TextsApart
      <4>3. \A j \in 1..(k - 1) : j \in 1..Len(queries)
        BY <2>1, <3>1
      <4>4. \A j \in 1..(k - 1) : queries'[j].to < queries'[k].from
        BY <2>5, <3>1, <4>3 DEF TextsInv, TextsApart
      <4>5. QED
        BY <2>1, <2>3, <4>1, <4>2, <4>4
    <3>2. CASE k = Len(queries) + 1
      <4>1. \A j \in 1..(k - 1) : j \in 1..Len(queries)
        BY <2>1, <3>2
      <4>2. \A j \in 1..Len(queries) : queries[j].to < next
        BY <2>5 DEF TextsInv
      <4>3. QED
        BY <2>3, <2>5, <3>2, <4>1, <4>2
    <3>3. QED
      BY <2>1, <2>5, <3>1, <3>2
  <2>7. QED
    BY <2>6 DEF TextsInv, TextsApart
<1>4. QED
  BY <1>1, <1>2, <1>3

(* While a script is read, the plan manager gets an entry exactly when the    *)
(* table manager gets a table.                                               *)
LEMMA ProducedStep == TypeOK /\ TablesProduced /\ [Next]_vars => TablesProduced'
<1> SUFFICES ASSUME TypeOK, TablesProduced, [Next]_vars,
                    result' \in {"reading", "loaded"}
             PROVE  /\ Len(sourceOps') = Len(tableList') + 1
                    /\ \A k \in DOMAIN tableList' : sourceOps'[k + 1].table = k - 1
  BY DEF TablesProduced
<1> DEFINE Registers(t, p) ==
      /\ result = "reading"
      /\ tableList' = Append(tableList, t)
      /\ sourceOps' = Append(sourceOps, [table |-> TableId, producer |-> p])
<1>1. \/ UNCHANGED <<tableList, sourceOps>> /\ result \in {"reading", "loaded"}
      \/ \E t \in TableTexts, p \in {"source", "query"} \X Nat : Registers(t, p)
  <2>1. CASE SourceCommand
    <3>1. PICK t \in tableSpec : RegisterBaseTable(t)
      BY <2>1 DEF SourceCommand, Refused, Rejected
    <3>2. ~AttrsRefused(t) /\ tableList' = RegisterTable(t) /\ AddBaseTable(numSources)
      BY <3>1 DEF RegisterBaseTable, Rejected
    <3>3. sourceOps' = Append(sourceOps, [table |-> TableId, producer |-> <<"source", numSources>>])
      BY <3>2 DEF AddBaseTable, Rejected
    <3>4. t \in TableTexts /\ numSources \in Nat /\ result = "reading"
      BY <2>1, AppConstants DEF TypeOK, SourceCommand, Read
    <3>5. tableList' = Append(tableList, t)
      BY <3>2 DEF RegisterTable
    <3>6. Registers(t, <<"source", numSources>>)
      BY <3>3, <3>4, <3>5
    <3>7. QED
      BY <3>4, <3>6
  <2>2. CASE VTableCommand
    <3>1. PICK t \in TableTexts : RegisterView(t)
      BY <2>2 DEF VTableCommand, Refused, Rejected
    <3>2. ~AttrsRefused(t) /\ tableList' = RegisterTable(t) /\ MapView
      BY <3>1 DEF RegisterView, Rejected
    <3>3. PICK k \in OperatorsOf(queryId) :
            sourceOps' = Append(sourceOps, [table |-> TableId, producer |-> <<"query", k>>])
      BY <3>2 DEF MapView, Rejected
    <3>4. k \in Nat /\ result = "reading"
      BY <2>2 DEF OperatorsOf, TypeOK, VTableCommand, Read
    <3>5. tableList' = Append(tableList, t)
      BY <3>2 DEF RegisterTable
    <3>6. Registers(t, <<"query", k>>)
      BY <3>3, <3>4, <3>5
    <3>7. QED
      BY <3>4, <3>6
  <2>3. CASE DestCommand
    BY <2>3 DEF DestCommand, Read, Refused, RegisterQuery, AddPlan, plan
  <2>4. CASE VQueryCommand
    BY <2>4 DEF VQueryCommand, Read, RegisterQuery, AddPlan, plan
  <2>5. CASE UNCHANGED vars
    BY <2>5 DEF vars, plan
  <2>6. CASE BeginAppSpecification \/ ParseError \/ QueryClassCommand \/ TableCommand
             \/ QueryCommand \/ EndOfScript \/ Ended
    BY <2>6 DEF BeginAppSpecification, ParseError, Refused, QueryClassCommand, TableCommand,
       QueryCommand, EndOfScript, Ended, Read, plan, vars
  <2>7. QED
    BY <2>1, <2>2, <2>3, <2>4, <2>5, <2>6 DEF Next
<1>2. CASE UNCHANGED <<tableList, sourceOps>> /\ result \in {"reading", "loaded"}
  BY <1>2 DEF TablesProduced
<1>3. ASSUME NEW t \in TableTexts, NEW p \in {"source", "query"} \X Nat, Registers(t, p)
      PROVE  /\ Len(sourceOps') = Len(tableList') + 1
             /\ \A k \in DOMAIN tableList' : sourceOps'[k + 1].table = k - 1
  <2> DEFINE entry == [table |-> TableId, producer |-> p]
  <2>1. /\ tableList \in Seq(TableTexts) /\ Len(tableList) \in Nat
        /\ sourceOps \in Seq(SourceEntries) /\ Len(sourceOps) \in Nat
        /\ TableId = Len(tableList)
    BY DEF TypeOK, TableId
  <2>2. /\ Len(sourceOps) = Len(tableList) + 1
        /\ \A k \in DOMAIN tableList : sourceOps[k + 1].table = k - 1
    BY <1>3 DEF TablesProduced
  <2>3. entry \in SourceEntries /\ entry.table = Len(tableList)
    BY <2>1 DEF SourceEntries
  <2>4. tableList' = Append(tableList, t) /\ sourceOps' = Append(sourceOps, entry)
    BY <1>3
  <2> HIDE DEF entry
  <2>5. /\ Len(tableList') = Len(tableList) + 1 /\ Len(sourceOps') = Len(sourceOps) + 1
        /\ DOMAIN tableList' = 1..(Len(tableList) + 1) /\ DOMAIN tableList = 1..Len(tableList)
        /\ \A k \in 1..Len(sourceOps) : sourceOps'[k] = sourceOps[k]
        /\ sourceOps'[Len(sourceOps) + 1] = entry
    BY <2>1, <2>3, <2>4
  <2>6. ASSUME NEW k \in DOMAIN tableList' PROVE sourceOps'[k + 1].table = k - 1
    <3>1. CASE k \in 1..Len(tableList)
      BY <2>1, <2>2, <2>5, <3>1
    <3>2. CASE k = Len(tableList) + 1
      BY <2>1, <2>2, <2>3, <2>5, <3>2
    <3>3. QED
      BY <2>1, <2>5, <3>1, <3>2
  <2>7. QED
    BY <2>1, <2>2, <2>5, <2>6
<1>4. QED
  BY <1>1, <1>2, <1>3

(* A query is stored by both managers under one number, or the loading fails. *)
LEMMA RegisterQueryStep ==
  ASSUME TypeOK, QueriesInv, result = "reading", result' = "reading",
         NEW q \in QueryTexts, NEW hasOutput \in BOOLEAN, RegisterQuery(q, hasOutput)
  PROVE  /\ Len(queryOutOps') = Len(queries')
         /\ \A k \in DOMAIN queryOutOps' : queryOutOps'[k].query = k - 1
         /\ queryId' < Len(queries')
<1> DEFINE entry == [query |-> Len(queries), reads |-> Ids(q.reads), class |-> class]
           text  == [from |-> next, to |-> next + q.len]
<1>1. StoreText(q) /\ AddPlan(q, hasOutput)
  BY DEF RegisterQuery, Rejected
<1>2. queryOutOps' = Append(queryOutOps, entry)
  BY <1>1 DEF AddPlan, Rejected
<1>3. queries' = Append(queries, text) /\ queryId' = Len(queries)
  BY <1>1 DEF StoreText
<1>4. /\ queries \in Seq([from : Nat, to : Nat]) /\ Len(queries) \in Nat
      /\ queryOutOps \in Seq(QueryEntries) /\ Len(queryOutOps) \in Nat
      /\ Len(queryOutOps) = Len(queries)
      /\ \A k \in DOMAIN queryOutOps : queryOutOps[k].query = k - 1
  BY DEF TypeOK, QueriesInv
<1>5. entry.query = Len(queries)
  OBVIOUS
<1> HIDE DEF entry, text
<1>6. /\ Len(queries') = Len(queries) + 1
      /\ Len(queryOutOps') = Len(queryOutOps) + 1
      /\ DOMAIN queryOutOps' = 1..(Len(queryOutOps) + 1)
      /\ DOMAIN queryOutOps = 1..Len(queryOutOps)
      /\ \A k \in 1..Len(queryOutOps) : queryOutOps'[k] = queryOutOps[k]
      /\ queryOutOps'[Len(queryOutOps) + 1] = entry
  BY <1>2, <1>3, <1>4
<1>7. ASSUME NEW k \in DOMAIN queryOutOps' PROVE queryOutOps'[k].query = k - 1
  <2>1. CASE k \in 1..Len(queryOutOps)
    BY <1>4, <1>6, <2>1
  <2>2. CASE k = Len(queryOutOps) + 1
    BY <1>4, <1>5, <1>6, <2>2
  <2>3. QED
    BY <1>4, <1>6, <2>1, <2>2
<1>8. QED
  BY <1>3, <1>4, <1>6, <1>7

(* Every command leaves the plan manager with the queries of the query manager. *)
LEMMA QueriesStep == TypeOK /\ QueriesInv /\ [Next]_vars => QueriesInv'
<1> SUFFICES ASSUME TypeOK, QueriesInv, [Next]_vars, result' = "reading"
             PROVE  /\ Len(queryOutOps') = Len(queries')
                    /\ \A k \in DOMAIN queryOutOps' : queryOutOps'[k].query = k - 1
                    /\ bQueryIdValid' => queryId' < Len(queries')
  BY DEF QueriesInv
<1>1. CASE DestCommand
  <2>1. \E q \in QueryTexts : RegisterQuery(q, TRUE)
    BY <1>1 DEF DestCommand, Refused, Rejected, TypeOK
  <2>2. result = "reading"
    BY <1>1 DEF DestCommand, Read
  <2>3. QED
    BY <2>1, <2>2, RegisterQueryStep
<1>2. CASE VQueryCommand
  BY <1>2, RegisterQueryStep DEF VQueryCommand, Read
<1>3. CASE SourceCommand
  BY <1>3 DEF SourceCommand, Refused, Rejected, Read, RegisterBaseTable, AddBaseTable, plan, texts,
     QueriesInv
<1>4. CASE VTableCommand
  <2>1. UNCHANGED <<queryOutOps, queries>> /\ bQueryIdValid' = FALSE /\ result = "reading"
    BY <1>4 DEF VTableCommand, Refused, Rejected, Read, RegisterView, MapView, plan, texts, ResetId
  <2>2. QED
    BY <2>1 DEF QueriesInv
<1>5. CASE UNCHANGED vars
  BY <1>5 DEF vars, plan, texts, loader, QueriesInv
<1>6. CASE BeginAppSpecification \/ ParseError \/ QueryClassCommand \/ TableCommand
           \/ QueryCommand \/ EndOfScript \/ Ended
  BY <1>6 DEF BeginAppSpecification, ParseError, Refused, Rejected, QueryClassCommand,
     TableCommand, QueryCommand, EndOfScript, Ended, Read, plan, texts, loader, vars, QueriesInv
<1>7. QED
  BY <1>1, <1>2, <1>3, <1>4, <1>5, <1>6 DEF Next

(* A view is mapped from a query that the plan manager has.                   *)
LEMMA MapStep == TypeOK /\ QueriesInv /\ MapFindsQuery /\ [Next]_vars => MapFindsQuery'
<1> SUFFICES ASSUME TypeOK, QueriesInv, MapFindsQuery, [Next]_vars PROVE result' # "unmapped"
  BY DEF MapFindsQuery
<1>1. CASE VTableCommand
  <2>1. CASE ~bQueryIdValid
    BY <1>1, <2>1 DEF VTableCommand, Refused, Rejected
  <2>2. CASE bQueryIdValid
    <3>1. /\ Len(queryOutOps) = Len(queries) /\ queryId < Len(queries)
          /\ \A k \in DOMAIN queryOutOps : queryOutOps[k].query = k - 1
      BY <1>1, <2>2 DEF QueriesInv, VTableCommand, Read
    <3>2. /\ queryId \in Nat /\ Len(queryOutOps) \in Nat
          /\ DOMAIN queryOutOps = 1..Len(queryOutOps)
      BY DEF TypeOK
    <3>3. queryId + 1 \in OperatorsOf(queryId)
      BY <3>1, <3>2 DEF OperatorsOf
    <3>4. PICK t \in TableTexts : RegisterView(t)
      BY <1>1, <2>2 DEF VTableCommand
    <3>5. QED
      BY <3>3, <3>4 DEF RegisterView, MapView, Rejected, Accepted
  <2>3. QED
    BY <2>1, <2>2 DEF TypeOK
<1>2. CASE SourceCommand
  BY <1>2 DEF SourceCommand, Refused, Rejected, Accepted, RegisterBaseTable, AddBaseTable
<1>3. CASE DestCommand
  BY <1>3 DEF DestCommand, Refused, Rejected, Accepted, RegisterQuery, AddPlan
<1>4. CASE VQueryCommand
  BY <1>4 DEF VQueryCommand, Rejected, Accepted, RegisterQuery, AddPlan
<1>5. CASE UNCHANGED vars
  BY <1>5 DEF vars, MapFindsQuery
<1>6. CASE BeginAppSpecification \/ ParseError \/ QueryClassCommand \/ TableCommand
           \/ QueryCommand \/ EndOfScript \/ Ended
  BY <1>6 DEF BeginAppSpecification, ParseError, Refused, Rejected, Accepted, QueryClassCommand,
     TableCommand, QueryCommand, EndOfScript, Ended, vars, MapFindsQuery
<1>7. QED
  BY <1>1, <1>2, <1>3, <1>4, <1>5, <1>6 DEF Next
(* A source or an output is stored under the number the loader counted.       *)
LEMMA NumberedAppend ==
  ASSUME NEW s \in Seq(Nat), \A k \in DOMAIN s : s[k] = k - 1
  PROVE  /\ Len(Append(s, Len(s))) = Len(s) + 1
         /\ \A k \in DOMAIN Append(s, Len(s)) : Append(s, Len(s))[k] = k - 1
<1>1. /\ Len(Append(s, Len(s))) = Len(s) + 1
      /\ DOMAIN Append(s, Len(s)) = 1..(Len(s) + 1) /\ DOMAIN s = 1..Len(s)
      /\ \A k \in 1..Len(s) : Append(s, Len(s))[k] = s[k]
      /\ Append(s, Len(s))[Len(s) + 1] = Len(s)
      /\ Len(s) \in Nat
  OBVIOUS
<1>2. ASSUME NEW k \in 1..(Len(s) + 1) PROVE Append(s, Len(s))[k] = k - 1
  <2>1. CASE k \in 1..Len(s)
    BY <1>1, <2>1
  <2>2. CASE k = Len(s) + 1
    BY <1>1, <2>2
  <2>3. QED
    BY <1>1, <2>1, <2>2
<1>3. QED
  BY <1>1, <1>2

(* Every command leaves the managers with the same numbers. *)
LEMMA NumbersStep == TypeOK /\ NumbersAgree /\ [Next]_vars => NumbersAgree'
<1> SUFFICES ASSUME TypeOK, NumbersAgree, [Next]_vars, result' \in {"reading", "loaded"}
             PROVE  /\ numSources' = Len(baseTableSources') /\ numOutput' = Len(queryOutputs')
                    /\ \A k \in DOMAIN queryOutputs' : queryOutputs'[k] = k - 1
                    /\ \A k \in DOMAIN baseTableSources' : baseTableSources'[k] = k - 1
  BY DEF NumbersAgree
<1> DEFINE numbers == <<numSources, numOutput, baseTableSources, queryOutputs>>
<1>1. baseTableSources \in Seq(Nat) /\ queryOutputs \in Seq(Nat)
  BY PlanTyped
<1>2. CASE UNCHANGED numbers /\ result \in {"reading", "loaded"}
  BY <1>2 DEF NumbersAgree
<1>3. CASE SourceCommand
  <2>1. /\ numSources' = numSources + 1
        /\ baseTableSources' = Append(baseTableSources, numSources)
        /\ UNCHANGED <<numOutput, queryOutputs>> /\ result = "reading"
    BY <1>3 DEF SourceCommand, Read, Refused, Rejected, RegisterBaseTable, AddBaseTable
  <2>2. /\ numSources = Len(baseTableSources) /\ numOutput = Len(queryOutputs)
        /\ \A k \in DOMAIN queryOutputs : queryOutputs[k] = k - 1
        /\ \A k \in DOMAIN baseTableSources : baseTableSources[k] = k - 1
    BY <2>1 DEF NumbersAgree
  <2>3. QED
    BY <1>1, <2>1, <2>2, NumberedAppend
<1>4. CASE DestCommand
  <2>1. /\ numOutput' = numOutput + 1
        /\ queryOutputs' = Append(queryOutputs, numOutput)
        /\ UNCHANGED <<numSources, baseTableSources>> /\ result = "reading"
    BY <1>4 DEF DestCommand, Read, Refused, Rejected, RegisterQuery, AddPlan
  <2>2. /\ numSources = Len(baseTableSources) /\ numOutput = Len(queryOutputs)
        /\ \A k \in DOMAIN queryOutputs : queryOutputs[k] = k - 1
        /\ \A k \in DOMAIN baseTableSources : baseTableSources[k] = k - 1
    BY <2>1 DEF NumbersAgree
  <2>3. QED
    BY <1>1, <2>1, <2>2, NumberedAppend
<1>5. CASE VQueryCommand
  BY <1>2, <1>5 DEF VQueryCommand, Read, RegisterQuery, AddPlan, Rejected, plan
<1>6. CASE VTableCommand
  BY <1>2, <1>6 DEF VTableCommand, Read, Refused, RegisterView, MapView, Rejected, plan
<1>7. CASE UNCHANGED vars
  BY <1>2, <1>7 DEF vars, plan, loader
<1>8. CASE BeginAppSpecification \/ ParseError \/ QueryClassCommand \/ TableCommand
           \/ QueryCommand \/ EndOfScript \/ Ended
  BY <1>2, <1>8 DEF BeginAppSpecification, ParseError, Refused, QueryClassCommand, TableCommand,
     QueryCommand, EndOfScript, Ended, Read, plan, loader, vars
<1>9. QED
  BY <1>3, <1>4, <1>5, <1>6, <1>7, <1>8 DEF Next
-----------------------------------------------------------------------------
(* What a step that is accepted does to what the catalog is made of: nothing, *)
(* or one table, or one query.                                               *)
entered == <<tableList, sourceOps, numSources, queries, queryOutOps, queryId, bQueryIdValid>>

BaseTableStep(t) ==
  /\ ~TableRefused(t)
  /\ tableList' = Append(tableList, t)
  /\ sourceOps' = Append(sourceOps, [table |-> TableId, producer |-> <<"source", numSources>>])
  /\ numSources' = numSources + 1
  /\ UNCHANGED <<queries, queryOutOps, queryId, bQueryIdValid, class>>

ViewStep(t, k) ==
  /\ ~TableRefused(t)
  /\ bQueryIdValid /\ bQueryIdValid' = FALSE
  /\ tableList' = Append(tableList, t)
  /\ sourceOps' = Append(sourceOps, [table |-> TableId, producer |-> <<"query", k>>])
  /\ UNCHANGED <<numSources, queries, queryOutOps, queryId, class>>

QueryStep(q) ==
  /\ AreTables(q.reads)
  /\ StoreText(q)
  /\ queryOutOps' = Append(queryOutOps,
                          [query |-> Len(queries), reads |-> Ids(q.reads), class |-> class])
  /\ UNCHANGED <<tableList, sourceOps, numSources, class>>

(* What a command that is accepted does, seen from the catalogue: one of four steps. *)
LEMMA AcceptedStep ==
  ASSUME TypeOK, [Next]_vars, result' \in {"reading", "loaded"}
  PROVE  \/ UNCHANGED <<result, entered, class>>
         \/ result = "reading" /\ result' = "loaded" /\ UNCHANGED <<entered, class>>
         \/ /\ result = "reading" /\ result' = "reading"
            /\ \/ class' \in Classes /\ UNCHANGED entered
               \/ \E t \in TableTexts : BaseTableStep(t)
               \/ \E t \in TableTexts : \E k \in OperatorsOf(queryId) : ViewStep(t, k)
               \/ \E q \in QueryTexts : QueryStep(q)
<1> USE DEF entered
<1>1. CASE SourceCommand
  <2>1. PICK t \in tableSpec : RegisterBaseTable(t)
    BY <1>1 DEF SourceCommand, Refused, Rejected
  <2>2. /\ ~TableRefused(t) /\ ~AttrsRefused(t)
        /\ tableList' = RegisterTable(t) /\ AddBaseTable(numSources)
    BY <2>1 DEF RegisterBaseTable, Rejected
  <2>3. /\ sourceOps' = Append(sourceOps, [table |-> TableId, producer |-> <<"source", numSources>>])
        /\ result' = "reading" /\ UNCHANGED queryOutOps
    BY <2>2 DEF AddBaseTable, Rejected, Accepted
  <2>4. /\ t \in TableTexts /\ result = "reading" /\ numSources' = numSources + 1
        /\ UNCHANGED <<queries, queryId, bQueryIdValid, class>>
    BY <1>1, <2>3 DEF TypeOK, SourceCommand, Read, texts, Refused, Rejected
  <2>5. tableList' = Append(tableList, t)
    BY <2>2 DEF RegisterTable
  <2>6. BaseTableStep(t)
    BY <2>2, <2>3, <2>4, <2>5 DEF BaseTableStep
  <2>7. QED
    BY <2>3, <2>4, <2>6
<1>2. CASE VTableCommand
  <2>1. PICK t \in TableTexts : RegisterView(t)
    BY <1>2 DEF VTableCommand, Refused, Rejected
  <2>2. ~TableRefused(t) /\ ~AttrsRefused(t) /\ tableList' = RegisterTable(t) /\ MapView
    BY <2>1 DEF RegisterView, Rejected
  <2>3. PICK k \in OperatorsOf(queryId) :
          /\ sourceOps' = Append(sourceOps, [table |-> TableId, producer |-> <<"query", k>>])
          /\ result' = "reading" /\ UNCHANGED queryOutOps
    BY <2>2 DEF MapView, Rejected, Accepted
  <2>4. /\ result = "reading" /\ bQueryIdValid /\ bQueryIdValid' = FALSE
        /\ UNCHANGED <<numSources, queries, queryId, class>>
    BY <1>2, <2>3 DEF VTableCommand, Read, texts, Refused, Rejected, ResetId
  <2>5. tableList' = Append(tableList, t)
    BY <2>2 DEF RegisterTable
  <2>6. ViewStep(t, k)
    BY <2>2, <2>3, <2>4, <2>5 DEF ViewStep
  <2>7. QED
    BY <2>3, <2>4, <2>6
<1>3. ASSUME NEW q \in QueryTexts, NEW hasOutput \in BOOLEAN, RegisterQuery(q, hasOutput),
             result = "reading", UNCHANGED <<tableList, numSources, class>>
      PROVE  result' = "reading" /\ QueryStep(q)
  <2>1. AreTables(q.reads) /\ StoreText(q) /\ AddPlan(q, hasOutput)
    BY <1>3 DEF RegisterQuery, Rejected
  <2>2. /\ queryOutOps' = Append(queryOutOps,
                              [query |-> Len(queries), reads |-> Ids(q.reads), class |-> class])
        /\ result' = "reading" /\ UNCHANGED sourceOps
    BY <2>1 DEF AddPlan, Rejected, Accepted
  <2>3. QED
    BY <1>3, <2>1, <2>2 DEF QueryStep
<1>4. CASE DestCommand
  <2>1. \E q \in QueryTexts : RegisterQuery(q, TRUE)
    BY <1>4 DEF DestCommand, Refused, Rejected, TypeOK
  <2>2. result = "reading" /\ UNCHANGED <<tableList, numSources, class>>
    BY <1>4 DEF DestCommand, Read, Refused, Rejected
  <2>3. QED
    BY <1>3, <2>1, <2>2
<1>5. CASE VQueryCommand
  <2>1. \E q \in QueryTexts : RegisterQuery(q, FALSE)
    BY <1>5 DEF VQueryCommand
  <2>2. result = "reading" /\ UNCHANGED <<tableList, numSources, class>>
    BY <1>5 DEF VQueryCommand, Read
  <2>3. QED
    BY <1>3, <2>1, <2>2
<1>6. CASE QueryClassCommand
  BY <1>6 DEF QueryClassCommand, Read, Accepted, texts, plan
<1>7. CASE BeginAppSpecification \/ EndOfScript \/ Ended \/ UNCHANGED vars
  BY <1>7 DEF BeginAppSpecification, EndOfScript, Ended, Rejected, vars, loader, texts, plan
<1>8. CASE ParseError \/ TableCommand \/ QueryCommand
  BY <1>8 DEF ParseError, TableCommand, QueryCommand, Read, Refused, Rejected, Accepted,
     loader, texts, plan
<1>9. QED
  BY <1>1, <1>2, <1>4, <1>5, <1>6, <1>7, <1>8 DEF Next

(* The elements of a list that got one more. *)
LEMMA Appended ==
  ASSUME NEW S, NEW s \in Seq(S), NEW e \in S
  PROVE  /\ Len(s) \in Nat /\ DOMAIN s = 1..Len(s)
         /\ Len(Append(s, e)) = Len(s) + 1
         /\ DOMAIN Append(s, e) = 1..(Len(s) + 1)
         /\ \A k \in 1..Len(s) : Append(s, e)[k] = s[k]
         /\ Append(s, e)[Len(s) + 1] = e
OBVIOUS

(* A name that is there is refused, and with a refused attribute the table    *)
(* goes again.                                                               *)
LEMMA NamesStep == TypeOK /\ NamesDistinct /\ [Next]_vars => NamesDistinct'
<1> SUFFICES ASSUME TypeOK, NamesDistinct, [Next]_vars PROVE NamesDistinct'
  OBVIOUS
<1>1. tableList \in Seq(TableTexts)
  BY DEF TypeOK
<1>2. CASE UNCHANGED tableList
  BY <1>2 DEF NamesDistinct
<1>3. ASSUME NEW t \in TableTexts, ~TableRefused(t), tableList' = RegisterTable(t)
      PROVE  NamesDistinct'
  <2>1. CASE AttrsRefused(t)
    <3>1. tableList' = SubSeq(Append(tableList, t), 1, Len(tableList))
      BY <1>1, <1>3, <2>1 DEF RegisterTable, Unregistered
    <3>2. tableList' = tableList
      BY <1>1, <3>1
    <3>3. QED
      BY <1>2, <3>2
  <2>2. CASE ~AttrsRefused(t)
    <3>1. tableList' = Append(tableList, t)
      BY <1>3, <2>2 DEF RegisterTable
    <3>2. \A k \in 1..Len(tableList) : tableList[k].name # t.name
      BY <1>1, <1>3 DEF TableRefused
    <3>3. QED
      BY <1>1, <3>1, <3>2, Appended DEF NamesDistinct
  <2>3. QED
    BY <2>1, <2>2
<1>4. QED
  BY <1>2, <1>3, TablesStep

(* The number of a table that a query names is below the count of tables. *)
LEMMA IdsBelow == ASSUME TypeOK, NEW names, NEW id \in Ids(names) PROVE id < Len(tableList)
BY DEF TypeOK, Ids

(* Every command keeps what queries read among the tables that are entered. *)
LEMMA ReadsStep == TypeOK /\ ReadsInv /\ [Next]_vars => ReadsInv'
<1> SUFFICES ASSUME TypeOK, ReadsInv, [Next]_vars, result' = "reading"
             PROVE  \A k \in DOMAIN queryOutOps' :
                      \A id \in queryOutOps'[k].reads : id < Len(tableList')
  BY DEF ReadsInv
<1>1. /\ result = "reading"
      /\ \A k \in DOMAIN queryOutOps : \A id \in queryOutOps[k].reads : id < Len(tableList)
  BY AcceptedStep DEF ReadsInv
<1>2. /\ tableList \in Seq(TableTexts) /\ Len(tableList) \in Nat
      /\ queryOutOps \in Seq(QueryEntries)
      /\ \A k \in DOMAIN queryOutOps : queryOutOps[k].reads \in SUBSET Nat
  <2>1. tableList \in Seq(TableTexts) /\ queryOutOps \in Seq(QueryEntries)
    BY DEF TypeOK
  <2>2. \A k \in DOMAIN queryOutOps : queryOutOps[k] \in QueryEntries
    BY <2>1
  <2>3. QED
    BY <2>1, <2>2 DEF QueryEntries
<1>3. CASE UNCHANGED <<tableList, queryOutOps>>
  BY <1>1, <1>3
<1>4. ASSUME NEW t \in TableTexts, tableList' = Append(tableList, t), UNCHANGED queryOutOps
      PROVE  \A k \in DOMAIN queryOutOps' :
               \A id \in queryOutOps'[k].reads : id < Len(tableList')
  <2>1. Len(tableList') = Len(tableList) + 1
    BY <1>2, <1>4
  <2>2. QED
    BY <1>1, <1>2, <1>4, <2>1
<1>5. ASSUME NEW q \in QueryTexts, QueryStep(q)
      PROVE  \A k \in DOMAIN queryOutOps' :
               \A id \in queryOutOps'[k].reads : id < Len(tableList')
  <2> DEFINE entry == [query |-> Len(queries), reads |-> Ids(q.reads), class |-> class]
  <2>1. \A id \in entry.reads : id < Len(tableList)
    BY IdsBelow
  <2>2. entry \in QueryEntries
    BY IdsType DEF TypeOK, QueryEntries
  <2>3. queryOutOps' = Append(queryOutOps, entry) /\ UNCHANGED tableList
    BY <1>5 DEF QueryStep
  <2> HIDE DEF entry
  <2>4. QED
    BY <1>1, <1>2, <2>1, <2>2, <2>3, Appended
<1>6. QED
  BY <1>3, <1>4, <1>5, AcceptedStep DEF entered, BaseTableStep, ViewStep

(* A source is used once since the loader counts it; a query is, since only   *)
(* the newest can be pending and is not any more once it is mapped.          *)
LEMMA OperatorOfQuery ==
  ASSUME TypeOK, QueriesInv, result = "reading", NEW k \in OperatorsOf(queryId)
  PROVE  k = queryId + 1 /\ k \in DOMAIN queryOutOps
BY SMTT(30) DEF TypeOK, QueriesInv, OperatorsOf

(* Every command keeps the producers of tables distinct. *)
LEMMA ProducersStep ==
  TypeOK /\ QueriesInv /\ ProducersInv /\ [Next]_vars => ProducersInv'
<1> SUFFICES ASSUME TypeOK, QueriesInv, ProducersInv, [Next]_vars, result' = "reading"
             PROVE  ProducersInv'
  BY DEF ProducersInv
<1> DEFINE Fits(p) ==
      \/ p[1] = "source" /\ p[2] < numSources
      \/ p[1] = "query" /\ p[2] \in DOMAIN queryOutOps /\ (bQueryIdValid => p[2] # queryId + 1)
           FitsNext(p) ==
      \/ p[1] = "source" /\ p[2] < numSources'
      \/ p[1] = "query" /\ p[2] \in DOMAIN queryOutOps' /\ (bQueryIdValid' => p[2] # queryId' + 1)
<1>1. /\ result = "reading"
      /\ \A j, k \in 2..Len(sourceOps) : sourceOps[j].producer = sourceOps[k].producer => j = k
      /\ \A k \in 2..Len(sourceOps) : Fits(sourceOps[k].producer)
  BY AcceptedStep DEF ProducersInv
<1>2. SUFFICES
        /\ \A j, k \in 2..Len(sourceOps') : sourceOps'[j].producer = sourceOps'[k].producer => j = k
        /\ \A k \in 2..Len(sourceOps') : FitsNext(sourceOps'[k].producer)
  BY DEF ProducersInv
<1>3. /\ sourceOps \in Seq(SourceEntries) /\ Len(sourceOps) \in Nat /\ TableId \in Nat
      /\ queryOutOps \in Seq(QueryEntries) /\ Len(queryOutOps) \in Nat
      /\ DOMAIN queryOutOps = 1..Len(queryOutOps)
      /\ numSources \in Nat /\ queryId \in Nat
  BY AppConstants, SMTT(30) DEF TypeOK, TableId
<1>4. CASE UNCHANGED entered
  BY <1>1, <1>4 DEF entered
<1>5. ASSUME NEW entry \in SourceEntries, sourceOps' = Append(sourceOps, entry),
             FitsNext(entry.producer),
             \A k \in 2..Len(sourceOps) :
               /\ sourceOps[k].producer # entry.producer
               /\ FitsNext(sourceOps[k].producer)
      PROVE  /\ \A j, k \in 2..Len(sourceOps') :
                   sourceOps'[j].producer = sourceOps'[k].producer => j = k
             /\ \A k \in 2..Len(sourceOps') : FitsNext(sourceOps'[k].producer)
  <2> HIDE DEF FitsNext
  <2>1. /\ Len(sourceOps') = Len(sourceOps) + 1
        /\ \A k \in 2..Len(sourceOps) : sourceOps'[k] = sourceOps[k]
        /\ sourceOps'[Len(sourceOps) + 1] = entry
    BY <1>3, <1>5, Appended
  <2>2. \A k \in 2..Len(sourceOps') : k \in 2..Len(sourceOps) \/ k = Len(sourceOps) + 1
    BY <1>3, <2>1
  <2>3. QED
    BY <1>1, <1>5, <2>1, <2>2
<1>6. ASSUME NEW t \in TableTexts, BaseTableStep(t)
      PROVE  /\ \A j, k \in 2..Len(sourceOps') :
                   sourceOps'[j].producer = sourceOps'[k].producer => j = k
             /\ \A k \in 2..Len(sourceOps') : FitsNext(sourceOps'[k].producer)
  <2> DEFINE entry == [table |-> TableId, producer |-> <<"source", numSources>>]
  <2>1. entry \in SourceEntries /\ FitsNext(entry.producer)
    BY <1>3, <1>6 DEF SourceEntries, BaseTableStep
  <2>2. sourceOps' = Append(sourceOps, entry)
    BY <1>6 DEF BaseTableStep
  <2>3. ASSUME NEW k \in 2..Len(sourceOps)
        PROVE  sourceOps[k].producer # entry.producer /\ FitsNext(sourceOps[k].producer)
    <3>1. Fits(sourceOps[k].producer) /\ sourceOps[k] \in SourceEntries
      BY <1>1, <1>3
    <3>2. QED
      BY <1>3, <1>6, <3>1, SMTT(30) DEF BaseTableStep, SourceEntries
  <2> HIDE DEF entry, FitsNext
  <2>4. QED
    BY <1>5, <2>1, <2>2, <2>3
<1>7. ASSUME NEW t \in TableTexts, NEW o \in OperatorsOf(queryId), ViewStep(t, o)
      PROVE  /\ \A j, k \in 2..Len(sourceOps') :
                   sourceOps'[j].producer = sourceOps'[k].producer => j = k
             /\ \A k \in 2..Len(sourceOps') : FitsNext(sourceOps'[k].producer)
  <2> DEFINE entry == [table |-> TableId, producer |-> <<"query", o>>]
  <2>1. o = queryId + 1 /\ o \in DOMAIN queryOutOps
    BY <1>1, OperatorOfQuery
  <2>2. entry \in SourceEntries /\ FitsNext(entry.producer)
    BY <1>3, <1>7, <2>1 DEF SourceEntries, ViewStep
  <2>3. sourceOps' = Append(sourceOps, entry)
    BY <1>7 DEF ViewStep
  <2>4. ASSUME NEW k \in 2..Len(sourceOps)
        PROVE  sourceOps[k].producer # entry.producer /\ FitsNext(sourceOps[k].producer)
    <3>1. Fits(sourceOps[k].producer)
      BY <1>1
    <3>2. QED
      BY <1>3, <1>7, <2>1, <3>1 DEF ViewStep
  <2> HIDE DEF entry, FitsNext
  <2>5. QED
    BY <1>5, <2>2, <2>3, <2>4
<1>8. ASSUME NEW q \in QueryTexts, QueryStep(q)
      PROVE  /\ \A j, k \in 2..Len(sourceOps') :
                   sourceOps'[j].producer = sourceOps'[k].producer => j = k
             /\ \A k \in 2..Len(sourceOps') : FitsNext(sourceOps'[k].producer)
  <2> DEFINE entry == [query |-> Len(queries), reads |-> Ids(q.reads), class |-> class]
  <2>1. entry \in QueryEntries
    BY IdsType DEF TypeOK, QueryEntries
  <2>2. queryOutOps' = Append(queryOutOps, entry) /\ UNCHANGED <<sourceOps, numSources>>
    BY <1>8 DEF QueryStep
  <2>3. queryId' = Len(queryOutOps)
    BY <1>1, <1>8 DEF QueryStep, StoreText, QueriesInv
  <2> HIDE DEF entry
  <2>4. DOMAIN queryOutOps' = 1..(Len(queryOutOps) + 1)
    BY <1>3, <2>1, <2>2, Appended
  <2>5. ASSUME NEW k \in 2..Len(sourceOps) PROVE FitsNext(sourceOps[k].producer)
    <3>1. Fits(sourceOps[k].producer)
      BY <1>1
    <3>2. QED
      BY <1>3, <2>2, <2>3, <2>4, <3>1
  <2>6. QED
    BY <1>1, <2>2, <2>5
<1>9. QED
  BY <1>1, <1>4, <1>6, <1>7, <1>8, AcceptedStep
-----------------------------------------------------------------------------
(* The theorems.                                                             *)

(* The strengthening is inductive: typing, and each part from itself.         *)
THEOREM Invariance == Spec => []IInv
<1>1. Init => IInv
  BY IInit
<1>2. IInv /\ [Next]_vars => IInv'
  BY TypeStep, ProducedStep, CompleteStep, TextsStep, QueriesStep, MapStep, NumbersStep,
     NamesStep, ReadsStep, ProducersStep DEF IInv
<1>3. QED
  BY <1>1, <1>2, PTL DEF Spec

(* The plan manager knows a producer of every table, under the number the     *)
(* table manager gave it, as long as nothing failed.                         *)
THEOREM EveryTableProduced == Spec => []TablesProduced
<1>1. IInv => TablesProduced
  BY DEF IInv
<1>2. QED
  BY <1>1, Invariance, PTL

(* A table whose attributes were refused is gone.                            *)
THEOREM NoHalfTable == Spec => []TablesComplete
<1>1. IInv => TablesComplete
  BY DEF IInv
<1>2. QED
  BY <1>1, Invariance, PTL

(* QueryManager never writes past queryBuffer, and no text over another.      *)
THEOREM TextsStayApart == Spec => []TextsApart
<1>1. IInv => TextsApart
  BY DEF IInv, TextsInv
<1>2. QED
  BY <1>1, Invariance, PTL

(* map always finds the query it is called for.                              *)
THEOREM ViewsFindQuery == Spec => []MapFindsQuery
<1>1. IInv => MapFindsQuery
  BY DEF IInv
<1>2. QED
  BY <1>1, Invariance, PTL
(* A source and an output have one number in the loader and in the plan       *)
(* manager, as long as nothing failed.                                       *)
THEOREM NumbersStayEqual == Spec => []NumbersAgree
<1>1. IInv => NumbersAgree
  BY DEF IInv
<1>2. QED
  BY <1>1, Invariance, PTL
-----------------------------------------------------------------------------
(* The refinement: tables, the producers entered for them and queries are a   *)
(* catalog.                                                                  *)

Names == {tableList[j].name : j \in DOMAIN tableList}

(* What is entered for a table is found under its name.                       *)
Producers == {"sysstream", "source", "query"} \X Nat

Catalogued ==
  result \in {"reading", "loaded"} =>
    /\ Producer \in [Names -> Producers]
    /\ \A j \in DOMAIN tableList : Producer[tableList[j].name] = sourceOps[j + 1].producer

(* The tables of the catalogue have the producers that the plan manager entered. *)
LEMMA ProducerOfTable == IInv => Catalogued
<1> SUFFICES ASSUME IInv, result \in {"reading", "loaded"}
             PROVE  /\ Producer \in [Names -> Producers]
                    /\ \A j \in DOMAIN tableList :
                         Producer[tableList[j].name] = sourceOps[j + 1].producer
  BY DEF Catalogued
<1>1. /\ tableList \in Seq(TableTexts) /\ DOMAIN tableList = 1..Len(tableList)
      /\ Len(tableList) \in Nat
      /\ sourceOps \in Seq(SourceEntries) /\ Len(sourceOps) = Len(tableList) + 1
      /\ \A j \in 1..Len(tableList) : sourceOps[j + 1].table = j - 1
  <2>1. /\ tableList \in Seq(TableTexts) /\ sourceOps \in Seq(SourceEntries)
        /\ TablesProduced
    BY DEF IInv, TypeOK
  <2>2. DOMAIN tableList = 1..Len(tableList) /\ Len(tableList) \in Nat
    BY <2>1
  <2>3. QED
    BY <2>1, <2>2 DEF TablesProduced
<1>2. ASSUME NEW k \in 2..Len(sourceOps)
      PROVE  k - 1 \in 1..Len(tableList) /\ sourceOps[k].table + 1 = k - 1
  <2>1. k - 1 \in 1..Len(tableList) /\ (k - 1) + 1 = k
    BY <1>1
  <2>2. sourceOps[k].table = (k - 1) - 1
    BY <1>1, <2>1
  <2>3. QED
    BY <2>1, <2>2
<1>3. \A j \in 1..Len(tableList) : j + 1 \in 2..Len(sourceOps) /\ (j + 1) - 1 = j
  BY <1>1
<1>4. {tableList[sourceOps[k].table + 1].name : k \in 2..Len(sourceOps)} = Names
  <2>1. \A k \in 2..Len(sourceOps) : tableList[sourceOps[k].table + 1].name \in Names
    BY <1>1, <1>2 DEF Names
  <2>2. \A j \in 1..Len(tableList) :
          tableList[j].name = tableList[sourceOps[j + 1].table + 1].name
    BY <1>2, <1>3
  <2>3. \A n \in Names : \E k \in 2..Len(sourceOps) :
          n = tableList[sourceOps[k].table + 1].name
    <3>1. ASSUME NEW n \in Names
          PROVE  \E k \in 2..Len(sourceOps) : n = tableList[sourceOps[k].table + 1].name
      <4>1. PICK j \in 1..Len(tableList) : n = tableList[j].name
        BY <1>1 DEF Names
      <4>2. j + 1 \in 2..Len(sourceOps) /\ n = tableList[sourceOps[j + 1].table + 1].name
        BY <1>3, <2>2, <4>1
      <4>3. QED
        BY <4>2
    <3>2. QED
      BY <3>1
  <2>4. QED
    BY <2>1, <2>3
<1>5. ASSUME NEW j \in 1..Len(tableList) PROVE Entry(tableList[j].name) = j + 1
  <2>1. \A k \in 2..Len(sourceOps) :
          tableList[sourceOps[k].table + 1].name = tableList[j].name <=> k = j + 1
    BY <1>1, <1>2, <1>3, SMTT(30) DEF IInv, NamesDistinct
  <2>2. QED
    BY <1>3, <2>1 DEF Entry
<1>6. Producer = [n \in Names |-> sourceOps[Entry(n)].producer]
  BY <1>4 DEF Producer
<1>7. \A j \in 1..Len(tableList) :
        Producer[tableList[j].name] = sourceOps[j + 1].producer
  BY <1>1, <1>5, <1>6 DEF Names
<1>8. \A k \in 1..Len(sourceOps) : sourceOps[k].producer \in Producers
  <2>1. \A k \in 1..Len(sourceOps) : sourceOps[k] \in SourceEntries
    BY <1>1
  <2>2. QED
    BY <2>1 DEF SourceEntries, Producers
<1>9. \A n \in Names : sourceOps[Entry(n)].producer \in Producers
  <2>1. ASSUME NEW j \in 1..Len(tableList)
        PROVE  sourceOps[Entry(tableList[j].name)].producer \in Producers
    <3>1. j + 1 \in 1..Len(sourceOps)
      BY <1>1
    <3>2. QED
      BY <1>5, <1>8, <3>1
  <2>2. QED
    BY <1>1, <2>1 DEF Names
<1>10. QED
  BY <1>1, <1>6, <1>7, <1>9

(* The same after the step. *)
LEMMA ProducerOfTableNext == IInv' => Catalogued'
BY ProducerOfTable, PTL
(* What the queries read keeps its name when a table comes after it.          *)
LEMMA RegisteredKept ==
  ASSUME IInv, result = "reading", NEW t \in TableTexts,
         tableList' = Append(tableList, t), UNCHANGED queryOutOps
  PROVE  Registered' = Registered
<1>1. tableList \in Seq(TableTexts) /\ queryOutOps \in Seq(QueryEntries)
  BY DEF IInv, TypeOK
<1>2. ASSUME NEW k \in DOMAIN queryOutOps
      PROVE  TableNames(queryOutOps[k].reads)' = TableNames(queryOutOps[k].reads)
  <2>1. queryOutOps[k] \in QueryEntries
    BY <1>1
  <2>2. \A id \in queryOutOps[k].reads : id \in Nat /\ id < Len(tableList)
    BY <2>1 DEF QueryEntries, IInv, ReadsInv
  <2>3. \A id \in queryOutOps[k].reads : id + 1 \in 1..Len(tableList)
    BY <1>1, <2>2
  <2>4. \A id \in queryOutOps[k].reads : tableList'[id + 1] = tableList[id + 1]
    BY <1>1, <2>3, Appended
  <2>5. QED
    BY <2>4 DEF TableNames
<1>3. QED
  BY <1>2 DEF Registered

(* One table more is one name and one producer more.                          *)
LEMMA TableEntered ==
  ASSUME IInv, IInv', result = "reading", result' = "reading",
         NEW t \in TableTexts, ~TableRefused(t), NEW p \in Producers,
         tableList' = Append(tableList, t),
         sourceOps' = Append(sourceOps, [table |-> TableId, producer |-> p]),
         UNCHANGED <<queryOutOps, class>>
  PROVE  Cat!NewTable(t.name, p)
<1> DEFINE entry == [table |-> TableId, producer |-> p]
<1>1. /\ tableList \in Seq(TableTexts) /\ sourceOps \in Seq(SourceEntries)
      /\ Len(sourceOps) = Len(tableList) + 1
  BY DEF IInv, TypeOK, TablesProduced
<1>2. entry \in SourceEntries /\ entry.producer = p
  BY <1>1 DEF SourceEntries, Producers, TableId
<1>3. sourceOps' = Append(sourceOps, entry)
  OBVIOUS
<1> HIDE DEF entry
<1>4. /\ Len(tableList) \in Nat /\ DOMAIN tableList = 1..Len(tableList)
      /\ DOMAIN tableList' = 1..(Len(tableList) + 1)
      /\ \A j \in 1..Len(tableList) : tableList'[j] = tableList[j]
      /\ tableList'[Len(tableList) + 1] = t
  BY <1>1, Appended
<1>5. /\ Len(sourceOps') = Len(tableList) + 2
      /\ \A j \in 1..Len(tableList) : sourceOps'[j + 1] = sourceOps[j + 1]
      /\ sourceOps'[Len(tableList) + 2] = entry
  <2>1. /\ Len(sourceOps') = Len(sourceOps) + 1
        /\ \A k \in 1..Len(sourceOps) : sourceOps'[k] = sourceOps[k]
        /\ sourceOps'[Len(sourceOps) + 1] = entry
    BY <1>1, <1>2, <1>3, Appended
  <2>2. \A j \in 1..Len(tableList) : j + 1 \in 1..Len(sourceOps)
    BY <1>1, <1>4
  <2>3. Len(sourceOps) + 1 = Len(tableList) + 2
    BY <1>1, <1>4
  <2>4. QED
    BY <2>1, <2>2, <2>3
<1>6. /\ Producer \in [Names -> Producers]
      /\ \A j \in DOMAIN tableList : Producer[tableList[j].name] = sourceOps[j + 1].producer
  BY ProducerOfTable DEF Catalogued
<1>7. /\ Producer' \in [Names' -> Producers]
      /\ \A j \in DOMAIN tableList' : Producer'[tableList'[j].name] = sourceOps'[j + 1].producer
  BY ProducerOfTableNext DEF Catalogued, Producers
<1>8. t.name \notin Names
  BY DEF Names, TableRefused
<1>9. Names' = Names \cup {t.name}
  <2>1. Names' = {tableList'[j].name : j \in DOMAIN tableList'}
    BY DEF Names
  <2>2. \A n : n \in Names' <=> \E j \in 1..(Len(tableList) + 1) : n = tableList'[j].name
    BY <1>4, <2>1
  <2>3. \A n : n \in Names <=> \E j \in 1..Len(tableList) : n = tableList[j].name
    BY <1>4 DEF Names
  <2>4. \A j \in 1..(Len(tableList) + 1) : j \in 1..Len(tableList) \/ j = Len(tableList) + 1
    BY <1>4
  <2>5. \A j \in 1..Len(tableList) : j \in 1..(Len(tableList) + 1)
    BY <1>4
  <2>6. Len(tableList) + 1 \in 1..(Len(tableList) + 1)
    BY <1>4
  <2>7. QED
    BY <1>4, <2>2, <2>3, <2>4, <2>5, <2>6
<1>10. Producer'[t.name] = p
  <2>1. Len(tableList) + 1 \in DOMAIN tableList' /\ (Len(tableList) + 1) + 1 = Len(tableList) + 2
    BY <1>4
  <2>2. QED
    BY <1>2, <1>4, <1>5, <1>7, <2>1
<1>11. \A n \in Names : Producer'[n] = Producer[n]
  <2>1. \A j \in 1..Len(tableList) :
          Producer'[tableList[j].name] = Producer[tableList[j].name]
    <3>1. ASSUME NEW j \in 1..Len(tableList)
          PROVE  Producer'[tableList[j].name] = Producer[tableList[j].name]
      <4>1. j \in DOMAIN tableList' /\ tableList'[j] = tableList[j]
        BY <1>4
      <4>2. Producer'[tableList'[j].name] = sourceOps'[j + 1].producer
        BY <1>7, <4>1
      <4>3. Producer[tableList[j].name] = sourceOps[j + 1].producer
        BY <1>4, <1>6
      <4>4. QED
        BY <1>5, <4>1, <4>2, <4>3
    <3>2. QED
      BY <3>1
  <2>2. QED
    BY <1>4, <2>1 DEF Names
<1>12. \A n \in Names : Producer[n] # p
  <2>1. \A j \in 1..Len(tableList) : sourceOps'[j + 1].producer # p
    <3>1. \A j \in 1..Len(tableList) :
            /\ j + 1 \in 2..Len(sourceOps') /\ Len(tableList) + 2 \in 2..Len(sourceOps')
            /\ j + 1 # Len(tableList) + 2
      BY <1>4, <1>5
    <3>2. QED
      BY <1>2, <1>5, <3>1 DEF IInv, ProducersInv
  <2>2. \A j \in 1..Len(tableList) : Producer[tableList[j].name] # p
    BY <1>4, <1>5, <1>6, <2>1
  <2>3. QED
    BY <1>4, <2>2 DEF Names
<1>13. Producer' = [n \in Names \cup {t.name} |-> IF n = t.name THEN p ELSE Producer[n]]
  BY <1>6, <1>7, <1>8, <1>9, <1>10, <1>11
<1>14. DOMAIN Producer = Names
  BY <1>6
<1>15. UNCHANGED <<Phase, Registered, class>>
  BY RegisteredKept DEF Phase
<1>16. QED
  BY <1>8, <1>12, <1>13, <1>14, <1>15 DEF Cat!NewTable

(* A query that is accepted is a step of the abstract catalogue. *)
LEMMA QueryEntered ==
  ASSUME IInv, result = "reading", result' = "reading", NEW q \in QueryTexts, QueryStep(q)
  PROVE  Cat!RegisterQuery
<1> DEFINE entry == [query |-> Len(queries), reads |-> Ids(q.reads), class |-> class]
           over == TableNames(Ids(q.reads))
           said == [reads |-> over, class |-> class]
<1>1. /\ queryOutOps \in Seq(QueryEntries)
      /\ queryOutOps' = Append(queryOutOps, entry)
      /\ UNCHANGED <<tableList, sourceOps, class>>
  BY DEF IInv, TypeOK, QueryStep
<1>2. entry \in QueryEntries /\ entry.reads = Ids(q.reads) /\ entry.class = class
  BY IdsType DEF IInv, TypeOK, QueryEntries
<1> HIDE DEF entry
<1>3. over \in SUBSET DOMAIN Producer
  <2>1. DOMAIN Producer = Names
    BY ProducerOfTable DEF Catalogued
  <2>2. \A id \in Ids(q.reads) : id + 1 \in DOMAIN tableList
    BY DEF Ids, IInv, TypeOK
  <2>3. QED
    BY <2>1, <2>2 DEF TableNames, Names
<1>4. UNCHANGED <<Phase, Producer, class>>
  BY <1>1 DEF Phase, Producer, Entry
<1>5. \A ids : TableNames(ids)' = TableNames(ids)
  BY <1>1 DEF TableNames
<1>6. Registered' = Append(Registered, said)
  <2>1. /\ Registered \in Seq({Registered[k] : k \in DOMAIN queryOutOps})
        /\ Len(Registered) = Len(queryOutOps)
    BY <1>1 DEF Registered
  <2>2. QED
    BY <1>1, <1>2, <1>5, <2>1, Appended DEF Registered
<1>7. QED
  BY <1>3, <1>4, <1>6 DEF Cat!RegisterQuery

(* Every command is a step of the abstract catalogue, or none. *)
LEMMA StepImplements == IInv /\ IInv' /\ [Next]_vars => [Cat!Next]_(Cat!catalog)
<1> SUFFICES ASSUME IInv, IInv', [Next]_vars PROVE [Cat!Next]_(Cat!catalog)
  OBVIOUS
<1> USE DEF Cat!Next, Cat!catalog
<1>1. CASE result # "reading"
  <2>1. UNCHANGED vars
    BY <1>1 DEF Next, BeginAppSpecification, ParseError, QueryClassCommand, TableCommand,
       SourceCommand, QueryCommand, DestCommand, VQueryCommand, VTableCommand, EndOfScript,
       Ended, Read
  <2>2. UNCHANGED <<Phase, Producer, Registered, class>>
    BY <2>1 DEF vars, loader, plan, Phase, Producer, Entry, Registered, TableNames
  <2>3. QED
    BY <2>2
<1>2. CASE result = "reading" /\ result' \notin {"reading", "loaded"}
  <2>1. Phase = "specifying" /\ Phase' = "abandoned"
    BY <1>2 DEF Phase
  <2>2. QED
    BY <2>1 DEF Cat!Abandon
<1>3. CASE result = "reading" /\ result' \in {"reading", "loaded"}
  <2>1. Phase = "specifying" /\ TypeOK
    BY <1>3 DEF Phase, IInv
  <2>2. CASE UNCHANGED entered
    <3>1. UNCHANGED <<Producer, Registered>>
      BY <2>2 DEF entered, Producer, Entry, Registered, TableNames
    <3>2. CASE result' = "loaded" /\ UNCHANGED class
      BY <2>1, <3>1, <3>2 DEF Phase, Cat!Complete
    <3>3. CASE result' = "reading" /\ class' \in Classes
      BY <1>3, <2>1, <3>1, <3>3 DEF Phase, Cat!SetClass
    <3>4. class' \in Classes \/ UNCHANGED class
      BY <1>3, <2>1, AcceptedStep DEF BaseTableStep, ViewStep, QueryStep
    <3>5. class \in Classes
      BY <2>1 DEF TypeOK
    <3>6. CASE result' = "loaded" /\ ~UNCHANGED class
      BY <1>3, <2>1, <3>6, AcceptedStep
    <3>7. QED
      BY <1>3, <3>2, <3>3, <3>4, <3>5, <3>6
  <2>3. CASE result' = "reading" /\ \E t \in TableTexts : BaseTableStep(t)
    <3>1. PICK t \in TableTexts : BaseTableStep(t)
      BY <2>3
    <3>2. <<"source", numSources>> \in Producers /\ numSources \in 0..MaxSources
      <4>1. numSources \in 0..MaxSources /\ MaxSources \in Nat
        BY <2>1, AppConstants DEF TypeOK
      <4>2. numSources \in Nat
        BY <4>1
      <4>3. QED
        BY <4>1, <4>2 DEF Producers
    <3>3. Cat!NewTable(t.name, <<"source", numSources>>)
      BY <1>3, <2>3, <3>1, <3>2, TableEntered DEF BaseTableStep
    <3>4. QED
      BY <2>1, <3>1, <3>2, <3>3 DEF Cat!RegisterBaseTable, Cat!Base
  <2>4. CASE result' = "reading" /\ \E t \in TableTexts : \E k \in OperatorsOf(queryId) : ViewStep(t, k)
    <3>1. PICK t \in TableTexts, k \in OperatorsOf(queryId) : ViewStep(t, k)
      BY <2>4
    <3>2. k \in DOMAIN queryOutOps /\ k \in Nat
      BY <2>1 DEF OperatorsOf, TypeOK
    <3>3. <<"query", k>> \in Producers /\ k \in DOMAIN Registered
      BY <3>2 DEF Producers, Registered
    <3>4. Cat!NewTable(t.name, <<"query", k>>)
      BY <1>3, <2>4, <3>1, <3>3, TableEntered DEF ViewStep
    <3>5. QED
      BY <2>1, <3>1, <3>3, <3>4 DEF Cat!RegisterView, Cat!View
  <2>5. CASE result' = "reading" /\ \E q \in QueryTexts : QueryStep(q)
    BY <1>3, <2>1, <2>5, QueryEntered
  <2>6. QED
    BY <1>3, <2>1, <2>2, <2>3, <2>4, <2>5, AcceptedStep DEF entered
<1>4. QED
  BY <1>1, <1>2, <1>3

(* The loader, the server and the managers keep the promises of the server's  *)
(* interface, whatever is refused on the way: a table has one producer of its *)
(* own, a view a query that was there without a name, and a query reads       *)
(* tables that were there.                                                   *)
THEOREM Implementation == Spec => ImplementsCatalog
<1>1. Init => Cat!Init
  <2> SUFFICES ASSUME Init PROVE Cat!Init
    OBVIOUS
  <2>1. Phase = "specifying" /\ class = 1
    BY DEF Init, Phase
  <2>2. Registered = <<>>
    BY DEF Init, Registered
  <2>3. Producer = <<>>
    <3>1. 2..Len(sourceOps) = {}
      BY DEF Init
    <3>2. QED
      BY <3>1 DEF Producer
  <2>4. QED
    BY <2>1, <2>2, <2>3 DEF Cat!Init
<1>2. QED
  BY <1>1, StepImplements, Invariance, PTL DEF Spec, ImplementsCatalog, Cat!Spec
=============================================================================
