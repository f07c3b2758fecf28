------------------------------- MODULE AppSpec -------------------------------
(****************************************************************************)
(* Loading the query network before the coordinator listens: register_appln *)
(* goes through the commands of the script, the server (server_impl.cc)     *)
(* passes each to the table manager (table_mgr.cc), the query manager       *)
(* (query_mgr.cc) and the plan manager, and any error ends it.              *)
(*                                                                          *)
(* Nothing runs besides, so a command is one step.  The text of a table is  *)
(* [name, attrs], that of a query [reads, len]; parsing, interpretation and *)
(* translation may refuse any text.  Of the plan manager there is what the  *)
(* others rely on, its maps from tables and queries to operators, which may *)
(* fail for want of operators at any time: PlanManager has the rest.        *)
(****************************************************************************)
EXTENDS Naturals, Sequences, Functions

CONSTANTS
  TableTexts,    \* the texts of tables: [name, attrs]
  QueryTexts,    \* the texts of queries: [reads, len], where reads are names
  Classes,       \* query classes
  MaxTables, MaxAttrs, MaxQueries, QryBufLen,   \* the managers' arrays
  MaxPlanOutput,                                \* the plan manager's MAX_OUTPUT
  MaxSources, MaxOutput, MaxQuery,              \* the loader's arrays
  MaxCommands    \* bound: the commands of a script

ASSUME AppConstants ==
  /\ {MaxTables, MaxAttrs, MaxQueries, QryBufLen, MaxPlanOutput,
      MaxSources, MaxOutput, MaxQuery, MaxCommands} \subseteq Nat
  /\ MaxTables > 0
  /\ \A q \in QueryTexts : q.len \in Nat
  /\ 1 \in Classes

VARIABLES
  result,        \* "reading" the script, "loaded", "failed" or "unmapped"
  commands,      \* how many were read
  state,         \* of the server
  tableSpec,     \* tableSpecBuf: one text, or none unless bTableSpecValid
  query,         \* query: one text, or none unless bQueryValid
  queryId, bQueryIdValid,
  numSources, numOutput,
  class,         \* current_query_class
  tableList,     \* TableManager: at position k the table of number k - 1
  queries, next, \* QueryManager: where texts begin and end in queryBuffer
  sourceOps, queryOutOps, baseTableSources, queryOutputs   \* PlanManager

loader == <<tableSpec, query, queryId, bQueryIdValid, numSources, numOutput, class>>
texts  == <<queries, next>>
plan   == <<sourceOps, queryOutOps, baseTableSources, queryOutputs>>
vars   == <<result, commands, state, loader, tableList, texts, plan>>

SourceEntries == [table : Nat, producer : {"sysstream", "source", "query"} \X Nat]
QueryEntries  == [query : Nat, reads : SUBSET Nat, class : Classes]

TypeOK ==
  /\ result \in {"reading", "loaded", "failed", "unmapped"}
  /\ commands \in 0..MaxCommands
  /\ state \in {"S_INIT", "S_APP_SPEC", "S_PLAN_GEN"}
  /\ tableSpec \subseteq TableTexts /\ query \subseteq QueryTexts
  /\ queryId \in Nat /\ bQueryIdValid \in BOOLEAN
  /\ numSources \in 0..MaxSources /\ numOutput \in 0..MaxOutput
  /\ class \in Classes
  /\ tableList \in Seq(TableTexts) /\ Len(tableList) <= MaxTables
  /\ queries \in Seq([from : Nat, to : Nat]) /\ Len(queries) <= MaxQueries
  /\ next \in Nat
  /\ sourceOps \in Seq(SourceEntries) /\ queryOutOps \in Seq(QueryEntries)
  /\ {baseTableSources, queryOutputs} \subseteq Seq(Nat)
  /\ Len(sourceOps) <= MaxTables /\ Len(baseTableSources) <= MaxTables
  /\ Len(queryOutOps) <= MaxQueries /\ Len(queryOutputs) <= MaxPlanOutput

(* The plan manager starts with the system stream as what produces table 0.   *)
Init ==
  /\ result = "reading" /\ commands = 0
  /\ state = "S_INIT"
  /\ tableSpec = {} /\ query = {}
  /\ queryId = 0 /\ bQueryIdValid = FALSE
  /\ numSources = 0 /\ numOutput = 0
  /\ class = 1
  /\ tableList = <<>> /\ queries = <<>> /\ next = 0
  /\ sourceOps = <<[table |-> 0, producer |-> <<"sysstream", 0>>]>>
  /\ queryOutOps = <<>> /\ baseTableSources = <<>> /\ queryOutputs = <<>>

BeginAppSpecification ==
  /\ result = "reading" /\ state = "S_INIT"
  /\ state' = "S_APP_SPEC"
  /\ UNCHANGED <<result, commands, loader, tableList, texts, plan>>

(* getNextCommand and the top of the loop.                                    *)
Read ==
  /\ result = "reading" /\ state = "S_APP_SPEC"
  /\ commands < MaxCommands
  /\ commands' = commands + 1
  /\ UNCHANGED state

Accepted == result' = "reading"
Rejected == result' = "failed"

(* What is no command, is too long, or is missing what has to come before.    *)
Refused == Rejected /\ UNCHANGED <<loader, tableList, texts, plan>>

ParseError == Read /\ Refused

QueryClassCommand ==
  /\ Read /\ Accepted
  /\ class' \in Classes
  /\ UNCHANGED <<tableSpec, query, queryId, bQueryIdValid, numSources, numOutput,
                 tableList, texts, plan>>
-----------------------------------------------------------------------------
(* Tables.                                                                   *)

TableCommand ==
  /\ Read
  /\ \/ Refused
     \/ /\ \E t \in TableTexts : tableSpec' = {t}
        /\ Accepted
        /\ UNCHANGED <<query, queryId, bQueryIdValid, numSources, numOutput, class,
                       tableList, texts, plan>>

(* registerRelation, registerStream: the table first, then its attributes; if *)
(* one of these is refused, the last table is unregistered.                  *)
TableRefused(t) ==
  \/ Len(tableList) = MaxTables
  \/ \E k \in DOMAIN tableList : tableList[k].name = t.name

AttrsRefused(t) == Len(t.attrs) > MaxAttrs \/ ~IsInjective(t.attrs)

\* Mutant: the table stays.
StillRegistered(list) == list
Unregistered(list) == SubSeq(list, 1, Len(list) - 1)

RegisterTable(t) ==
  IF AttrsRefused(t) THEN Unregistered(Append(tableList, t)) ELSE Append(tableList, t)

\* Mutant: the number is read after the table was counted.
CountedTableId == Len(tableList) + 1
TableId == Len(tableList)

(* addBaseTable: the source is stored before the map is found full.           *)
\* Mutant: what the plan manager returns is not looked at.
AddBaseTableUnchecked(source) ==
  \/ Accepted /\ UNCHANGED plan
  \/ /\ Len(baseTableSources) < MaxTables /\ Len(sourceOps) < MaxTables
     /\ baseTableSources' = Append(baseTableSources, source)
     /\ sourceOps' = Append(sourceOps, [table |-> TableId, producer |-> <<"source", source>>])
     /\ Accepted
     /\ UNCHANGED <<queryOutOps, queryOutputs>>
AddBaseTable(source) ==
  \/ Rejected /\ UNCHANGED plan
  \/ /\ Len(baseTableSources) < MaxTables
     /\ baseTableSources' = Append(baseTableSources, source)
     /\ \/ /\ Len(sourceOps) < MaxTables
           /\ sourceOps' = Append(sourceOps, [table |-> TableId, producer |-> <<"source", source>>])
           /\ Accepted
        \/ /\ Len(sourceOps) >= MaxTables
           /\ Rejected /\ UNCHANGED sourceOps
     /\ UNCHANGED <<queryOutOps, queryOutputs>>

RegisterBaseTable(t) ==
  \/ Rejected /\ UNCHANGED <<tableSpec, tableList, plan>>
  \/ /\ ~TableRefused(t)
     /\ tableList' = RegisterTable(t)
     /\ \/ AttrsRefused(t) /\ Rejected /\ UNCHANGED <<tableSpec, plan>>
        \/ /\ ~AttrsRefused(t)
           /\ AddBaseTable(numSources)
           /\ tableSpec' = IF result' = "reading" THEN {} ELSE tableSpec

SourceCommand ==
  /\ Read
  /\ \/ (tableSpec = {} \/ numSources >= MaxSources) /\ Refused
     \/ /\ numSources < MaxSources
        /\ numSources' = numSources + 1
        /\ \E t \in tableSpec : RegisterBaseTable(t)
        /\ UNCHANGED <<query, queryId, bQueryIdValid, numOutput, class, texts>>
-----------------------------------------------------------------------------
(* Queries.                                                                  *)

QueryCommand ==
  /\ Read
  /\ \E q \in QueryTexts :
       \/ q.len > MaxQuery /\ Refused
       \/ /\ q.len <= MaxQuery
          /\ query' = {q}
          /\ Accepted
          /\ UNCHANGED <<tableSpec, queryId, bQueryIdValid, numSources, numOutput, class,
                         tableList, texts, plan>>

(* getTableId, for every table the text names.                                *)
Ids(names)     == {k - 1 : k \in {k \in DOMAIN tableList : tableList[k].name \in names}}
AreTables(names) == \A n \in names : \E k \in DOMAIN tableList : tableList[k].name = n

(* QueryManager::registerQuery stores the text and the zero that ends it.     *)
\* Mutant: a text that fits without its zero is taken.
NoRoomForText(q) == next + q.len > QryBufLen
NoRoom(q) == next + q.len >= QryBufLen

\* Mutant: one query too many.
OneQueryTooMany == Len(queries) > MaxQueries
TooManyQueries == Len(queries) >= MaxQueries

\* Mutant: the number is taken after the text was counted.
StoreTextFirst(q) ==
  /\ queryId' = Len(queries) + 1
  /\ queries' = Append(queries, [from |-> next, to |-> next + q.len])
  /\ next' = next + q.len + 1
StoreText(q) ==
  /\ queryId' = Len(queries)
  /\ queries' = Append(queries, [from |-> next, to |-> next + q.len])
  /\ next' = next + q.len + 1

(* addLogicalQueryPlan                                                       *)
AddPlan(q, hasOutput) ==
  \/ Rejected /\ UNCHANGED plan
  \/ /\ Len(queryOutOps) < MaxQueries
     /\ queryOutOps' = Append(queryOutOps,
                              [query |-> Len(queries), reads |-> Ids(q.reads), class |-> class])
     /\ \/ ~hasOutput /\ Accepted /\ UNCHANGED queryOutputs
        \/ /\ hasOutput /\ Len(queryOutputs) < MaxPlanOutput
           /\ queryOutputs' = Append(queryOutputs, numOutput)
           /\ Accepted
        \/ hasOutput /\ Rejected /\ UNCHANGED queryOutputs
     /\ UNCHANGED <<sourceOps, baseTableSources>>

(* ServerImpl::registerQuery: the text may be refused before it is stored and *)
(* translated.                                                               *)
RegisterQuery(q, hasOutput) ==
  \/ Rejected /\ UNCHANGED <<queryId, texts, plan>>
  \/ /\ AreTables(q.reads)
     /\ ~NoRoom(q) /\ ~TooManyQueries
     /\ StoreText(q)
     /\ AddPlan(q, hasOutput)

DestCommand ==
  /\ Read
  /\ \/ (query = {} \/ numOutput >= MaxOutput) /\ Refused
     \/ /\ numOutput < MaxOutput
        /\ numOutput' = numOutput + 1
        /\ \E q \in query : RegisterQuery(q, TRUE)
        /\ query' = IF result' = "failed" THEN query ELSE {}
        /\ UNCHANGED <<tableSpec, bQueryIdValid, numSources, class, tableList>>
-----------------------------------------------------------------------------
(* Views: a query without an output, then the table that stands for it.       *)

VQueryCommand ==
  /\ Read
  /\ \E q \in QueryTexts : RegisterQuery(q, FALSE)
  /\ bQueryIdValid' = (bQueryIdValid \/ result' # "failed")
  /\ UNCHANGED <<tableSpec, query, numSources, numOutput, class, tableList>>

(* map: the first operator of the query, or this is "unmapped".               *)
OperatorsOf(id) == {k \in DOMAIN queryOutOps : queryOutOps[k].query = id}

MapView ==
  \/ OperatorsOf(queryId) = {} /\ result' = "unmapped" /\ UNCHANGED plan
  \/ OperatorsOf(queryId) # {} /\ Rejected /\ UNCHANGED plan
  \/ \E k \in OperatorsOf(queryId) :
       /\ \A j \in OperatorsOf(queryId) : k <= j
       /\ Len(sourceOps) < MaxTables
       /\ sourceOps' = Append(sourceOps, [table |-> TableId, producer |-> <<"query", k>>])
       /\ Accepted
       /\ UNCHANGED <<queryOutOps, baseTableSources, queryOutputs>>

RegisterView(t) ==
  \/ Rejected /\ UNCHANGED <<tableList, plan>>
  \/ /\ ~TableRefused(t)
     /\ tableList' = RegisterTable(t)
     /\ \/ AttrsRefused(t) /\ Rejected /\ UNCHANGED plan
        \/ ~AttrsRefused(t) /\ MapView

\* Mutant: the query can be named once more.
KeptId == UNCHANGED bQueryIdValid
ResetId == bQueryIdValid' = FALSE

VTableCommand ==
  /\ Read
  /\ \/ ~bQueryIdValid /\ Refused
     \/ /\ bQueryIdValid
        /\ \E t \in TableTexts : RegisterView(t)
        /\ IF result' = "reading" THEN ResetId ELSE UNCHANGED bQueryIdValid
        /\ UNCHANGED <<tableSpec, query, queryId, numSources, numOutput, class, texts>>
-----------------------------------------------------------------------------
(* The end of the script: nothing may be pending; endAppSpecification         *)
(* optimises the plan.                                                       *)
Pending == query # {} \/ bQueryIdValid \/ tableSpec # {}

EndOfScript ==
  /\ result = "reading" /\ state = "S_APP_SPEC"
  /\ \/ Rejected /\ UNCHANGED state
     \/ ~Pending /\ state' = "S_PLAN_GEN" /\ result' = "loaded"
  /\ UNCHANGED <<commands, loader, tableList, texts, plan>>

Ended == result # "reading" /\ UNCHANGED vars

Next ==
  \/ BeginAppSpecification \/ ParseError \/ QueryClassCommand
  \/ TableCommand \/ SourceCommand
  \/ QueryCommand \/ DestCommand
  \/ VQueryCommand \/ VTableCommand
  \/ EndOfScript \/ Ended

Spec == Init /\ [][Next]_vars
-----------------------------------------------------------------------------
(* Properties.                                                               *)

(* The two managers agree on the tables: while a script is read, the plan     *)
(* manager knows a producer of every table of the table manager, in the same  *)
(* order, whatever commands were mixed.                                      *)
TablesProduced ==
  result \in {"reading", "loaded"} =>
    /\ Len(sourceOps) = Len(tableList) + 1
    /\ \A k \in DOMAIN tableList : sourceOps[k + 1].table = k - 1

(* registerRelation and registerStream take a table back when an attribute is *)
(* refused: no table is ever left with part of its attributes.               *)
TablesComplete == \A k \in DOMAIN tableList : ~AttrsRefused(tableList[k])

(* queryBuffer: the texts with their zeros lie in the buffer, one after the   *)
(* other.                                                                    *)
TextsApart ==
  \A k \in DOMAIN queries :
    /\ queries[k].to < QryBufLen
    /\ \A j \in 1..(k - 1) : queries[j].to < queries[k].from

(* "We did not find an outut operator for this query. (this should never      *)
(* happen during correct execution": the loader keeps its queryId for a view  *)
(* only when the plan manager has the query.                                 *)
MapFindsQuery == result # "unmapped"

(* The numbers the loader gives to sources and outputs are the ones the plan  *)
(* manager stores them under, until something fails.                         *)
NumbersAgree ==
  result \in {"reading", "loaded"} =>
    /\ numSources = Len(baseTableSources)
    /\ numOutput = Len(queryOutputs)
    /\ \A k \in DOMAIN queryOutputs : queryOutputs[k] = k - 1
    /\ \A k \in DOMAIN baseTableSources : baseTableSources[k] = k - 1

(* The script, the server and the three managers together keep the promises   *)
(* of the server's interface: what a table of the script comes from is what   *)
(* the plan manager has entered for its number.                              *)
TableNames(ids) == {tableList[id + 1].name : id \in ids}
Entry(name) == CHOOSE k \in 2..Len(sourceOps) : tableList[sourceOps[k].table + 1].name = name

Phase == CASE result = "reading" -> "specifying"
           [] result = "loaded"  -> "complete"
           [] OTHER              -> "abandoned"

Producer == [n \in {tableList[sourceOps[k].table + 1].name : k \in 2..Len(sourceOps)} |->
               sourceOps[Entry(n)].producer]

Registered == [k \in DOMAIN queryOutOps |->
                 [reads |-> TableNames(queryOutOps[k].reads), class |-> queryOutOps[k].class]]

Cat == INSTANCE Catalog WITH
  Names      <- {t.name : t \in TableTexts},
  Sources    <- 0..MaxSources,
  phase      <- Phase,
  producer   <- Producer,
  registered <- Registered,
  current    <- class

ImplementsCatalog == Cat!Spec
=============================================================================
