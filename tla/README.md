# A verification project for the AQSIOS coordinator

The repository holds the *coordinator* of AQSIOS, a distributed data stream
system. The coordinator reads a script of tables and continuous queries, turns
them into one shared physical plan, then listens for AQSIOS nodes, collects
their load reports and tells the most loaded node to move its queries to the
least loaded one. Paths below are relative to `src/AQSIOSCoordinator/`.

1. [The system](#1-the-system)
2. [The modules](#2-the-modules)
3. [The runs](#3-the-runs)
4. [The proofs](#4-the-proofs)
5. [What the code does otherwise than it says](#5-what-the-code-does-otherwise-than-it-says)
6. [What is left out](#6-what-is-left-out)
7. [Plan](#7-plan)

## 1. The system

`main` (src/AQSIOSCoordinator.cpp) calls `loadQueryNetwork`, which runs to its end
while the process has one thread. Then it opens the listening socket, installs
the Ctrl-C handler and starts the migration thread. From there on there are two
threads, a signal handler on top of one of them, and the nodes at the other end
of their connections.

```
 script ──► register_appln ──► ServerImpl ──┬─► TableManager
            (one command                    ├─► QueryManager
             at a time)                     ├─► parser, interpreter, logical plan
                                            └─► PlanManagerImpl: add, then optimize

 nodes ══► receivingClientReport ──► LoadManager.nodes ──► manageMigration ══► source node
  (sockets)   (main thread)        (mutexNodeInfos)          (migration thread)
                     └── isUpdateReady, condUpdateReady, bStop (mutexUpdateReady) ──┘
```

| component | state it keeps | operations | what is hard about it | what makes it correct |
|---|---|---|---|---|
| Coordinator threads (src/AQSIOSCoordinator.cpp) | `sockfds` under `mutex_fdset`; `isUpdateReady`, `bStop` under `mutexUpdateReady` with `condUpdateReady` | `receivingClientReport`, `acceptingConn`, `handleClientReport`, `manageMigration`, `stopServer`, `sigproc` | two threads and a signal handler, a condition variable waited on without its predicate, descriptors closed by one thread and written by the other, resets, a full table | every monitored socket is open and known to the load manager; the scan of a copy is the scan of the table; no stop is missed; reports are read; a stop ends the process |
| Load manager, node records (src/load_manager.cpp, src/node_info.cc) | `nodes` under `mutexNodeInfos`: descriptor, load, port | `addNode`, `updateNodeInfo`, `redistributeLoad` | used by both threads; nodes are never removed and descriptors are used again | one record per descriptor; exclusive use; no decision over an empty list |
| Loading (register_appln in src/AQSIOSCoordinator.cpp; src/server/server_impl.cc) | texts read and not yet used, `queryId`, counters of sources and outputs, the class in force, the server's state | one per command: QUERYCLASS, TABLE, SOURCE, QUERY, DEST, VQUERY, VTABLE; begin and end | a command is several calls to three managers, each of which may refuse; commands come in any order | the managers give the same numbers to the same things; nothing is left half entered while the script goes on |
| Table manager (src/metadata/table_mgr.cc) | tables with their attributes | `registerRelation`, `registerStream`, `unregisterTable`, `getTableId` | a table is entered before its attributes are known to be good | only whole tables stay |
| Query manager (src/metadata/query_mgr.cc) | a buffer of texts, one after the other | `registerQuery` | two limits, a zero after each text | texts do not overlap nor leave the buffer |
| Plan manager (src/metadata/plan_mgr_impl.cc, gen_phy_plan.cc, plan_trans.cc) | a pool of operators in a used and a free list, the network they form, maps from tables and queries to operators | `addBaseTable`, `addLogicalQueryPlan`, `map`, `optimize_plan` with its five passes | a graph rewritten in place, edges stored at both ends, arrays of ten readers, comparisons of operators that are being merged meanwhile | both ends of an edge agree; each output computes what its query asked for; what is equal is shared; the class of an operator is the highest of its queries |
| Logical plan generator (src/querygen/log_plan_gen.cc, log_naive_plan_gen.cc, logop.cc) | a pool of operators, reset for each query | `genLogPlan`: a naive plan and six transformations | trees rewritten in place; schemas recomputed; stream and relation semantics | the transformed plan computes what the naive one does; edges and schemas agree; every reference resolves; selections get as far as they can |
| Semantic interpreter (src/querygen/sem_interp.cc) | a symbol table and a pool of expressions for each query | `interpretQuery`, one function for each clause | names that are ambiguous or unknown, pools whose end nobody looks for | each name means one attribute; what is compared is of one type; the pools suffice |
| Parser (src/parser) | a pool of nodes for each command | `parseCommand` | an empty pool ends the process | - |
| Script reader (src/script_file_reader.cc) | the position in the file | `getNextCommand` | comments, line lengths | - |
| File source and output (src/file_source.cc, src/gen_output.cc) | open files | `start`, `getNext`, `putNext`, `end` | text to tuple and back | not driven by the coordinator |

`PROJECT.json` lists the same components with their state of modelling, and,
under *hazards*, each place where one of the hard things happens together with the
properties that would fail there.

## 2. The modules

| module | lines | what it models |
|---|---|---|
| `Coordinator` | 710 | the two threads, the handler, sockets, node records |
| `MigrationService` | 70 | what `Coordinator` promises, without threads, locks or sockets |
| `CoordinatorProofs` | 1060 | theorems about `Coordinator`, and that it implements `MigrationService` |
| `PlanManager` | 640 | the physical plan: additions and the rewriting passes |
| `PlanManagerProofs` | 6960 | lemmas about its lists of operators, and about what operators compute; theorems about it |
| `AppSpec` | 360 | loading: the loader and the server with the table, query and plan manager |
| `Catalog` | 55 | what `interface/server.h` promises of loading |
| `AppSpecProofs` | 1550 | theorems about `AppSpec`, and that it implements `Catalog` |
| `Nodes` | 105 | parse trees, and the nodes they take from the pool |
| `SemInterp` | 275 | the semantic interpreter: from a parse tree to a query |
| `LogOp` | 160 | logical operators: constructors, schemas, the updates upwards |
| `LogPlanGen` | 360 | the naive plan of a query and its six transformations |
| `PlanTree` | 100 | the plan as a tree in the pool, and the properties of its shape |
| `PlanSemantics` | 130 | what a plan computes, and that no transformation changes it |
| `QueryProofs` | 1590 | the pools of expressions suffice; what query the generator is given |
| `TreeLemmas` | 2660 | what each way of changing a pool makes of a tree of operators |
| `TreeProofs` | 6810 | the naive plan and its transformations: types, tree, schemas, types of expressions |
| `ResolveProofs` | 3430 | where operators get to: what they refer to is offered below them, and selections are pushed as far as they can be |
| `DataLemmas` | 1300 | lemmas about the community modules' operators that the proofs share |
| `MCCoordinator`, `MCPlanManager`, `MCAppSpec`, `MCQueryGen` | | the values TLC needs: symmetry, queries, texts |

`AppSpec` and `PlanManager` meet at the plan manager's maps. `PlanManager` has
the operators behind them; `AppSpec` has only what the maps contain, and lets
every call of the plan manager fail for want of operators at any time.
`Coordinator` starts where loading has ended: nothing it does reads the plan.
`Nodes`, `SemInterp`, `LogOp`, `LogPlanGen`, `PlanTree` and `PlanSemantics` are one specification in
layers, each extending the one before: what `registerQuery` does between the text
that `AppSpec` stores and the plan that `PlanManager` is given.

### Coordinator

One action for each stretch of code between two points where a thread can block
or be seen by the other: the program counters `mainPc`, `handlerPc` and `migPc`
name the points.

| code | actions |
|---|---|
| receivingClientReport, the loop | `CopySockets`, `Select`, `SelectError`, `EndScan` |
| acceptingConn | `AcceptConn`, `AcceptError`, then `AddNodeLock`, `AddNode` (LoadManager::addNode) |
| the scan, handleClientReport | `ReadReport`, `ReadError`, `ReadEnd`, `UpdateLock`, `InfoLock`, `UpdateNodeInfo` (LoadManager::updateNodeInfo, Node_Info::update), `NotifyUpdate` |
| stopServer from main | `StopLock`, `StopSignal`, `StopJoin` |
| sigproc | `Interrupt`, `HandlerStop`, `HandlerJoin` |
| manageMigration | `MigLock`, `MigCheck`, `SpuriousWakeup`, `MigWoken`, `MigSleep`, `RedistributeLock`, `Redistribute` (LoadManager::redistributeLoad), `SendDecision` |
| nodes and network | `Connect`, `Report`, `Leave`, `Reset` |

Decisions of the model:

- `mutex_fdset` is taken by the main thread only, around code that takes no other
  lock; its critical sections are single steps and it is no variable.
- The waiting thread is in `"wait"`, woken in `"woken"`, and holds the mutex again
  once `MigWoken` has run. `pthread_cond_signal` on a thread that does not wait is
  lost (`Signalled`), and a wake-up may come without a signal.
- `accept` returns the lowest free descriptor, as POSIX says; that is why a
  descriptor is soon another client's. Descriptor 1 stands for the listening
  socket. One descriptor, one client: `owner`.
- A read takes one or several messages that have arrived; only the first is looked
  at, as in the code. A report cut in two by the network is not modelled. A
  failed read leaves the buffer uninitialised: `msg` is what it was, or anything.
- The two kinds of report (listening port, load) are an external matter: the node's
  program is not in the repository. The port comes first, as the record needs it.
- A load report has a usage for each query class (`Classes`), and so has a node record. The
  moving average is taken class by class, as in `Node_Info::updateLoadInfo`: any value
  between the old and the new one, and the new one when the old is 0 (`Smoothed`). What
  `redistributeLoad` compares is their sum (`TotalCapacityUsage`), which need not be
  between the old sum and the new: one class that goes from 0 to 10 while another goes
  from 10 to 0 may make it 15.
- A node's list of queries is not modelled: `redistributeLoad` always moves
  `"all"`, and no other code reads the list.
- `write` to a connection that was reset fails once and raises SIGPIPE after that,
  which ends the process; to a closed descriptor it fails; both are ignored.
- Ctrl-C is pressed at most once. The kernel delivers it to the main thread, at any
  of its points, including those inside a critical section. Between the
  installation of the handler and the start of the thread it is not modelled.
- A second join of a thread that is being joined fails at once, so the handler does
  not wait for a thread `main` already joins.
- Each client connects once; a client that comes back is another one.

### PlanManager

Operators are numbers of the pool; `used` and `free` are the linked lists, in order.
A query is a logical plan in postfix order, as `genPhysicalPlan` comes to it.

| code | actions and helpers |
|---|---|
| addBaseTable | `AddBaseTable` |
| addLogicalQueryPlan, genPhysicalPlan | `AddQuery`, `TranslateSource`, `TranslateSelect`, `TranslateOperator`, `Translated`, `MakeQuerySource`, `MakeOutput` with `Classified` (addQueryClasses) |
| map | `MapView` |
| optimize_plan | `Optimize`, `NextPass` |
| removeQuerySources | `RemoveQuerySource` with `Bypass` (shortCircuitInputOutput) |
| addSinks | `AddSink` |
| mergeSelects | `MergeSelect` |
| findSharedOps, compareOperators, mergeOperators | `ComparePair` with `CompareOperators` (over `Compared`) and `Merge`, `EndRow`, `EndLevel` |
| mergeProjectsToJoin | `MergeProject` |

`step` is what is being done, or how it ended: an error return (`"failed"`,
`"refused"`) or one of the ways in which the code goes wrong, each with a name of
its own: a write through the null pointer of an empty pool (`"nullOp"`), the
predicate of a join that has none (`"nullPred"`), an array of readers that is written
past its end (`"overflow"`), a neighbour that is not there (`"nullNeighbour"`).
After one of these nothing more is said: what follows is undefined.
`meaning` is no state of the code: it remembers for each output the plan it was
made from, and the properties compare it with what the network computes.

Predicates and window lengths are numbers (`par`), and so is the whole list of expressions of
a projection; windows,
aggregation, distinct and the relation-to-stream operators are one kind, `"unary"`;
the two joins are one kind and so are union and except. Schemas are left out;
the check of a view's schema may fail for any view. Expressions have pools of their
own that are not modelled.

### AppSpec and Catalog

A command is one step: nothing else runs. The step is the loader's branch for the
command and all it calls, in order, up to the first call that fails. Texts are
`[name, attrs]` and `[reads, len]`. What parsing, interpretation and translation do
with a text is free, except that a query can only be accepted over tables that
are entered and that its length counts in the buffer.

| code | definitions |
|---|---|
| register_appln | one action per command; `ParseError` for what is no command; `EndOfScript` |
| registerBaseTable | `RegisterBaseTable`, with `TableRefused`, `AttrsRefused`, `Unregistered` (TableManager) and `AddBaseTable` (PlanManagerImpl) |
| registerQuery | `RegisterQuery`, with `NoRoom`, `TooManyQueries`, `StoreText` (QueryManager) and `AddPlan` (PlanManagerImpl) |
| registerView | `RegisterView`, with `MapView` (PlanManagerImpl) |

`Catalog` has tables with where they come from, and queries with what they read and
their class. `AppSpec` implements it with the mapping at its end: what a table comes
from is what the plan manager has *entered* for its number. That the first
table's entry is then shadowed by that of the system stream is found in
`PlanManager` (section 5).

The command words are matched by their first letters in the code, lines may be cut at
the end of the line buffer, and there are comments: all of that is the script reader's
formatting and left out. Of 1000 tables the plan manager holds 999, one place being
the system stream's; so its limit is always met before the table manager's.

### The query path: Nodes, SemInterp, LogOp, LogPlanGen, PlanTree, PlanSemantics

A text is taken, interpreted clause by clause, turned into a naive plan and transformed;
then the next text is taken, with all pools reset. Nothing runs concurrently; a step is a
function of the code, or one turn of its loop.

| code | definitions |
|---|---|
| nodes.cc | one constructor for each kind of node; `QueryNodes`, `TableNodes` count calls of `newnode` |
| parseCommand | `Parse`, which ends the process when the pool of nodes is empty |
| getReferencedTables, interpretFromClause, interpretWhereClause, interpretGroupByClause, interpretSelectClause, schemaCompatible | an action each: `GetReferencedTables` ... `InterpretBinOp`; `Proceed` either fails with the first error code or hands the query on |
| interpretVarName, interpretAttr, interpretExpr, interpretCondn | `Named`, `Owners`, `AttrFault` and `SemAttr`; `ExprFault` and `SemExpr`; `CondnFault` and `SemCondn`: for each what can be wrong, and what it becomes if nothing is |
| logop.cc, logexpr.cc | the constructors `MkSource` ... `MkExcept`; `CheckReference`; `UpdateSchemaRecursive`, `UpdateStreamPropertyRecursive` |
| genPlan_n and what it calls | `JoinTables`, `ApplyPreds`, `ApplyAggr`, `DoProjs`, `ApplyDistinct`, `ApplyR2SOps`, `GenBinOpPlan` |
| genLogPlan | `RstreamNow`, `StreamCross`, `RemoveProject`, `MakeCrossBinary`, `MakeStreamCrossBinary`, `FindSelect`, `PushSelect` |

The pool of operators is the sequence of those made so far and a pointer is an index in
it: operators are unlinked and never freed, so one that is out of the tree is still there.
`step` ends in `"done"`, `"failed"` with an error code in `rc`, or as the process does:
`"exit"` (nodes.cc calls `exit`), `"crashed"` (a null pointer), `"overflow"` (a write past
`outAttrs`).

`PlanSemantics` is the only part that has no code behind it: operators are executed by the
AQSIOS nodes. It gives a plan the meaning of the continuous query language, over a few
instants: a relation is a bag of tuples at each instant, a stream is all that has come so
far; windows, Istream, Dstream and Rstream go from one to the other. Stream cross
product and operators over streams work tuple by tuple. `AnswerKept` asks of each
transformation that the value of the plan at every instant is what it was.

Decisions of the model:

- An arithmetic expression is the sequence of its operands, joined from the left, and its
  operator is addition: the four operators have one rule for types. Values are small
  numbers in all types, and what may be compared with what is in the types.
- One constant for limits that the code has twice: `MaxExprs` is the smaller of the pools of
  semantic and of logical expressions, which are filled alike; `MaxTables` is that of
  the symbol table too; `MaxGroupAttrs` that of PARTITION BY too.
- The pool of operators (MAXOPERATOR is 500) is not bounded: a text of that many operators
  runs out of parser nodes before.
- The tables of the FROM clause are variables 1, 2, ... in the order they are written in; the
  code's `fromClauseTables` says the same in two steps.
- An average is a scaled quotient; it is the same on both sides of a comparison.

## 3. The runs

Where a module has its limits as CONSTANTS (`NumSlots`, `MaxBranch`, `QryBufLen`, ...)
the configurations give them small values, so that they are reached. Bounds that are
the model's own are `MaxReports`, `MaxLoad`, `MaxCalls` and `MaxCommands`.

| run | instance | what it shows |
|---|---|---|
| `coord_safety` | 2 clients, 1 query class, 3 slots, descriptors 2 to 4, 2 reports each, Ctrl-C, failing select, resets | the safety invariants, and `ImplementsService`, under every interleaving of the threads, the handler and the network (2.9 million states) |
| `coord_live` | 2 clients, 1 query class, no load, failing select, fairness | reports are read, leavers removed, an update that finds the thread waiting makes it react, from before the signal is sent; a stop ends the process |
| `plan_sharing` | 4 queries in 2 classes, in every order | consistency of the network, classes, complete sharing, no operator left unread, no projection merged into a join that others read |
| `plan_views` | up to 4 of 8 queries: views, their equals, selections, unions and joins over them, joins without a predicate; a pool of 18, 3 readers, 3 outputs, fairness | meaning although operators are compared after they were merged, and whatever fails; lists stay linked; readers are told when their input goes, and nothing is given back to the pool that an output is computed from; every call returns |
| `app_load` | scripts of up to 10 commands over 5 tables and 3 queries, arrays of 2 to 4 | the managers agree, nothing is left half entered, `ImplementsCatalog` |
| `query_gen` | some 1600 texts over four tables, three instants, small limits | the query path: pools suffice, names resolve, types agree, plans stay trees with the right schemas, stream marks are true, selections are pushed, and `AnswerKept` |
| `coord_lost_update`, `coord_ctrl_c`, `coord_misdirected`, `plan_lost_operator`, `plan_lost_class`, `plan_table_zero` | | statements of the code's own comments that it does not keep: section 5 |

Why the bounds are enough for what is asked:

- Two clients are a source and a destination; two reports are a port and a load,
  so that the average differs from its first value and a decision has a
  destination that listens. A client that is given the descriptor
  of another averages its usage with what that one left. Usages 0 and 1 of one class
  order the nodes both ways, and the threads read nothing of a report but that order:
  two classes double the states of `coord_safety` and give no new step, and
  `TypeCorrect` has the averaging for any number of them. `coord_live` has no load at
  all: then no node is above another and no message is sent, which no thread waits
  for. Three clients matter where a descriptor changes hands with another still
  monitored: `coord_misdirected`.
- The proofs of section 4 carry the safety invariants of `coord_safety` to every
  number of clients, slots and reports, and with that to a table that is full, which two
  clients never fill (`TableIsOpen`).
- The two plan runs have their queries in all orders: equal operators with
  selections merged and not merged, under views and under outputs, over one table and
  over two. `MaxCalls` is tables and views and queries together, and lets all of
  them be added up to the limits. The queries of `plan_sharing` have no views, so nothing is
  lost there that is merged twice; where sharing loses operators (`plan_lost_operator`, section 5),
  `EdgesAgree`, `Consumed`, `ClassIsHighest` and `ReadByNoOther` may fail with them, and
  `plan_views`, which has views, does not ask for them. Its pool, arrays of readers and outputs
  are met by the third query or the fourth, so that an addition fails after each step that
  it takes.
- `query_gen` has every window, aggregation, DISTINCT and r2s operator over one table in all
  combinations; products of two and three tables, streams and relations, with Now in
  every position and predicates over one table, two, and none; unions and differences; texts
  with each error of the interpreter; and texts at, and one past, each limit. Limits are
  `MaxNodes` 36, `MaxExprs` 44, `MaxTables` 4, `MaxAttrs` 5, `MaxInputs` 3, `MaxPred` 3,
  `MaxProj` 8, `MaxGroupAttrs` 4: four tables for three inputs, two aggregations for what
  grouping leaves, so that each limit is met first by some text. Three instants are a
  start, a change and a change back; tuples come twice, leave, and come again.
- `app_load` reaches every limit of the loader and the managers, some of them only
  with the tenth command.

### Fairness

`coord_live` assumes weak fairness of the main thread, the handler and the migration
thread: the operating system runs a thread that can run. Mutexes need no
strong fairness here: a client sends finitely often, so the thread that waits for a
mutex finds it free in the end. Spurious wake-ups, though always possible, do not go
on for ever. Clients, the user and failures of `select` owe nothing.

`plan_views` assumes weak fairness of translation and rewriting: they are sequential
code with nothing to wait for. Nothing obliges the loader to make another call.

The coordinator runs may stop (the process ends, or all clients have left and both
threads wait), so they do not look for deadlock. The plan and loading modules end in
`Ended`, and are checked for it; the query path always returns to the next text, or
stays where the process ended.

## 4. The proofs

All proofs are machine-checked, from the named assumptions on the constants alone
(`ConstantsAssumption`, `AppConstants`, `PlanConstants`, `QueryConstants`,
`InputsAssumption`), which say that sizes are numbers and inputs well-formed.

**CoordinatorProofs.** `Spec => []IInv`, where `IInv` is the conjunction of

- `TypeInv`: types, and that the slot a report is handled for is a client's; `newfd`
  is set just while its node is being added;
- `LockInv`: who holds which mutex at which step. Exclusion (`NodeInfosExclusive`)
  follows at once, and only with it is it inductive;
- `NodeInv`: a node record for every monitored socket, for every socket *of the copy*,
  and at least one record once a report was handled. The last two are needed because
  the copy is what is read from, and because the update flag outlives the report that
  set it: so no decision is ever taken over an empty list (`DecidesOnSomeNode`);
- `SocketInv`: monitored sockets are open, and the part of the copy that is still to be
  scanned agrees with the table. `SnapshotCurrent` speaks of readable slots only and is
  not inductive;
- `NoLostStop`: the stop flag, and a signal that is not missed.

Each is proved inductive from itself and those it needs, one case per action, or
from lemmas that say which actions write a variable (`NodesWriters`, `SocketWriters`,
...). `Implementation` shows that every step is a step of `MigrationService` or none:
`IInv` is needed for the rounds (a round begins with a fresh report, and decides over
members). The theorems hold for any number of clients, slots, descriptors, reports and query
classes. The sum over the classes is not typed, for it is not stored: it is computed
where two nodes are compared.

**AppSpecProofs.** `Spec => []IInv` with `TypeOK`, `TablesProduced`, `TablesComplete`,
`MapFindsQuery`, `NumbersAgree` and strengthenings: `TextsInv` (every text ends before
`next`; without it nothing says that the next text starts clear of the last), `QueriesInv`
(while the script is read the plan manager has every query, in order, under the query
manager's number, and a `queryId` kept for a view is one of them; `MapFindsQuery` says
nothing about the commands between the query and its view), `NamesDistinct`, `ReadsInv` and
`ProducersInv` (no two tables have one producer, and the query that a view is still to
come for produces none). The last three carry `Implementation`: every command is a step of
`Catalog` or none, because a query reads only tables that are there and a table gets a
producer that no other one has. They hold for any texts, any sizes and any number of
commands.

**PlanManagerProofs.** `Spec => []IInv`, for any pool, limits and set of queries, with

- `TypeOK`: what every array, list and vector holds;
- `PoolInv`: the lists of used and free operators have each operator once and none in
  common, and the oldest in use is the one of the system stream;
- `InputsFit`, `GenInv`: what the passes take out has one input; while a plan is translated
  the results built so far are those of its translated part, and at the end there is one
  (so `genPhysicalPlan` never takes from an empty stack);
- `PlacesInv`, `MapsInv`: the loops of the passes are at operators in use;
- `HeadInv`, `ShareInv`: the head of the used list is an operator that nobody reads and that
  is never merged, and no level of `findSharedOps` has an operator twice. With them
  `mergeOperators` finds both neighbours of what it unlinks (`MergeHasNeighbours`);
- `NetInv`, `RegisteredInv`: until operators are shared the network is the same from both
  ends and every operator is newer than those it reads from, hence no cycle
  (`BuiltNetworkAgrees`).

`MeaningKept` compares what operators compute, a recursive function over the network, so it
first has to be shown that there is such a function. `Acyclic` says that the operators can be
numbered such that each has a greater number than those it reads; it holds in every state,
however much sharing has lost (`NeverCyclic`), because an operator gets new readers only
where it was upstream of them before, or is equal to one that was. From such numbers
`Meaning` is constructed, up to one number after the other, and shown to be the value of
`Computes`, in the state and in the next (`MeaningExists`, `MeaningAgrees`,
`ComputesMeaning`). On it rest

- what `compareOperators` finds to be the same computes the same (`SameMeaning`): the
  comparison goes down both sides at once and comes back with the verdict of all pairs;
- an operator that is taken out under its readers leaves what they compute as it was, if what
  it handed on is what they read now (`SplicedMeans`, `MergedMeans`);
- a selection may add its predicate to the one below it, or to the join below it, because
  nobody else reads that: `SelectsInv` has it while plans are translated, when there is
  nothing but the stack of results that could, and `NetInv` afterwards.

`MeaningKeptShared` is the result, for any queries, views, classes and limits: until the last
pass every output computes what its query asked for, even where operators are lost. The
last pass is another matter. A projection that is merged into a join makes the join compute
something else, and the code looks at the join's list of readers for who would notice, and at
the projection's for whom to connect. Both lists are wrong where sharing has lost an operator
(both cases are described in section 5). `MeaningKeptToTheEnd` says that this is all that can go
wrong: as long as both lists have whatever outputs are computed from (`ReadByNoOther`,
`ReadersTold`), every output keeps its meaning to the end. For this the proof needs only the
operators upstream of an output (`Working`, a closed set by `UpstreamClosed`); what
happens to lost ones that nobody uses does not matter.

`ClassesHighest` is about `addQueryClasses`: until operators are shared, every operator in use
has the highest class of the outputs it works for, and none if it works for none. That speaks
of paths, and the invariant only of neighbours. `ClassInv` has

- the class of an operator is the highest of its readers' (of those that are not sinks,
  which have none), and every output has a class;
- the network is acyclic along the readers too, so that from readers to readers one gets to
  outputs (`ServesHighest`);
- while the network is built nothing was freed: an operator that is freed keeps its class, and
  `newPhyOp` would hand it out with that.

`addQueryClasses` goes down the inputs and stops where the class is high enough already. The
proof follows the set of operators that it comes to (`Reach`, `ClassifiedReach`): an operator
it stops at has all its inputs right because its own class was, so what it passes
gets the class, what it does not pass needs none, and the first item holds again
(`ClassifiedClasses`). Taking an operator out keeps it because the readers that its
input gets are those whose class it had (`SplicedClasses`).

`EdgesAgree` is proved up to the sharing of operators and not after it: where
`plan_lost_operator` loses operators the edges of what is left disagree, so it holds in
`plan_sharing` only because of its queries. No bound on readers is claimed:
`mergeOperators` does not check one, and writes past `outputs` (section 5).

`FreedUnreadShared` and `NothingFreedIsRead` are about `free_op`, which puts an operator where
`new_op` takes from, whoever has a pointer to it. Until operators are shared, what is in use
reads only what is in use, and that is all (`UsedSheltered`). Afterwards an operator may be in no
list and be read still, so `ShelterInv` speaks of a set that is neither list: one that has the
outputs in use, has the inputs of its members and has none that is free (`Shelters`). While
operators are shared this is not inductive, because a merge connects the readers of one
operator with another that it finds in a level, and either may be lost; then the set has the
readers of its members too, and the levels (`Encloses`). It is that of the operators in use
when sharing began, and a merge frees none. When a projection is
removed the set loses that one alone, which is right if all that read it were told
(`ReadersTold`); `UpstreamLeast` then gets from the set to what the outputs are computed
from. Until the last pass nothing has to be assumed.

**QueryProofs.** `ExpressionsFit`: `numExprs <= MaxExprs` always. The code never looks at
what `newExpr` returns; what it relies on is that an expression takes at least one node of
the parser, whose pool is smaller, and that `SELECT *` takes at most `MaxProj` more. The
invariant says how much of the text has been paid for at each clause. `QueryInv` is what the
generator may rely on, clause by clause: the tables of the query are in the catalogue, a
stream has a window that `applyWindow_n` knows, and what is compared or selected is of one
type throughout. Assumptions: what the
grammar makes of a text (`IsText`), a catalogue of tables that were registered (`IsTable`),
and `MaxNodes + MaxProj <= MaxExprs` (MAXNODE 100 and MAX_PROJ 50, against MAXEXPR 500 and
NUM_EXPRS 1000).

**TreeLemmas.** Lemmas only, for any pool: a tree of operators (`IsTree`: both ends of each
edge agree, and heights fall from an operator to its inputs) whose schemas are those of
its inputs (`Schemas`) stays one when an operator is put over its root (`CapTree`), trees
are joined under a product (`CrossTree`), an operator leaves it (`RemoveTree`), a selection is
put over one of its operators (`InsertTree`), a product with some of its inputs gives
way to new ones (`GraftTree`); and `UpdateSchemaRecursive` and
`UpdateStreamPropertyRecursive` leave it a tree, the first with all schemas right
(`UpdateSchemas`, `UpdateStreams`).

**TreeProofs.** `PoolTypeCorrect`, `PlansWellFormed` and `ExpressionsTyped`, for any texts,
catalogue and limits. `PoolTypeCorrect` does not say that `outAttrs` never overflows, for it
does: it says that only a grouping can have more attributes than the array, and that the
registration is over with it (`Spilt` is what is left of the invariant then). A plan in a transformation is well-formed only because the one before
left it so and because the naive plan has a certain shape, so the invariant `PlanInv` says
for every function of the generator with what it starts (`Shaped`):

- nothing in the pool while the query is interpreted;
- in the loop over FROM, a product of the tables joined so far, beside which the next source
  and its windows are made;
- from then on a planted tree (`Planted`: a pool of which the operators under the root are a
  tree with the schemas of their inputs) that lacks unions (a SELECT) or products (a union or difference of two
  tables). That no plan has both is what `PlaceCross` and `GraftTree` need: what is over a
  product has one input, so replacing the product under it patches the one edge there is;
- in the transformations a good tree (`Good`), and in the loop that pushes a selection one in
  which the place it is at is an operator of the tree (`GoodAt`).

`ArgsTyped` goes with it: the argument of every selection and projection of the pool, in the
tree or out of it, is typed. It is no part of `Shaped` because operators move and arguments
do not: each transformation only has to show that it makes no new argument (`SameArgs`).
There is a lemma for each clause of the naive plan and for each transformation; the loops
inside one (`t_makeCrossBinary` over the inputs of a product, `t_streamCross` over the inputs
but the opened one, `pushSelect` down the tree) each have an invariant of their own, with a
lemma for its start and one for its turn (`NestStart`, `NestTurn`; `UpToStart`, `UpToTurn`;
`WalkStart`, `WalkTurn`).

**ResolveProofs.** `ReferencesResolve`, for any texts, catalogue and limits. `RefsResolve` speaks
of the tree; the invariant `SupplyInv` speaks of the whole pool, where nothing can be lost
sight of, and is in two parts:

- `Resolves`: every operator with references, in the tree or out of it, finds them among the
  attributes of its first input (`Held`);
- what the next clause of the naive plan is going to name is offered by now: in the loop
  over FROM the product has the attributes of the tables joined so far, before WHERE and
  GROUP BY the root has those of all tables, and before SELECT it has what the list selects.
  After an aggregation the last follows from the list of aggregations being complete
  (`AggrTerms`) and from `~Ungrouped`; for the source of a partition window the first needs
  `~Misparted`. These are the two things that the interpreter lets pass; `Resolvable` excludes
  them and nothing else.

That a transformation keeps `Resolves` is proved with its tree in TreeProofs: every operator that
was there keeps its kind and argument and is offered no less than before (`Keeps`), and
what is new has no references (`AllKept`), except for the copy of a selection (`Copied`). For
the copy, `GoalHolds` is an invariant of the walk down the tree: a selection hands on its schema,
and a product is passed through an input that has all that the selection names. An offer
may grow when a project under it goes, hence inclusion and not equality.

`SelectionsPushed`: `SelectsPushed` speaks of the end of `t_pushSelect`, and a selection that
was looked at early has to stay right while the later ones are moved past it. That there are no
others above it is something the naive plan and every transformation before have to keep. So
the invariant `ArrangeInv` says of the plan, function by function:

- `Falling`, until the search for a selection: below a selection there is nothing of the clauses
  after WHERE, and above it nothing but those and selections; before WHERE is applied there is
  none of either (`Flat`). Each clause and each transformation keeps this (`Falls`);
- `Pushing`, while selections are pushed: for each operator the one it stands over when
  selections are skipped (`Based`); a set of selections that have been looked at, each of
  them over something that is no product or lets it not pass (`Settling`); and the others are a
  chain that ends at the one to be looked at, each right over another (`Chained`);
- `Settled` at the end: there are no others. A chain without its end is empty, because heights
  grow along it (`NoEndlessClimb`).

A turn that leaves a selection adds it to the set: the walk of `pushSelect` ends at its base and
would have gone on (`GoalStops`, from the fact that heights fall along the walk, `WalkSinks`).
A turn that moves it takes it out of the tree in one place and puts its copy in another; a product
under which it came, or which it left, has one input replaced by another with the same schema over
the same base, so that what was refused still is (`MovedChild`, `MovedBlocked`).

**DataLemmas** has what the proofs use of `SequencesExt`, `FiniteSetsExt` and `Functions`:
`RemoveAt`, `FlattenSeq`, `SumFunction`, `Min`. Statements over all numbers are proved by the
least counterexample (`Least`, `InductiveSet`), and a loop's function is shown to exist by
`Iteration`, since the library's induction theorems cannot be instantiated here.

Only model-checked, and why:

- liveness under fairness and whatever rests on ENABLED: out of the prover's reach;
- `Consumed`, and `ClassIsHighest` and `EdgesAgree` once operators are shared: in general they are
  false then, because operators may be lost (`plan_lost_operator`, `plan_lost_class`); what keeps
  them in `plan_sharing` is that its queries are such that none is;
- `AllShared`: it becomes true by the whole traversal of `findSharedOps`, and what would have to
  hold in between is false of operators that the loop still has to reach;
- `MeaningKept` in the last pass without the two conditions: false, see section 5;
- `AnswerKept`, `StreamsOnlyInsert`: `PlanSemantics` declares a RECURSIVE operator.

## 5. What the code does otherwise than it says

Each of these is a run that must find a counterexample.

- **An update may wait for the next one** (`coord_lost_update`). `manageMigration` waits
  whenever it is not told to stop, without looking at `isUpdateReady`
  (AQSIOSCoordinator.cpp:524). An update signalled during `sleep(10)` or
  `redistributeLoad` sets the flag, but nobody waits; the thread then waits
  although the flag is set.
- **Ctrl-C may hang** (`coord_ctrl_c`). `sigproc` runs `stopServer` on top of the main
  thread. If that holds `mutexUpdateReady`, the handler waits for it for ever; if
  it holds `mutexNodeInfos`, the migration thread does, and the handler for the thread.
- **A decision may go to the wrong node** (`coord_misdirected`). The decision carries a
  descriptor, and is written after `mutexNodeInfos` is released; in between the source
  may leave and another client be given its descriptor.
- **Sharing may lose operators** (`plan_lost_operator`). Two queries join a view with a
  table. The readers of the two tables come in different orders, so one level of
  `findSharedOps` merges join B into join A, while B stays in the next level, ahead of A;
  A is then merged into B. `usedOps` has neither, and the outputs read from operators
  that are in no list.
- **Sharing may lose a class** (`plan_lost_class`). `mergeOperators` keeps the smaller class id
  of the two operators. An operator that no output reads, such as those of a view nobody uses, has
  id 0, "not shared" (plan_mgr_impl.cc:168), which is smaller than that of any class. Merged
  with its equal, what is left has class 0 and works for an output of class 1.
- **The first table is read from the system stream** (`plan_table_zero`). The system
  stream generator is entered for table 0 before any table is registered, and
  `TableManager` gives 0 to the first table of a script. The first entry wins.

Seen while modelling, present in the models as outcomes, and without a run of their own:

- Where sharing has lost operators, the last pass may do harm. "We cannot merge if someone is
  reading from the child operator" (plan_trans.cc:370), but who reads is looked up in the
  operator's list of readers, and a lost operator is in no list while outputs are still
  computed from it. A join is a view; two equal queries join it with a window and are both
  lost; a third projects it: the projection is merged into the view's join, and the outputs of
  the first two read other attributes than they ask for. If the view is the projection
  itself, `shortCircuitInputOutput`, which is to connect its input "to all its outputs"
  (plan_trans.cc:721), finds none: the projection goes back to the pool, and both outputs
  are computed from an operator that is free. These are `ReadByNoOther`, `ReadersTold` and with
  it `FreedUnread`, which hold in `plan_sharing` and `plan_views` and fail with these queries.

- `redistributeLoad` can choose a node that has not reported its port (port 0): such a
  node has load 0 and so is the least loaded.
- A descriptor that is used again inherits the node record of the client before, load,
  address and port (`AddNode` finds it known).
- A connection that does not fit in `sockfds` is accepted and becomes a node, though
  nobody will ever read from it.
- SIGPIPE is not handled: writing a second time to a reset connection ends the process.
- `new_op` writes through the null pointer once the last free operator is taken;
  `mergeOperators` does not check MAX_OUT_BRANCHING; `compareJoins` follows a null
  predicate when a join has none; `shortCircuitInputOutput` refuses a network that would
  fit, because for a moment it has one reader more than at the end.
- An operator that is freed and made again keeps its old query class.
- A DEST between VQUERY and VTABLE replaces `queryId`: the view is mapped to the query of
  the DEST. A second TABLE or QUERY in a row replaces the first without a word.
- Rstream over a window Now is dropped with a DISTINCT below it (log_plan_gen.cc:115), and Now
  under a product is dropped with DISTINCT or an aggregation above it (log_plan_gen.cc:321).
  Both then work on all of a stream instead of on what came at the instant; DISTINCT
  over a stream gives a tuple once and no more. The comments have only filters and
  projections in between (log_plan_gen.h:61, 83). `AnswerKept` and `StreamsOnlyInsert` except
  these queries, by name (`Overstretched`): without the exception both are violated.
- `outAttrs` of a grouping is not checked: grouping attributes and aggregations that fit singly
  are written past its end (`ApplyAggr`, which makes the operator with all its attributes and
  ends in `"overflow"`; `TypeOK` of `PlanTree` names this one case). One SELECT expression too many leaves no
  project, which is noticed unless there is a second one, or a DISTINCT (`"crashed"`).
- The interpreter lets pass: an attribute in SELECT that is neither grouped nor aggregated, and
  PARTITION BY over an attribute of another table. Their references do not resolve in the
  plan (`Resolvable` names these queries).
- COUNT has the type of the first attribute of the first table, though the comment has it
  independent of attributes (sem_interp.cc:425): over a table that begins with a text, the
  count is a text.
- A query that needs more parser nodes than there are ends the process (nodes.cc:70) where every
  other limit is an error code.
- `regOps` points into the plan manager that `loadQueryNetwork` deletes before it returns.
  Nothing reads it.

## 6. What is left out

- The build defines none of `_DM_`, `_SYS_STR_`, `_MONITOR_`: code under these is
  not modelled, and assertions are compiled out.
- `LoadManager::removeNode`, `isAllNodesReady`, `insertDropOps` and `mk_drop` have
  no caller.
- Printing and `getPlan` change no state.
- The scanner and the parser's tables are generated from the grammar, and take a text to its
  parse tree. `SemInterp` begins with parse trees, any of which a grammar allows.
- The query path is not composed with `AppSpec` and `PlanManager`: the first has a free
  acceptance of texts where the interpreter decides, the second a set of plans in place of
  those that `LogPlanGen` makes. Composed, each text would multiply the states of both.
- The translation of expressions and of attribute positions in gen_phy_plan.cc: it finds for each
  reference the position in its input, and `RefsResolve` says that there is one.
- A range window's length in seconds is computed in `unsigned int` (sem_interp.cc:568) and may
  wrap around for days by the ten thousand; lengths of the model are small.
- File sources and outputs are opened by the loader and never used by the coordinator.
- The files under `Debug/` are written by the development environment.

## 7. Plan

Order: what runs concurrently first, then what rewrites shared state in place, then
what registers it, then the pure functions.

1. *Done.* `Coordinator` with `MigrationService`; `PlanManager`; `AppSpec` with
   `Catalog`. Their runs. Proofs of `Coordinator`'s safety and of its
   implementation of `MigrationService`; of `AppSpec`'s types and four invariants.
2. *Done.* The query path: `Nodes`, `SemInterp`, `LogOp`, `LogPlanGen`, with `PlanSemantics`
   for its meaning.
3. The translation of expressions in gen_phy_plan.cc, from references to positions, from the
   plans that `LogPlanGen` ends with; the pools of physical expressions.
4. `LoadManager` with the query lists of a node, once something reads them.
5. Proofs. *Done:* the refinement of `Catalog`; types, pool, list neighbours, edges, freedom
   from cycles, meaning and query classes of `PlanManager`; the pools of expressions; of
   `PlanTree`, `TypeOK`, `PlanWellFormed`, `TypesAgree`, `RefsResolve` and `SelectsPushed`.
