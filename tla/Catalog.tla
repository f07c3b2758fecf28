------------------------------- MODULE Catalog -------------------------------
(****************************************************************************)
(* What the server interface (interface/server.h) promises of the           *)
(* specification of an application: tables, queries and views are entered   *)
(* one by one; a query is over tables that are there already and has the    *)
(* class in force; a table has one source of its own, a view names a query  *)
(* that is there already and has no name yet.  Whatever goes wrong ends the *)
(* specification for good, and what is left of it does not matter.          *)
(****************************************************************************)
EXTENDS Naturals, Sequences

CONSTANTS
  Names,     \* the names tables can have
  Sources,   \* the sources of base tables
  Classes    \* query classes

VARIABLES
  phase,     \* "specifying", "complete" or "abandoned"
  producer,  \* where the tuples of each table come from
  registered,  \* each query, in the order of registration: [reads, class]
  current    \* the class in force

catalog == <<phase, producer, registered, current>>

Base(source) == <<"source", source>>
View(query)  == <<"query", query>>

Init == phase = "specifying" /\ producer = <<>> /\ registered = <<>> /\ current = 1

NewTable(name, p) ==
  /\ name \notin DOMAIN producer
  /\ \A n \in DOMAIN producer : producer[n] # p
  /\ producer' = [n \in DOMAIN producer \cup {name} |-> IF n = name THEN p ELSE producer[n]]
  /\ UNCHANGED <<phase, registered, current>>

RegisterBaseTable == \E name \in Names, s \in Sources : NewTable(name, Base(s))
RegisterView      == \E name \in Names, q \in DOMAIN registered : NewTable(name, View(q))

RegisterQuery ==
  /\ \E over \in SUBSET DOMAIN producer :
       registered' = Append(registered, [reads |-> over, class |-> current])
  /\ UNCHANGED <<phase, producer, current>>

SetClass == current' \in Classes /\ UNCHANGED <<phase, producer, registered>>

Complete == phase' = "complete" /\ UNCHANGED <<producer, registered, current>>
Abandon  == phase' = "abandoned"

Next ==
  /\ phase = "specifying"
  /\ \/ RegisterBaseTable \/ RegisterView \/ RegisterQuery
     \/ SetClass \/ Complete \/ Abandon

Spec == Init /\ [][Next]_catalog
=============================================================================
