---------------------------- MODULE MCPlanManager ----------------------------
(* The queries of the instances.  Table 0 is registered first; the queries    *)
(* read tables 1 and up, as table 0 is taken for the system stream.          *)
EXTENDS PlanManager

From(t)      == <<[kind |-> "source", par |-> <<t>>]>>
Op(kind, p)  == <<[kind |-> kind, par |-> p]>>
Query(plan, out, class) == [plan |-> plan, output |-> out, class |-> class]

Window   == From(1) \o Op("unary", <<1>>)
Filtered == Window \o Op("select", <<1>>) \o Op("select", <<2>>)
Join     == From(1) \o From(2) \o Op("join", <<>>)
Chosen   == Join \o Op("select", <<1>>)

(* Selections, joins that a projection and others read, two classes.         *)
SharingQueries ==
  {Query(Filtered, TRUE, 2),
   Query(Window, TRUE, 1),
   Query(Chosen, TRUE, 1),
   Query(Chosen \o Op("project", <<1>>), TRUE, 2)}

(* A view, its equal with an output, a selection and a projected join over    *)
(* the view, which is over a later table than the one it is joined with.     *)
Narrow == From(2) \o Op("select", <<1>>)
ViewQueries ==
  {Query(Narrow, FALSE, 2),
   Query(Narrow, TRUE, 1),
   Query(From(3) \o Op("select", <<2>>), TRUE, 2),
   Query(From(3) \o From(1) \o Op("join", <<>>) \o Op("select", <<1>>) \o Op("project", <<1>>), TRUE, 1)}

(* Equal queries, one of them a view that a union reads twice, and a join     *)
(* without a predicate.                                                      *)
TightQueries ==
  {Query(Window, FALSE, 1),
   Query(Window, TRUE, 1),
   Query(From(2) \o From(2) \o Op("union", <<>>), TRUE, 1),
   Query(Join, TRUE, 1)}

MixedQueries == ViewQueries \cup TightQueries
=============================================================================
