----------------------------- MODULE MCQueryGen -----------------------------
(* The catalogue, the texts and the tuples of the instance.                   *)
EXTENDS PlanSemantics

IntAttr(name) == AttrSpec(name, "INT")
S == StrSpec("S", <<IntAttr("A"), IntAttr("B")>>)
T == StrSpec("T", <<IntAttr("C"), AttrSpec("D", "FLOAT")>>)
R == RelSpec("R", <<IntAttr("A")>>)
U == StrSpec("U", <<AttrSpec("N", "CHAR"), AttrSpec("M", "BYTE")>>)
MCTables == <<S, T, R, U>>

MCArrivals ==
  << << << <<1, 1>>, <<1, 2>> >>, << >>, << <<1, 2>>, <<2, 1>> >> >>,
     << << <<1, 1>> >>, << <<2, 2>> >>, << <<1, 1>> >> >>,
     << << <<1>> >>, << <<1>>, <<2>> >>, << <<2>> >> >>,
     << << <<1, 1>> >>, << >>, << <<1, 2>> >> >> >>

A(name)    == Operand(AttrRef(Absent, name))
V(var, name) == Operand(AttrRef(var, name))
N(n)       == Operand(ConstVal("INT", n))
Eq(l, r)   == Condn("EQ", l, r)
Star       == <<>>
CountAll   == AggrExpr("COUNT", NoAttr)
Agg(fn, var, name) == AggrExpr(fn, AttrRef(var, name))
By(name)   == AttrRef(Absent, name)
R2S4       == {Absent, "ISTREAM", "DSTREAM", "RSTREAM"}

Block(distinct, terms, from, where, group) ==
  SfwBlock(SelectClause(distinct, terms), from, where, group)

-----------------------------------------------------------------------------
(* One table, under every window, with and without an aggregation.           *)

SWindows == {NoWin, UnboundedWin, NowWin, RowWin(1), TimeWin(TimeSpec("SECOND", 2)),
             PartWin(<<By("A")>>, 1)}
SWhere   == {<<>>, <<Eq(A("A"), N(1))>>,
             <<Eq(A("A"), A("B")), Condn("LT", ArithExpr(A("A"), N(1)), A("B"))>>}
SSelect  == {[terms |-> Star, group |-> <<>>],
             [terms |-> <<A("B")>>, group |-> <<>>],
             [terms |-> <<ArithExpr(A("A"), A("B")), A("A")>>, group |-> <<>>],
             [terms |-> <<CountAll, Agg("AVG", Absent, "B")>>, group |-> <<>>],
             [terms |-> <<A("A"), CountAll>>, group |-> <<By("A")>>],
             [terms |-> <<Agg("MAX", "S", "B"), Agg("MAX", "S", "B")>>, group |-> <<By("A")>>]}

OneTableTexts ==
  {ContQuery(Block(d, s.terms, <<RelVar("S", Absent, w)>>, p, s.group), r) :
     d \in BOOLEAN, s \in SSelect, w \in SWindows, p \in SWhere, r \in R2S4}

-----------------------------------------------------------------------------
(* Two tables, the second a stream or a relation.                            *)

PairWindows == {NoWin, NowWin, RowWin(1)}
PairFrom ==
  {<<RelVar("S", "X", v), RelVar("T", Absent, w)>> : v \in PairWindows, w \in PairWindows}
  \cup {<<RelVar("S", "X", v), RelVar("R", Absent, NoWin)>> : v \in PairWindows}
Key(from) == IF from[2].table = "T" THEN V("T", "C") ELSE V("R", "A")
PairWhere(from) ==
  {<<>>, <<Eq(V("X", "A"), Key(from)), Eq(N(1), A("B"))>>,
   <<Eq(N(1), Key(from)), Eq(Key(from), V("X", "B")), Eq(N(1), N(1))>>}
PairSelect(from) ==
  {[terms |-> Star, group |-> <<>>],
   [terms |-> <<Key(from), A("B")>>, group |-> <<>>],
   [terms |-> <<Agg("SUM", "X", "B")>>, group |-> <<>>]}

TwoTableTexts ==
  UNION {{ContQuery(Block(d, s.terms, f, p, s.group), r) :
            d \in BOOLEAN, s \in PairSelect(f), p \in PairWhere(f), r \in {Absent, "ISTREAM", "RSTREAM"}} :
           f \in PairFrom}

-----------------------------------------------------------------------------
(* Three tables, with Now in each position and nowhere.                      *)

Three(v, w) == <<RelVar("R", Absent, NoWin), RelVar("S", "X", v), RelVar("T", Absent, w)>>
ThreeWhere ==
  {<<>>, <<Eq(V("R", "A"), V("X", "A")), Eq(A("C"), A("B")), Eq(A("C"), N(1))>>,
   <<Eq(V("R", "A"), A("C")), Eq(V("R", "A"), N(1))>>}

ThreeTableTexts ==
  {ContQuery(Block(FALSE, s, Three(v, w), p, <<>>), r) :
     s \in {Star, <<A("C"), V("R", "A")>>}, v \in {RowWin(1), NowWin}, w \in {NoWin, NowWin},
     p \in ThreeWhere, r \in {Absent, "RSTREAM"}}

-----------------------------------------------------------------------------
(* Unions and differences.                                                   *)

BinOpTexts ==
  {ContQuery(b, r) : r \in R2S4,
     b \in {UnionNode("S", "S"), UnionNode("S", "T"), UnionNode("R", "R"), UnionNode("R", "S"),
            ExceptNode("S", "S"), ExceptNode("R", "R"), ExceptNode("R", "Z")}}

-----------------------------------------------------------------------------
(* What the interpreter refuses, what it lets pass, and what is too large.   *)

OneS(w) == <<RelVar("S", Absent, w)>>
Text(terms, from, where, group) == ContQuery(Block(FALSE, terms, from, where, group), Absent)
Times(n, x) == [k \in 1..n |-> x]
Twice == <<RelVar("S", "X", NoWin), RelVar("S", "Y", NoWin)>>

WrongTexts ==
  {Text(Star, <<RelVar("Z", Absent, NoWin)>>, <<>>, <<>>),
   Text(Star, OneS(NoWin) \o OneS(NowWin), <<>>, <<>>),
   Text(Star, <<RelVar("R", Absent, NowWin)>>, <<>>, <<>>),
   Text(<<V("Q", "A")>>, OneS(NoWin), <<>>, <<>>),
   Text(<<A("C")>>, OneS(NoWin), <<>>, <<>>),
   Text(<<A("A")>>, Twice, <<>>, <<>>),
   Text(Star, OneS(PartWin(<<By("C")>>, 1)), <<>>, <<>>),
   Text(Star, OneS(NoWin), <<Eq(A("A"), Operand(ConstVal("CHAR", 1)))>>, <<>>),
   Text(Star, <<RelVar("T", Absent, NoWin)>>, <<Eq(A("C"), A("D"))>>, <<>>),
   Text(<<ArithExpr(A("C"), A("D"))>>, <<RelVar("T", Absent, NoWin)>>, <<>>, <<>>),
   Text(Star, OneS(NoWin), <<Eq(A("A"), A("C"))>>, <<>>),
   Text(<<CountAll>>, OneS(NoWin), <<>>, <<By("C")>>)}

LooseTexts ==
  {Text(<<A("B"), CountAll>>, OneS(NoWin), <<>>, <<By("A")>>),
   Text(<<CountAll>>, <<RelVar("U", Absent, RowWin(1))>>, <<>>, <<>>),
   Text(Star, <<RelVar("S", Absent, PartWin(<<By("C")>>, 1)), RelVar("T", Absent, NoWin)>>, <<>>, <<>>),
   Text(<<A("A"), V("S", "A")>>, OneS(NoWin), <<>>, <<>>),
   Text(Star, Twice, <<Eq(V("X", "A"), V("Y", "A"))>>, <<>>)}

LargeTexts ==
  {Text(Star, OneS(NoWin), Times(MaxPred + 1, Eq(A("A"), N(1))), <<>>),
   Text(<<CountAll>>, OneS(NoWin), <<>>, Times(MaxGroupAttrs + 1, By("A"))),
   Text(<<A("A"), CountAll, Agg("MAX", Absent, "A"), Agg("MIN", Absent, "A")>>, OneS(NoWin), <<>>,
        Times(3, By("A"))),
   Text(<<CountAll, Agg("MAX", Absent, "A"), Agg("MIN", Absent, "A"), Agg("SUM", Absent, "A"),
          Agg("AVG", Absent, "A")>>, OneS(NoWin), <<>>, <<>>),
   Text(Star, Twice \o <<RelVar("S", "Z", NoWin)>>, <<>>, <<>>),
   Text(Star, <<RelVar("R", "W", NoWin), RelVar("R", "X", NoWin), RelVar("R", "Y", NoWin),
                RelVar("R", "Z", NoWin)>>, <<>>, <<>>),
   Text(Star, Twice \o Twice \o Twice, <<>>, <<>>),
   Text(Star, [k \in 1..(MaxTables + 1) |-> RelVar("R", <<"V", "W", "X", "Y", "Z">>[k], NoWin)], <<>>, <<>>),
   Text(<<[A("A") EXCEPT !.operands = Times(MaxExprs \div 2 + 1, @[1])]>>, OneS(NoWin), <<>>, <<>>)}
  \cup {ContQuery(Block(d, Times(n, A("A")), OneS(NoWin), <<>>, <<>>), Absent) :
          n \in MaxAttrs..(MaxProj + 1), d \in BOOLEAN}

MCTexts == OneTableTexts \cup TwoTableTexts \cup ThreeTableTexts \cup BinOpTexts
           \cup WrongTexts \cup LooseTexts \cup LargeTexts
=============================================================================
