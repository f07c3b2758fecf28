------------------------------ MODULE MCAppSpec ------------------------------
(* Texts of the instances: tables with good, repeated and too many            *)
(* attributes, queries over a base table, over a view, and over both.         *)
EXTENDS AppSpec

Table(name, attrs)  == [name |-> name, attrs |-> attrs]
Query(reads, len)   == [reads |-> reads, len |-> len]

SmallTables  == {Table("S", <<"a">>), Table("V", <<"a", "b">>), Table("W", <<"b">>), Table("X", <<"b">>),
                 Table("S", <<"b", "b">>)}
SmallQueries == {Query({"S"}, 1), Query({"S", "V"}, 2), Query({"V"}, 5)}
=============================================================================
