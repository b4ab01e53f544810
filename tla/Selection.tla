------------------------------ MODULE Selection ------------------------------
(***************************************************************************)
(* The elements of a sequence at some places, in their order: what a loop  *)
(* leaves that goes through it and takes some.                             *)
(***************************************************************************)
EXTENDS Integers, FiniteSets

Rank(places, i) == Cardinality({j \in places : j <= i})
At(places, n)   == CHOOSE i \in places : Rank(places, i) = n
Only(s, places) == [n \in 1 .. Cardinality(places) |-> s[At(places, n)]]
=============================================================================
