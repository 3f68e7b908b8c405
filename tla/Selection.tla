------------------------------ MODULE Selection -------------------------------
(* The elements of a sequence at some of its positions, in their order.  It   *)
(* is SelectSeq by positions, in a form that can be reasoned about: no        *)
(* backend of the prover knows SelectSeq, which is defined by recursion.      *)
EXTENDS Integers, FiniteSets

\* Where i stands among the members of S.
Rank(S, i) == Cardinality({j \in S : j <= i})

SelectAt(s, S) ==
  [k \in 1 .. Cardinality(S) |-> s[CHOOSE i \in S : Rank(S, i) = k]]
=============================================================================
