------------------------------ MODULE Subsequences ------------------------------
(***************************************************************************)
(* The elements of a sequence that stand at some of its places, in their   *)
(* order: what a loop keeps that goes over a vector and tests each         *)
(* element.  SelectSeq gives the same; here the places are a set, so that  *)
(* the theorems of Subsequences_proofs can be about it.                    *)
(***************************************************************************)
EXTENDS Integers, Sequences, FiniteSets

\* How many members of the set I of numbers are less than n.
Below(I, n) == Cardinality({j \in I : j < n})

\* The k-th member of I, from the least.
Nth(I, k) == CHOOSE i \in I : Below(I, i) = k - 1

\* The elements of s at the places I.
ElementsAt(s, I) == [k \in 1 .. Cardinality(I) |-> s[Nth(I, k)]]
===============================================================================
