------------------------------ MODULE Selection ------------------------------
(***************************************************************************)
(* Removing elements from a vector by index: Vec::remove shifts what       *)
(* follows, so the elements that stay keep their order.  Written without   *)
(* recursion, so that it can be proved what it returns.                    *)
(***************************************************************************)
EXTENDS Integers, Sequences, FiniteSets

\* The r-th smallest element of a finite set of integers.
Nth(I, r) ==
    CHOOSE i \in I : Cardinality({j \in I : j <= i}) = r

\* What is left of a sequence when only the indices in I are kept.
Select(s, I) == [r \in 1 .. Cardinality(I) |-> s[Nth(I, r)]]

=============================================================================
