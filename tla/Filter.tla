------------------------------- MODULE Filter -------------------------------
(***************************************************************************)
(* The elements of a sequence that are in a set, in their order: SelectSeq *)
(* with a set for its test and without recursion, so that the provers can  *)
(* reason about it.  The lists of the game are walked with an erase in the *)
(* loop; this is what is left.                                             *)
(***************************************************************************)
EXTENDS Naturals, FiniteSets, Sequences

\* The indices of the elements that stay, and how many of them are up to i.
Staying(s, S) == {i \in DOMAIN s : s[i] \in S}
Rank(s, S, i) == Cardinality({j \in Staying(s, S) : j <= i})

\* Where the k-th element that stays was.
Origin(s, S, k) == CHOOSE i \in Staying(s, S) : Rank(s, S, i) = k

Select(s, S) == [k \in 1..Cardinality(Staying(s, S)) |-> s[Origin(s, S, k)]]

\* What SelectSeq makes of it.
SelectIsSelectSeq(s, S) == Select(s, S) = SelectSeq(s, LAMBDA e : e \in S)
=============================================================================
