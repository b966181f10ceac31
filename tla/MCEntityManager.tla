--------------------------- MODULE MCEntityManager ---------------------------
(***************************************************************************)
(* EntityManager with a few entities for TLC, which also compares Select,  *)
(* of which theorems are proved, with the SelectSeq of the library.        *)
(***************************************************************************)
EXTENDS EntityManager

ASSUME SelectAssumption ==
    \A n \in 0..4 : \A s \in [1..n -> 1..3], S \in SUBSET (1..3) : SelectIsSelectSeq(s, S)
=============================================================================
