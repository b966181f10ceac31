---------------------------- MODULE MCInstances ----------------------------
(***************************************************************************)
(* Instances with two Guids and two levels.                              *)
(***************************************************************************)
EXTENDS Instances, TLC

CONSTANTS g1, g2, town, cave

MCGuids == {g1, g2}
MCLevels == {town, cave}
MCNumbers == {0, 1}

\* An instance in one level, and a Guid to generate.
MCGameDb == g1 :> [level |-> town, num |-> 0] @@ g2 :> Absent
=============================================================================
