---------------------------- MODULE MCSaveGames ----------------------------
(***************************************************************************)
(* SaveGames with the slot of F5 and F8 and one more.                      *)
(***************************************************************************)
EXTENDS SaveGames, TLC

CONSTANTS quick, other

MCSlots == {quick, other}
=============================================================================
