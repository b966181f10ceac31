------------------------- MODULE MCGameApplication -------------------------
(***************************************************************************)
(* GameApplication with a menu and two games, a level of two entities and  *)
(* two that the game creates.                                              *)
(***************************************************************************)
EXTENDS GameApplication

CONSTANTS menu, game, arena, e1, e2, s1, s2

MCGameStates == {game, arena}
MCMenuStates == {menu}
MCLevel == <<e1, e2>>
MCSpawned == {s1, s2}
=============================================================================
