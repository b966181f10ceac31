--------------------------- MODULE MCWorldManager ---------------------------
(***************************************************************************)
(* WorldManager on a map of five by five tiles, wide enough for a full     *)
(* cache to throw tiles of the new middle's nine out.  A tile is 533 1/3   *)
(* units long: coordinates are in thirds of a unit.                        *)
(***************************************************************************)
EXTENDS WorldManager

\* The middle of every tile and off the map on both sides, and the first third of
\* the unit along a lower side.
MCPlaces == {t * TileSize + TileSize \div 2 : t \in -1..MapSize} \cup {2 * TileSize + 1}
=============================================================================
