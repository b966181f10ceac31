---------------------------- MODULE WorldManager ----------------------------
(***************************************************************************)
(* WOW::WorldManager: the terrain around the camera                         *)
(* (src/code/render/wow/world/worldmanager.cc).  The map is a square of     *)
(* tiles; the nine around the camera are current, and sixteen are kept in   *)
(* a cache, whose entries are the terrain entities on the graphics stage.   *)
(*                                                                          *)
(* Everything runs in the render thread.  EnterTile sets the nine current   *)
(* tiles one after the other, each by a LoadTile that may throw another     *)
(* tile out of the full cache: a step of the model is one LoadTile.         *)
(*                                                                          *)
(* Coordinates are integers, in units of 1/UnitSize of the world's unit.    *)
(* Left out: what a tile consists of, and how its file is read.             *)
(***************************************************************************)
EXTENDS Integers, SequencesExt

CONSTANTS
    MapSize,      \* tiles along each side of the map, 64 in the code
    CacheSize,    \* MAPTILECACHESIZE
    TileSize,     \* TILESIZE
    UnitSize,     \* the world's unit, to which coordinates are truncated
    Places,       \* the coordinates the camera may have along each axis
    None,         \* a null Ptr<TerrainEntity>
    MaxCrossings  \* bound: how often the camera leaves the middle tile

ASSUME WorldManagerAssumption ==
    /\ MapSize \in Nat \ {0} /\ UnitSize \in Nat \ {0} /\ TileSize \in Nat \ {0}
    /\ CacheSize \in Nat /\ CacheSize > 13  \* the tiles up to two steps from a tile
    /\ MaxCrossings \in Nat
    /\ Places \subseteq Int
    /\ None \notin Int \X Int

VARIABLES
    isOpen, wdtLoaded, loading,
    camera,       \* its position
    curMaptile,   \* the current tiles by row and column
    mapTileCache, \* the tiles in the cache
    stage,        \* the terrain entities on the stage
    entering,     \* the middle tile EnterTile is setting the others for, or None
    filled,       \* how many of the current tiles it has set
    settled,      \* history: the camera has not moved since the last Update
    crossings,    \* history: the calls of EnterTile for a new middle tile
    missed        \* history: the camera was off the map when the world was there

tileVars == <<curMaptile, mapTileCache, stage>>
enterVars == <<entering, filled>>
walkVars == <<crossings, missed>>
vars == <<isOpen, wdtLoaded, loading, camera, tileVars, enterVars, settled, walkVars>>

\* EnterTile checks the bounds of the middle tile only.
Tiles == (-1..MapSize) \X (-1..MapSize)
Cells == (0..2) \X (0..2)
Middle == curMaptile[<<1, 1>>]
NoTiles == [c \in Cells |-> None]
Idle == isOpen /\ entering = None

Abs(n) == IF n < 0 THEN -n ELSE n

Init ==
    /\ isOpen = FALSE /\ wdtLoaded = FALSE /\ loading = FALSE
    /\ camera \in Places \X Places
    /\ curMaptile = NoTiles /\ mapTileCache = {} /\ stage = {}
    /\ entering = None /\ filled = 0
    /\ settled = FALSE /\ crossings = 0 /\ missed = FALSE

\* Open and InitWorld.
Open ==
    /\ ~isOpen
    /\ isOpen' = TRUE /\ loading' = TRUE
    /\ missed' = FALSE
    /\ UNCHANGED <<wdtLoaded, camera, tileVars, enterVars, settled, crossings>>

\* The file of the world has been loaded.
LoadWorld ==
    /\ Idle /\ ~wdtLoaded
    /\ wdtLoaded' = TRUE /\ settled' = FALSE
    /\ UNCHANGED <<isOpen, loading, camera, tileVars, enterVars, walkVars>>

\* The camera goes at most the length of a tile.
Move ==
    /\ Idle \/ ~isOpen
    /\ camera' \in {p \in Places \X Places : \A a \in 1..2 : Abs(p[a] - camera[a]) <= TileSize}
    /\ settled' = FALSE
    /\ UNCHANGED <<isOpen, wdtLoaded, loading, tileVars, enterVars, walkVars>>

-----------------------------------------------------------------------------
(* Which tiles are current.                                                *)

\* A conversion to int truncates towards zero.
Truncate(a, b) == IF a >= 0 THEN a \div b ELSE -((-a) \div b)

\* The position is made an int before it is divided by the size of a tile.
TileUnder(p) == Truncate(Truncate(p, UnitSize) * UnitSize, TileSize)

OkTile(t) == t \in (0..MapSize - 1) \X (0..MapSize - 1)

\* Mutant: the camera must have left the tile along both axes.
OutsideMiddle_BothAxes ==
    \A a \in 1..2 : camera[a] < Middle[a] * TileSize \/ camera[a] > (Middle[a] + 1) * TileSize

\* The camera is not over the middle tile.
OutsideMiddle ==
    \E a \in 1..2 : camera[a] < Middle[a] * TileSize \/ camera[a] > (Middle[a] + 1) * TileSize

\* EnterTile, up to its loop.
EnterTile(t) ==
    IF OkTile(t)
    THEN /\ entering' = t
         /\ t # Middle => crossings < MaxCrossings
         /\ crossings' = IF t = Middle THEN crossings ELSE crossings + 1
         /\ UNCHANGED missed
    ELSE /\ missed' = (missed \/ Middle = None)
         /\ UNCHANGED <<entering, crossings>>

\* The nine tiles are set at first, and when the camera leaves the middle one.
Go ==
    IF IF Middle = None THEN loading ELSE OutsideMiddle
    THEN /\ EnterTile(<<TileUnder(camera[1]), TileUnder(camera[2])>>)
         /\ loading' = FALSE
    ELSE UNCHANGED <<entering, loading, walkVars>>

\* Once a frame.
Update ==
    /\ Idle
    /\ IF wdtLoaded THEN Go ELSE UNCHANGED <<entering, loading, walkVars>>
    /\ settled' = TRUE
    /\ UNCHANGED <<isOpen, wdtLoaded, camera, tileVars, filled>>

-----------------------------------------------------------------------------
(* Loading tiles.                                                          *)

\* Mutant: only the rows count.
Distance_Rows(s, t) == Abs(s[1] - t[1])

\* In tiles.
Distance(s, t) == Abs(s[1] - t[1]) + Abs(s[2] - t[2])

\* What may leave the cache to make room for tile t: nothing, or one of those
\* farthest away.  The distances are compared as integers after the float
\* multiplications by the size, which decides between equal ones.
ThrownOut(t) ==
    IF Cardinality(mapTileCache) < CacheSize THEN {{}}
    ELSE {{s} : s \in {s \in mapTileCache : \A r \in mapTileCache : Distance(r, t) <= Distance(s, t)}}

\* Mutant: the entity of the tile that is thrown out stays on the stage.
Load_KeepsEntity(t) ==
    \E gone \in ThrownOut(t) :
        /\ mapTileCache' = (mapTileCache \ gone) \cup {t}
        /\ stage' = stage \cup {t}

\* A new entity for tile t, and its place in the cache.
Load(t) ==
    \E gone \in ThrownOut(t) :
        /\ mapTileCache' = (mapTileCache \ gone) \cup {t}
        /\ stage' = (stage \ gone) \cup {t}

\* One turn of the loop of EnterTile, with LoadTile.
LoadTile ==
    /\ entering # None
    /\ LET cell == <<filled \div 3, filled % 3>>
           t == <<entering[1] - 1 + cell[2], entering[2] - 1 + cell[1]>>
       IN  /\ curMaptile' = [curMaptile EXCEPT ![cell] = t]
           /\ IF t \in mapTileCache THEN UNCHANGED <<mapTileCache, stage>> ELSE Load(t)
    /\ filled' = (filled + 1) % 9
    /\ entering' = IF filled = 8 THEN None ELSE entering
    /\ UNCHANGED <<isOpen, wdtLoaded, loading, camera, settled, walkVars>>

Close ==
    /\ Idle
    /\ isOpen' = FALSE /\ wdtLoaded' = FALSE
    /\ stage' = stage \ mapTileCache
    /\ mapTileCache' = {} /\ curMaptile' = NoTiles
    /\ settled' = FALSE
    /\ UNCHANGED <<loading, camera, enterVars, walkVars>>

Next == Open \/ LoadWorld \/ Move \/ Update \/ LoadTile \/ Close

Spec == Init /\ [][Next]_vars

-----------------------------------------------------------------------------
(* Properties.                                                             *)

\* Every variable stays in its domain.
TypeOK ==
    /\ isOpen \in BOOLEAN /\ wdtLoaded \in BOOLEAN /\ loading \in BOOLEAN
    /\ camera \in Places \X Places
    /\ curMaptile \in [Cells -> Tiles \cup {None}]
    /\ mapTileCache \subseteq Tiles /\ stage \subseteq Tiles
    /\ entering \in Tiles \cup {None} /\ filled \in 0..8
    /\ settled \in BOOLEAN /\ missed \in BOOLEAN
    /\ crossings \in 0..MaxCrossings

\* The entities on the stage are those in the cache, never more than it holds,
\* in every step and also after the manager has been closed: Stage::RemoveEntity
\* asserts that what leaves the cache is on the stage (stage.cc:172).
Consistent ==
    /\ TypeOK
    /\ stage = mapTileCache /\ Cardinality(stage) <= CacheSize
    /\ ~isOpen => stage = {} /\ curMaptile = NoTiles

\* The tile the position is over, as the map is drawn.
Over == <<camera[1] \div TileSize, camera[2] \div TileSize>>

\* The camera is over tile t or has gone past its upper border by less than a unit.
HardlyOff(t) ==
    \A a \in 1..2 : t[a] * TileSize <= camera[a] /\ camera[a] < (t[a] + 1) * TileSize + UnitSize

\* After an Update there is ground on the stage within a unit of the camera,
\* wherever on the map it has gone, although its position is truncated twice.
GroundShown ==
    Idle /\ settled /\ wdtLoaded /\ ~missed /\ OkTile(Over) => \E t \in stage : HardlyOff(t)

\* The cells within two steps of all that are set after them: the middle one
\* and the last row.
Kept == {<<1, 1>>, <<2, 0>>, <<2, 1>>, <<2, 2>>}

\* A full cache throws tiles out while the nine are set one by one, and of the
\* nine it may throw out those of the first rows, however the camera goes; the
\* middle one and the last row are on the stage after every EnterTile.
KeptShown ==
    Idle /\ Middle # None => \A c \in Kept : curMaptile[c] \in stage
=============================================================================
