-------------------------- MODULE WorldManagerProofs --------------------------
(***************************************************************************)
(* Proofs about the tiles of WorldManager, for maps of any size, any cache *)
(* of more than thirteen tiles, any size of a tile and of a unit, and      *)
(* wherever the camera goes.                                               *)
(***************************************************************************)
EXTENDS WorldManager, FiniteSetTheorems, TLAPS

-----------------------------------------------------------------------------
(* Numbers of tiles.                                                       *)

\* The thirteen tiles within two steps, counted row by row.
Number(a, b) ==
    CASE a = -2 -> 1 [] a = -1 -> b + 3 [] a = 0 -> b + 7 [] a = 1 -> b + 11 [] OTHER -> 13

LEMMA NumbersDiffer ==
    ASSUME NEW a \in Int, NEW b \in Int, NEW c \in Int, NEW d \in Int,
           Abs(a) + Abs(b) < 3, Abs(c) + Abs(d) < 3
    PROVE  Number(a, b) \in 1..13 /\ (Number(a, b) = Number(c, d) => a = c /\ b = d)
    BY DEF Number, Abs

\* No more than thirteen tiles are within two steps of a tile.
LEMMA ThirteenAreNear ==
    ASSUME NEW t \in Int \X Int, NEW S \in SUBSET (Int \X Int),
           \A r \in S : Distance(r, t) < 3
    PROVE  IsFiniteSet(S) /\ Cardinality(S) <= 13
<1> DEFINE f == [r \in S |-> Number(r[1] - t[1], r[2] - t[2])]
<1>1. \A r \in S : /\ r[1] - t[1] \in Int /\ r[2] - t[2] \in Int
                   /\ Abs(r[1] - t[1]) + Abs(r[2] - t[2]) < 3
    BY DEF Distance
<1>2. f \in [S -> 1..13]
    BY <1>1, NumbersDiffer
<1>3. ASSUME NEW r \in S, NEW s \in S, f[r] = f[s] PROVE r = s
    <2>1. r[1] - t[1] = s[1] - t[1] /\ r[2] - t[2] = s[2] - t[2]
        BY <1>1, <1>3, NumbersDiffer
    <2>2. r[1] = s[1] /\ r[2] = s[2]
        BY <2>1
    <2> QED
        BY <2>2
<1>4. f \in Injection(S, 1..13)
    BY <1>2, <1>3 DEF Injection, IsInjective
<1>5. IsFiniteSet(1..13) /\ Cardinality(1..13) = 13
    <2>1. /\ IsFiniteSet(1..13)
          /\ Cardinality(1..13) = IF 1 > 13 THEN 0 ELSE 13 - 1 + 1
        BY ONLY 1 \in Int, 13 \in Int, FS_Interval
    <2> QED
        BY <2>1
<1> HIDE DEF f
<1> QED
    BY <1>4, <1>5, FS_Injection

\* What leaves a full cache is more than two steps away from the new tile: a
\* nearer one cannot be the farthest of so many.
LEMMA FarIsThrownOut ==
    ASSUME NEW t \in Int \X Int, mapTileCache \in SUBSET (Int \X Int),
           NEW gone \in ThrownOut(t), NEW s \in gone
    PROVE  s \in mapTileCache /\ Distance(s, t) >= 3
<1>1. /\ ~(Cardinality(mapTileCache) < CacheSize)
      /\ s \in mapTileCache /\ \A r \in mapTileCache : Distance(r, t) <= Distance(s, t)
    BY DEF ThrownOut
<1>2. \A r \in mapTileCache : Distance(r, t) \in Int
    BY DEF Distance, Abs
<1>3. ASSUME Distance(s, t) < 3 PROVE FALSE
    <2>1. \A r \in mapTileCache : Distance(r, t) < 3
        BY <1>1, <1>2, <1>3
    <2>2. IsFiniteSet(mapTileCache) /\ Cardinality(mapTileCache) <= 13
        BY <2>1, ThirteenAreNear
    <2>3. Cardinality(mapTileCache) \in Nat
        BY <2>2, FS_CardinalityType
    <2> QED
        BY <1>1, <2>2, <2>3, WorldManagerAssumption
<1> QED
    BY <1>1, <1>2, <1>3

-----------------------------------------------------------------------------
(* Where the camera is.                                                    *)

LEMMA Division ==
    ASSUME NEW p \in Nat, NEW d \in Nat \ {0}
    PROVE  /\ p \div d \in Nat
           /\ (p \div d) * d <= p /\ p < (p \div d + 1) * d
    OBVIOUS

LEMMA NoLess ==
    ASSUME NEW i \in Nat, NEW k \in Nat, NEW d \in Nat \ {0}, NEW p \in Nat,
           i * d <= p, p < (k + 1) * d
    PROVE  i <= k
<1> SUFFICES ASSUME i >= k + 1 PROVE FALSE
    OBVIOUS
<1>1. i * d >= (k + 1) * d
    OBVIOUS
<1> QED
    BY <1>1

\* A position on the map is a unit past the tile that is computed for it at most.
LEMMA TruncatedTile ==
    ASSUME NEW p \in Int, p \div TileSize \in 0..MapSize - 1
    PROVE  /\ TileUnder(p) \in 0..MapSize - 1
           /\ TileUnder(p) * TileSize <= p
           /\ p < (TileUnder(p) + 1) * TileSize + UnitSize
<1> DEFINE T == TileSize
           U == UnitSize
<1>1. T \in Nat \ {0} /\ U \in Nat \ {0} /\ MapSize \in Nat
    BY WorldManagerAssumption
<1>2. p \in Nat
    BY <1>1
<1> DEFINE u == p \div U
           w == u * U
           k == p \div T
           q == w \div T
<1> HIDE DEF T, U
<1>3. u \in Nat /\ u * U <= p /\ p < (u + 1) * U
    BY <1>1, <1>2, Division
<1>4. w \in Nat /\ w <= p /\ p < w + U
    BY <1>1, <1>2, <1>3
<1>5. k \in Nat /\ p < (k + 1) * T
    BY <1>1, <1>2, Division
<1>6. q \in Nat /\ q * T <= w /\ w < (q + 1) * T
    BY <1>1, <1>4, Division
<1>7. TileUnder(p) = q
    BY <1>1, <1>2, <1>4 DEF TileUnder, Truncate, T, U
<1> HIDE DEF u, w, k, q
<1>8. q * T \in Int /\ (q + 1) * T \in Int
    BY <1>1, <1>6
<1>9. q * T <= p
    BY <1>2, <1>4, <1>6, <1>8
<1>10. q <= k
    BY <1>1, <1>2, <1>5, <1>6, <1>9, NoLess
<1>11. p < (q + 1) * T + U
    BY <1>1, <1>2, <1>4, <1>6, <1>8
<1>12. k \in 0..MapSize - 1
    BY DEF k, T
<1> QED
    BY <1>1, <1>6, <1>7, <1>9, <1>10, <1>11, <1>12 DEF T, U

-----------------------------------------------------------------------------
(* The inductive invariant.                                                *)

\* The tile of a cell when m is in the middle, and the turn it is set in.
TileAt(m, c) == <<m[1] - 1 + c[2], m[2] - 1 + c[1]>>
Turn(c) == 3 * c[1] + c[2]

CacheInv ==
    /\ stage = mapTileCache
    /\ IsFiniteSet(mapTileCache) /\ Cardinality(mapTileCache) <= CacheSize

OpenInv ==
    /\ ~isOpen => mapTileCache = {} /\ curMaptile = NoTiles /\ entering = None /\ ~settled
    /\ entering = None => filled = 0
    /\ entering # None => OkTile(entering)

\* What was set for the new middle and is to be kept is in the cache.
EnterInv ==
    entering # None =>
        \A c \in Kept : Turn(c) < filled =>
            curMaptile[c] = TileAt(entering, c) /\ curMaptile[c] \in mapTileCache

\* The first tiles are asked for until the camera was off the map.
AskedInv == Idle /\ Middle = None => loading \/ missed

\* The tile that is computed for the camera.
Under == <<TileUnder(camera[1]), TileUnder(camera[2])>>

\* After an Update the camera is over the middle tile, or at least this is the
\* one that would be entered.
SettledInv ==
    isOpen /\ settled /\ wdtLoaded /\ ~missed =>
        IF entering # None THEN entering = Under
        ELSE Middle # None /\ (OutsideMiddle /\ OkTile(Under) => Middle = Under)

IInv == TypeOK /\ CacheInv /\ OpenInv /\ EnterInv /\ AskedInv /\ SettledInv /\ KeptShown

LEMMA NoneIsNoTile == None \notin Int \X Int /\ None \notin Tiles
<1>1. Tiles \subseteq Int \X Int
    BY WorldManagerAssumption DEF Tiles
<1> QED
    BY <1>1, WorldManagerAssumption

LEMMA OkTiles == \A t : OkTile(t) => t \in Tiles /\ t \in Int \X Int /\ t # None
    BY NoneIsNoTile, WorldManagerAssumption DEF OkTile, Tiles

LEMMA Initially == Init => IInv
<1> SUFFICES ASSUME Init PROVE IInv
    OBVIOUS
<1>1. TypeOK
    <2>1. NoTiles \in [Cells -> Tiles \cup {None}]
        BY DEF NoTiles
    <2>2. 0 \in 0..8 /\ 0 \in 0..MaxCrossings
        BY WorldManagerAssumption
    <2> QED
        BY <2>1, <2>2 DEF Init, TypeOK
<1>2. CacheInv
    BY FS_EmptySet, WorldManagerAssumption DEF Init, CacheInv
<1> QED
    BY <1>1, <1>2 DEF Init, IInv, OpenInv, EnterInv, AskedInv, SettledInv, KeptShown, Idle

-----------------------------------------------------------------------------
(* The steps of the program.                                               *)

LEMMA InvOpen ==
    ASSUME IInv, Open
    PROVE  IInv'
<1> USE DEF tileVars, enterVars
<1>1. /\ ~isOpen /\ isOpen' = TRUE /\ loading' = TRUE /\ missed' = FALSE
      /\ UNCHANGED <<wdtLoaded, camera, tileVars, enterVars, settled, crossings>>
    BY DEF Open
<1>2. TypeOK'
    BY <1>1 DEF IInv, TypeOK
<1>3. CacheInv' /\ OpenInv' /\ EnterInv'
    BY <1>1 DEF IInv, CacheInv, OpenInv, EnterInv
<1>4. AskedInv' /\ SettledInv'
    BY <1>1 DEF IInv, OpenInv, AskedInv, SettledInv
<1>5. KeptShown'
    <2>1. Middle' = None
        BY <1>1 DEF IInv, OpenInv, Middle, NoTiles, Cells
    <2> QED
        BY <2>1 DEF KeptShown
<1> QED
    BY <1>2, <1>3, <1>4, <1>5 DEF IInv

LEMMA InvLoadWorld ==
    ASSUME IInv, LoadWorld
    PROVE  IInv'
<1> USE DEF tileVars, enterVars, walkVars
<1>1. /\ Idle /\ wdtLoaded' = TRUE /\ settled' = FALSE
      /\ UNCHANGED <<isOpen, loading, camera, tileVars, enterVars, walkVars>>
    BY DEF LoadWorld
<1>2. TypeOK'
    BY <1>1 DEF IInv, TypeOK
<1>3. CacheInv' /\ OpenInv' /\ EnterInv'
    BY <1>1 DEF IInv, CacheInv, OpenInv, EnterInv
<1>4. AskedInv' /\ SettledInv' /\ KeptShown'
    BY <1>1 DEF IInv, AskedInv, SettledInv, KeptShown, Idle, Middle
<1> QED
    BY <1>2, <1>3, <1>4 DEF IInv

LEMMA InvMove ==
    ASSUME IInv, Move
    PROVE  IInv'
<1> USE DEF tileVars, enterVars, walkVars
<1>1. /\ camera' \in Places \X Places /\ settled' = FALSE
      /\ UNCHANGED <<isOpen, wdtLoaded, loading, tileVars, enterVars, walkVars>>
    BY DEF Move
<1>2. TypeOK'
    BY <1>1 DEF IInv, TypeOK
<1>3. CacheInv' /\ OpenInv' /\ EnterInv'
    BY <1>1 DEF IInv, CacheInv, OpenInv, EnterInv
<1>4. AskedInv' /\ SettledInv' /\ KeptShown'
    BY <1>1 DEF IInv, AskedInv, SettledInv, KeptShown, Idle, Middle
<1> QED
    BY <1>2, <1>3, <1>4 DEF IInv

LEMMA InvClose ==
    ASSUME IInv, Close
    PROVE  IInv'
<1> USE DEF enterVars, walkVars
<1>1. /\ entering = None /\ isOpen' = FALSE /\ wdtLoaded' = FALSE
      /\ stage' = stage \ mapTileCache
      /\ mapTileCache' = {} /\ curMaptile' = NoTiles /\ settled' = FALSE
      /\ UNCHANGED <<loading, camera, enterVars, walkVars>>
    BY DEF Close, Idle
<1>2. TypeOK'
    BY <1>1 DEF IInv, TypeOK, NoTiles
<1>3. CacheInv'
    BY <1>1, FS_EmptySet, WorldManagerAssumption DEF IInv, CacheInv
<1>4. OpenInv' /\ EnterInv'
    BY <1>1 DEF IInv, OpenInv, EnterInv
<1>5. AskedInv' /\ SettledInv' /\ KeptShown'
    BY <1>1 DEF AskedInv, SettledInv, KeptShown, Idle
<1> QED
    BY <1>2, <1>3, <1>4, <1>5 DEF IInv

\* An Update that asks for nothing, enters a tile, or finds the camera off the map.
LEMMA InvUpdate ==
    ASSUME IInv, Update
    PROVE  IInv'
<1> USE DEF tileVars, walkVars
<1>1. /\ isOpen /\ entering = None /\ settled' = TRUE
      /\ UNCHANGED <<isOpen, wdtLoaded, camera, tileVars, filled>>
    BY DEF Update, Idle
<1> DEFINE Wanted == IF Middle = None THEN loading ELSE OutsideMiddle
<1>2. /\ Middle' = Middle /\ Under' = Under
      /\ OutsideMiddle' <=> OutsideMiddle
    BY <1>1 DEF Middle, Under, OutsideMiddle
<1>3. \/ (~wdtLoaded \/ ~Wanted) /\ UNCHANGED <<entering, loading, walkVars>>
      \/ wdtLoaded /\ Wanted /\ OkTile(Under) /\ entering' = Under /\ loading' = FALSE
            /\ (Under # Middle => crossings < MaxCrossings)
            /\ crossings' = (IF Under = Middle THEN crossings ELSE crossings + 1)
            /\ missed' = missed
      \/ wdtLoaded /\ Wanted /\ ~OkTile(Under) /\ loading' = FALSE
            /\ missed' = (missed \/ Middle = None)
            /\ UNCHANGED <<entering, crossings>>
    BY DEF Update, Go, EnterTile, Under
<1>4. CacheInv'
    BY <1>1 DEF IInv, CacheInv
<1>5. filled = 0 /\ \A c \in Kept : ~(Turn(c) < filled)
    BY <1>1 DEF IInv, OpenInv, Kept, Turn
<1>6. EnterInv'
    BY <1>1, <1>5 DEF EnterInv
<1>7. CASE (~wdtLoaded \/ ~Wanted) /\ UNCHANGED <<entering, loading, walkVars>>
    <2>1. TypeOK' /\ OpenInv'
        BY <1>1, <1>7 DEF IInv, TypeOK, OpenInv
    <2>2. AskedInv' /\ KeptShown'
        BY <1>1, <1>2, <1>7 DEF IInv, AskedInv, KeptShown, Idle
    <2>3. SettledInv'
        BY <1>1, <1>2, <1>7 DEF IInv, AskedInv, SettledInv, Idle
    <2> QED
        BY <1>4, <1>6, <2>1, <2>2, <2>3 DEF IInv
<1>8. CASE wdtLoaded /\ Wanted /\ OkTile(Under) /\ entering' = Under /\ loading' = FALSE
            /\ (Under # Middle => crossings < MaxCrossings)
            /\ crossings' = (IF Under = Middle THEN crossings ELSE crossings + 1)
            /\ missed' = missed
    <2>1. Under \in Tiles /\ Under # None
        BY <1>8, OkTiles
    <2>2. crossings' \in 0..MaxCrossings
        BY <1>8, WorldManagerAssumption DEF IInv, TypeOK
    <2>3. TypeOK'
        BY <1>1, <1>8, <2>1, <2>2 DEF IInv, TypeOK
    <2>4. OpenInv'
        BY <1>1, <1>8, <2>1 DEF OpenInv
    <2>5. AskedInv' /\ KeptShown'
        BY <1>8, <2>1 DEF AskedInv, KeptShown, Idle
    <2>6. SettledInv'
        BY <1>2, <1>8, <2>1 DEF SettledInv
    <2> QED
        BY <1>4, <1>6, <2>3, <2>4, <2>5, <2>6 DEF IInv
<1>9. CASE wdtLoaded /\ Wanted /\ ~OkTile(Under) /\ loading' = FALSE
            /\ missed' = (missed \/ Middle = None)
            /\ UNCHANGED <<entering, crossings>>
    <2>1. TypeOK' /\ OpenInv'
        BY <1>1, <1>9 DEF IInv, TypeOK, OpenInv
    <2>2. AskedInv' /\ KeptShown'
        BY <1>1, <1>2, <1>9 DEF IInv, AskedInv, KeptShown, Idle
    <2>3. SettledInv'
        BY <1>1, <1>2, <1>9 DEF SettledInv
    <2> QED
        BY <1>4, <1>6, <2>1, <2>2, <2>3 DEF IInv
<1> QED
    BY <1>3, <1>7, <1>8, <1>9

\* The tile of a cell to be kept is within two steps of those set after it.
LEMMA KeptAreNear ==
    ASSUME NEW m \in Int \X Int, NEW c \in Kept, NEW d \in Cells, Turn(c) < Turn(d)
    PROVE  Distance(TileAt(m, c), TileAt(m, d)) < 3
<1>1. d \in {<<0, 0>>, <<0, 1>>, <<0, 2>>, <<1, 0>>, <<1, 1>>, <<1, 2>>, <<2, 0>>, <<2, 1>>, <<2, 2>>}
    BY DEF Cells
<1>2. \/ c = <<1, 1>> /\ d \in {<<1, 2>>, <<2, 0>>, <<2, 1>>, <<2, 2>>}
      \/ c = <<2, 0>> /\ d \in {<<2, 1>>, <<2, 2>>}
      \/ c = <<2, 1>> /\ d = <<2, 2>>
    BY <1>1 DEF Kept, Turn
<1>3. /\ m[1] \in Int /\ m[2] \in Int
      /\ c[1] \in Int /\ c[2] \in Int /\ d[1] \in Int /\ d[2] \in Int
      /\ Abs(c[1] - d[1]) + Abs(c[2] - d[2]) < 3
    BY <1>2 DEF Abs
<1>4. /\ TileAt(m, c)[1] - TileAt(m, d)[1] = c[2] - d[2]
      /\ TileAt(m, c)[2] - TileAt(m, d)[2] = c[1] - d[1]
    BY <1>3 DEF TileAt
<1> QED
    BY <1>3, <1>4 DEF Distance, Abs

\* The cells in the order in which they are set.
LEMMA TurnOfCell ==
    ASSUME NEW n \in 0..8, NEW q, NEW r, q = n \div 3, r = n % 3
    PROVE  /\ <<q, r>> \in Cells /\ Turn(<<q, r>>) = n
           /\ \A c \in Cells : Turn(c) = n => c = <<q, r>>
<1>1. \/ n \in 0..2 /\ q = 0 /\ r = n
      \/ n \in 3..5 /\ q = 1 /\ r = n - 3
      \/ n \in 6..8 /\ q = 2 /\ r = n - 6
    <2>1. CASE n \in 0..2
        BY <2>1
    <2>2. CASE n \in 3..5
        BY <2>2
    <2>3. CASE n \in 6..8
        BY <2>3
    <2> QED
        BY <2>1, <2>2, <2>3
<1>2. q \in 0..2 /\ r \in 0..2 /\ 3 * q + r = n
    BY ONLY <1>1
<1>3. ASSUME NEW c \in Cells, Turn(c) = n PROVE c = <<q, r>>
    <2>1. c[1] \in 0..2 /\ c[2] \in 0..2 /\ 3 * c[1] + c[2] = n /\ c = <<c[1], c[2]>>
        BY <1>3 DEF Cells, Turn
    <2>2. c[1] = q /\ c[2] = r
        BY ONLY <1>2, <2>1
    <2> QED
        BY ONLY <2>1, <2>2
<1>4. <<q, r>> \in Cells /\ Turn(<<q, r>>) = n
    BY ONLY <1>2 DEF Cells, Turn
<1> QED
    BY <1>3, <1>4

LEMMA InvLoadTile ==
    ASSUME IInv, LoadTile
    PROVE  IInv'
<1> USE DEF walkVars
<1> DEFINE d == <<filled \div 3, filled % 3>>
           t == <<entering[1] - 1 + d[2], entering[2] - 1 + d[1]>>
<1>1. /\ entering # None
      /\ curMaptile' = [curMaptile EXCEPT ![d] = t]
      /\ IF t \in mapTileCache THEN UNCHANGED <<mapTileCache, stage>> ELSE Load(t)
      /\ filled' = (filled + 1) % 9
      /\ entering' = (IF filled = 8 THEN None ELSE entering)
      /\ UNCHANGED <<isOpen, wdtLoaded, loading, camera, settled, walkVars>>
    BY DEF LoadTile
<1>2. filled \in 0..8 /\ OkTile(entering) /\ isOpen
    BY <1>1 DEF IInv, TypeOK, OpenInv
<1>3. d \in Cells /\ Turn(d) = filled /\ \A c \in Cells : Turn(c) = filled => c = d
    BY <1>2, TurnOfCell
<1>4. t = TileAt(entering, d)
    BY DEF TileAt
<1> HIDE DEF d, t
<1>5. entering \in Int \X Int /\ t \in Tiles /\ t \in Int \X Int /\ t # None
    <2>1. /\ entering[1] \in 0..MapSize - 1 /\ entering[2] \in 0..MapSize - 1
          /\ d[1] \in 0..2 /\ d[2] \in 0..2 /\ MapSize \in Nat \ {0}
        BY <1>2, <1>3, WorldManagerAssumption DEF OkTile, Cells
    <2>2. t \in Tiles
        BY <1>4, <2>1 DEF TileAt, Tiles
    <2>3. Tiles \subseteq Int \X Int
        BY WorldManagerAssumption DEF Tiles
    <2> QED
        BY <1>2, <2>2, <2>3, NoneIsNoTile, OkTiles
<1>6. /\ mapTileCache \in SUBSET Tiles /\ mapTileCache \in SUBSET (Int \X Int)
      /\ stage = mapTileCache
      /\ IsFiniteSet(mapTileCache) /\ Cardinality(mapTileCache) <= CacheSize
      /\ Cardinality(mapTileCache) \in Nat
    <2>1. Tiles \subseteq Int \X Int
        BY WorldManagerAssumption DEF Tiles
    <2> QED
        BY <2>1, FS_CardinalityType DEF IInv, TypeOK, CacheInv
\* Nothing near the new tile leaves the cache.
<1>7. /\ stage' = mapTileCache' /\ t \in mapTileCache' /\ mapTileCache' \in SUBSET Tiles
      /\ IsFiniteSet(mapTileCache') /\ Cardinality(mapTileCache') <= CacheSize
      /\ \A s \in mapTileCache : Distance(s, t) < 3 => s \in mapTileCache'
    <2>1. CASE t \in mapTileCache
        BY <1>1, <1>6, <2>1
    <2>2. CASE t \notin mapTileCache
        <3>1. PICK gone \in ThrownOut(t) :
                    /\ mapTileCache' = (mapTileCache \ gone) \cup {t}
                    /\ stage' = (stage \ gone) \cup {t}
            BY <1>1, <2>2 DEF Load
        <3>2. \A s \in gone : Distance(s, t) >= 3
            BY <1>5, <1>6, FarIsThrownOut
        <3>3. \A s \in mapTileCache : Distance(s, t) \in Int
            BY <1>5, <1>6 DEF Distance, Abs
        <3>4. \A s \in mapTileCache : Distance(s, t) < 3 => s \in mapTileCache'
            BY <3>1, <3>2, <3>3
        <3>5. IsFiniteSet(mapTileCache \ gone) /\ Cardinality(mapTileCache \ gone) + 1 <= CacheSize
            <4>1. CASE Cardinality(mapTileCache) < CacheSize
                <5>1. mapTileCache \ gone = mapTileCache
                    BY <4>1 DEF ThrownOut
                <5> QED
                    BY <1>6, <4>1, <5>1, WorldManagerAssumption
            <4>2. CASE ~(Cardinality(mapTileCache) < CacheSize)
                <5>1. PICK s \in mapTileCache : gone = {s}
                    BY <4>2 DEF ThrownOut
                <5>2. /\ IsFiniteSet(mapTileCache \ {s})
                      /\ Cardinality(mapTileCache \ {s}) = Cardinality(mapTileCache) - 1
                    BY <1>6, <5>1, FS_RemoveElement
                <5> QED
                    BY <1>6, <5>1, <5>2, WorldManagerAssumption
            <4> QED
                BY <4>1, <4>2
        <3> DEFINE rest == mapTileCache \ gone
        <3>6. t \notin rest
            BY <2>2
        <3>7. IsFiniteSet(rest) /\ Cardinality(rest) + 1 <= CacheSize
            BY <3>5
        <3>8. mapTileCache' = rest \cup {t}
            BY <3>1
        <3> HIDE DEF rest
        <3>9. IsFiniteSet(mapTileCache') /\ Cardinality(mapTileCache') <= CacheSize
            BY <3>6, <3>7, <3>8, FS_AddElement
        <3> QED
            BY <1>5, <1>6, <3>1, <3>4, <3>9
    <2> QED
        BY <2>1, <2>2
<1>8. /\ curMaptile' \in [Cells -> Tiles \cup {None}] /\ curMaptile'[d] = t
      /\ \A c \in Cells : c # d => curMaptile'[c] = curMaptile[c]
    BY <1>1, <1>3, <1>5 DEF IInv, TypeOK
<1>9. /\ filled < 8 => filled' = filled + 1 /\ entering' = entering
      /\ filled = 8 => filled' = 0 /\ entering' = None
    BY <1>1, <1>2
<1>10. TypeOK'
    <2>1. filled' \in 0..8 /\ entering' \in Tiles \cup {None}
        BY <1>2, <1>9 DEF IInv, TypeOK
    <2> QED
        BY <1>1, <1>7, <1>8, <2>1 DEF IInv, TypeOK
<1>11. CacheInv'
    BY <1>7 DEF CacheInv
<1>12. OpenInv'
    BY <1>1, <1>2, <1>9 DEF OpenInv
\* So far everything to be kept is in the cache, the new tile included.
<1>13. \A c \in Kept : Turn(c) < filled + 1 =>
            curMaptile'[c] = TileAt(entering, c) /\ curMaptile'[c] \in mapTileCache'
    <2> SUFFICES ASSUME NEW c \in Kept, Turn(c) < filled + 1
                 PROVE  curMaptile'[c] = TileAt(entering, c) /\ curMaptile'[c] \in mapTileCache'
        OBVIOUS
    <2>1. c \in Cells /\ Turn(c) \in Int
        BY DEF Kept, Cells, Turn
    <2>2. CASE Turn(c) = filled
        BY <1>3, <1>4, <1>7, <1>8, <2>1, <2>2
    <2>3. CASE Turn(c) # filled
        <3>1. Turn(c) < filled
            BY <1>2, <2>1, <2>3
        <3>2. curMaptile[c] = TileAt(entering, c) /\ curMaptile[c] \in mapTileCache
            BY <1>1, <3>1 DEF IInv, EnterInv
        <3>3. Distance(TileAt(entering, c), TileAt(entering, d)) < 3
            BY <1>3, <1>5, <3>1, KeptAreNear
        <3>4. curMaptile'[c] = curMaptile[c]
            BY <1>3, <1>8, <2>1, <2>3
        <3> QED
            BY <1>4, <1>7, <3>2, <3>3, <3>4
    <2> QED
        BY <2>2, <2>3
<1>14. CASE filled < 8
    <2>1. entering' = entering /\ filled' = filled + 1
        BY <1>9, <1>14
    <2>2. EnterInv'
        BY <1>13, <2>1 DEF EnterInv
    <2>3. AskedInv' /\ KeptShown'
        BY <1>1, <2>1 DEF AskedInv, KeptShown, Idle
    <2>4. SettledInv'
        BY <1>1, <2>1 DEF IInv, SettledInv, Under
    <2> QED
        BY <1>10, <1>11, <1>12, <2>2, <2>3, <2>4 DEF IInv
<1>15. CASE filled = 8
    <2>1. entering' = None
        BY <1>9, <1>15
    <2>2. EnterInv'
        BY <2>1 DEF EnterInv
    <2>3. \A c \in Kept : curMaptile'[c] = TileAt(entering, c) /\ curMaptile'[c] \in mapTileCache'
        <3>1. \A c \in Kept : Turn(c) < 9
            BY DEF Kept, Turn
        <3> QED
            BY <1>13, <1>15, <3>1
    <2>4. Middle' = entering
        <3>1. <<1, 1>> \in Kept
            BY DEF Kept
        <3>2. Middle' = TileAt(entering, <<1, 1>>)
            BY <2>3, <3>1 DEF Middle
        <3>3. TileAt(entering, <<1, 1>>) = <<entering[1], entering[2]>>
            BY <1>5 DEF TileAt
        <3> QED
            BY <1>5, <3>2, <3>3
    <2>5. KeptShown'
        BY <1>7, <2>3 DEF KeptShown
    <2>6. AskedInv'
        BY <1>1, <2>4 DEF AskedInv
    <2>7. SettledInv'
        BY <1>1, <2>1, <2>4 DEF IInv, SettledInv, Under
    <2> QED
        BY <1>10, <1>11, <1>12, <2>2, <2>5, <2>6, <2>7 DEF IInv
<1> QED
    BY <1>2, <1>14, <1>15

-----------------------------------------------------------------------------
(* The invariant and what follows from it.                                 *)

LEMMA Inductive == IInv /\ [Next]_vars => IInv'
<1> SUFFICES ASSUME IInv, [Next]_vars PROVE IInv'
    OBVIOUS
<1>1. CASE UNCHANGED vars
    <2>1. UNCHANGED <<isOpen, wdtLoaded, loading, camera, curMaptile, mapTileCache, stage,
                      entering, filled, settled, crossings, missed>>
        BY <1>1 DEF vars, tileVars, enterVars, walkVars
    <2>2. TypeOK'
        BY <2>1 DEF IInv, TypeOK
    <2>3. CacheInv' /\ OpenInv' /\ EnterInv'
        BY <2>1 DEF IInv, CacheInv, OpenInv, EnterInv
    <2>4. AskedInv' /\ SettledInv' /\ KeptShown'
        BY <2>1 DEF IInv, AskedInv, SettledInv, KeptShown, Idle, Middle, Under, OutsideMiddle
    <2> QED
        BY <2>2, <2>3, <2>4 DEF IInv
<1> QED
    BY <1>1, InvOpen, InvLoadWorld, InvMove, InvUpdate, InvLoadTile, InvClose DEF Next

LEMMA Invariant == Spec => []IInv
    BY Initially, Inductive, PTL DEF Spec

\* The entities on the stage are those in the cache, which never holds more
\* than it has room for, and both are empty after the manager has been closed.
THEOREM StageIsCache == Spec => []Consistent
<1>1. IInv => Consistent
    BY DEF IInv, CacheInv, OpenInv, Consistent
<1> QED
    BY <1>1, Invariant, PTL

\* Wherever the camera jumps, the middle tile and the last row of the nine are
\* on the stage when EnterTile has set them all.
THEOREM KeptAreShown == Spec => []KeptShown
<1>1. IInv => KeptShown
    BY DEF IInv
<1> QED
    BY <1>1, Invariant, PTL

LEMMA IInvGroundShown == IInv => GroundShown
<1> SUFFICES ASSUME IInv, Idle, settled, wdtLoaded, ~missed, OkTile(Over)
             PROVE  \E t \in stage : HardlyOff(t)
    BY DEF GroundShown
<1>1. /\ camera[1] \in Int /\ camera[1] \div TileSize \in 0..MapSize - 1
      /\ camera[2] \in Int /\ camera[2] \div TileSize \in 0..MapSize - 1
    <2>1. camera \in Int \X Int
        BY WorldManagerAssumption DEF IInv, TypeOK
    <2> QED
        BY <2>1 DEF OkTile, Over
<1>2. \A a \in 1..2 : /\ TileUnder(camera[a]) \in 0..MapSize - 1
                      /\ TileUnder(camera[a]) * TileSize <= camera[a]
                      /\ camera[a] < (TileUnder(camera[a]) + 1) * TileSize + UnitSize
    <2>1. /\ TileUnder(camera[1]) \in 0..MapSize - 1
          /\ TileUnder(camera[1]) * TileSize <= camera[1]
          /\ camera[1] < (TileUnder(camera[1]) + 1) * TileSize + UnitSize
        BY <1>1, TruncatedTile
    <2>2. /\ TileUnder(camera[2]) \in 0..MapSize - 1
          /\ TileUnder(camera[2]) * TileSize <= camera[2]
          /\ camera[2] < (TileUnder(camera[2]) + 1) * TileSize + UnitSize
        BY <1>1, TruncatedTile
    <2> QED
        BY <2>1, <2>2
<1>3. OkTile(Under)
    BY <1>2 DEF OkTile, Under
<1>4. HardlyOff(Under)
    <2>1. \A a \in 1..2 : Under[a] = TileUnder(camera[a])
        BY DEF Under
    <2> QED
        BY <1>2, <2>1 DEF HardlyOff
<1>5. Middle # None /\ (OutsideMiddle => Middle = Under)
    BY <1>3 DEF IInv, SettledInv, Idle
<1>6. Middle \in stage /\ Middle \in Int \X Int
    <2>1. Middle \in stage
        BY <1>5 DEF IInv, KeptShown, Kept, Middle
    <2>2. Tiles \subseteq Int \X Int
        BY WorldManagerAssumption DEF Tiles
    <2> QED
        BY <2>1, <2>2 DEF IInv, TypeOK
<1>7. ASSUME ~OutsideMiddle PROVE HardlyOff(Middle)
    <2> SUFFICES ASSUME NEW a \in 1..2
                 PROVE  Middle[a] * TileSize <= camera[a] /\ camera[a] < (Middle[a] + 1) * TileSize + UnitSize
        BY DEF HardlyOff
    <2>1. /\ Middle[a] \in Int /\ camera[a] \in Int
          /\ TileSize \in Nat \ {0} /\ UnitSize \in Nat \ {0}
        BY <1>1, <1>6, WorldManagerAssumption
    <2>2. ~(camera[a] < Middle[a] * TileSize) /\ ~(camera[a] > (Middle[a] + 1) * TileSize)
        BY <1>7 DEF OutsideMiddle
    <2>3. Middle[a] * TileSize \in Int /\ (Middle[a] + 1) * TileSize \in Int
        BY <2>1
    <2> QED
        BY <2>1, <2>2, <2>3
<1> QED
    BY <1>4, <1>5, <1>6, <1>7

\* After an Update the middle tile, which is on the stage, is under the camera
\* or less than a unit away, for every size of a tile and of a unit.
THEOREM GroundIsShown == Spec => []GroundShown
    BY Invariant, IInvGroundShown, PTL
=============================================================================
