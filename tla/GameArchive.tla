----------------------------- MODULE GameArchive -----------------------------
(***************************************************************************)
(* What saving and loading promise, without files, copies, transactions and *)
(* the order of their steps: a save game is the game as it is when the save *)
(* is asked for, and nothing but the next save of its slot touches it; a    *)
(* load puts a save game into memory.  A crash ends the game, and a save it *)
(* interrupts may cost the save game of its slot.  It may also ruin one     *)
(* load: the next one.                                                      *)
(***************************************************************************)
CONSTANTS
    Slots, NoSlot,      \* the names of save games, and none
    Contents,           \* what a game can be like
    ShippedContent,     \* a new game
    Damaged,            \* a file of which only a part is there
    NoFile, NoGame

VARIABLES
    game,       \* the game in memory
    archive,    \* the save games
    saving,     \* the slot that is being saved
    tainted     \* the next game to be opened may be damaged

vars == <<game, archive, saving, tainted>>

Init ==
    /\ game = NoGame
    /\ archive = [s \in Slots |-> NoFile]
    /\ saving = NoSlot
    /\ tainted = FALSE

Playing == game # NoGame /\ saving = NoSlot

New ==
    /\ game = NoGame
    /\ game' = ShippedContent
    /\ UNCHANGED <<archive, saving, tainted>>

Play ==
    /\ Playing
    /\ game' \in Contents
    /\ UNCHANGED <<archive, saving, tainted>>

\* What is in memory then is the content of the file, unless that has been ruined.
Open(content) ==
    /\ Playing
    /\ game' = content \/ (tainted /\ game' = Damaged)
    /\ tainted' = FALSE
    /\ UNCHANGED <<archive, saving>>

Load(s) == archive[s] # NoFile /\ Open(archive[s])

Restart == Open(ShippedContent)

Save(s) ==
    /\ Playing
    /\ saving' = s
    /\ UNCHANGED <<game, archive, tainted>>

\* The old save game goes before the new one is complete.
Overwrite ==
    /\ saving # NoSlot
    /\ \E rest \in {NoFile, Damaged} : archive' = [archive EXCEPT ![saving] = rest]
    /\ UNCHANGED <<game, saving, tainted>>

Finish ==
    /\ saving # NoSlot
    /\ archive' = [archive EXCEPT ![saving] = game]
    /\ saving' = NoSlot
    /\ UNCHANGED <<game, tainted>>

Leave ==
    /\ Playing
    /\ game' = NoGame
    /\ UNCHANGED <<archive, saving, tainted>>

Crash ==
    /\ game # NoGame
    /\ game' = NoGame /\ saving' = NoSlot
    /\ tainted' \in BOOLEAN
    /\ UNCHANGED archive

Next ==
    \/ New \/ Play \/ Restart \/ Leave \/ Crash
    \/ \E s \in Slots : Load(s) \/ Save(s)
    \/ Overwrite \/ Finish

Spec == Init /\ [][Next]_vars
=============================================================================
