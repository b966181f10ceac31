------------------------------ MODULE SaveGames ------------------------------
(***************************************************************************)
(* The files of a game: world.db4, which is played on, and the save games. *)
(* BaseGameFeatureUnit and Db::DbServer, driven by GameStateHandler and by  *)
(* the game (F5 and F8 at the end of a frame), on a process that can die    *)
(* between any two of their steps and is then started again.                *)
(*                                                                         *)
(* What a file holds is three moments of play: the one its instance rows,  *)
(* its deleted rows and its _Globals table are from.  A file of which only  *)
(* a part is there, or a mixture of two files, is Damaged.  Attributes set  *)
(* by SetInt and its like, which a commit may leave out, are the subject of *)
(* Instances and not of this module.                                        *)
(***************************************************************************)
EXTENDS Naturals, SequencesExt

CONSTANTS
    Slots,              \* the names of save games; F5 and F8 use one of them
    Shipped,            \* stands for export:db/game.db4 where a slot is named
    NoFile,             \* the file does not exist
    NoGame,             \* no game feature, or nothing kept
    Unknown,            \* the moment of a damaged part
    MaxMoment           \* bound: moments of play

VARIABLES
    running,            \* "down", "menu" (no game feature) or "playing"
    open,               \* DbServer::IsGameDatabaseOpen
    todo,               \* the steps the running operation still has to take
    slot,               \* the save game it works on, or Shipped
    memory,             \* the game in memory
    world,              \* world.db4
    journal,            \* world.db4-journal is there, left by a crash
    saves,              \* the save games
    now,                \* the last moment of play
    kept,               \* history: what the last completed save of a slot saved
    writing,            \* history: what a save of the slot not completed saves
    rolledBack,         \* history: a journal was rolled back into the open world
    loaded              \* history: the last step completed a load

files == <<world, journal, saves>>
history == <<kept, writing, rolledBack>>
vars == <<running, open, todo, slot, memory, files, now, history, loaded>>

Moments == 0..MaxMoment \cup {Unknown}
Contents == [attrs : Moments, deletes : Moments, globals : Moments \cup {NoFile}]
ShippedContent == [attrs |-> 0, deletes |-> 0, globals |-> 0]
Damaged == [attrs |-> Unknown, deletes |-> Unknown, globals |-> Unknown]
Games == [own : Moments, attrs : Moments, deletes : Moments, globals : Moments \cup {NoFile}]

ASSUME SaveGamesAssumption ==
    /\ Shipped \notin Slots /\ MaxMoment \in Nat
    /\ NoFile \notin Contents /\ NoGame \notin Contents \cup Games

\* own is what properties keep outside of the attributes until OnSave.
InMemory(c) == [own |-> c.attrs, attrs |-> c.attrs, deletes |-> c.deletes, globals |-> c.globals]
Snapshot == [attrs |-> memory.own, deletes |-> memory.deletes, globals |-> memory.globals]

Source == IF slot = Shipped THEN ShippedContent ELSE saves[slot]

Init ==
    /\ running = "down" /\ open = FALSE /\ todo = <<>> /\ slot = Shipped /\ memory = NoGame
    /\ world = NoFile /\ journal = FALSE /\ saves = [s \in Slots |-> NoFile]
    /\ now = 0
    /\ kept = [s \in Slots |-> NoGame] /\ writing = [s \in Slots |-> NoGame]
    /\ rolledBack = FALSE /\ loaded = FALSE

-----------------------------------------------------------------------------
(* The operations and their steps, in the order of the code.               *)

\* Mutant: the copy is made before the instances are committed.
BackUp_CopiedFirst ==
    <<"NotifyGameSave", "DropGlobals", "WriteGlobals",
      "DeleteSave", "BeginCopySave", "EndCopySave", "CommitChanges">>

\* Mutant: the old save game is deleted first.
BackUp_DeletedFirst ==
    <<"DeleteSave", "NotifyGameSave", "DropGlobals", "WriteGlobals",
      "CommitChanges", "BeginCopySave", "EndCopySave">>

\* SaveGame.
BackUp ==
    <<"NotifyGameSave", "DropGlobals", "WriteGlobals",
      "CommitChanges", "DeleteSave", "BeginCopySave", "EndCopySave">>

\* OpenNewGame and what NewGame and LoadLevel do next.
Replace == <<"CloseDb", "DeleteWorld", "BeginCopyWorld", "EndCopyWorld", "OpenDb", "LoadWorld">>

\* LoadGame and OpenLoadGame.
Load ==
    <<"CleanupWorld", "CloseDb", "FindSave", "DeleteWorld",
      "BeginCopyWorld", "EndCopyWorld", "OpenDb", "LoadWorld">>

\* Steps that are a transaction of the game database.
Transactions == {"DropGlobals", "WriteGlobals", "CommitChanges", "DeleteRows"}

Idle == running = "playing" /\ todo = <<>>
At(step) == todo # <<>> /\ Head(todo) = step
Step(step) == At(step) /\ todo' = Tail(todo) /\ UNCHANGED <<running, slot, now>>

\* The process ends, by a crash or a failed assertion.
Die ==
    /\ running' = "down" /\ open' = FALSE /\ todo' = <<>> /\ slot' = Shipped
    /\ memory' = NoGame
    /\ UNCHANGED <<world, saves, now, history>>

Start ==
    /\ running = "down" /\ running' = "menu"
    /\ UNCHANGED <<open, todo, slot, memory, files, now, history>>

\* GameStateHandler::OnStateEnter, per setup mode; an empty world has no game
\* database.
Enter(steps, s) ==
    /\ running = "menu"
    /\ running' = "playing" /\ todo' = steps /\ slot' = s
    /\ memory' = InMemory(ShippedContent)
    /\ UNCHANGED <<open, files, now, history>>

\* ContinueGame asserts CurrentGameExists, which asks whether the profile
\* directory is a file.
ContinueGame == running = "menu" /\ Die /\ UNCHANGED journal

\* OnStateLeave: CleanupWorld writes nothing to the database, and removing the
\* feature closes it.
Leave ==
    /\ Idle
    /\ running' = "menu" /\ open' = FALSE /\ slot' = Shipped /\ memory' = NoGame
    /\ UNCHANGED <<todo, files, now, history>>

\* SaveGame by the game; without a game database it dereferences null.
SaveGame(s) ==
    /\ Idle
    /\ \/ /\ ~open /\ Die /\ UNCHANGED journal
       \/ /\ open
          /\ todo' = BackUp /\ slot' = s
          /\ writing' = [writing EXCEPT ![s] = Snapshot]
          /\ UNCHANGED <<running, open, memory, files, now, kept, rolledBack>>

\* LoadGame by the game.
LoadGame(s) ==
    /\ Idle
    /\ todo' = Load /\ slot' = s
    /\ UNCHANGED <<running, open, memory, files, now, history>>

\* A frame of play changes the state of properties or a global attribute, or
\* deletes an entity.
Play ==
    /\ Idle /\ open /\ now < MaxMoment
    /\ now' = now + 1
    /\ \/ todo' = todo /\ memory' = [memory EXCEPT !.own = now']
       \/ todo' = todo /\ memory' = [memory EXCEPT !.globals = now']
       \/ todo' = <<"DeleteRows">> /\ memory' = [memory EXCEPT !.deletes = now']
    /\ UNCHANGED <<running, open, slot, files, history>>

-----------------------------------------------------------------------------
(* The steps.                                                              *)

\* Properties write their state to the attributes.
NotifyGameSave ==
    /\ Step("NotifyGameSave")
    /\ memory' = [memory EXCEPT !.attrs = memory.own]
    /\ UNCHANGED <<open, files, history>>

\* The world database is written in transactions.
Write(step, content) ==
    /\ Step(step)
    /\ world' = content
    /\ UNCHANGED <<open, memory, journal, saves, history>>

DropGlobals == Write("DropGlobals", [world EXCEPT !.globals = NoFile])
WriteGlobals == Write("WriteGlobals", [world EXCEPT !.globals = memory.globals])
CommitChanges == Write("CommitChanges", [world EXCEPT !.attrs = memory.attrs])
DeleteRows == Write("DeleteRows", [world EXCEPT !.deletes = memory.deletes])

\* CreateSaveGame.
DeleteSave ==
    /\ Step("DeleteSave")
    /\ saves' = [saves EXCEPT ![slot] = NoFile]
    /\ UNCHANGED <<open, memory, world, journal, history>>

BeginCopySave ==
    /\ Step("BeginCopySave")
    /\ saves' = [saves EXCEPT ![slot] = Damaged]
    /\ UNCHANGED <<open, memory, world, journal, history>>

EndCopySave ==
    /\ Step("EndCopySave")
    /\ saves' = [saves EXCEPT ![slot] = world]
    /\ kept' = [kept EXCEPT ![slot] = writing[slot]]
    /\ writing' = [writing EXCEPT ![slot] = NoGame]
    /\ UNCHANGED <<open, memory, world, journal, rolledBack>>

\* The world is left as it is in memory, with what OnSave put into the
\* attributes, if a game database is open.
CleanupWorld ==
    /\ Step("CleanupWorld")
    /\ memory' = IF open THEN [memory EXCEPT !.attrs = memory.own] ELSE memory
    /\ UNCHANGED <<open, files, history>>

CloseDb ==
    /\ Step("CloseDb")
    /\ open' = FALSE /\ rolledBack' = FALSE
    /\ UNCHANGED <<memory, files, kept, writing>>

\* OpenLoadGame returns false if there is no such save game, and LoadGame
\* asserts that it did not.
FindSave ==
    \/ Step("FindSave") /\ saves[slot] # NoFile /\ UNCHANGED <<open, memory, files, history>>
    \/ At("FindSave") /\ saves[slot] = NoFile /\ Die /\ UNCHANGED journal

\* Only world.db4 itself is deleted.  A save that a crash interrupted is given
\* up if its slot has been damaged.
DeleteWorld ==
    /\ Step("DeleteWorld")
    /\ world' = NoFile
    /\ kept' = [s \in Slots |-> IF writing[s] = NoGame \/ saves[s] = kept[s] THEN kept[s] ELSE NoGame]
    /\ writing' = [s \in Slots |-> NoGame]
    /\ UNCHANGED <<open, memory, journal, saves, rolledBack>>

BeginCopyWorld == Write("BeginCopyWorld", Damaged)
EndCopyWorld == Write("EndCopyWorld", Source)

\* SQLite takes a journal it finds for that of the file it opens and rolls its
\* pages back into the file.
OpenDb ==
    /\ Step("OpenDb")
    /\ open' = TRUE /\ journal' = FALSE /\ rolledBack' = journal
    /\ world' \in IF journal THEN {world, Damaged} ELSE {world}
    /\ UNCHANGED <<memory, saves, kept, writing>>

\* Mutant: the global attributes of the game before are kept.
LoadWorld_OldGlobals ==
    /\ Step("LoadWorld")
    /\ memory' = [InMemory(world) EXCEPT !.globals = memory.globals]
    /\ UNCHANGED <<open, files, history>>

\* LoadAttributes, LoadInstances and OnLoad; damaged tables may be read as
\* they are or stop the program.
LoadWorld ==
    \/ /\ Step("LoadWorld")
       /\ memory' = InMemory(world)
       /\ UNCHANGED <<open, files, history>>
    \/ At("LoadWorld") /\ world = Damaged /\ Die /\ UNCHANGED journal

\* The process dies.  In a transaction it may leave a journal.
Crash ==
    /\ running # "down"
    /\ Die
    /\ \/ UNCHANGED journal
       \/ open /\ todo # <<>> /\ Head(todo) \in Transactions /\ journal' = TRUE

Calls ==
    \/ Start \/ ContinueGame \/ Leave \/ Play \/ Crash
    \/ Enter(<<>>, Shipped) \/ Enter(Replace, Shipped)
    \/ \E s \in Slots : Enter(Load, s) \/ SaveGame(s) \/ LoadGame(s)

Steps ==
    \/ NotifyGameSave \/ DropGlobals \/ WriteGlobals \/ CommitChanges \/ DeleteRows
    \/ DeleteSave \/ BeginCopySave \/ EndCopySave
    \/ CleanupWorld \/ CloseDb \/ FindSave \/ DeleteWorld
    \/ BeginCopyWorld \/ EndCopyWorld \/ OpenDb

Next ==
    \/ (Calls \/ Steps) /\ loaded' = FALSE
    \/ LoadWorld /\ loaded' = (running' = "playing")

Spec == Init /\ [][Next]_vars

-----------------------------------------------------------------------------
(* Properties.                                                             *)

\* Every variable stays in its domain, and an open database has its file.
TypeOK ==
    /\ running \in {"down", "menu", "playing"}
    /\ open \in BOOLEAN /\ journal \in BOOLEAN /\ rolledBack \in BOOLEAN /\ loaded \in BOOLEAN
    /\ slot \in Slots \cup {Shipped} /\ now \in 0..MaxMoment
    /\ world \in Contents \cup {NoFile}
    /\ saves \in [Slots -> Contents \cup {NoFile}]
    /\ kept \in [Slots -> Contents \cup {NoGame}] /\ writing \in [Slots -> Contents \cup {NoGame}]
    /\ memory \in Games \cup {NoGame}
    /\ running = "playing" <=> memory # NoGame
    /\ open => running = "playing" /\ world # NoFile

\* "This will flush all unwritten data back to the database, and make a copy of
\* the database" (basegamefeatureunit.cc:293): a save game holds the game of
\* the moment it was asked for, entities, deletions and globals alike, and no
\* later game, load, save of another slot or crash touches it.
SavedIsKept ==
    \A s \in Slots : writing[s] = NoGame /\ kept[s] # NoGame => saves[s] = kept[s]

\* Loading a save game puts the saved moment into memory, and a new game the
\* shipped one, whatever was played or interrupted before, except when a
\* journal was rolled back into the copy.
LoadedAsKept ==
    loaded /\ ~rolledBack =>
        \/ Snapshot = IF slot = Shipped THEN ShippedContent ELSE kept[slot]
        \/ slot # Shipped /\ (kept[slot] = NoGame \/ writing[slot] # NoGame)

\* CreateSaveGame deletes the old save game before it copies the new one: at
\* that time, and after a crash, the world database holds all of the new one.
\* So either the old or the new moment is on disk until the next game begins.
OneCompleteCopy ==
    \A s \in Slots : kept[s] # NoGame /\ writing[s] # NoGame =>
        saves[s] = kept[s] \/ world = writing[s]

\* No crash between two steps costs both the old and the new moment; and every
\* variable keeps its type.
Consistent == TypeOK /\ OneCompleteCopy

-----------------------------------------------------------------------------
(* Saving and loading implement their promise.                             *)

\* The step to take next, and those of SaveGame.
Pc == IF todo = <<>> THEN "none" ELSE Head(todo)
Saving == {"NotifyGameSave", "DropGlobals", "WriteGlobals",
           "CommitChanges", "DeleteSave", "BeginCopySave", "EndCopySave"}

Game == IF memory = NoGame THEN NoGame ELSE Snapshot
SavingSlot == IF Pc \in Saving THEN slot ELSE Shipped

\* There is a journal, or one has been rolled back into what is to be read.
Tainted == journal \/ (Pc = "LoadWorld" /\ rolledBack)

Archive == INSTANCE GameArchive WITH
    NoSlot <- Shipped, game <- Game, archive <- saves, saving <- SavingSlot, tainted <- Tainted

\* Each step of an operation, a crash between any two of them included, is a
\* step of GameArchive or invisible to it: the game does not change while it is
\* saved, the copy that is loaded is the save game, and of the save games only
\* the one being written can be lost.
ImplementsGameArchive == Archive!Spec
=============================================================================
