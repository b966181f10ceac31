--------------------------- MODULE GameApplication ---------------------------
(***************************************************************************)
(* The main loop: GameApplication with its state handlers, GameServer with *)
(* the features, GameStateHandler and BaseGameFeatureUnit, which set up,    *)
(* reload and clean up the world, and what of EntityManager decides which   *)
(* callbacks an entity gets.  Everything runs on one thread; what varies is *)
(* what the game's own callbacks do in the middle of it.                    *)
(*                                                                         *)
(* An operation is a list of the steps it still has to take, each a pair of *)
(* a name and an argument; a step that calls others puts them in front.     *)
(***************************************************************************)
EXTENDS Naturals, SequencesExt

CONSTANTS
    GameStates,         \* the states with a GameStateHandler
    MenuStates,         \* the states with a handler of the application
    Exit, NoState,
    FirstState,         \* what SetupStateHandlers sets
    Level,              \* the entities of the level, in the order of its tables
    Spawned,            \* entities the game creates while it runs
    MaxSpawns           \* bound: how many it creates from Open to Close

States == GameStates \cup MenuStates \cup {Exit}
Entities == Range(Level) \cup Spawned

ASSUME GameApplicationAssumption ==
    /\ GameStates \cap MenuStates = {} /\ Exit \notin GameStates \cup MenuStates
    /\ NoState \notin States /\ FirstState \in States \ {Exit}
    /\ Level \in Seq(Range(Level)) /\ IsInjective(Level) /\ Range(Level) \cap Spawned = {}
    /\ MaxSpawns \in Nat

VARIABLES
    isOpen,             \* the application is open
    broken,             \* an assertion has failed, the program has stopped
    todo,               \* the steps still to take
    curState, requestedState,
    quitRequested,      \* GameServer::quitRequested
    gameFeatures,       \* the features attached to the server: none is twice in its list
    active,             \* the features that are active
    isStarted,          \* GameServer::isStarted
    activeEntities,     \* EntityManager::activeEntities
    life,               \* history: the callbacks an entity got since it was attached
    spawns,             \* the number of entities the game has created
    entered,            \* history: the states entered and not left
    owed                \* history: the state requested last, outside of a transition

server == <<gameFeatures, active, isStarted>>
entities == <<activeEntities, life, spawns>>
states == <<curState, requestedState, quitRequested, entered, owed>>
vars == <<isOpen, broken, todo, server, entities, states>>

AppFeatures == <<"core", "graphics", "fighting">>
Features == Range(AppFeatures) \cup {"basegame"}
NewLife == [loads |-> 0, starts |-> 0, early |-> FALSE]

Init ==
    /\ isOpen = FALSE /\ broken = FALSE /\ todo = <<>>
    /\ curState = NoState /\ requestedState = NoState /\ quitRequested = FALSE
    /\ gameFeatures = {} /\ active = {} /\ isStarted = FALSE
    /\ activeEntities = <<>> /\ life = [e \in Entities |-> NewLife] /\ spawns = 0
    /\ entered = {} /\ owed = NoState

-----------------------------------------------------------------------------
(* Steps and lists of steps.                                               *)

Idle == isOpen /\ ~broken /\ todo = <<>>
At(step) == ~broken /\ todo # <<>> /\ Head(todo)[1] = step
Arg == Head(todo)[2]
Do(steps) == todo' = steps \o Tail(todo) /\ UNCHANGED <<isOpen, broken>>
Done == Do(<<>>)

\* A step with an assertion: if it fails the program stops.
Asserted(p) ==
    IF p THEN Done ELSE broken' = TRUE /\ todo' = <<>> /\ UNCHANGED isOpen

InTransition == \E i \in DOMAIN todo : todo[i][1] = "ClearRequest"

\* Mutant: the previous state is not left.
Transition_NoLeave(s) == <<<<"OnStateEnter", s>>, <<"ClearRequest", s>>>>

\* SetState and DoStateTransition.
Transition(s) == <<<<"OnStateLeave", s>>, <<"OnStateEnter", s>>, <<"ClearRequest", s>>>>

CleanUp == <<<<"ClearJobs", 0>>, <<"Cleanup", 0>>>>

\* SetupWorldFromCurrentLevel.
LoadWorld ==
    <<<<"AssertEmpty", 0>>>> \o [i \in DOMAIN Level |-> <<"AttachEntity", Level[i]>>]
        \o <<<<"NotifyGameLoad", 0>>>>

\* What the setup modes have in common: SetupEmptyWorld, NewGame and LoadLevel,
\* LoadGame.
Setups == {<<<<"AssertEmpty", 0>>>>, LoadWorld, CleanUp \o LoadWorld}

StartWorld == <<<<"AssertStopped", 0>>, <<"StartEntities", 1>>, <<"SetStarted", 0>>>>

\* Mutant: GameServer::Stop is not called.
LeaveGame_NoStop == CleanUp \o <<<<"RemoveGameFeature", "basegame">>>>

\* GameStateHandler::OnStateLeave.
LeaveGame == CleanUp \o <<<<"RemoveGameFeature", "basegame">>, <<"Stop", 0>>>>

-----------------------------------------------------------------------------
(* The application.                                                        *)

Open ==
    /\ ~isOpen /\ ~broken
    /\ isOpen' = TRUE
    /\ todo' = [i \in DOMAIN AppFeatures |-> <<"AttachGameFeature", AppFeatures[i]>>]
                    \o Transition(FirstState)
    /\ UNCHANGED <<broken, server, entities, states>>

\* A turn of the loop in Run.
Frame ==
    /\ Idle /\ curState # Exit
    /\ todo' = <<<<"OnFrame", 0>>, <<"OnEndFrame", 0>>, <<"HandlerFrame", 0>>>>
    /\ UNCHANGED <<isOpen, broken, server, entities, states>>

\* Mutant: a quit request is overlooked.
NewStates_IgnoresQuit == IF curState \in GameStates THEN {curState} ELSE States

\* What the current state handler's OnFrame may return.
NewStates ==
    IF curState \notin GameStates THEN States ELSE IF quitRequested THEN {Exit} ELSE {curState}

\* Mutant: the returned state overrides the requested one.
Successor_ReturnedFirst(new) == IF new # curState THEN new ELSE requestedState
Successor(new) ==
    IF requestedState # NoState THEN requestedState ELSE IF new # curState THEN new ELSE NoState

\* The state handler's OnFrame and the choice of the next state.
HandlerFrame ==
    /\ At("HandlerFrame")
    /\ \E new \in NewStates :
            Do(IF Successor(new) = NoState THEN <<>> ELSE Transition(Successor(new)))
    /\ UNCHANGED <<server, entities, states>>

OnStateLeave ==
    /\ At("OnStateLeave")
    /\ Do(IF curState \in GameStates THEN LeaveGame ELSE <<>>)
    /\ entered' = entered \ {curState}
    /\ UNCHANGED <<server, entities, curState, requestedState, quitRequested, owed>>

OnStateEnter ==
    /\ At("OnStateEnter")
    /\ curState' = Arg
    /\ entered' = entered \cup ({Arg} \ {Exit})
    /\ IF Arg \in GameStates
       THEN \E setup \in Setups : Do(<<<<"AttachGameFeature", "basegame">>>> \o setup \o StartWorld)
       ELSE Done
    /\ UNCHANGED <<server, entities, requestedState, quitRequested, owed>>

\* The end of DoStateTransition.
ClearRequest ==
    /\ At("ClearRequest") /\ Done
    /\ requestedState' = NoState /\ owed' = NoState
    /\ UNCHANGED <<server, entities, curState, quitRequested, entered>>

\* Close, once Run has returned: CleanupGameFeatures, CleanupStateHandlers and
\* GameServer::Close.
Close ==
    /\ Idle /\ curState = Exit
    /\ todo' = <<<<"RemoveGameFeature", "graphics">>, <<"RemoveGameFeature", "core">>,
                 <<"CleanupStateHandlers", 0>>, <<"CloseServer", 0>>>>
    /\ UNCHANGED <<isOpen, broken, server, entities, states>>

CleanupStateHandlers ==
    /\ At("CleanupStateHandlers") /\ Done
    /\ requestedState' = NoState /\ curState' = NoState /\ owed' = NoState
    /\ UNCHANGED <<server, entities, quitRequested, entered>>

-----------------------------------------------------------------------------
(* The game server.                                                        *)

\* OnActivate of a feature asserts that it is not active, the one of
\* BaseGameFeatureUnit that the graphics feature is.
AttachGameFeature ==
    /\ At("AttachGameFeature")
    /\ Asserted(/\ Arg \notin gameFeatures \cup active
                /\ Arg = "basegame" => "graphics" \in active)
    /\ active' = active \cup {Arg}
    /\ gameFeatures' = gameFeatures \cup {Arg}
    /\ UNCHANGED <<isStarted, entities, states>>

RemoveGameFeature ==
    /\ At("RemoveGameFeature")
    /\ Asserted(Arg \in gameFeatures /\ Arg \in active)
    /\ active' = active \ {Arg}
    /\ gameFeatures' = gameFeatures \ {Arg}
    /\ UNCHANGED <<isStarted, entities, states>>

\* Start calls OnStart of the features, of which only EntityManager's matters,
\* and sets the flag last.
AssertStopped == At("AssertStopped") /\ Asserted(~isStarted) /\ UNCHANGED <<server, entities, states>>
SetStarted ==
    /\ At("SetStarted") /\ Done
    /\ isStarted' = TRUE
    /\ UNCHANGED <<gameFeatures, active, entities, states>>
Stop ==
    /\ At("Stop") /\ Asserted(isStarted)
    /\ isStarted' = FALSE
    /\ UNCHANGED <<gameFeatures, active, entities, states>>

\* GameServer::Close removes the features that are left; the server object goes.
CloseServer ==
    /\ At("CloseServer")
    /\ IF isStarted
       THEN broken' = TRUE /\ todo' = <<>> /\ UNCHANGED <<isOpen, server, entities, states>>
       ELSE /\ isOpen' = FALSE /\ todo' = Tail(todo) /\ quitRequested' = FALSE /\ spawns' = 0
            /\ active' = active \ gameFeatures /\ gameFeatures' = {}
            /\ UNCHANGED <<broken, isStarted, activeEntities, life, curState, requestedState, entered, owed>>

\* OnBeginFrame and OnFrame of the features.
OnFrame ==
    /\ At("OnFrame") /\ Asserted(gameFeatures \subseteq active)
    /\ UNCHANGED <<server, entities, states>>

\* OnEndFrame of the features; BaseGameFeatureUnit's handles F8, which loads a
\* save game while the game is running.
OnEndFrame ==
    /\ At("OnEndFrame")
    /\ \/ Done
       \/ "basegame" \in gameFeatures /\ Do(CleanUp \o LoadWorld)
    /\ UNCHANGED <<server, entities, states>>

-----------------------------------------------------------------------------
(* The world.                                                              *)

\* Mutant: OnStart is called although the game has not started.
Attached_AlwaysStarts(e, early) ==
    IF ~isStarted THEN [NewLife EXCEPT !.starts = 1]
    ELSE [loads |-> 1, starts |-> 1, early |-> early]

\* AttachEntity calls OnLoad and OnStart if the game has started; early says
\* that the world is not complete at that time.
Attached(e, early) ==
    IF ~isStarted THEN NewLife ELSE [loads |-> 1, starts |-> 1, early |-> early]

AttachEntity ==
    /\ At("AttachEntity") /\ Done
    /\ activeEntities' = Append(activeEntities, Arg)
    /\ life' = [life EXCEPT ![Arg] =
                    Attached(Arg, \E i \in DOMAIN Tail(todo) : Tail(todo)[i][1] = "AttachEntity")]
    /\ UNCHANGED <<spawns, server, states>>

AssertEmpty == At("AssertEmpty") /\ Asserted(activeEntities = <<>>) /\ UNCHANGED <<server, entities, states>>

\* OnLoad of the features: EntityManager does not override it.
NotifyGameLoad == At("NotifyGameLoad") /\ Done /\ UNCHANGED <<server, entities, states>>

\* EntityManager::StartEntities: also the entities that are attached on the way.
StartEntities ==
    /\ At("StartEntities")
    /\ IF Arg \in DOMAIN activeEntities
       THEN /\ life' = [life EXCEPT ![activeEntities[Arg]].starts = @ + 1]
            /\ Do(<<<<"StartEntities", Arg + 1>>>>)
       ELSE UNCHANGED life /\ Done
    /\ UNCHANGED <<activeEntities, spawns, server, states>>

\* CleanupWorld: NotifyGameSave, the environment entity and the delayed jobs.
ClearJobs == At("ClearJobs") /\ Done /\ UNCHANGED <<server, entities, states>>

\* EntityManager::Cleanup removes entities until there is none, also those that
\* are attached on the way.
Cleanup ==
    /\ At("Cleanup")
    /\ IF activeEntities = <<>> THEN Done /\ UNCHANGED activeEntities
       ELSE activeEntities' = Tail(activeEntities) /\ UNCHANGED <<isOpen, broken, todo>>
    /\ UNCHANGED <<life, spawns, server, states>>

-----------------------------------------------------------------------------
(* What the game's callbacks do before such a step.                        *)

InCallback == \E step \in {"OnFrame", "OnEndFrame", "HandlerFrame", "StartEntities", "Cleanup", "AttachEntity"} : At(step)

RequestState(s) ==
    /\ InCallback
    /\ requestedState' = s
    /\ owed' = IF InTransition THEN owed ELSE s
    /\ UNCHANGED <<isOpen, broken, todo, server, entities, curState, quitRequested, entered>>

RequestQuit ==
    /\ InCallback /\ ~quitRequested
    /\ quitRequested' = TRUE
    /\ UNCHANGED <<isOpen, broken, todo, server, entities, curState, requestedState, entered, owed>>

\* The game creates an entity and attaches it.
Spawn(e) ==
    /\ InCallback /\ "basegame" \in active
    /\ spawns < MaxSpawns /\ e \notin Range(activeEntities)
    /\ spawns' = spawns + 1
    /\ activeEntities' = Append(activeEntities, e)
    /\ life' = [life EXCEPT ![e] = Attached(e, FALSE)]
    /\ UNCHANGED <<isOpen, broken, todo, server, states>>

Callback == RequestQuit \/ (\E s \in States : RequestState(s)) \/ (\E e \in Spawned : Spawn(e))

\* The program's own steps.
Advance ==
    \/ Open \/ Frame \/ HandlerFrame \/ OnStateLeave \/ OnStateEnter \/ ClearRequest
    \/ Close \/ CleanupStateHandlers \/ CloseServer
    \/ AttachGameFeature \/ RemoveGameFeature \/ AssertStopped \/ SetStarted \/ Stop
    \/ OnFrame \/ OnEndFrame
    \/ AttachEntity \/ AssertEmpty \/ NotifyGameLoad \/ StartEntities \/ ClearJobs \/ Cleanup

Next == Advance \/ Callback

Spec == Init /\ [][Next]_vars /\ WF_vars(Advance)

-----------------------------------------------------------------------------
(* Properties.                                                             *)

\* Every variable stays in its domain.
TypeOK ==
    /\ isOpen \in BOOLEAN /\ broken \in BOOLEAN /\ isStarted \in BOOLEAN /\ quitRequested \in BOOLEAN
    /\ curState \in States \cup {NoState} /\ requestedState \in States \cup {NoState}
    /\ owed \in States \cup {NoState} /\ entered \subseteq States
    /\ gameFeatures \subseteq Features /\ active \subseteq Features
    /\ activeEntities \in Seq(Entities) /\ IsInjective(activeEntities)
    /\ life \in [Entities -> [loads : 0..1, starts : 0..2, early : BOOLEAN]]
    /\ spawns \in 0..MaxSpawns

\* None of the assertions about features, the started flag and the empty world
\* fails, in whatever order states are left and entered, games are loaded and
\* callbacks intervene.
AssertionsHold == ~broken

\* Between two transitions exactly the current state has been entered and not
\* left, and the game server has been started exactly in a state with a game.
OneStateEntered ==
    Idle \/ At("OnFrame") \/ At("HandlerFrame") =>
        /\ entered = {curState} \ {Exit}
        /\ isStarted = (curState \in GameStates)

\* When the application has closed no feature is active and no entity lives,
\* although a state may be left in the middle of anything.
NothingLeft == ~isOpen => active = {} /\ activeEntities = <<>> /\ ~isStarted

\* The application, the server and the world agree on which state is entered
\* and on what is left when all is closed, besides their types.
Consistent == TypeOK /\ OneStateEntered /\ NothingLeft

\* Whether an entity came with the level, with a save game loaded on top of a
\* running game, or was created by a callback, OnStart has been called on it
\* exactly once when the frame begins.
StartedOnce ==
    At("OnFrame") => \A e \in Range(activeEntities) : life[e].starts = 1

\* "a requested state always overrides the returned state"
\* (gameapplication.cc:132): the last request made outside of a transition is
\* the state that is entered, although further requests may follow while the
\* old state is left and the new one entered.
RequestHonoured == At("ClearRequest") /\ owed # NoState => curState = owed

\* Once the game is asked to quit its state is left, also when a game is loaded
\* or the same state entered again in between, unless a callback keeps
\* requesting states.
QuitLeaves ==
    quitRequested /\ curState \in GameStates ~> curState \notin GameStates \/ owed # NoState

\* "When a level is loaded it is called on all entities after OnLoad when the
\* complete world already exist" (entity.cc:344): OnStart, that is.
StartedAfterLoad ==
    \A e \in Range(activeEntities) :
        life[e].starts > 0 => life[e].loads > 0 /\ ~life[e].early
=============================================================================
