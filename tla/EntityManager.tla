---------------------------- MODULE EntityManager ----------------------------
(***************************************************************************)
(* BaseGameFeature::EntityManager: the entities of the game world, their    *)
(* registry, the division into triggered and untriggered ones, and the      *)
(* frame that walks over them calling game code                             *)
(* (src/code/application/basegamefeature/managers/entitymanager.cc).        *)
(*                                                                          *)
(* Everything runs in one thread.  What makes it hard is that the callbacks *)
(* of a frame call back into the manager: a step of the frame is one        *)
(* callback, and game code may attach and remove entities after any of them.*)
(* A failed assertion stops the program and is recorded in "broken".        *)
(*                                                                          *)
(* Left out: the rows of deleted entities in the database, and calls made   *)
(* by Entity::OnDeactivate or by the gain and loss of activity.             *)
(***************************************************************************)
EXTENDS Naturals, SequencesExt, Filter

CONSTANTS
    NumEntities,  \* entities are their unique ids 1..NumEntities
    Null,         \* a null Ptr<Entity>
    MaxRequests   \* bound: how often removals are asked for in one world

ASSUME EntityManagerAssumption ==
    /\ NumEntities \in Nat /\ MaxRequests \in Nat
    /\ Null \notin Nat

Entities == 1..NumEntities

VARIABLES
    started,      \* GameServer::isStarted
    where,        \* the place of the main thread, see Places
    cursor,       \* the index of the loop it is in
    broken,       \* the function whose assertion stopped the program, or "none"
    activated,    \* Entity::activated
    active,       \* activeEntities, with null entries
    registry,     \* entityRegistry: "absent", "null" or "entity", by unique id
    triggered,    \* triggeredEntities
    untriggered,  \* untriggeredEntities
    jobs,         \* the entities of delayedJobs
    starts,       \* history: how often OnStart of an entity was called
    calls,        \* history: how many of the callbacks of this frame an entity had
    asked,        \* history: how often the removal of an entity was asked for
    early         \* history: some removal was asked for before the game was started

control     == <<started, where, cursor, broken>>
worldVars   == <<activated, active, registry>>
triggerVars == <<triggered, untriggered>>
historyVars == <<starts, calls, asked, early>>
vars == <<control, worldVars, triggerVars, jobs, historyVars>>

\* The callbacks of one frame in their order, each a loop over the triggered
\* entities, with the rest of the frame ("frame") between the second and third.
Loops  == <<"OnBeginFrame", "OnMoveBefore", "frame", "OnMoveAfter", "OnRender">>
Places == {"idle", "starting"} \cup Range(Loops)

\* activeEntitiesLocked
Locked == where \in Range(Loops)

Running == broken = "none"

\* Some callback has been called, or the thread is outside of the loops.
GameCodeRuns == Running /\ ~(where \in {"starting", "OnBeginFrame"} /\ cursor = 1)

Zero == [e \in Entities |-> 0]

Init ==
    /\ started = FALSE /\ where = "idle" /\ cursor = 0 /\ broken = "none"
    /\ activated = [e \in Entities |-> FALSE]
    /\ active = <<>> /\ triggered = <<>> /\ untriggered = <<>> /\ jobs = <<>>
    /\ registry = [e \in Entities |-> "absent"]
    /\ starts = Zero /\ calls = Zero /\ asked = Zero /\ early = FALSE

(***************************************************************************)
(* Calls of the game code.                                                  *)
(***************************************************************************)
\* Mutant: a new entity is triggered at once.
AttachEntity_Triggered(e) ==
    /\ GameCodeRuns /\ ~activated[e] /\ registry[e] = "absent" /\ asked[e] = 0
    /\ active' = Append(active, e)
    /\ triggered' = Append(triggered, e)
    /\ registry' = [registry EXCEPT ![e] = "entity"]
    /\ activated' = [activated EXCEPT ![e] = TRUE]
    /\ starts' = [starts EXCEPT ![e] = IF started THEN @ + 1 ELSE @]
    /\ UNCHANGED <<control, untriggered, jobs, calls, asked, early>>

\* A new entity; unique ids are used once, up to the cleanup of the world.
AttachEntity(e) ==
    /\ GameCodeRuns /\ ~activated[e] /\ registry[e] = "absent" /\ asked[e] = 0
    /\ active' = Append(active, e)
    /\ untriggered' = Append(untriggered, e)
    /\ registry' = [registry EXCEPT ![e] = "entity"]
    /\ activated' = [activated EXCEPT ![e] = TRUE]
    /\ starts' = [starts EXCEPT ![e] = IF started THEN @ + 1 ELSE @]
    /\ UNCHANGED <<control, triggered, jobs, calls, asked, early>>

Ask(e) ==
    /\ FoldFunction(+, 0, asked) < MaxRequests
    /\ asked' = [asked EXCEPT ![e] = @ + 1]
    /\ early' = (early \/ ~started)
    /\ UNCHANGED <<starts, calls>>

\* Mutant: the entity stops functioning at once, not at the end of the frame.
RemoveEntity_Deactivates(e) ==
    /\ GameCodeRuns /\ activated[e] /\ Ask(e)
    /\ jobs' = Append(jobs, e)
    /\ activated' = [activated EXCEPT ![e] = FALSE]
    /\ UNCHANGED <<control, active, registry, triggerVars>>

\* RemoveEntity and DeleteEntity.
RemoveEntity(e) ==
    /\ GameCodeRuns /\ activated[e] /\ Ask(e)
    /\ jobs' = Append(jobs, e)
    /\ UNCHANGED <<control, worldVars, triggerVars>>

Without(s, S) == Select(s, Range(s) \ S)

\* The arrays after RemoveEntityImmediate of the entities in S, one after the
\* other: null entries keep their layout.
ActiveWithout(S) == [k \in DOMAIN active |-> IF active[k] \in S THEN Null ELSE active[k]]
RegistryWithout(S) == [e \in Entities |-> IF e \in S THEN "null" ELSE registry[e]]

LeaveWorld(S) ==
    /\ activated' = [e \in Entities |-> activated[e] /\ e \notin S]
    /\ active' = ActiveWithout(S)
    /\ registry' = RegistryWithout(S)

\* Mutant: the entities stay on the list of the triggered ones.
RemoveEntityFromTriggered_Keeps(S) ==
    /\ triggered' = triggered
    /\ untriggered' = Without(untriggered, S)
RemoveEntityFromTriggered(S) ==
    /\ triggered' = Without(triggered, S)
    /\ untriggered' = Without(untriggered, S)

\* Not inside of a frame.
RemoveEntityImmediate(e) ==
    /\ GameCodeRuns /\ ~Locked /\ activated[e] /\ Ask(e)
    /\ LeaveWorld({e}) /\ RemoveEntityFromTriggered({e})
    /\ UNCHANGED <<control, jobs>>

(***************************************************************************)
(* Delayed jobs.                                                            *)
(***************************************************************************)
\* HandleDelayedJobs gets through: each job finds its entity active.
JobsPass == IsInjective(jobs) /\ \A e \in Range(jobs) : activated[e]

\* The program stops in a job whose entity is not active any more.
JobsBreak ==
    /\ ~JobsPass
    /\ broken' = "RemoveEntityImmediate"
    /\ UNCHANGED <<started, where, cursor, worldVars, triggerVars, jobs, historyVars>>

\* Mutant: the first job is thrown away.
Leaving_NotFirst == Range(SubSeq(jobs, 2, Len(jobs)))

\* The entities of the delayed jobs.
Leaving == Range(jobs)

HandleDelayedJobs == JobsPass /\ jobs' = <<>> /\ LeaveWorld(Leaving)

(***************************************************************************)
(* Starting the game: OnStart of every entity.                              *)
(***************************************************************************)
CanStart == Running /\ where = "idle" /\ ~started

StartEntities ==
    /\ CanStart /\ HandleDelayedJobs /\ RemoveEntityFromTriggered(Leaving)
    /\ where' = "starting" /\ cursor' = 1
    /\ UNCHANGED <<started, broken, historyVars>>
StartEntitiesBreaks == CanStart /\ JobsBreak

\* The loop reads the size of the array again for every entity.
AtEntity == Running /\ where = "starting" /\ cursor <= Len(active)

OnStart ==
    /\ AtEntity /\ active[cursor] # Null
    /\ starts' = [starts EXCEPT ![active[cursor]] = @ + 1]
    /\ cursor' = cursor + 1
    /\ UNCHANGED <<started, where, broken, worldVars, triggerVars, jobs, calls, asked, early>>

\* Ptr<> asserts on the access through a null entry.
OnStartOfNull ==
    /\ AtEntity /\ active[cursor] = Null
    /\ broken' = "StartEntities"
    /\ UNCHANGED <<started, where, cursor, worldVars, triggerVars, jobs, historyVars>>

AllStarted == Running /\ where = "starting" /\ cursor > Len(active)

\* The end of StartEntities, then of GameServer::Start.
Started ==
    /\ AllStarted
    /\ HandleDelayedJobs /\ RemoveEntityFromTriggered(Leaving)
    /\ started' = TRUE /\ where' = "idle" /\ cursor' = 0
    /\ UNCHANGED <<broken, historyVars>>
StartedBreaks == AllStarted /\ JobsBreak

(***************************************************************************)
(* A frame.                                                                 *)
(***************************************************************************)
CanBegin == Running /\ where = "idle" /\ started

\* The focus entities and those near: all of them if no entity has the focus.
Bubbles(E) == {near \in SUBSET Entities : near \cap E # {} \/ E = {}}

\* The entities that are left after the delayed jobs are divided anew.
UpdateTriggeredEntities(gone, near) ==
    LET in  == Without(triggered, gone)
        out == Without(untriggered, gone)
    IN  /\ triggered' = Without(in \o out, Entities \ near)
        /\ untriggered' = Without(out \o in, near)

OnBeginFrame ==
    /\ CanBegin /\ HandleDelayedJobs
    /\ \E near \in Bubbles({e \in Entities : activated'[e]}) :
          UpdateTriggeredEntities(Leaving, near)
    /\ where' = Loops[1] /\ cursor' = 1 /\ calls' = Zero
    /\ UNCHANGED <<started, broken, starts, asked, early>>
OnBeginFrameBreaks == CanBegin /\ JobsBreak

\* The callback of one entity. IsActive() is true of every triggered entity.
Trigger ==
    /\ Running /\ Locked /\ where # "frame" /\ cursor <= Len(triggered)
    /\ calls' = [calls EXCEPT ![triggered[cursor]] =
                    IF activated[triggered[cursor]] THEN @ + 1 ELSE @]
    /\ cursor' = cursor + 1
    /\ UNCHANGED <<started, where, broken, worldVars, triggerVars, jobs, starts, asked, early>>

LoopDone == Running /\ Locked /\ (where = "frame" \/ cursor > Len(triggered))

NextLoop ==
    /\ LoopDone
    /\ \E k \in 1..Len(Loops) - 1 : where = Loops[k] /\ where' = Loops[k + 1]
    /\ cursor' = 1
    /\ UNCHANGED <<started, broken, worldVars, triggerVars, jobs, historyVars>>

FrameDone == LoopDone /\ where = Loops[Len(Loops)]

\* The registry is a dictionary in the order of the ids. Its loop advances
\* once more past each entry it has looked at or has erased, and so it does
\* not look at every second entry.
LookedAt(r, e) == Cardinality({k \in 1..e : r[k] # "absent"}) % 2 = 1
RegistryAfterLoop(r) ==
    [e \in Entities |-> IF r[e] = "null" /\ LookedAt(r, e) THEN "absent" ELSE r[e]]

OnEndFrame ==
    /\ FrameDone /\ JobsPass /\ jobs' = <<>>
    /\ activated' = [e \in Entities |-> activated[e] /\ e \notin Leaving]
    /\ active' = Without(ActiveWithout(Leaving), {Null})
    /\ registry' = RegistryAfterLoop(RegistryWithout(Leaving))
    /\ RemoveEntityFromTriggered(Leaving)
    /\ where' = "idle" /\ cursor' = 0
    /\ UNCHANGED <<started, broken, historyVars>>
OnEndFrameBreaks == FrameDone /\ JobsBreak

(***************************************************************************)
(* Leaving the game state.                                                  *)
(***************************************************************************)
\* Mutant: the delayed jobs survive.
Cleanup_KeepsJobs ==
    /\ activated' = [e \in Entities |-> FALSE]
    /\ active' = <<>> /\ triggered' = <<>> /\ untriggered' = <<>>
    /\ registry' = [e \in Entities |-> "absent"]
    /\ jobs' = jobs
\* The jobs are thrown away, then every entity leaves.
Cleanup ==
    /\ activated' = [e \in Entities |-> FALSE]
    /\ active' = <<>> /\ triggered' = <<>> /\ untriggered' = <<>>
    /\ registry' = [e \in Entities |-> "absent"]
    /\ jobs' = <<>>

\* CleanupWorld and GameServer::Stop, between two frames.
OnStateLeave ==
    /\ CanBegin
    /\ Cleanup
    /\ started' = FALSE
    /\ starts' = Zero /\ calls' = Zero /\ asked' = Zero /\ early' = FALSE
    /\ UNCHANGED <<where, cursor, broken>>

Start == StartEntities \/ StartEntitiesBreaks \/ OnStart \/ OnStartOfNull \/ Started \/ StartedBreaks

Frame == OnBeginFrame \/ OnBeginFrameBreaks \/ Trigger \/ NextLoop \/ OnEndFrame \/ OnEndFrameBreaks

GameCode == \E e \in Entities : AttachEntity(e) \/ RemoveEntity(e) \/ RemoveEntityImmediate(e)

Next == Start \/ Frame \/ GameCode \/ OnStateLeave

Spec == Init /\ [][Next]_vars

\* The main loop goes on with the start and with the frames.
FairSpec == Spec /\ WF_vars(Start) /\ WF_vars(Frame)

(***************************************************************************)
(* Properties.                                                              *)
(***************************************************************************)
\* The type invariant, with the bounds of the loops' index and of what an
\* entity is called for in one frame.
TypeOK ==
    /\ started \in BOOLEAN /\ where \in Places
    /\ broken \in {"none", "RemoveEntityImmediate", "StartEntities"}
    /\ activated \in [Entities -> BOOLEAN]
    /\ active \in Seq(Entities \cup {Null})
    /\ registry \in [Entities -> {"absent", "null", "entity"}]
    /\ triggered \in Seq(Entities) /\ untriggered \in Seq(Entities) /\ jobs \in Seq(Entities)
    /\ starts \in [Entities -> Nat] /\ calls \in [Entities -> 0..4]
    /\ asked \in [Entities -> Nat] /\ early \in BOOLEAN
    /\ cursor \in Nat
    /\ where \in {"OnBeginFrame", "OnMoveBefore", "OnMoveAfter", "OnRender"} =>
          cursor <= Len(triggered) + 1

Copies(s, e) == Cardinality({k \in DOMAIN s : s[k] = e})

\* The three records of who is in the world agree at every callback: an entity
\* is active exactly while it is once in the array of active entities and
\* while its id finds it. (AttachEntity, RemoveEntityImmediate, Cleanup.)
InWorld ==
    \A e \in Entities :
        /\ Copies(active, e) = (IF activated[e] THEN 1 ELSE 0)
        /\ registry[e] = "entity" <=> activated[e]

\* The active entities are divided into the triggered and the untriggered ones:
\* nobody is in both or twice, and no entity that has left is ever triggered.
Divided ==
    \A e \in Entities :
        Copies(triggered \o untriggered, e) = (IF activated[e] THEN 1 ELSE 0)

\* The arrays, the registry and the division of the active entities agree in
\* every callback of a frame and between them, together with the types.
Consistent == TypeOK /\ InWorld /\ Divided

\* A frame calls its four callbacks once for each triggered entity and none for
\* the others, whatever the callbacks attach and remove.
FrameCallsEachOnce ==
    FrameDone => \A e \in Entities : calls[e] = (IF Contains(triggered, e) THEN 4 ELSE 0)

\* OnStart of an entity is called once, by the start of the game or by the
\* attachment, also for one that is attached by the OnStart of another.
StartedOnce ==
    started => \A e \in Entities : activated[e] => starts[e] = 1

\* No entity is called too often or left out, by a frame or by the start.
CalledOnce == FrameCallsEachOnce /\ StartedOnce

\* "The entity will just function as usual for the rest of the frame": nothing
\* that happens inside of a frame takes an entity out of the world or of the
\* list that is walked over.
StaysUntilFrameEnd ==
    [][Locked /\ Locked' => /\ \A e \in Entities : activated[e] => activated'[e]
                            /\ triggered' = triggered]_vars

\* The program stops in a delayed job only when the removal of one entity was
\* asked for twice in this world, and in StartEntities only when a removal
\* came before the start: a job never outlives its world.
StopsOnlyBy ==
    /\ broken = "RemoveEntityImmediate" => \E e \in Entities : asked[e] > 1
    /\ broken = "StartEntities" => early

\* An entity whose removal was asked for leaves the world, unless the program stops.
RemovalHappens ==
    \A e \in Entities : asked[e] > 0 ~> (~activated[e] \/ ~Running)
=============================================================================
