# TLA+ models of the Nebula3 fork

This directory keeps formal models of the program under `src/`: a fork of the
Nebula3 game engine (C++, Win32) with the games `fighter` and `kok` on top of
it. The models are written from the code and checked with TLC on small instances;
what the runs check of eight of the nine components is, but for liveness, also
proved with TLAPS, for instances of every size.

Contents

1. The system and its parts
2. The modules, and how they correspond to the code
3. What the runs check
4. What is proved
5. Disagreements between code and documentation
6. What is only model-checked, and what is not modelled
7. What is left

To run everything by hand, in this directory:

    tlc -workers 2 -config MCAsyncPortSafety.cfg MCAsyncPort.tla
    tlapm AsyncPortProofs.tla TcpServerProofs.tla ResourceMapperProofs.tla \
          EntityManagerProofs.tla InstancesProofs.tla SaveGamesProofs.tla \
          GameApplicationProofs.tla WorldManagerProofs.tla

`PROJECT.json` lists components, runs, mutants, the map from definitions to
source lines, findings, hazards and theorems.

## 1. The system and its parts

All paths are below `src/code/`. The libraries under `extlibs`, the asset and
project files and the vendored physics and graphics libraries are not part of
what is modelled.

### foundation

| Part | State | Operations | What is hard, and what makes it correct |
|---|---|---|---|
| `messaging/asyncport` | message queue, three auto-reset events, handler array, open flag; the handler thread's position | `Open Close Send SendWait Wait Peek Cancel Flush`, the thread's `DoWork` | Several client threads and one handler thread without a common lock. No wakeup or stop request lost; nobody sleeps with work queued; waits and `Close` return. **Modelled.** |
| `threading` | `Win32Event` flag, `SafeQueue` array, `Win32Thread` state | `Signal Wait Peek`; `Enqueue Dequeue Wait EraseMatchingElements`; `Start Stop` | A test is a reset (auto-reset events); size tested outside of the lock; the order of stop request and wakeup. **Modelled where used.** |
| `core/refcounted`, `core/ptr` | one counter per object | `AddRef Release`, copies and destruction of `Ptr` | Two threads that release the last references. **Modelled.** |
| `net/tcpserver`, `net/tcpclientconnection`, `http/httpserver` | list of connections, listener thread, sockets | `Open Close Recv`, the listener's loop, `OnFrame` | The listener adds connections while the application polls and closes. Each connection in one place, closed means closed, requests served, `Close` returns. **Modelled.** |
| `net/tcpclient`, sockets | connection state, send and receive streams | `Connect Disconnect Send Recv` | Non-blocking connect, partial sends. Only a test client uses it. |
| `interface/iointerface` | an `AsyncPort` with the IO handler | one handler per message | Reads run on another thread. The reading of a stream is modelled as the resource loaders meet it. |
| `attr` | value tables: rows, flags per row, lists of new and deleted rows | setters, rows added and deleted, flags reset | Which flags decide what a commit writes. **Modelled with the database.** |
| `messaging/port`, `dispatcher`, `handler`, `io`, `util`, `scripting` | handler lists, streams, containers, commands | | Sequential. Not modelled (section 6). |

### addons/db and application

| Part | State | Operations | What is hard, and what makes it correct |
|---|---|---|---|
| `db/sqlite3`, `db/dataset`, `basegamefeature/managers/categorymanager`, `factorymanager` | tables in the database, their rows in memory, levels | query, create, clone, change, remove, delete, commit; rename, duplicate and delete levels | The same instance in memory and in the database, two tables per level operation. What is deleted stays deleted, commits write what changed, an instance is loaded once. **Modelled.** |
| `db/dbserver`, `basegamefeatureunit`, `globalattrsmanager` | the world's database file, its journal, the save games | new, save, load and leave a game | Files that are deleted and copied while the process may die. A save game is the moment it was asked for; a complete copy always exists. **Modelled.** |
| `basegamefeature/managers/entitymanager` | active, triggered and untriggered arrays, registry, delayed jobs | attach, remove, delete (delayed and immediate), start, begin and end of a frame, cleanup | Callbacks of a frame call back into the manager. Records that agree, each callback once, removals at the end of the frame. **Modelled.** |
| `appgame/`, `game/gameserver`, `featureunit` | current and requested application state, attached features, started flag | open, step a frame, request a state or to quit, enter and leave a game, close | Requests from callbacks in the middle of frames and transitions; order of start, stop and cleanup. Exactly one state entered, requests honoured, nothing left. **Modelled.** |
| `game/entity`, `property`, `basegametiming`, other managers, `fightingfeature`, `fighter`, `kok` | properties, pause counters, focus, input rules | | Not modelled (section 6). |

### render

| Part | State | Operations | What is hard, and what makes it correct |
|---|---|---|---|
| `resources/` and the stream loaders | managed handles with client counts, shared objects with use counts, a pending list, one message per load in flight | create, discard, prepare (once a frame), remove the mapper, close | Two reference counts over one object, loads answered in any order by another thread, discards while a load is in flight. No object lost while loaded, no handle left waiting, no assertion reached. **Modelled.** |
| `wow/world/worldmanager` | nine current tiles, a cache of sixteen, the entities of both on the stage | open, load a world, update once a frame, close | Nine tiles are set one by one while a full cache throws others out. The ground under the camera is shown. **Modelled.** |
| `wow/` otherwise | readers of map files, a port for them that nothing opens | | Not modelled (section 6). |
| `asyncgraphics/` | an `AsyncPort` with the render handler, proxies | proxies that send messages, and wait for the creation of what they stand for | Its thread is the polling mode of `AsyncPort`. |
| `graphics/`, `models/`, `frame/`, `lighting/`, `input/`, `coregraphics/` | visibility links, model trees, passes, input handlers, the device | | Geometry and drawing. Not modelled (section 6). |

### How the parts meet

* The main thread runs `GameApplication`, `GameServer`, the features and
  managers, and `HttpServer::OnFrame` once a frame. Managers are called by
  `GameServer` and call entities, which call managers again.
* Every subsystem with a thread of its own (IO, graphics) is an
  `AsyncPort` with handlers; its clients send it messages and either wait or
  look at the `handled` flag later. The resource loaders do the latter: a load
  is a message to the IO port, polled once per frame by the mapper.
* The HTTP server's listener is a second user of `Win32Thread`, with its own
  way of waking a thread that blocks: it connects to itself.
* Objects shared by threads are held by `Ptr`s, whose count is the only thing
  two threads write without a lock or a queue between them.
* The game in memory, its database and the save games are three copies of one
  state: `EntityManager` has the entities, `CategoryManager` their rows, SQLite
  the tables, `DbServer` the files.
* Assertions (`n_assert`) stop the program. Models record that, since whether
  an assertion can be reached is a question worth asking.

## 2. The modules, and how they correspond to the code

| Module | Models | Lines |
|---|---|---|
| `MessagePort` | what `AsyncPort` promises: an abstract port without threads, events and locks | 96 |
| `AsyncPort` | `messaging/asyncport`, with the parts of `threading/` it is built from | 527 |
| `RefCounted` | `core/refcounted`, `core/ptr` and the queue that passes a `Ptr` between threads | 95 |
| `ConnectionService` | what `TcpServer` and `HttpServer` promise: peers that are waiting, accepted, asking and answered, without threads, sockets and lists | 91 |
| `TcpServer` | `net/tcpserver`, `tcpclientconnection`, the socket calls they make, `http/httpserver` | 366 |
| `ResourceStore` | what the resource pipeline promises to the holders of handles, without use counts, lists and messages | 97 |
| `ResourceMapper` | `render/resources/`, the streaming texture loader, the IO thread's answer | 383 |
| `EntityManager` | `basegamefeature/managers/entitymanager`, start and stop of the game | 360 |
| `Instances` | `categorymanager`, `factorymanager`, `foundation/attr`, SQLite's tables and datasets in `addons/db` | 321 |
| `GameArchive` | what saving and loading promise: games that are kept and brought back, without files, copies and the order of steps | 88 |
| `SaveGames` | `addons/db/dbserver`, saving and loading in `basegamefeatureunit`, `globalattrsmanager` | 330 |
| `GameApplication` | `appgame/`, `game/gameserver` and features, what decides which callbacks an entity gets | 366 |
| `WorldManager` | `wow/world/worldmanager`, what it attaches to the stage and removes | 222 |
| `Filter` | what is left of a list that is walked with an erase in the loop | 21 |
| `MC*` | constants of the instances for TLC | |
| `AsyncPortProofs`, `TcpServerProofs`, `ResourceMapperProofs`, `EntityManagerProofs`, `InstancesProofs`, `SaveGamesProofs`, `GameApplicationProofs`, `WorldManagerProofs` | theorems about the module of that name (section 4) | |

The definitions named `X_Variant`, each before the definition it varies and
with a comment that starts with `Mutant:`, are plausible bugs. No specification
uses them; they are there to replace the definition and see the run fail.

`Filter` defines `Select(s, S)`, the elements of a sequence that are in a set, by
their ranks. `SelectSeq` does the same by recursion, about which nothing can be
proved; `MCEntityManager` has TLC compare the two (`SelectAssumption`).
`TcpServer`, `ResourceMapper` and `EntityManager` use `Select`.

### AsyncPort

A step is the code between two points at which another thread can interfere:
one operation of the queue under its critical section, one unlocked test, one
signal or wait on an event. `tpc` is where the handler thread is in
`HandlerThread::DoWork`; `pc[c]`, `op[c]`, `arg[c]` are where client `c` is in
which call on which message.

* `Enqueue` and `SignalEnqueue` are the two halves of `SafeQueue::Enqueue`:
  the signal is given after `Leave()`. `QueueWait` and `QueueWaitEvent` are the
  two halves of `SafeQueue::Wait`: the size is tested without the lock.
* `CheckStop` consumes the stop request, since `ThreadStopRequested()` peeks an
  auto-reset event.
* `TestIsEmpty`, `Dequeue`, `DequeueEmpty`: `DoWork` tests and takes in two
  steps; if a cancellation came in between, `Array::Front` asserts
  (`tpc = "barfed"`, and no thread moves any more).
* `HandleMessage` sets the flag, `SignalHandled` the event, once for each
  handler that accepts: the loop does not stop at the first.
* `Close` is `HandlerThread::Flush` (`TestEmpty`, `AwaitHandledEvent`) followed
  by `Win32Thread::Stop` (`StopRequest`, `EmitWakeupSignal`, `Join`), and `Join`
  also clears the handlers and the open flag.
* `waitForMessages` is chosen at the start: the constructor's flag. Ports that
  poll (graphics, WoW) never go through `QueueWait`.

The history variables `sendOrder`, `dispatched`, `cancelled` and `goal` say
what was sent, taken, cancelled, and what was queued when a flush or close
began. They are read only by properties and to create each message object once.

Restrictions on the callers, from how the code uses the class: one thread opens
and closes a port; a message object is sent once; a client waits only for its
own messages, not for one it cancelled, and calls `SendWait`, `Wait` and
`Flush` only on a port it knows to be open.

### TcpServer

Two threads: `tpc` is the listener in `ListenerThread::DoWork`, `apc` the
application between its calls of `OnFrame` and `Close`. `backlog`,
`newSocket` and `clientConnections` are the three places of a connection.
Peers connect once, send one request at a time and may go away at any moment;
their actions are external. `Recv` is one step, because the code holds the lock
throughout; `Answer` is one step per connection, since the list may change in
between. `EmitWakeupSignal` is the connection the server makes to its own port.

`Service` is the refinement mapping to `ConnectionService`: a peer is waiting while it
is in the backlog or in the listener's hand (`Unlisted`), accepted while it is
in the server's list and its socket is open (`Listed`); `Asked` are the peers
with a request that nobody has read, `Due` those `Recv` returned and `OnFrame`
has not come to. The connection the server makes to itself is no peer and is
not seen.

### ResourceMapper

Everything but `ServeRead` runs in the render thread, each call to its end.
`managed` and `clientCount` are the handles, `shared` the table of the shared
resource server, `res` the objects with their use counts, states and the
message of their loader, `pending` the list that connects a load in flight with
the handle that waits. Synchronous and asynchronous loading is chosen at the
start (`asyncEnabled`). `Publish` and `Withdraw` are readers that build an
object and register it, so that handles and readers share a use count.
`Prepare` polls the list in order and stops after two finished loads, as the
code does: `DoneFor` are the handles whose loads it finds ended. Identities of
objects are reused as soon as no pointer refers to them, which keeps four
objects enough.

`Store` is the refinement mapping to `ResourceStore`. `View` is what the holders
of a handle see through it: nothing while the mapper is not attached or the id not
managed, that it waits while no object is set, and otherwise the object and its state. Use counts, the
pending list, the table of shared objects and the messages are not seen.

### EntityManager

One thread; the difficulty is re-entrance. `where` and `cursor` are the loop of
the frame and the index in it, and between any two steps the game code may
attach and remove entities (`AttachEntity`, `RemoveEntity`,
`RemoveEntityImmediate`), as callbacks do. `active` keeps the null entries that
removals leave, `registry` is the dictionary by id with its null entries,
`jobs` the delayed removals. Which entities are near a focus is chosen anew in
every frame (`Bubbles`). Unique ids are used once per world.

### RefCounted

One object and the threads that hold `Ptr`s to it. `held` counts the `Ptr`s of a
thread, `queued` those in a `SafeQueue` between threads, `pc` is where a thread
is in `Release`: before the interlocked decrement, before the second reading of
the count, before the deletion. A reading after the object has been deleted may
find anything.

### Instances

`db` is the instance table, `listed` the table `_Instance_Levels`, `rows` the
value table in memory with its flags and the entity each row belongs to. One
category stands for all, an instance has a key, a level (the setters that set
`rowsModified`) and a number (the setters that do not). `halfway` is a level
operation whose first transaction has been committed and whose second has not;
`Crash` ends the process there. Lookups (`AppendQuery`) ask the database for
what has no row in memory and add those rows; `Query` is the SELECT.

### SaveGames

`world` is `world.db4`, `saves` the save games, `journal` the journal a crash
may leave beside the world. Each operation is the list of its steps in the order
of the code (`BackUp`, `Replace`, `Load`), kept in `todo`; the process may die
before any step. A copy of a file is two steps with a damaged file between them.
What a file holds are moments of play: those its instances, deletions and global
attributes are from. `memory.own` is the state of properties that only `OnSave`
turns into attributes.

To `GameArchive` the game is the moment in memory as a save would write it
(`Game`), the archive is `saves`, and the slot being saved is `slot` while a step of
`SaveGame` is next. The writing of the world database and the copies to it are
stutters; the old save game is lost in `Overwrite`, the new one complete in
`Finish`, and a load is the one step `LoadWorld` that fills the memory. A load
is `tainted` if a journal lies beside the world or has been rolled back into it.

### GameApplication

One thread. `todo` is the list of steps the running call still has to take; a
step that calls others puts them in front. Before each step in which the code
calls the game back (`InCallback`), the game may request a state or quit, or
create an entity. `Frame`, `OnStateLeave`, `OnStateEnter` and `ClearRequest` are
`StepFrame` and `DoStateTransition`; `AttachGameFeature`, `StartWorld`, `Stop`,
`OnFrame` are `GameServer`'s; `LoadWorld`, `CleanUp` and `OnEndFrame` those of
`BaseGameFeatureUnit`. `gameFeatures`, an array in the code, is the set of the
attached features: nothing hangs on their order. `owed` is the state requested
last outside of a transition, `life` what an entity's callbacks have seen.

### WorldManager

Once a frame `Update` looks at the camera; `EnterTile` begins to set the nine
current tiles, and each `LoadTile` is one of its nine calls, which looks the
tile up in the cache, may throw another tile out and makes a new entity. Camera
and tiles are in thirds of the world's unit, so that 533 1/3, the length of a
tile, is a whole number, and the conversions to `int` are modelled as the
truncations they are. Which of several equally far tiles is thrown out hangs on
the rounding of float products: any of them may be. Tiles off the map are
loaded like others, since only the middle one is checked.

## 3. What the runs check

| Run | Distinct states | Instance | Question |
|---|---|---|---|
| `async_port_safety` | 372,918 | two clients, three messages (two of one client), two of them cancellable, two handlers of which one message suits both and one none, two open/close cycles | wakeups, stop protocol, close and flush, assertions, refinement of `MessagePort` |
| `async_port_live` | 163,452 | the same without cancellation, one handler, both modes, one waiting client | messages are taken, waits and closes return, no deadlock |
| `refcount` | (violated) | two threads, three `Ptr`s | see section 5 |
| `tcp_server` | 66,958 | an HTTP peer and another one, two cycles | places of connections, closing, answering, service, refinement of `ConnectionService` |
| `resources` | 425,526 | three files, one generated resource and a patient client; two files and two clients that discard at any time | assertions, reference counts, pending list, settling, refinement of `ResourceStore` |
| `entities` | 98,795 | three entities, three removals per world | agreement of the records, callbacks, removals |
| `instances` | 1,231,168 | two keys, two levels, three rows | deletions, commits, lookups, levels |
| `instances_commit` | (violated) | the same | see section 5 |
| `save_games` | 3,823,496 | two save games, three moments of play, crashes | what saving and loading keep, what is on the disk, refinement of `GameArchive` |
| `application` | 262,430 | a menu, two games, a level of two entities, two more created up to three times | states, features, callbacks, quitting |
| `application_load` | (violated) | the same | see section 5 |
| `map_tiles` | 3,798,895 | five by five tiles, the cache of sixteen, three middle tiles one after the other | cache and stage, ground shown, what of the nine tiles stays |

The properties are stated with their reasons above each definition. The ones a
reader should look at first:

* `WakeupNotLost`, `StopNotLost`: why the unlocked test in `SafeQueue::Wait`
  and the order in `Win32Thread::Stop` are right.
* `CloseHandlesAll` and `FlushLeavesOne`: although `Flush` returns one message
  early (section 5), `Close` does not, because the thread finishes its message
  before it ends.
* `ImplementsMessagePort`: the refinement mapping takes the queue to the
  pending messages, the thread's current message to the one being served. No
  message is lost, repeated or overtaken, since none is in `MessagePort`.
* `StopsOnlyByCancel`, `StopsOnlyBy`: the assertions that can be reached are
  reached in the cases named and in no others.
* `Consistent` of `TcpServer` and `AnswersOpenConnections`: the two threads of
  the server and the frame that answers a connection another step has dropped.
* `ImplementsConnectionService`: a connection is refused, served or dropped as
  in a server without threads. One that is closed does not come back, a
  request is taken and answered once, and a `Close` leaves no peer behind.
* `CloseReturnsOrRequestLost`: `Close` returns, or else the listener is where
  the one known race puts it (section 5).
* `Consistent` of `ResourceMapper` (its part `PendingTracked`): the pending list
  is exactly what handles wait for, each once. `LoadsSettle` follows the way
  from the request to the handle; `CountsAgree` and `DeadIsUnloaded` are about the two
  counts over one object.
* `ImplementsResourceStore`: what a client sees through its handle is filled in
  once and does not change until the last client of the id lets it go, although
  readers and handles share objects and a load may be given up in flight. A use
  count that is off by one, or a message that reaches a later handle, would
  break it.
* `CalledOnce`, `StaysUntilFrameEnd`, `StopsOnlyBy`: what re-entrant
  attachments and removals may and may not do to a frame under way.
* `DeletedStaysDeleted`: rows keep their flag of being new and are inserted by
  every commit; what was deleted nevertheless stays away.
* `LoadedOnce`: lookups go to the database with values that may have changed in
  memory; only then do they load an instance again.
* `SavedIsKept`, `LoadedAsKept` and, in `Consistent` of `SaveGames`,
  `OneCompleteCopy`: what a save game holds and when it is the only complete
  one, with a crash between any two steps.
* `ImplementsGameArchive`: the game does not change while it is saved, of the
  save games only the one being written can be lost, and a crash costs at most
  that one and the intactness of the next load. `GameArchive` does not promise that one
  of two complete copies survives, which `OneCompleteCopy` adds.
* `RequestHonoured`, `QuitLeaves`: requests of callbacks compete with each other
  and with the state the handler returns.
* `KeptShown`: what a full cache throws out is the tile farthest from the one
  being loaded, not from the camera, so tiles the same `EnterTile` has just set
  can go. Those of the first rows may, even on a straight walk; the middle tile
  and the last row never do.

### Bounds

`MaxOpens` bounds how often a port or server is opened; two cycles are needed
for state that survives a close (a set event, a stop request, queued messages)
to meet a new thread. `MaxRequests` bounds removals per world: two removals
of one entity and one of another are the smallest case in which a repeated
removal meets an ordinary one. Three messages are the least for which erasing in the
middle of a queue can change an order. Three files are the least for which a
frame can find more finished loads than it takes. Two clients share a handle;
a third would repeat the second. `MaxRows` allows three rows: an instance twice
and another one. `MaxMoment` allows three moments of play: one that is saved,
one that is played on, and one of another game. `MaxSpawns` allows one entity
created in each of two games and one while one of them is cleaned up.
`MaxCrossings` bounds how often the middle tile is set anew, the first time
included: two fill the cache, and the third throws tiles out. The map is
five tiles wide instead of 64 and has the tiles off its edge as well, forty-nine
in all. On a map of three tiles a straight walk never loses one of the nine; on
this one it does. `MaxRefs` bounds the `Ptr`s to one object.
Message objects, peers, generated
resources and entities are model values. No symmetry is declared: message
objects differ by their sender and handlers, liveness is checked in half of the
runs, and the instances are small enough without.

### Fairness

* `AsyncPort`: weak fairness of the handler thread and of each client's
  operation that has begun. Win32 schedules a runnable thread eventually, and
  a wait on a set event returns. No call is ever forced: a client may never
  send, wait or close.
  `WaitsReturn` and `CloseReturns` are checked for ports whose handlers accept
  every message and callers that do not cancel: only a handled message signals
  the event that `Wait`, `Flush` and `Close` wait for, and a port with a
  message nobody accepts really does hang them.
* `TcpServer`: weak fairness of the listener, of the steps of a `Close` that has
  begun, of `Recv` and of `Answer`: the application calls `OnFrame` once per
  frame. Peers are under no obligation, and neither is the call of `Close`.
* `ResourceMapper`: weak fairness of `Prepare` (called every frame) and of the IO
  thread's answer to each message. Clients are under no obligation.
* `EntityManager`: weak fairness of the start's loop and of the frame's. Game code is under
  no obligation.
* `GameApplication`: weak fairness of the program's own next step (`Advance`).
  There is always one until the application is closed, and the main loop takes
  it; callbacks are free to do nothing.
* `Instances`, `SaveGames`, `WorldManager`, `RefCounted`: none; their properties
  are about what happened.

`CHECK_DEADLOCK FALSE` is used where the program may stop for good: after a
failed assertion (`async_port_safety` with cancellation, `resources`,
`entities`), once the resource servers are closed, when the last `Ptr` to an
object is gone (`refcount`), and in `instances`, once every level has been
deleted. In `tcp_server` it is needed because the `Close` that hangs
(section 5) is a state without a successor once the peers have gone. Deadlock
is checked in `async_port_live`, `save_games`, `application`,
`application_load` and `map_tiles`.

## 4. What is proved

The theorems below are about the specifications the runs check, without their
instances: any sets of clients, files, peers, slots, levels and values, any
number of entities, any map. All of them are proved down to the last
step. Each rests on an inductive invariant, the conjunction named `IInv` in
most modules, which the initial states satisfy and every action keeps; its
parts were checked by TLC on the instances of section 3 before they were proved.

### Assumptions

The constants are assumed to be what the code makes them, and no more:

* `AsyncPortAssumption`: the owner and the waiters are clients, each message has
  a sender, there is at least one handler.
* `TcpServerAssumption`: HTTP peers are peers, and the connection that wakes the
  listener is none of them.
* `ResourceAssumption`: generated resources are not files; clients and objects
  are finitely many, so that they can be counted.
* `EntityManagerAssumption`: the null entry is not an entity.
* `InstancesAssumption`: finitely many instances, a new game's values are
  values or absent; `NoLevel` and `Absent` are apart from the rest.
* `SaveGamesAssumption`: the shipped database is not a save game; `NoFile` and
  `NoGame` are apart from the rest.
* `GameApplicationAssumption`: menus, games and the exit are apart from each
  other and from `NoState`; a level is a list of entities without repetition, none
  of which the game creates itself.
* `WorldManagerAssumption`: the cache holds more than thirteen tiles (the code's
  sixteen; the theorems need that many), sizes are positive, the camera is where integers
  can say.

The bounds of section 3 (`MaxOpens`, `MaxRequests`, `MaxRows`, `MaxMoment`,
`MaxSpawns`, `MaxCrossings`) are parameters too: the theorems hold for every value of them.

### Theorems

| Module | Theorem | States | From |
|---|---|---|---|
| `AsyncPortProofs` | `TypeCorrect` | `[]TypeOK` | itself |
| | `NoWakeupLost`, `NoStopLost` | `[]WakeupNotLost`, `[]StopNotLost` | `SyncInv` |
| | `FlushMissesOnlyCurrent` | `FlushLeavesOne` | `ServingInv`, `OpInv`, `GoalInv` |
| | `CloseLosesNothing` | `CloseHandlesAll` | `ServingInv`, `OpInv`, `GoalInv` |
| | `OnlyCancelStops` | `[]StopsOnlyByCancel` | `DequeueInv` |
| | `Implementation` | `ImplementsMessagePort` | `TypeOK`, `ServingInv`, `OpInv` |
| `TcpServerProofs` | `BooksInOrder` | `[]Consistent` | `ThreadsInv`, `PlacesInv` |
| | `AnsweredWhileOpen` | `[]AnswersOpenConnections` | `AnswerInv` |
| | `Implementation` | `ImplementsConnectionService` | `IInv`, `ReachInv` |
| `ResourceMapperProofs` | `RecordsAgree` | `[]Consistent` | `IInv` |
| | `PatientClientsAreSafe` | `[]AssertionsHold` | `IInv`, above all `MessageInv`, `PublishedInv` |
| | `Implementation` | `ImplementsResourceStore` | `IInv`, above all `CountsAgree`, `ShownInv`, `MessageInv` |
| `EntityManagerProofs` | `WorldIsConsistent` | `[]Consistent` | `IInv` |
| | `EveryEntityCalledOnce` | `[]CalledOnce` | `FrameInv`, `StartInv` |
| | `StopsForAReason` | `[]StopsOnlyBy` | `JobsInv`, `EarlyInv` |
| | `FunctionsUntilFrameEnd` | `StaysUntilFrameEnd` | `DivisionInv` |
| `InstancesProofs` | `EveryInstanceLoadable` | `[]Consistent` | `LevelInv`, `HalfwayInv` |
| | `DeletedForGood` | `[]DeletedStaysDeleted` | `RowsInv` |
| | `CommitBringsUpToDate` | `[]CommitWritesRows` | `RowsInv` |
| | `NoSecondLoad` | `LoadedOnce` | `RowsInv` |
| `SaveGamesProofs` | `SaveGamesLast` | `[]SavedIsKept` | `TodoInv`, `StepInv`, `SaveInv` |
| | `LoadsBringBack` | `[]LoadedAsKept` | `StepInv`, `LoadInv` |
| | `NeverWithoutCopy` | `[]Consistent` | `StepInv`, `SaveInv` |
| | `Implementation` | `ImplementsGameArchive` | `IInv`, `ArchiveInv` |
| `GameApplicationProofs` | `NoAssertionFails` | `[]AssertionsHold` | `StateInv`, `ServerInv`, `WorldInv` |
| | `StatesConsistent` | `[]Consistent` | `EndOfCall`, `StateInv`, `ServerInv` |
| | `EntitiesStartedOnce` | `[]StartedOnce` | `LifeInv` |
| | `LastRequestHonoured` | `RequestHonoured` | `RequestInv` |
| `WorldManagerProofs` | `StageIsCache` | `[]Consistent` | `CacheInv`, `OpenInv` |
| | `KeptAreShown` | `[]KeptShown` | `EnterInv`, `FarIsThrownOut` |
| | `GroundIsShown` | `[]GroundShown` | `SettledInv`, `AskedInv`, `TruncatedTile` |

### AsyncPort

* `StopNotLost` is not inductive: at `join` nothing says how the thread got
  there. `SyncInv` adds that the request is already pending or obeyed at
  `wakeup`, and that at `join` a thread that has yet to block finds the event
  set as well. `WakeupNotLost` is part of it because the wakeup uses the event
  of the queue.
* `CloseHandlesAll` and `FlushLeavesOne` relate the state at the call with the
  one at the return. `GoalInv` follows the messages in between: until the queue is
  seen empty they are queued, dispatched or cancelled, and from then on
  dispatched or cancelled. `ServingInv` says that a dispatched message other
  than the current one has been through all handlers, and the current one
  through those before `hidx`, and that a thread that has ended holds none.
  `OpInv` ties the place of a client to the call it is in, so that only `Join`
  can end a `Close` and only an empty queue a `Flush`.
* `DequeueInv`: between the test and the taking, the queue is empty only if a
  message was cancelled. No other client takes messages out.
* `Implementation` maps `Open`, `Send` and `SendWait`, `Wait`, `Cancel`,
  `Dequeue`, an accepting `HandleMessage`, the end of the handlers' loop,
  the return of a wait and `Join` to `Open`, `Send`, `Wait`, `Cancel`, `Take`,
  `Handle`, `Release`, `EndWait` and `Close`; all other steps stutter.

### TcpServer

`Consistent` says where a connection may be, and is not inductive: that the
listener adds a connection to a list it is not in already is so because of the
listener's place and of what has not connected yet. `ThreadsInv` says what the places of the two
threads tell about each other and about the lists; `PlacesInv` that the lists
are without repetitions and disjoint, that peers not yet connected are in none,
and that the wakeup is in one only while `Close` waits. `AnswerInv` adds that
what `Recv` returned is answered once each: a connection closed by its own
answer is not met a second time.

`Implementation` needs the converse as well, `ReachInv`: a connection that is
not closed is in one of the lists, the listener has one at a time in its hand, and that
one is open. The listener's `accept` is not seen by `ConnectionService`, the
adding to the list is its `Accept`, or a stutter for the server's connection to
itself; `Recv` is `Poll`; of the steps of `Close` only the last one, which
empties the list, is its `Close`, and the peers still in the backlog are refused
when the listener's socket goes.

### ResourceMapper

Use counts are sums over handles and readers, so each step is a statement about
cardinalities: `Unregistering` is what happens when the last reference goes,
`NewObjectIsFree` that an identity chosen for a new object is in no table.
`SharedInv` makes the table injective (an object is listed under its own id
only), without which a count could belong to two ids. `ShownInv` says that a
handle shows its shared resource or none; `MessageInv` that a loader's message
is in flight only for a handle that waits, whose object is in the pending list.
The converse, `PendingTracked`, is what an impatient client breaks; it and
`AssertionsHold` are about patient clients, everything else is proved for both. `DoneProperties` is
about the handles a frame finds loaded.

`Implementation` rests on `Kept`: an object that is shown keeps its state in every step
that leaves a client of the id, since its use count says whether a release
was the last. `Creating` says what the two ways to make a handle have in common,
`FrameFinishesFew` that the loop of a frame finishes at most two loads, and
`NothingShared` that no two ids show one object, which follows from `SharedInv`.

### EntityManager

The arrays shrink only at the end of a frame, or through null entries of
`active`; the invariant says so for each place of the loop. `WorldInv` says that array and
registry list each entity of the world once, `DivisionInv` that the triggered
and untriggered ones are among them, `JobsInv` that a job finds its entity.
`FrameInv` and `StartInv` count calls by the cursor: an entity in front of it
has had one more than those behind it. `CalledOnce` alone is not inductive, for
it does not say what the loops before gave. `EarlyInv` says that until the
game has started nothing has left the array and no job waits, unless a removal
was asked for before the start, which is what `StopsOnlyBy` names.

### Instances

`DeletedStaysDeleted` fails to be inductive because of rows: a commit inserts
what is flagged new, and rows keep that flag. `RowOK` says of each row
that its instance, if deleted, has deleted rows only, with the exception of an
instance that `LoadedOnce` admits a second row of (`TwiceIn`). `LevelInv` is
why operations on whole levels, which write the database directly, meet no rows
in memory: without a level there are none. `HalfwayInv` is the state
between their two transactions, in which a crash is possible.

### SaveGames

An operation is a list of steps, so the invariant is about lists: `TodoInv`
says that what is left to do is the end of one of the operations, `StepInv`
what has been done by the time each of its steps is next, by `StepOrder`.
`SaveInv` says which save games may be incomplete and that until the copy begins the old one
is there; `LoadInv` what is being loaded.

`Implementation` needs to know what is being loaded without the history
variables: by `ArchiveInv` the world is a copy of its source when it is opened, and
is that or a damaged file when it is loaded, the latter only after a rollback;
and an open database has no journal beside it. That `Finish` archives the game
in memory is `StepInv`: by the time of the copy all three parts of the world have been
written from it.

### WorldManager

`FarIsThrownOut` is the heart: at most thirteen tiles are within two steps of a
tile (`ThirteenAreNear`, by an injection into 1..13), so of more than thirteen the
farthest is at least three steps away. Hence a tile within two steps of all
that are loaded after it stays (`EnterInv`), which holds of the middle tile and
of the last row (`KeptAreShown`). `TruncatedTile` relates the two truncations of
the camera's position with the tile below it, from which `GroundShown` follows
by `SettledInv`. An earlier property, that all nine stay unless the camera steps
diagonally, held on a map of three by three tiles; the attempt to prove it showed that it
fails on wider maps, where TLC then found a straight walk.

### GameApplication

A step puts the steps it calls in front of `todo`, so the invariant has to say
which lists there may be. `Follows(a)` are the steps that may come right after
the step `a`, and `EndOfCall(todo)` says that each follows the one before and the last one
ends a call; putting the steps of a call in front of what follows it keeps that. What
holds at a step then hangs on its name and on the steps behind it that mark where in a
transition the program is (`Stop`, `SetStarted`, `OnStateLeave`,
`OnStateEnter`, `ClearRequest`, `CloseServer`): `Pending(x)` says that such a mark is still to come.

* `StateInv` says which state is current between which marks, `ServerInv` from which step to which
  the server is started and each feature attached. Neither is inductive without
  the other: entering a game attaches its feature only if it is known not to be
  attached.
* `WorldInv` says where the world is empty, and that the entities of a level that are still to be
  attached are not there, for otherwise a callback's entity could be one of them.
* `LifeInv` is `StartedOnce` in the middle of `StartEntities`: the loop is
  at a position, the entities in front of it are started, the others not.
  Entities attached by the callbacks of the loop come behind it, and are reached.
* `RequestInv`: outside of a transition what is owed is what is requested, and in one it
  is the state the transition leads to, which the last of its steps names.

### Lemmas

The proof modules begin with what they need about sequences:
`SelectProperties` and `SelectRange` say that `Select`
keeps the elements of the set, all of them and in their order; `RangeOfAppend`,
`RangeOfTail` and `RangeOfErase` what queues gain and lose; `Injective*` that
lists stay without repetitions; `MinProperties`, `MaxProperties` and
`SetToSeqProperties` what the operators of the community modules return.
`GameApplicationProofs` has such lemmas about lists of steps (what `Head`,
`Tail` and `\o` do to `EndOfCall` and to the marks), so that each action is left
with what it changes.

## 5. Disagreements between code and documentation

### Shown by a run

TLC finds these runs violated; the lines of the code and of the text are in
`PROJECT.json` under `findings`.

* `refcount`: `Release` decrements the count and then reads it again instead of
  using the result of the decrement. Two threads that drop the last two `Ptr`s
  both read zero, and both delete the object. The two threads of an `AsyncPort`
  do that with every message whose sender does not wait for it.
* `instances_commit`: a change by `SetInt`, `SetFloat` or `SetBool` flags the row
  but not the table, and is not written unless a string-like attribute changes
  or a row is added as well.
* `application_load`: entities of a level get `OnStart` without `OnLoad`, and
  those of a save game loaded into a running game get it before the rest of the
  level exists.

### Met on the way, and stated by a property with an exception

The property of the passing run names the case in which the code departs, so
that it shows there is no other.

* `StopsOnlyByCancel`: `DoWork` tests `IsEmpty()` and then calls `Dequeue()`
  (safequeue.h:134). A `Cancel` in between empties the queue, and
  `Array::Front` asserts (array.h:593).
* `FlushLeavesOne`: `Flush` "will wait until ALL pending messages have been
  handled", but returns once the queue is empty (asyncport.cc:339), when the
  last message may still be with its handlers.
* `WaitsReturn` holds for one waiting client. Two share one auto-reset event
  (asyncport.cc:159, 328): one takes the signal of the other, which then waits
  although its message has been handled.
* `CloseReturnsOrRequestLost`: the listener tests its stop request twice per
  round (tcpserver.cc:189, 192), and the test resets it (win32thread.h:52). If
  the second test consumes it the listener blocks in `accept`, and `Close` does
  not return.
* `AssertionsHold` of `ResourceMapper` holds for patient clients: a handle
  discarded while its load is in flight compares the pending entries with
  `GetResource()`, which never returns a pending resource
  (simpleresourcemapper.cc:200, 203), so the entry stays and the next frame
  asserts.
* `StopsOnlyBy`: a removal asked for twice in a frame, and one before the game
  has started, stop the program. The compaction of the registry
  (entitymanager.cc:315, 341, 349) advances its index twice per kept entry and
  leaves null entries behind; nothing depends on them.
* `LoadedOnce`: a lookup by an attribute that was changed and not committed
  loads the instance a second time.
* `Consistent` of `Instances`: `RenameLevel` changes the primary key of the
  level's row, and the UPDATE looks for the row under the new key: the level
  keeps its old name in `_Instance_Levels` while its instances have the new one.
* `LoadedAsKept`: only `world.db4` is replaced by a load. A journal left by a
  crash belongs to the file before, and SQLite rolls it back into the copy.
* `GroundShown`: if the camera is off the map when the world has been loaded,
  the request for the first tiles is cleared all the same (worldmanager.cc:205),
  and nothing is loaded wherever the camera goes (`missed`).
* `KeptShown`: `EnterTile` sets the nine tiles of the new middle, and a full
  cache may throw some of them out again before it is done (worldmanager.cc:341);
  they stay among the nine without an entity on the stage. The middle tile and the last
  row are not concerned.

### Met on the way, and only recorded here

* `GetEntitiesByAttr` passes its arguments in another order than the function it
  calls takes them (entitymanager.cc:801).
* sqlite3command.cc:235-239 says that reading from the database does not count
  as modification. `SetInt` flags the row whether tracking is on or not.
* `ContinueGame` asserts that the profile directory is a file, which fails on
  Win32. `LoadGame` cleans the world up before it finds that the save game does
  not exist, and then asserts, though its comment promises a return value
  (basegamefeatureunit.cc:316-319). `LoadLevel` replaces the world with the
  shipped one. F5 in an empty world dereferences a null database.
  `CleanupWorld` is said to flush the world's state into the database; nothing is
  committed. `SaveGames` models each of these as the code has it.
* "Requested state will be activated at the end of the frame"
  (gameapplication.cc:178-180), but a request made while a transition runs is
  dropped at its end (line 173). gameserver.cc:111 says that `Stop` comes before
  the clean-up; gamestatehandler.cc has it after.
* `Port::AttachHandler` (port.cc:31) asserts that the handler is attached
  already. Nothing attaches handlers to a `Port`.
* The messages that would read map tiles on another thread go to the IO port,
  whose handler does not know them; the port with the handler that does is
  opened by nobody. Tiles stay pending at this commit, and what follows the
  loading of a tile never runs. terrainentity.cc:91 says, in Chinese, that
  releasing the chunks there confuses the stage's count and that the class is to
  be redesigned.

## 6. What is only model-checked, and what is not modelled

Liveness (`MessagesTaken`, `WaitsReturn`, `CloseReturns`, `RequestsServed`,
`CloseReturnsOrRequestLost`, `LoadsSettle`, `RemovalHappens`, `QuitLeaves`) is
out of the prover's reach, as is everything about `ENABLED`, and is checked on
the instances only.

All safety properties that hold are proved. `RefCounted` has one property, which
is violated (section 5); no theorem is stated about it.
What `SelectSeq` computes is only compared with `Select` by TLC, on short
sequences: it is defined by recursion, and facts about it need induction.

Left out of the modelled parts:

* `AsyncPort`: `Peek`, which reads one flag; names, priorities and stack sizes;
  what a handler does to a message besides accepting it.
* `threading`: `DequeueAll`, `WaitTimeout`, `SafePriorityQueue`, barriers.
* `RefCounted`: the debug build's list of live objects.
* `TcpServer`: sending in packets, requests in several segments, the parsing
  and the pages of HTTP.
* `ResourceMapper`: more than one mapper, placeholders, saving, the setup of a
  texture from its stream.
* `EntityManager`: the database rows of deleted entities (which are in
  `Instances`); calls made by `OnDeactivate` and by the gain and loss of
  activity; distances, of which only the result (near or not) is kept.
* `Instances`: templates, blueprints, the growth of tables, columns and indices,
  and how SQL is put together.
* `SaveGames`: the static database, the game database in memory (no application
  turns it on), the user profile.
* `GameApplication`: managers other than the entity manager, timing, input.
* `WorldManager`: index buffers, models that tiles share, the contents of tiles.

Not modelled at all, with reasons, are the components of status
`not_modelled` in `PROJECT.json`. Drawing, geometry, parsing, SQL and the script
interpreter have no state protocol of their own that a model would add to.
Most lines of the repository are code of other projects kept in the tree
(`extlibs`: SQLite, ODE, OPCODE, Lua, zlib and others), `kok`'s renderer and
tools. The models stop at the calls into them: SQLite is modelled as the
transactions and the journal its callers rely on, Win32 as its events, threads
and sockets.

Hazards without a property say in their note what is missing to cover them.
Known and not in that list: an
`OnDeactivate` callback that asks for a removal while `Cleanup` runs leaves a
job after `Clear()` (entitymanager.cc:281); `HasActiveEntities` counts null
entries (entitymanager.cc:300), on which the assertion that the world is empty
rests; the render callback `BaseGame` is added with each game and never removed.

## 7. What is left

The model covers the parts with threads, re-entrance, persistence and caches.
What would come next, in this order:

Theorems:

* `RefCounted`: that no object is deleted while a thread holds a `Ptr` to it,
  which remains true of the code; the invariant is that the count is the number
  of `Ptr`s and of pending decrements.

Models:

* `TcpClient` and sends in packets, composed with the peers of `TcpServer`.
* Entities with properties: callbacks registered and removed while they run.
* `TimeManager`, the streams' protocol and the render device: small sequential
  machines, of less interest than what is modelled.
