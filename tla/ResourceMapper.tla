--------------------------- MODULE ResourceMapper ---------------------------
(***************************************************************************)
(* The resource pipeline of the render thread: a ResourceManager with one   *)
(* attached SimpleResourceMapper, the SharedResourceServer that owns the    *)
(* Resource objects, and the stream loaders that read them asynchronously   *)
(* through the IO interface (src/code/render/resources/*, loader            *)
(* d3d9streamtextureloader.cc).                                             *)
(*                                                                          *)
(* Two reference counts meet here: a ManagedResource counts its clients,    *)
(* a Resource counts who shares it, and only the pending list of the        *)
(* mapper connects a load in flight with the handle that waits for it.      *)
(*                                                                          *)
(* All actions except ServeRead run in the render thread, each one to its   *)
(* end; ServeRead is the IO thread answering a ReadStream message.          *)
(* A failed n_assert stops the program: it is recorded in "broken".         *)
(***************************************************************************)
EXTENDS Naturals, SequencesExt, Filter

CONSTANTS
    Files,      \* resource ids that are read from a stream
    Generated,  \* resource ids of objects built by a reader and registered as loaded
    Clients,    \* the model nodes that hold managed resources
    Objects,    \* identities of Resource objects (reused once nobody refers to them)
    Nothing,    \* the null pointer
    Uses        \* who uses the mapper, a set of records: the files and clients that
                \* take part, and whether they are patient (never drop, nor remove the
                \* mapper of, a pending resource)

ASSUME ResourceAssumption ==
    /\ Files \cap Generated = {}
    /\ IsFiniteSet(Clients) /\ IsFiniteSet(Objects)
    /\ Nothing \notin Objects
    /\ Uses \subseteq [files : SUBSET Files, clients : SUBSET Clients, patient : BOOLEAN]

Ids == Files \cup Generated

\* OnPrepare stops polling once "loadNum > 1".
LoadsPerFrame == 2

VARIABLES
    use,          \* the member of Uses this behaviour is about
    phase,        \* "open", "removed" (mapper removed), "closed" (shared server closed)
    broken,       \* the function whose assertion stopped the program, or "none"
    asyncEnabled, \* ResourceMapper::asyncEnabled
    managed,      \* the keys of SimpleResourceMapper::managedResources
    clientCount,  \* ManagedResource::clientCount, by id
    shown,        \* ManagedResource::resource, by id
    holders,      \* the clients with a pointer to the managed resource, by id
    pending,      \* SimpleResourceMapper::pendingResources
    shared,       \* SharedResourceServer::resources
    published,    \* generated ids whose reader still owns a use of the shared resource
    res           \* the Resource objects with the message of their loader

vars == <<use, phase, broken, asyncEnabled, managed, clientCount, shown, holders,
          pending, shared, published, res>>

States == {"Initial", "Loaded", "Pending", "Failed"}

\* A Resource: id, state, useCount, and readStreamMsg of its loader: "none",
\* "sent" (not handled), or handled with a usable stream ("ok") or not ("bad").
Resource == [id : Ids \cup {Nothing}, state : States, useCount : Nat,
             msg : {"none", "sent", "ok", "bad"}]

\* Some smart pointer keeps the object alive.
Referenced(o) ==
    \/ \E i \in Ids : shared[i] = o
    \/ \E i \in Ids : clientCount[i] > 0 /\ shown[i] = o
    \/ o \in Range(pending)

Unreferenced == {o \in Objects : ~Referenced(o)}

\* Which identity a new object gets makes no difference.
NewObject == CHOOSE o \in Unreferenced : TRUE

Init ==
    /\ use \in Uses
    /\ phase = "open" /\ broken = "none"
    /\ asyncEnabled \in BOOLEAN
    /\ managed = {} /\ published = {}
    /\ clientCount = [i \in Ids |-> 0]
    /\ holders = [i \in Ids |-> {}]
    /\ shown = [i \in Ids |-> Nothing]
    /\ shared = [i \in Ids |-> Nothing]
    /\ pending = <<>>
    /\ res = [o \in Objects |->
                [id |-> Nothing, state |-> "Initial", useCount |-> 0, msg |-> "none"]]

Running == broken = "none"

(***************************************************************************)
(* Pieces of Resource and SharedResourceServer.                             *)
(***************************************************************************)
NewResource(i) == [id |-> i, state |-> "Initial", useCount |-> 1, msg |-> "none"]

\* Unload: a pending load is cancelled (the loader drops its message).
Unload(r) == [r EXCEPT !.state = "Initial", !.msg = "none"]

\* Mutant: the object is not unloaded when its last use is gone.
Unregistered_KeepsLoaded(r) == [r EXCEPT !.useCount = @ - 1]
\* Mutant: the object is unloaded although another use is left.
Unregistered_Always(r) == [Unload(r) EXCEPT !.useCount = r.useCount - 1]

\* UnregisterSharedResource for the ids in S: the last use unloads the object.
Unregistered(r) ==
    IF r.useCount = 1 THEN [Unload(r) EXCEPT !.useCount = 0]
                      ELSE [r EXCEPT !.useCount = @ - 1]

ResAfterUnregister(S) ==
    [o \in Objects |-> IF \E i \in S : shared[i] = o THEN Unregistered(res[o]) ELSE res[o]]

SharedAfterUnregister(S) ==
    [i \in Ids |-> IF i \in S /\ res[shared[i]].useCount = 1 THEN Nothing ELSE shared[i]]

\* Load on a resource that is neither loaded nor pending, by its loader's
\* OnLoadRequested: a message to the IO thread, or a read on the spot.
Requested(r) ==
    IF asyncEnabled THEN {[r EXCEPT !.state = "Pending", !.msg = "sent"]}
                    ELSE {[r EXCEPT !.state = s] : s \in {"Loaded", "Failed"}}

\* Load on a pending resource, by its loader's OnPending.
Polled(r) ==
    CASE r.msg = "ok"  -> [r EXCEPT !.state = "Loaded", !.msg = "none"]
      [] r.msg = "bad" -> [r EXCEPT !.state = "Failed", !.msg = "none"]
      [] OTHER         -> r

(***************************************************************************)
(* A reader that builds its object itself (terrain textures, meshes of      *)
(* shape nodes): CreateSharedResource, then SetState(Loaded); and later     *)
(* UnregisterSharedResource.                                                *)
(***************************************************************************)
Publish(i) ==
    /\ Running /\ phase = "open" /\ i \in Generated /\ shared[i] = Nothing
    /\ Unreferenced # {}
    /\ res' = [res EXCEPT ![NewObject] = [NewResource(i) EXCEPT !.state = "Loaded"]]
    /\ shared' = [shared EXCEPT ![i] = NewObject]
    /\ published' = published \cup {i}
    /\ UNCHANGED <<use, phase, broken, asyncEnabled, managed, clientCount, shown, holders, pending>>

Withdraw(i) ==
    /\ Running /\ phase = "open" /\ i \in published
    /\ res' = ResAfterUnregister({i})
    /\ shared' = SharedAfterUnregister({i})
    /\ published' = published \ {i}
    /\ UNCHANGED <<use, phase, broken, asyncEnabled, managed, clientCount, shown, holders, pending>>

(***************************************************************************)
(* OnCreateManagedResource.                                                 *)
(***************************************************************************)
\* The id is managed already: one more client.
CreateAgain(c, i) ==
    /\ Running /\ phase = "open" /\ i \in managed /\ c \in use.clients \ holders[i]
    /\ clientCount' = [clientCount EXCEPT ![i] = @ + 1]
    /\ holders' = [holders EXCEPT ![i] = @ \cup {c}]
    /\ UNCHANGED <<use, phase, broken, asyncEnabled, managed, shown, pending, shared, published, res>>

\* Mutant: the handle shows the resource although it is still being loaded.
Adopt_ShowsPending(i, o, r) ==
    /\ res' = [res EXCEPT ![o] = r]
    /\ shown' = [shown EXCEPT ![i] = o]
    /\ pending' = IF r.state = "Pending" THEN Append(pending, o) ELSE pending

\* The handle for id i gets object o in state r: shown if it is there, polled if it is pending.
Adopt(i, o, r) ==
    /\ res' = [res EXCEPT ![o] = r]
    /\ shown' = [shown EXCEPT ![i] = IF r.state = "Pending" THEN Nothing ELSE o]
    /\ pending' = IF r.state = "Pending" THEN Append(pending, o) ELSE pending

\* A new handle for an object that the shared server has already.
AdoptShared(i) ==
    /\ shared[i] # Nothing
    /\ Adopt(i, shared[i], [res[shared[i]] EXCEPT !.useCount = @ + 1])
    \* Load, called on a failed resource, finds its loader not Initial.
    /\ broken' = IF res[shared[i]].state = "Failed" THEN "OnLoadRequested" ELSE "none"
    /\ UNCHANGED shared

\* A new handle and a new object: a load is requested.
LoadNew(i) ==
    /\ shared[i] = Nothing /\ i \in use.files
    /\ Unreferenced # {}
    /\ shared' = [shared EXCEPT ![i] = NewObject]
    /\ \E r \in Requested(NewResource(i)) : Adopt(i, NewObject, r)
    /\ UNCHANGED broken

CreateManaged(c, i) ==
    /\ Running /\ phase = "open" /\ i \notin managed /\ c \in use.clients
    /\ managed' = managed \cup {i}
    /\ clientCount' = [clientCount EXCEPT ![i] = 1]
    /\ holders' = [holders EXCEPT ![i] = {c}]
    /\ AdoptShared(i) \/ LoadNew(i)
    /\ UNCHANGED <<use, phase, asyncEnabled, published>>

(***************************************************************************)
(* OnDiscardManagedResource.                                                *)
(***************************************************************************)
\* Nobody gives up a handle whose resource is still being loaded.
WaitsForLoad(i) == use.patient => shown[i] # Nothing

DiscardOne(c, i) ==
    /\ Running /\ phase = "open" /\ c \in holders[i] /\ clientCount[i] > 1
    /\ clientCount' = [clientCount EXCEPT ![i] = @ - 1]
    /\ holders' = [holders EXCEPT ![i] = @ \ {c}]
    /\ UNCHANGED <<use, phase, broken, asyncEnabled, managed, shown, pending, shared, published, res>>

\* The pending list without what the handle shows: GetResource gives out a
\* resource only while it is Loaded, and this one has just lost a use.
PendingAfterDiscard(i) ==
    Select(pending, {o \in Objects : ~(o = shown[i] /\ res'[o].state = "Loaded")})

DiscardLast(c, i) ==
    /\ Running /\ phase = "open" /\ c \in holders[i] /\ clientCount[i] = 1
    /\ WaitsForLoad(i)
    /\ res' = ResAfterUnregister({i})
    /\ shared' = SharedAfterUnregister({i})
    /\ pending' = PendingAfterDiscard(i)
    /\ managed' = managed \ {i}
    /\ clientCount' = [clientCount EXCEPT ![i] = 0]
    /\ holders' = [holders EXCEPT ![i] = {}]
    /\ shown' = [shown EXCEPT ![i] = Nothing]
    /\ UNCHANGED <<use, phase, broken, asyncEnabled, published>>

(***************************************************************************)
(* OnPrepare, once per frame: poll the pending resources in order, until    *)
(* LoadsPerFrame of them have finished.                                     *)
(***************************************************************************)
Finishing == {k \in 1..Len(pending) : res[pending[k]].msg \in {"ok", "bad"}}
FinishingBefore(k) == Cardinality({j \in Finishing : j < k})

\* The positions whose resource finishes in this call.
FinishedNow == {k \in Finishing : FinishingBefore(k) < LoadsPerFrame}
\* The positions the loop looks at before it leaves; each must be pending.
Looked == {k \in 1..Len(pending) : FinishingBefore(k - 1) < LoadsPerFrame}

PrepareBreaks ==
    /\ Running /\ phase = "open"
    /\ \E k \in Looked : res[pending[k]].state # "Pending"
    /\ broken' = "OnPrepare"
    /\ UNCHANGED <<use, phase, asyncEnabled, managed, clientCount, shown, holders,
                   pending, shared, published, res>>

\* The resources of FinishedNow, and those for one handle.
Done == {pending[k] : k \in FinishedNow}

\* Mutant: the handle is not told of a load that failed.
DoneFor_OnlyLoaded(i) == {o \in Done : res[o].id = i /\ res[o].msg = "ok"}
DoneFor(i) == {o \in Done : res[o].id = i}

Prepare ==
    /\ Running /\ phase = "open"
    /\ \A k \in Looked : res[pending[k]].state = "Pending"
    /\ res' = [o \in Objects |-> IF o \in Done THEN Polled(res[o]) ELSE res[o]]
    /\ shown' = [i \in Ids |-> IF DoneFor(i) = {} THEN shown[i] ELSE CHOOSE o \in DoneFor(i) : TRUE]
    /\ pending' = Select(pending, Objects \ Done)
    /\ UNCHANGED <<use, phase, broken, asyncEnabled, managed, clientCount, holders, shared, published>>

\* The IO thread handles a ReadStream message.
ServeRead(o) ==
    /\ Running /\ res[o].msg = "sent"
    /\ \E m \in {"ok", "bad"} : res' = [res EXCEPT ![o].msg = m]
    /\ UNCHANGED <<use, phase, broken, asyncEnabled, managed, clientCount, shown, holders,
                   pending, shared, published>>

(***************************************************************************)
(* Shutdown: ResourceManager::Close removes the mapper, then                *)
(* SharedResourceServer::Close unloads what is left.                        *)
(***************************************************************************)
\* OnRemoveFromResourceManager discards every managed resource once.
RemoveMapper ==
    /\ Running /\ phase = "open"
    /\ use.patient => pending = <<>>
    /\ phase' = "removed"
    /\ LET dropped == {i \in managed : clientCount[i] = 1}
       IN  /\ res' = ResAfterUnregister(dropped)
           /\ shared' = SharedAfterUnregister(dropped)
           /\ shown' = [i \in Ids |-> IF i \in dropped THEN Nothing ELSE shown[i]]
           /\ clientCount' = [i \in Ids |-> IF i \in managed THEN clientCount[i] - 1
                                                             ELSE clientCount[i]]
    /\ managed' = {}
    /\ broken' = IF pending = <<>> THEN "none"
                 ELSE "OnRemoveFromResourceManager"
    /\ UNCHANGED <<use, asyncEnabled, holders, pending, published>>

CloseShared ==
    /\ Running /\ phase = "removed"
    /\ phase' = "closed"
    /\ res' = [o \in Objects |-> IF \E i \in Ids : shared[i] = o THEN Unload(res[o]) ELSE res[o]]
    /\ shared' = [i \in Ids |-> Nothing]
    /\ UNCHANGED <<use, broken, asyncEnabled, managed, clientCount, shown, holders, pending, published>>

Next ==
    \/ \E i \in Ids : Publish(i) \/ Withdraw(i)
    \/ \E c \in Clients, i \in Ids :
        CreateAgain(c, i) \/ CreateManaged(c, i) \/ DiscardOne(c, i) \/ DiscardLast(c, i)
    \/ PrepareBreaks \/ Prepare
    \/ \E o \in Objects : ServeRead(o)
    \/ RemoveMapper \/ CloseShared

Spec == Init /\ [][Next]_vars

\* The render thread calls Prepare in every frame and the IO thread answers
\* every message it is sent.
FairSpec ==
    /\ Spec
    /\ WF_vars(Prepare)
    /\ \A o \in Objects : WF_vars(ServeRead(o))

(***************************************************************************)
(* Properties.                                                              *)
(***************************************************************************)
\* Every variable stays in its domain.
TypeOK ==
    /\ use \in Uses
    /\ phase \in {"open", "removed", "closed"}
    /\ broken \in {"none", "OnLoadRequested", "OnPrepare", "OnRemoveFromResourceManager"}
    /\ asyncEnabled \in BOOLEAN
    /\ managed \in SUBSET Ids
    /\ clientCount \in [Ids -> Nat]
    /\ shown \in [Ids -> Objects \cup {Nothing}]
    /\ holders \in [Ids -> SUBSET Clients]
    /\ pending \in Seq(Objects)
    /\ shared \in [Ids -> Objects \cup {Nothing}]
    /\ published \in SUBSET Generated
    /\ res \in [Objects -> Resource]

\* As long as no client gives up a load in flight, none of the assertions of
\* mapper, loaders and shared server fails (simpleresourcemapper.cc:99, 243,
\* d3d9streamtextureloader.cc:44), whatever order the IO thread answers in.
AssertionsHold == use.patient => broken = "none"

\* Both reference counts count somebody: a managed resource its clients, the
\* shared resource the managed one and the reader that made it, and no id
\* that somebody uses is missing from the shared server.
CountsAgree ==
    phase = "open" =>
        \A i \in Ids :
            LET users == (IF i \in managed THEN 1 ELSE 0) + (IF i \in published THEN 1 ELSE 0)
            IN  /\ clientCount[i] = Cardinality(holders[i])
                /\ i \in managed <=> clientCount[i] > 0
                /\ shared[i] # Nothing <=> users > 0
                /\ shared[i] # Nothing => res[shared[i]].useCount = users

\* With patient clients the pending list holds exactly the resources that some handle still waits
\* for, each once: a handle that shows nothing is always going to be updated
\* by OnPrepare, and OnPrepare never updates a handle twice.
PendingTracked ==
    use.patient /\ phase = "open" =>
        /\ \A j, k \in 1..Len(pending) : pending[j] = pending[k] => j = k
        /\ Range(pending) = {shared[i] : i \in {j \in managed : shown[j] = Nothing}}
        /\ \A o \in Range(pending) : res[o].state = "Pending" /\ res[o].msg # "none"

\* A resource nobody refers to any more is neither loaded nor pending, which is
\* what ~Resource asserts (resource.cc:30, 31), also after a shutdown.
DeadIsUnloaded ==
    \A o \in Objects :
        ~Referenced(o) => res[o].state \notin {"Loaded", "Pending"} /\ res[o].msg = "none"

\* The records of mapper, shared server and loaders agree: the types, both
\* reference counts, the pending list and what no one refers to any more.
Consistent == TypeOK /\ CountsAgree /\ PendingTracked /\ DeadIsUnloaded

\* Every handle of a patient client stops waiting: its load succeeds or fails,
\* although OnPrepare finishes only LoadsPerFrame loads per frame.
LoadsSettle ==
    \A i \in Ids : (use.patient /\ i \in managed /\ shown[i] = Nothing) ~> shown[i] # Nothing

(***************************************************************************)
(* The mapper implements its promise.                                       *)
(***************************************************************************)
\* What the holders of a handle see through it.
View ==
    [i \in Ids |->
        IF phase # "open" \/ i \notin managed THEN [state |-> "Absent", object |-> Nothing]
        ELSE IF shown[i] = Nothing THEN [state |-> "Waiting", object |-> Nothing]
        ELSE [state |-> res[shown[i]].state, object |-> shown[i]]]

Store == INSTANCE ResourceStore WITH
    open <- phase = "open", async <- asyncEnabled, view <- View, PerFrame <- LoadsPerFrame

\* What a client sees through its handle does not change under it: once there,
\* the resource stays the same object in the same state for as long as a client
\* holds it, whatever other clients, readers, frames and the IO thread do, also
\* when clients give up loads in flight; only what waits is ever filled in.
ImplementsResourceStore == Store!Spec
=============================================================================
