--------------------------- MODULE ResourceStore ---------------------------
(***************************************************************************)
(* What ResourceManager and SharedResourceServer promise to those who hold  *)
(* managed resources, without use counts, messages and lists: the first     *)
(* client of an id has it read, and waits if that is done by another        *)
(* thread; each frame lets a few of those that wait see their resource;     *)
(* from then on it is the same object in the same state for all clients of  *)
(* the id, until the last of them lets it go.  No two ids show one object.  *)
(***************************************************************************)
EXTENDS Naturals, FiniteSets

CONSTANTS
    Ids,        \* resource ids
    Files,      \* those that are read from a stream; readers build the others
    Clients, Objects,
    Nothing,    \* no object
    PerFrame    \* how many loads a frame finishes

VARIABLES
    open,       \* the mapper is attached
    async,      \* files are read by another thread
    published,  \* the ids readers have built
    holders,    \* the clients of an id
    view        \* what they see

vars == <<open, async, published, holders, view>>

Absent == [state |-> "Absent", object |-> Nothing]
Waiting == [state |-> "Waiting", object |-> Nothing]
Settled == [state : {"Loaded", "Failed"}, object : Objects]

Init ==
    /\ open = TRUE /\ async \in BOOLEAN
    /\ published = {}
    /\ holders = [i \in Ids |-> {}]
    /\ view = [i \in Ids |-> Absent]

NoSharing ==
    \A i, j \in Ids : view[i] \in Settled /\ view[j] \in Settled /\ i # j =>
        view[i].object # view[j].object

Enter(c, i, v) ==
    /\ open /\ c \notin holders[i]
    /\ holders' = [holders EXCEPT ![i] = @ \cup {c}]
    /\ view' = [view EXCEPT ![i] = v]
    /\ NoSharing'
    /\ UNCHANGED <<open, async, published>>

\* Another client has the id already, or a reader has built it, or it is read.
Join(c, i) == holders[i] # {} /\ Enter(c, i, view[i])

Find(c, i) ==
    /\ holders[i] = {} /\ i \in published
    /\ \E v \in Settled : v.state = "Loaded" /\ Enter(c, i, v)

Request(c, i) ==
    /\ holders[i] = {} /\ i \in Files
    /\ \E v \in IF async THEN {Waiting} ELSE Settled : Enter(c, i, v)

Release(c, i) ==
    /\ open /\ c \in holders[i]
    /\ holders' = [holders EXCEPT ![i] = @ \ {c}]
    /\ view' = IF holders[i] = {c} THEN [view EXCEPT ![i] = Absent] ELSE view
    /\ UNCHANGED <<open, async, published>>

\* A frame, which finishes the loads of the ids in S.
Settle(S) ==
    /\ open /\ Cardinality(S) <= PerFrame
    /\ \A i \in S : view[i] = Waiting
    /\ \E v \in [S -> Settled] : view' = [i \in Ids |-> IF i \in S THEN v[i] ELSE view[i]]
    /\ NoSharing'
    /\ UNCHANGED <<open, async, published, holders>>

Publish(i) ==
    /\ open /\ i \notin Files \cup published /\ holders[i] = {}
    /\ published' = published \cup {i}
    /\ UNCHANGED <<open, async, holders, view>>

Withdraw(i) ==
    /\ open /\ i \in published
    /\ published' = published \ {i}
    /\ UNCHANGED <<open, async, holders, view>>

Shutdown ==
    /\ open /\ open' = FALSE
    /\ view' = [i \in Ids |-> Absent]
    /\ UNCHANGED <<async, published, holders>>

Next ==
    \/ \E c \in Clients, i \in Ids :
        Join(c, i) \/ Find(c, i) \/ Request(c, i) \/ Release(c, i)
    \/ \E S \in SUBSET Ids : Settle(S)
    \/ \E i \in Ids : Publish(i) \/ Withdraw(i)
    \/ Shutdown

Spec == Init /\ [][Next]_vars
=============================================================================
