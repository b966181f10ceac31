----------------------------- MODULE RefCounted -----------------------------
(***************************************************************************)
(* Core::RefCounted (src/code/foundation/core/refcounted.h): the count of   *)
(* one object whose Ptrs several threads hold, as those of a message that   *)
(* the client and the handler thread of a Messaging::AsyncPort share.       *)
(*                                                                          *)
(* The count changes by interlocked operations, each a step of the model;   *)
(* Release reads it once more in a step of its own.                         *)
(***************************************************************************)
EXTENDS Integers

CONSTANTS
    Threads,
    Creator,  \* the thread that created the object
    MaxRefs   \* bound: the Ptrs there are to the object

VARIABLES
    refCount,
    held,     \* how many Ptrs each thread holds
    queued,   \* how many Ptrs wait in a queue between the threads
    pc,       \* where each thread is in Release, or "idle"
    deleted   \* how often the object has been deleted

vars == <<refCount, held, queued, pc, deleted>>

\* The creator has put what Create returned into a Ptr.
Init ==
    /\ refCount = 1 /\ queued = 0 /\ deleted = 0
    /\ held = [t \in Threads |-> IF t = Creator THEN 1 ELSE 0]
    /\ pc = [t \in Threads |-> "idle"]

Goto(t, from, to) == pc[t] = from /\ pc' = [pc EXCEPT ![t] = to]

AddRef == refCount < MaxRefs /\ refCount' = refCount + 1

\* A thread copies a Ptr that it holds.
Copy(t) ==
    /\ pc[t] = "idle" /\ held[t] > 0
    /\ AddRef
    /\ held' = [held EXCEPT ![t] = @ + 1]
    /\ UNCHANGED <<queued, pc, deleted>>

\* SafeQueue::Enqueue copies it into the queue.
Enqueue(t) ==
    /\ pc[t] = "idle" /\ held[t] > 0
    /\ AddRef
    /\ queued' = queued + 1
    /\ UNCHANGED <<held, pc, deleted>>

\* SafeQueue::Dequeue copies it out of the queue and releases the one that was
\* in there, all in the queue's critical section.
Dequeue(t) ==
    /\ queued > 0
    /\ AddRef
    /\ Goto(t, "idle", "decrement")
    /\ queued' = queued - 1
    /\ held' = [held EXCEPT ![t] = @ + 1]
    /\ UNCHANGED deleted

\* A Ptr goes, and its destructor calls Release.  The assertion there that the
\* count is not zero holds, for the count includes this Ptr.
Drop(t) ==
    /\ held[t] > 0
    /\ Goto(t, "idle", "decrement")
    /\ held' = [held EXCEPT ![t] = @ - 1]
    /\ UNCHANGED <<refCount, queued, deleted>>

\* Release: the interlocked decrement ...
Decrement(t) ==
    /\ Goto(t, "decrement", "test")
    /\ refCount' = refCount - 1
    /\ UNCHANGED <<held, queued, deleted>>

\* ... and the test for zero, of memory that may have been freed meanwhile.
Test(t) ==
    \E zero \in IF deleted = 0 THEN {refCount = 0} ELSE BOOLEAN :
        /\ Goto(t, "test", IF zero THEN "delete" ELSE "idle")
        /\ UNCHANGED <<refCount, held, queued, deleted>>

Delete(t) ==
    /\ Goto(t, "delete", "idle")
    /\ deleted' = deleted + 1
    /\ UNCHANGED <<refCount, held, queued>>

Next ==
    \E t \in Threads :
        Copy(t) \/ Enqueue(t) \/ Dequeue(t) \/ Drop(t) \/ Decrement(t) \/ Test(t) \/ Delete(t)

Spec == Init /\ [][Next]_vars

\* Release destroys the object when the count has become zero
\* (refcounted.h:119), so it does once: the destructor asserts that the object
\* has not been destroyed (refcounted.cc:28).
DestroyedOnce == deleted <= 1
=============================================================================
