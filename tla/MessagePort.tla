----------------------------- MODULE MessagePort -----------------------------
(***************************************************************************)
(* What Messaging::AsyncPort promises its clients, without threads, events *)
(* and locks: messages are taken one at a time in the order in which they  *)
(* were sent, only while the port is open; a message whose cancellation    *)
(* finds it pending is never taken; a wait ends only once its message is   *)
(* handled; and the port does not close on a message being served.         *)
(***************************************************************************)
EXTENDS SequencesExt

CONSTANTS Clients, Messages, NoMessage

VARIABLES
    open,       \* the port is open
    created,    \* the messages that have been sent
    pending,    \* the messages waiting, in sending order
    serving,    \* the message in the handlers' hands
    handled,    \* the messages marked as handled
    waiting     \* the message each client waits for

vars == <<open, created, pending, serving, handled, waiting>>

Init ==
    /\ open = FALSE
    /\ created = {}
    /\ pending = <<>>
    /\ serving = NoMessage
    /\ handled = {}
    /\ waiting = [c \in Clients |-> NoMessage]

Open ==
    /\ ~open
    /\ open' = TRUE
    /\ UNCHANGED <<created, pending, serving, handled, waiting>>

\* Asynchronous, or followed by a wait for the message (w).
Send(c, m, w) ==
    /\ m \notin created
    /\ waiting[c] = NoMessage
    /\ created' = created \cup {m}
    /\ pending' = Append(pending, m)
    /\ waiting' = IF w THEN [waiting EXCEPT ![c] = m] ELSE waiting
    /\ UNCHANGED <<open, serving, handled>>

Wait(c, m) ==
    /\ m \in created
    /\ waiting[c] = NoMessage
    /\ waiting' = [waiting EXCEPT ![c] = m]
    /\ UNCHANGED <<open, created, pending, serving, handled>>

EndWait(c) ==
    /\ waiting[c] \in handled
    /\ waiting' = [waiting EXCEPT ![c] = NoMessage]
    /\ UNCHANGED <<open, created, pending, serving, handled>>

Without(q, m) ==
    IF Contains(q, m) THEN RemoveAt(q, CHOOSE i \in DOMAIN q : q[i] = m) ELSE q

Cancel(m) ==
    /\ m \in created
    /\ pending' = Without(pending, m)
    /\ UNCHANGED <<open, created, serving, handled, waiting>>

Take ==
    /\ open
    /\ serving = NoMessage
    /\ pending # <<>>
    /\ serving' = Head(pending)
    /\ pending' = Tail(pending)
    /\ UNCHANGED <<open, created, handled, waiting>>

Handle ==
    /\ serving # NoMessage
    /\ handled' = handled \cup {serving}
    /\ UNCHANGED <<open, created, pending, serving, waiting>>

Release ==
    /\ serving # NoMessage
    /\ serving' = NoMessage
    /\ UNCHANGED <<open, created, pending, handled, waiting>>

Close ==
    /\ open
    /\ serving = NoMessage
    /\ open' = FALSE
    /\ UNCHANGED <<created, pending, serving, handled, waiting>>

Next ==
    \/ Open \/ Close \/ Take \/ Handle \/ Release
    \/ \E m \in Messages :
          \/ Cancel(m)
          \/ \E c \in Clients : Wait(c, m) \/ \E w \in BOOLEAN : Send(c, m, w)
    \/ \E c \in Clients : EndWait(c)

Spec == Init /\ [][Next]_vars
=============================================================================
