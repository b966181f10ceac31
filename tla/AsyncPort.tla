------------------------------ MODULE AsyncPort ------------------------------
(***************************************************************************)
(* Messaging::AsyncPort: client threads send messages to a queue that one  *)
(* handler thread empties, with the Win32 auto-reset events, the SafeQueue *)
(* and the Win32Thread stop protocol it is built from.                     *)
(*                                                                         *)
(* A step of the model is the code between two points at which another     *)
(* thread can observe or change the shared state: a queue operation under  *)
(* its critical section, an unlocked IsEmpty test, a signal or wait on an  *)
(* event.  pc and op are the place and the operation of each client, tpc   *)
(* the place of the handler thread.  sendOrder, dispatched, cancelled and  *)
(* goal are history variables: no action reads them except to say which    *)
(* messages the program has already created and which it has dropped.      *)
(***************************************************************************)
EXTENDS Naturals, SequencesExt

CONSTANTS
    Clients,            \* the threads that call the port
    Owner,              \* the thread that opens and closes it
    Waiters,            \* the threads that use SendWait, Wait and Flush
    Messages,           \* the message objects
    NoMessage,          \* a null Ptr<Message>
    SenderOf,           \* the thread that creates each message
    Cancellable,        \* the messages whose sender may call Cancel
    NumHandlers,        \* the handlers OnCreateHandlers attaches
    Accepts,            \* the messages HandleMessage of each handler accepts
    WaitModes,          \* the values its constructor may give the waitForMessages flag
    MaxOpens            \* bound: how often the port is opened

ASSUME AsyncPortAssumption ==
    /\ Owner \in Clients
    /\ Waiters \subseteq Clients
    /\ NoMessage \notin Messages
    /\ SenderOf \in [Messages -> Clients]
    /\ Cancellable \subseteq Messages
    /\ NumHandlers \in Nat \ {0}
    /\ Accepts \in [1..NumHandlers -> SUBSET Messages]
    /\ WaitModes \subseteq BOOLEAN
    /\ MaxOpens \in Nat

VARIABLES
    waitForMessages, isOpen, opens, attached, handlersOpen,
    queue, enqueueEvent, stopRequestEvent, msgHandledEvent,
    tpc, current, hidx, handled,
    pc, op, arg,
    sendOrder, dispatched, cancelled, goal

portVars    == <<waitForMessages, isOpen, opens, attached, handlersOpen>>
eventVars   == <<enqueueEvent, stopRequestEvent, msgHandledEvent>>
threadVars  == <<tpc, current, hidx, handled>>
clientVars  == <<pc, op, arg>>
historyVars == <<sendOrder, dispatched, cancelled, goal>>
vars == <<portVars, queue, eventVars, threadVars, clientVars, historyVars>>

ThreadPlaces == {"none", "open", "checkStop", "wait", "block", "isEmpty",
                 "dequeue", "handle", "signalHandled", "close", "exited",
                 "barfed"}
ClientPlaces == {"idle", "signal", "testHandled", "awaitHandled", "testEmpty",
                 "awaitEmpty", "stop", "wakeup", "join"}
Operations   == {"none", "Send", "SendWait", "Wait", "Flush", "Close"}

Sent == Range(sendOrder)

\* A failed n_assert ends the process: no thread takes another step.
Running == tpc # "barfed"

Init ==
    /\ waitForMessages \in WaitModes
    /\ isOpen = FALSE /\ opens = 0
    /\ attached = FALSE /\ handlersOpen = FALSE
    /\ queue = <<>>
    /\ enqueueEvent = FALSE /\ stopRequestEvent = FALSE /\ msgHandledEvent = FALSE
    /\ tpc = "none" /\ current = NoMessage /\ hidx = 0
    /\ handled = [m \in Messages |-> FALSE]
    /\ pc = [c \in Clients |-> "idle"]
    /\ op = [c \in Clients |-> "none"]
    /\ arg = [c \in Clients |-> NoMessage]
    /\ sendOrder = <<>> /\ dispatched = <<>>
    /\ cancelled = {} /\ goal = [c \in Clients |-> {}]

-----------------------------------------------------------------------------
(* The clients' side.                                                      *)

Idle(c) == Running /\ pc[c] = "idle"

\* Client c enters operation o on message m at place p.
Enter(c, o, m, p) ==
    /\ pc' = [pc EXCEPT ![c] = p]
    /\ op' = [op EXCEPT ![c] = o]
    /\ arg' = [arg EXCEPT ![c] = m]

Goto(c, p) == pc' = [pc EXCEPT ![c] = p] /\ UNCHANGED <<op, arg>>

Return(c) == Enter(c, "none", NoMessage, "idle")

Open ==
    /\ Idle(Owner)
    /\ ~isOpen
    /\ opens < MaxOpens
    /\ attached' = TRUE
    /\ tpc' = "open"
    /\ isOpen' = TRUE
    /\ opens' = opens + 1
    /\ UNCHANGED <<waitForMessages, handlersOpen, queue, eventVars, current,
                   hidx, handled, clientVars, historyVars>>

\* SafeQueue::Enqueue up to the end of its critical section.
Enqueue(c, m, o) ==
    /\ Idle(c)
    /\ SenderOf[m] = c
    /\ m \notin Sent
    /\ queue' = Append(queue, m)
    /\ sendOrder' = Append(sendOrder, m)
    /\ Enter(c, o, m, "signal")
    /\ UNCHANGED <<portVars, eventVars, threadVars, dispatched, cancelled, goal>>

Send(c, m) == Enqueue(c, m, "Send")

\* Callers block only on a port they know to be open.
SendWait(c, m) == c \in Waiters /\ isOpen /\ Enqueue(c, m, "SendWait")

\* Mutant: signal only for the first element of the queue.
SignalEnqueue_OnlyFirst(c) ==
    /\ Running
    /\ pc[c] = "signal"
    /\ enqueueEvent' = (enqueueEvent \/ Len(queue) = 1)
    /\ IF op[c] = "SendWait" THEN Goto(c, "testHandled") ELSE Return(c)
    /\ UNCHANGED <<portVars, queue, stopRequestEvent, msgHandledEvent,
                   threadVars, historyVars>>

\* The end of Enqueue, after Leave().
SignalEnqueue(c) ==
    /\ Running
    /\ pc[c] = "signal"
    /\ enqueueEvent' = TRUE
    /\ IF op[c] = "SendWait" THEN Goto(c, "testHandled") ELSE Return(c)
    /\ UNCHANGED <<portVars, queue, stopRequestEvent, msgHandledEvent,
                   threadVars, historyVars>>

Wait(c, m) ==
    /\ Idle(c)
    /\ c \in Waiters /\ isOpen
    /\ SenderOf[m] = c /\ m \in Sent \ cancelled
    /\ Enter(c, "Wait", m, "testHandled")
    /\ UNCHANGED <<portVars, queue, eventVars, threadVars, historyVars>>

TestHandled(c) ==
    /\ Running
    /\ pc[c] = "testHandled"
    /\ IF handled[arg[c]] THEN Return(c) ELSE Goto(c, "awaitHandled")
    /\ UNCHANGED <<portVars, queue, eventVars, threadVars, historyVars>>

\* Mutant: the flag is not tested again after the event.
AwaitHandledEvent_NoLoop(c) ==
    /\ Running
    /\ msgHandledEvent
    /\ msgHandledEvent' = FALSE
    /\ \/ pc[c] = "awaitHandled" /\ Return(c)
       \/ pc[c] = "awaitEmpty" /\ Goto(c, "testEmpty")
    /\ UNCHANGED <<portVars, queue, enqueueEvent, stopRequestEvent, threadVars,
                   historyVars>>

\* msgHandledEvent.Wait(): one waiter takes the auto-reset event.
AwaitHandledEvent(c) ==
    /\ Running
    /\ msgHandledEvent
    /\ msgHandledEvent' = FALSE
    /\ \/ pc[c] = "awaitHandled" /\ Goto(c, "testHandled")
       \/ pc[c] = "awaitEmpty" /\ Goto(c, "testEmpty")
    /\ UNCHANGED <<portVars, queue, enqueueEvent, stopRequestEvent, threadVars,
                   historyVars>>

\* The sender drops its reference when it cancels.
EraseMatchingElements(q, m) ==
    IF Contains(q, m) THEN RemoveAt(q, CHOOSE i \in DOMAIN q : q[i] = m) ELSE q

Cancel(c, m) ==
    /\ Idle(c)
    /\ SenderOf[m] = c /\ m \in Sent \cap Cancellable
    /\ m \notin cancelled
    /\ queue' = EraseMatchingElements(queue, m)
    /\ cancelled' = cancelled \cup {m}
    /\ UNCHANGED <<portVars, eventVars, threadVars, clientVars, sendOrder,
                   dispatched, goal>>

Flush(c) ==
    /\ Idle(c)
    /\ c \in Waiters /\ isOpen
    /\ goal' = [goal EXCEPT ![c] = Range(queue)]
    /\ Enter(c, "Flush", NoMessage, "testEmpty")
    /\ UNCHANGED <<portVars, queue, eventVars, threadVars, sendOrder,
                   dispatched, cancelled>>

Close ==
    /\ Idle(Owner)
    /\ isOpen
    /\ goal' = [goal EXCEPT ![Owner] = Range(queue)]
    /\ Enter(Owner, "Close", NoMessage, "testEmpty")
    /\ UNCHANGED <<portVars, queue, eventVars, threadVars, sendOrder,
                   dispatched, cancelled>>

\* Mutant: Close stops the thread without waiting for an empty queue.
TestEmpty_CloseSkips(c) ==
    /\ Running
    /\ pc[c] = "testEmpty"
    /\ IF op[c] = "Close" THEN Goto(c, "stop")
       ELSE IF queue # <<>> THEN Goto(c, "awaitEmpty") ELSE Return(c)
    /\ UNCHANGED <<portVars, queue, eventVars, threadVars, historyVars>>

\* Mutant: one message may stay.
TestEmpty_AllButOne(c) ==
    /\ Running
    /\ pc[c] = "testEmpty"
    /\ IF Len(queue) > 1 THEN Goto(c, "awaitEmpty")
       ELSE IF op[c] = "Close" THEN Goto(c, "stop") ELSE Return(c)
    /\ UNCHANGED <<portVars, queue, eventVars, threadVars, historyVars>>

\* The loop of HandlerThread::Flush, which Flush and Close share.
TestEmpty(c) ==
    /\ Running
    /\ pc[c] = "testEmpty"
    /\ IF queue # <<>> THEN Goto(c, "awaitEmpty")
       ELSE IF op[c] = "Close" THEN Goto(c, "stop") ELSE Return(c)
    /\ UNCHANGED <<portVars, queue, eventVars, threadVars, historyVars>>

\* Win32Thread::Stop: first the request ...
StopRequest ==
    /\ Running
    /\ pc[Owner] = "stop"
    /\ stopRequestEvent' = TRUE
    /\ Goto(Owner, "wakeup")
    /\ UNCHANGED <<portVars, queue, enqueueEvent, msgHandledEvent, threadVars,
                   historyVars>>

\* Mutant: HandlerThread does not override the empty EmitWakeupSignal.
EmitWakeupSignal_NotOverridden ==
    /\ Running
    /\ pc[Owner] = "wakeup"
    /\ Goto(Owner, "join")
    /\ UNCHANGED <<portVars, queue, eventVars, threadVars, historyVars>>

\* ... then the signal that wakes a waiting thread ...
EmitWakeupSignal ==
    /\ Running
    /\ pc[Owner] = "wakeup"
    /\ enqueueEvent' = TRUE
    /\ Goto(Owner, "join")
    /\ UNCHANGED <<portVars, queue, stopRequestEvent, msgHandledEvent,
                   threadVars, historyVars>>

\* ... then the wait for its end, and the rest of AsyncPort::Close.
Join ==
    /\ pc[Owner] = "join"
    /\ tpc = "exited"
    /\ tpc' = "none"
    /\ attached' = FALSE
    /\ isOpen' = FALSE
    /\ Return(Owner)
    /\ UNCHANGED <<waitForMessages, opens, handlersOpen, queue, eventVars,
                   current, hidx, handled, historyVars>>

-----------------------------------------------------------------------------
(* The handler thread: HandlerThread::DoWork.                              *)

OpenHandlers ==
    /\ tpc = "open"
    /\ handlersOpen' = TRUE
    /\ tpc' = "checkStop"
    /\ UNCHANGED <<waitForMessages, isOpen, opens, attached, queue, eventVars,
                   current, hidx, handled, clientVars, historyVars>>

\* Mutant: the stop request is only obeyed by a thread that waits for messages.
CheckStop_OnlyWaiting ==
    /\ tpc = "checkStop"
    /\ tpc' = IF stopRequestEvent /\ waitForMessages THEN "close"
              ELSE IF waitForMessages THEN "wait" ELSE "isEmpty"
    /\ stopRequestEvent' = FALSE
    /\ UNCHANGED <<portVars, queue, enqueueEvent, msgHandledEvent, current,
                   hidx, handled, clientVars, historyVars>>

\* ThreadStopRequested() peeks, and so resets, the auto-reset stop event.
CheckStop ==
    /\ tpc = "checkStop"
    /\ tpc' = IF stopRequestEvent THEN "close"
              ELSE IF waitForMessages THEN "wait" ELSE "isEmpty"
    /\ stopRequestEvent' = FALSE
    /\ UNCHANGED <<portVars, queue, enqueueEvent, msgHandledEvent, current,
                   hidx, handled, clientVars, historyVars>>

\* SafeQueue::Wait: the unlocked size test ...
QueueWait ==
    /\ tpc = "wait"
    /\ tpc' = IF queue = <<>> THEN "block" ELSE "isEmpty"
    /\ UNCHANGED <<portVars, queue, eventVars, current, hidx, handled,
                   clientVars, historyVars>>

\* Mutant: the thread trusts the event and dequeues without another test.
QueueWaitEvent_Trusted ==
    /\ tpc = "block"
    /\ enqueueEvent
    /\ enqueueEvent' = FALSE
    /\ tpc' = "dequeue"
    /\ UNCHANGED <<portVars, queue, stopRequestEvent, msgHandledEvent, current,
                   hidx, handled, clientVars, historyVars>>

\* ... and the wait on enqueueEvent.
QueueWaitEvent ==
    /\ tpc = "block"
    /\ enqueueEvent
    /\ enqueueEvent' = FALSE
    /\ tpc' = "isEmpty"
    /\ UNCHANGED <<portVars, queue, stopRequestEvent, msgHandledEvent, current,
                   hidx, handled, clientVars, historyVars>>

\* Mutant: the loop ends with one message left.
TestIsEmpty_KeepsLast ==
    /\ tpc = "isEmpty"
    /\ tpc' = IF Len(queue) <= 1 THEN "checkStop" ELSE "dequeue"
    /\ UNCHANGED <<portVars, queue, eventVars, current, hidx, handled,
                   clientVars, historyVars>>

\* The head of the inner loop; once the queue is empty the handlers' own
\* DoWork runs, which does not touch the port.
TestIsEmpty ==
    /\ tpc = "isEmpty"
    /\ tpc' = IF queue = <<>> THEN "checkStop" ELSE "dequeue"
    /\ UNCHANGED <<portVars, queue, eventVars, current, hidx, handled,
                   clientVars, historyVars>>

Dequeue ==
    /\ tpc = "dequeue"
    /\ queue # <<>>
    /\ current' = Head(queue)
    /\ queue' = Tail(queue)
    /\ dispatched' = Append(dispatched, Head(queue))
    /\ hidx' = 1
    /\ tpc' = "handle"
    /\ UNCHANGED <<portVars, eventVars, handled, clientVars, sendOrder,
                   cancelled, goal>>

\* Array::Front asserts that the array is not empty.
DequeueEmpty ==
    /\ tpc = "dequeue"
    /\ queue = <<>>
    /\ tpc' = "barfed"
    /\ UNCHANGED <<portVars, queue, eventVars, current, hidx, handled,
                   clientVars, historyVars>>

\* Mutant: one handler too many.
NextHandler_OffByOne ==
    IF hidx <= NumHandlers
    THEN /\ hidx' = hidx + 1
         /\ tpc' = "handle"
         /\ UNCHANGED current
    ELSE /\ hidx' = 0
         /\ tpc' = "isEmpty"
         /\ current' = NoMessage

\* Advance the loop over the attached handlers.
NextHandler ==
    IF hidx < NumHandlers
    THEN /\ hidx' = hidx + 1
         /\ tpc' = "handle"
         /\ UNCHANGED current
    ELSE /\ hidx' = 0
         /\ tpc' = "isEmpty"
         /\ current' = NoMessage

HandleMessage ==
    /\ tpc = "handle"
    /\ IF current \in Accepts[hidx]
       THEN /\ handled' = [handled EXCEPT ![current] = TRUE]
            /\ tpc' = "signalHandled"
            /\ UNCHANGED <<current, hidx>>
       ELSE NextHandler /\ UNCHANGED handled
    /\ UNCHANGED <<portVars, queue, eventVars, clientVars, historyVars>>

\* Mutant: the flag is set but nobody is woken.
SignalHandled_Missing ==
    /\ tpc = "signalHandled"
    /\ NextHandler
    /\ UNCHANGED <<portVars, queue, eventVars, handled, clientVars, historyVars>>

SignalHandled ==
    /\ tpc = "signalHandled"
    /\ msgHandledEvent' = TRUE
    /\ NextHandler
    /\ UNCHANGED <<portVars, queue, enqueueEvent, stopRequestEvent, handled,
                   clientVars, historyVars>>

CloseHandlers ==
    /\ tpc = "close"
    /\ handlersOpen' = FALSE
    /\ tpc' = "exited"
    /\ UNCHANGED <<waitForMessages, isOpen, opens, attached, queue, eventVars,
                   current, hidx, handled, clientVars, historyVars>>

-----------------------------------------------------------------------------
Thread ==
    \/ OpenHandlers \/ CheckStop \/ QueueWait \/ QueueWaitEvent \/ TestIsEmpty
    \/ Dequeue \/ DequeueEmpty \/ HandleMessage \/ SignalHandled \/ CloseHandlers

\* The steps of an operation a client has begun.
Continue(c) ==
    \/ SignalEnqueue(c) \/ TestHandled(c) \/ AwaitHandledEvent(c) \/ TestEmpty(c)
    \/ c = Owner /\ (StopRequest \/ EmitWakeupSignal \/ Join)

\* The calls a client chooses to make.
Call(c) ==
    \/ Flush(c)
    \/ \E m \in Messages : Send(c, m) \/ SendWait(c, m) \/ Wait(c, m) \/ Cancel(c, m)

\* The program has ended: every client is idle and the port stays closed.
Finished ==
    /\ ~isOpen /\ opens = MaxOpens
    /\ \A c \in Clients : pc[c] = "idle"
    /\ UNCHANGED vars

Next ==
    \/ Thread
    \/ \E c \in Clients : Continue(c) \/ Call(c)
    \/ Open \/ Close
    \/ Finished

Spec == Init /\ [][Next]_vars

\* Every thread that can run is scheduled eventually; no call is forced.
FairSpec ==
    /\ Spec
    /\ WF_vars(Thread)
    /\ \A c \in Clients : WF_vars(Continue(c))

-----------------------------------------------------------------------------
(* Properties.                                                             *)

\* The values each variable takes.
TypeOK ==
    /\ waitForMessages \in WaitModes
    /\ isOpen \in BOOLEAN /\ opens \in 0..MaxOpens
    /\ attached \in BOOLEAN /\ handlersOpen \in BOOLEAN
    /\ queue \in Seq(Messages)
    /\ enqueueEvent \in BOOLEAN
    /\ stopRequestEvent \in BOOLEAN
    /\ msgHandledEvent \in BOOLEAN
    /\ tpc \in ThreadPlaces
    /\ current \in Messages \cup {NoMessage}
    /\ hidx \in 0..NumHandlers
    /\ handled \in [Messages -> BOOLEAN]
    /\ pc \in [Clients -> ClientPlaces]
    /\ op \in [Clients -> Operations]
    /\ arg \in [Clients -> Messages \cup {NoMessage}]
    /\ sendOrder \in Seq(Messages) /\ dispatched \in Seq(Messages)
    /\ cancelled \subseteq Messages
    /\ goal \in [Clients -> SUBSET Messages]

\* SafeQueue's test of the size and its wait are two steps without a lock, yet
\* a thread blocked with messages queued has its event set, or the client that
\* appended the message is about to set it.
WakeupNotLost ==
    tpc = "block" /\ queue # <<>> =>
        enqueueEvent \/ \E c \in Clients : pc[c] = "signal"

\* While Stop waits for the thread, the stop request is pending or consumed by
\* the thread on its way out, and the thread is not blocked without a wakeup:
\* the reason for the order of the two signals in Win32Thread::Stop.
StopNotLost ==
    pc[Owner] = "join" =>
        /\ stopRequestEvent \/ tpc \in {"close", "exited"}
        /\ tpc = "block" => enqueueEvent

\* A message some handler accepts.
Accepted(m) == \E h \in 1..NumHandlers : m \in Accepts[h]

Returns(c, o) == op[c] = o /\ op'[c] = "none"

\* When Close returns, every message that was queued when it was called, and
\* not cancelled, has been through all handlers: Flush leaves the last one in
\* the thread's hands, and the join of the thread completes it.
CloseHandlesAll ==
    [][Returns(Owner, "Close") =>
        /\ current = NoMessage
        /\ \A m \in goal[Owner] \ cancelled :
              /\ m \in Range(dispatched)
              /\ Accepted(m) => handled[m]]_vars

\* Flush returns on an empty queue, before the message taken last has been
\* through the handlers (asyncport.cc:339): of what was queued at the call only
\* that one message can be left, or what was cancelled.
FlushLeavesOne ==
    [][\A c \in Clients : Returns(c, "Flush") =>
        \A m \in goal[c] \ cancelled : Accepted(m) => handled[m] \/ m = current]_vars

\* The thread tests IsEmpty without the lock and then dequeues: the assertion
\* in Array::Front fails only in a program that has cancelled a message, never
\* for a stale event, a wakeup for stopping or a reopened port.
StopsOnlyByCancel == ~Running => queue = <<>> /\ cancelled # {}

\* No message stays in the queue of a running port: it is dispatched or
\* cancelled, unless the thread is stopped before it gets to it.
MessagesTaken ==
    \A m \in Messages :
        m \in Range(queue) /\ tpc \notin {"none", "exited"}
            ~> m \notin Range(queue) \/ tpc \in {"exited", "barfed"}

\* A client that waits for a message it sent (SendWait, Wait) is released.
WaitsReturn ==
    \A c \in Clients : op[c] \in {"SendWait", "Wait"} ~> op[c] = "none"

\* Flush and Close, which waits for the handler thread to end, return.
CloseReturns ==
    \A c \in Clients : op[c] \in {"Flush", "Close"} ~> op[c] = "none"

-----------------------------------------------------------------------------
(* The port implements its promise.                                        *)

Port == INSTANCE MessagePort WITH
    open    <- isOpen,
    created <- Sent,
    pending <- queue,
    serving <- current,
    handled <- {m \in Messages : handled[m]},
    waiting <- [c \in Clients |->
                   IF op[c] \in {"SendWait", "Wait"} THEN arg[c] ELSE NoMessage]

\* Every step of the threads is a step of MessagePort or invisible to it.
ImplementsMessagePort == Port!Spec
=============================================================================
