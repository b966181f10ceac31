--------------------------- MODULE AsyncPortProofs ---------------------------
(***************************************************************************)
(* Theorems about AsyncPort for every set of threads and messages, every   *)
(* number of handlers and both modes of the port: its types and the        *)
(* signals that are not lost, what Flush and Close wait for, and that it   *)
(* implements MessagePort.                                                 *)
(***************************************************************************)
EXTENDS AsyncPort, SequenceTheorems, TLAPS

-----------------------------------------------------------------------------
(* Sequences.                                                              *)

\* The elements of a sequence after an append.
LEMMA RangeOfAppend ==
    ASSUME NEW T, NEW s \in Seq(T), NEW m \in T
    PROVE  Range(Append(s, m)) = Range(s) \cup {m}
<1>1. Append(s, m) \in Seq(T) /\ Len(Append(s, m)) = Len(s) + 1
    BY AppendProperties
<1>2. /\ \A i \in 1..Len(s) : Append(s, m)[i] = s[i]
      /\ Append(s, m)[Len(s) + 1] = m
    BY AppendProperties
<1>3. Range(s) = {s[i] : i \in 1..Len(s)}
    BY RangeEquality
<1>4. Range(Append(s, m)) = {Append(s, m)[i] : i \in 1..Len(s) + 1}
    BY <1>1, RangeEquality
<1>5. Len(s) \in Nat
    OBVIOUS
<1> QED
    BY <1>2, <1>3, <1>4, <1>5

\* The elements of a sequence are its head and those of its tail.
LEMMA RangeOfTail ==
    ASSUME NEW T, NEW s \in Seq(T), s # <<>>
    PROVE  /\ Head(s) \in T /\ Tail(s) \in Seq(T)
           /\ Range(s) = {Head(s)} \cup Range(Tail(s))
<1>1. /\ Tail(s) \in Seq(T) /\ Len(Tail(s)) = Len(s) - 1
      /\ \A i \in 1..Len(Tail(s)) : Tail(s)[i] = s[i + 1]
    BY HeadTailProperties
<1>2. Range(s) = {s[i] : i \in 1..Len(s)}
    BY RangeEquality
<1>3. Range(Tail(s)) = {Tail(s)[i] : i \in 1..Len(s) - 1}
    BY <1>1, RangeEquality
<1>4. Len(s) \in Nat \ {0} /\ Head(s) = s[1]
    BY EmptySeq
<1>5. \A i \in 1..Len(s) : i = 1 \/ i - 1 \in 1..Len(s) - 1
    BY <1>4
<1>6. Range(s) \subseteq {Head(s)} \cup Range(Tail(s))
    BY <1>1, <1>2, <1>3, <1>4, <1>5
<1>7. {Head(s)} \cup Range(Tail(s)) \subseteq Range(s)
    BY <1>1, <1>2, <1>3, <1>4
<1> QED
    BY <1>1, <1>4, <1>6, <1>7, HeadTailProperties

-----------------------------------------------------------------------------
(* The queue of messages.                                                  *)

\* Erasing from a queue of messages gives a queue of messages.
LEMMA EraseType ==
    ASSUME NEW q \in Seq(Messages), NEW m \in Messages
    PROVE  EraseMatchingElements(q, m) \in Seq(Messages)
<1>1. CASE ~Contains(q, m)
    BY <1>1 DEF EraseMatchingElements
<1>2. CASE Contains(q, m)
    <2> DEFINE i == CHOOSE j \in DOMAIN q : q[j] = m
    <2>1. DOMAIN q = 1..Len(q) /\ Len(q) \in Nat
        OBVIOUS
    <2>2. i \in 1..Len(q)
        BY <1>2, <2>1 DEF Contains
    <2>3. EraseMatchingElements(q, m) = SubSeq(q, 1, i-1) \o SubSeq(q, i+1, Len(q))
        BY <1>2 DEF EraseMatchingElements, RemoveAt
    <2> HIDE DEF i
    <2>4. \A j \in 1..Len(q) : q[j] \in Messages
        BY ElementOfSeq
    <2>5. \A j \in 1..(i-1) : q[j] \in Messages
        BY <2>1, <2>2, <2>4
    <2>6. \A j \in (i+1)..Len(q) : q[j] \in Messages
        BY <2>1, <2>2, <2>4
    <2>7. SubSeq(q, 1, i-1) \in Seq(Messages)
        BY <2>1, <2>2, <2>5, SubSeqProperties
    <2>8. SubSeq(q, i+1, Len(q)) \in Seq(Messages)
        BY <2>1, <2>2, <2>6, SubSeqProperties
    <2> QED
        BY <2>3, <2>7, <2>8, ConcatProperties
<1> QED
    BY <1>1, <1>2

-----------------------------------------------------------------------------
LEMMA InitType == Init => TypeOK
<1> SUFFICES ASSUME Init
             PROVE  TypeOK
    OBVIOUS
<1> USE AsyncPortAssumption DEF Init
<1>1. /\ handled \in [Messages -> BOOLEAN]
      /\ goal \in [Clients -> SUBSET Messages]
      /\ cancelled \subseteq Messages
    OBVIOUS
<1>2. /\ pc \in [Clients -> ClientPlaces]
      /\ op \in [Clients -> Operations]
      /\ arg \in [Clients -> Messages \cup {NoMessage}]
    BY DEF ClientPlaces, Operations
<1>3. queue \in Seq(Messages) /\ sendOrder \in Seq(Messages) /\ dispatched \in Seq(Messages)
    BY EmptySeq
<1>4. opens \in 0..MaxOpens /\ hidx \in 0..NumHandlers
    OBVIOUS
<1> QED
    BY <1>1, <1>2, <1>3, <1>4 DEF TypeOK, ThreadPlaces

LEMMA ThreadType == TypeOK /\ Thread => TypeOK'
<1> SUFFICES ASSUME TypeOK, Thread
             PROVE  TypeOK'
    OBVIOUS
<1> USE AsyncPortAssumption
    DEF TypeOK, ThreadPlaces, portVars, eventVars, threadVars, clientVars, historyVars
<1>1. CASE OpenHandlers
    BY <1>1 DEF OpenHandlers
<1>2. CASE CheckStop
    BY <1>2 DEF CheckStop
<1>3. CASE QueueWait
    BY <1>3 DEF QueueWait
<1>4. CASE QueueWaitEvent
    BY <1>4 DEF QueueWaitEvent
<1>5. CASE TestIsEmpty
    BY <1>5 DEF TestIsEmpty
<1>6. CASE Dequeue
    <2>1. Head(queue) \in Messages /\ Tail(queue) \in Seq(Messages)
        BY <1>6, HeadTailProperties DEF Dequeue
    <2>2. Append(dispatched, Head(queue)) \in Seq(Messages)
        BY <2>1, AppendProperties
    <2> QED
        BY <1>6, <2>1, <2>2 DEF Dequeue
<1>7. CASE DequeueEmpty
    BY <1>7 DEF DequeueEmpty
<1>8. CASE HandleMessage
    <2>1. handled' \in [Messages -> BOOLEAN]
        BY <1>8 DEF HandleMessage
    <2>2. hidx' \in 0..NumHandlers /\ current' \in Messages \cup {NoMessage}
        BY <1>8 DEF HandleMessage, NextHandler
    <2>3. tpc' \in ThreadPlaces
        BY <1>8 DEF HandleMessage, NextHandler
    <2> QED
        BY <1>8, <2>1, <2>2, <2>3 DEF HandleMessage
<1>9. CASE SignalHandled
    BY <1>9 DEF SignalHandled, NextHandler
<1>10. CASE CloseHandlers
    BY <1>10 DEF CloseHandlers
<1> QED
    BY <1>1, <1>2, <1>3, <1>4, <1>5, <1>6, <1>7, <1>8, <1>9, <1>10 DEF Thread

LEMMA ContinueType ==
    ASSUME TypeOK, NEW c \in Clients, Continue(c)
    PROVE  TypeOK'
<1> USE AsyncPortAssumption
    DEF TypeOK, ClientPlaces, Operations, Goto, Return, Enter,
        portVars, eventVars, threadVars, clientVars, historyVars
<1>1. CASE SignalEnqueue(c)
    BY <1>1 DEF SignalEnqueue
<1>2. CASE TestHandled(c)
    BY <1>2 DEF TestHandled
<1>3. CASE AwaitHandledEvent(c)
    BY <1>3 DEF AwaitHandledEvent
<1>4. CASE TestEmpty(c)
    BY <1>4 DEF TestEmpty
<1>5. CASE StopRequest
    BY <1>5 DEF StopRequest
<1>6. CASE EmitWakeupSignal
    BY <1>6 DEF EmitWakeupSignal
<1>7. CASE Join
    BY <1>7 DEF Join, ThreadPlaces
<1> QED
    BY <1>1, <1>2, <1>3, <1>4, <1>5, <1>6, <1>7 DEF Continue

LEMMA CallType ==
    ASSUME TypeOK, NEW c \in Clients, Call(c)
    PROVE  TypeOK'
<1> USE AsyncPortAssumption
    DEF TypeOK, ClientPlaces, Operations, Goto, Return, Enter, Idle,
        portVars, eventVars, threadVars, clientVars, historyVars
<1>1. CASE Flush(c)
    <2>1. Range(queue) \subseteq Messages
        BY RangeOfSeq
    <2> QED
        BY <1>1, <2>1 DEF Flush
<1>2. ASSUME NEW m \in Messages, Send(c, m) \/ SendWait(c, m)
      PROVE  TypeOK'
    <2>1. Append(queue, m) \in Seq(Messages) /\ Append(sendOrder, m) \in Seq(Messages)
        BY <1>2, AppendProperties
    <2>2. PICK o \in {"Send", "SendWait"} : Enqueue(c, m, o)
        BY <1>2 DEF Send, SendWait
    <2> QED
        BY <2>1, <2>2 DEF Enqueue
<1>3. ASSUME NEW m \in Messages, Wait(c, m)
      PROVE  TypeOK'
    BY <1>3 DEF Wait
<1>4. ASSUME NEW m \in Messages, Cancel(c, m)
      PROVE  TypeOK'
    BY <1>4, EraseType DEF Cancel
<1> QED
    BY <1>1, <1>2, <1>3, <1>4 DEF Call

LEMMA OpenCloseType == TypeOK /\ (Open \/ Close) => TypeOK'
<1> SUFFICES ASSUME TypeOK, Open \/ Close
             PROVE  TypeOK'
    OBVIOUS
<1> USE AsyncPortAssumption
    DEF TypeOK, ClientPlaces, Operations, Enter, Idle, ThreadPlaces,
        portVars, eventVars, threadVars, clientVars, historyVars
<1>1. CASE Open
    BY <1>1 DEF Open
<1>2. CASE Close
    <2>1. Range(queue) \subseteq Messages
        BY RangeOfSeq
    <2> QED
        BY <1>2, <2>1 DEF Close
<1> QED
    BY <1>1, <1>2

LEMMA StutterType == TypeOK /\ UNCHANGED vars => TypeOK'
BY DEF TypeOK, vars, portVars, eventVars, threadVars, clientVars, historyVars

\* Every variable of the port keeps its type, in every build of it.
THEOREM TypeCorrect == Spec => []TypeOK
<1>1. Init => TypeOK
    BY InitType
<1>2. TypeOK /\ [Next]_vars => TypeOK'
    BY ThreadType, ContinueType, CallType, OpenCloseType, StutterType
    DEF Next, Finished
<1> QED
    BY <1>1, <1>2, PTL DEF Spec

-----------------------------------------------------------------------------
(* No wakeup of the handler thread is lost.                                *)

\* The inductive strengthening: the request is already pending at "wakeup",
\* and at "join" a thread that is yet to block, too, finds the event set.
SyncInv ==
    /\ WakeupNotLost
    /\ pc[Owner] \in {"wakeup", "join"} =>
          stopRequestEvent \/ tpc \in {"close", "exited"}
    /\ pc[Owner] = "join" /\ tpc \in {"wait", "block"} => enqueueEvent

LEMMA SyncInvThread == TypeOK /\ SyncInv /\ Thread => SyncInv'
<1> SUFFICES ASSUME TypeOK, SyncInv, Thread
             PROVE  SyncInv'
    OBVIOUS
<1> USE DEF SyncInv, WakeupNotLost, portVars, eventVars, clientVars, historyVars
<1>1. CASE OpenHandlers
    BY <1>1 DEF OpenHandlers
<1>2. CASE CheckStop
    BY <1>2 DEF CheckStop
<1>3. CASE QueueWait
    BY <1>3 DEF QueueWait
<1>4. CASE QueueWaitEvent
    BY <1>4 DEF QueueWaitEvent
<1>5. CASE TestIsEmpty
    BY <1>5 DEF TestIsEmpty
<1>6. CASE Dequeue
    BY <1>6 DEF Dequeue
<1>7. CASE DequeueEmpty
    BY <1>7 DEF DequeueEmpty
<1>8. CASE HandleMessage
    BY <1>8 DEF HandleMessage, NextHandler
<1>9. CASE SignalHandled
    BY <1>9 DEF SignalHandled, NextHandler
<1>10. CASE CloseHandlers
    BY <1>10 DEF CloseHandlers
<1> QED
    BY <1>1, <1>2, <1>3, <1>4, <1>5, <1>6, <1>7, <1>8, <1>9, <1>10 DEF Thread

LEMMA SyncInvContinue ==
    ASSUME TypeOK, SyncInv, NEW c \in Clients, Continue(c)
    PROVE  SyncInv'
<1> USE AsyncPortAssumption
    DEF SyncInv, WakeupNotLost, TypeOK, Goto, Return, Enter,
        portVars, eventVars, threadVars, historyVars
<1>1. CASE SignalEnqueue(c)
    BY <1>1 DEF SignalEnqueue
<1>2. CASE TestHandled(c)
    BY <1>2 DEF TestHandled
<1>3. CASE AwaitHandledEvent(c)
    BY <1>3 DEF AwaitHandledEvent
<1>4. CASE TestEmpty(c)
    BY <1>4 DEF TestEmpty
<1>5. CASE StopRequest
    BY <1>5 DEF StopRequest
<1>6. CASE EmitWakeupSignal
    BY <1>6 DEF EmitWakeupSignal
<1>7. CASE Join
    BY <1>7 DEF Join
<1> QED
    BY <1>1, <1>2, <1>3, <1>4, <1>5, <1>6, <1>7 DEF Continue

LEMMA SyncInvCall ==
    ASSUME TypeOK, SyncInv, NEW c \in Clients, Call(c) \/ Open \/ Close
    PROVE  SyncInv'
<1> USE AsyncPortAssumption
    DEF SyncInv, WakeupNotLost, TypeOK, Goto, Return, Enter, Idle,
        portVars, eventVars, threadVars, clientVars, historyVars
<1>1. CASE Flush(c)
    BY <1>1 DEF Flush
<1>2. ASSUME NEW m \in Messages, Send(c, m) \/ SendWait(c, m)
      PROVE  SyncInv'
    BY <1>2 DEF Send, SendWait, Enqueue
<1>3. ASSUME NEW m \in Messages, Wait(c, m)
      PROVE  SyncInv'
    BY <1>3 DEF Wait
<1>4. ASSUME NEW m \in Messages, Cancel(c, m)
      PROVE  SyncInv'
    <2>1. queue = <<>> => queue' = <<>>
        BY <1>4 DEF Cancel, EraseMatchingElements, Contains
    <2> QED
        BY <1>4, <2>1 DEF Cancel
<1>5. CASE Open
    BY <1>5 DEF Open
<1>6. CASE Close
    BY <1>6 DEF Close
<1> QED
    BY <1>1, <1>2, <1>3, <1>4, <1>5, <1>6 DEF Call

LEMMA SyncInvCorrect == Spec => []SyncInv
<1>1. Init => SyncInv
    BY AsyncPortAssumption DEF Init, SyncInv, WakeupNotLost
<1>2. TypeOK /\ SyncInv /\ [Next]_vars => SyncInv'
    <2> SUFFICES ASSUME TypeOK, SyncInv, [Next]_vars
                 PROVE  SyncInv'
        OBVIOUS
    <2>1. CASE UNCHANGED vars
        BY <2>1 DEF SyncInv, WakeupNotLost, vars, eventVars, threadVars, clientVars
    <2>2. CASE Next
        BY <2>1, <2>2, AsyncPortAssumption, SyncInvThread, SyncInvContinue, SyncInvCall
        DEF Next, Finished
    <2> QED
        BY <2>1, <2>2
<1> QED
    BY <1>1, <1>2, TypeCorrect, PTL DEF Spec

\* A blocked handler thread with work queued has been, or is about to be,
\* woken: SafeQueue needs no lock around its test and its wait.
THEOREM NoWakeupLost == Spec => []WakeupNotLost
BY SyncInvCorrect, PTL DEF SyncInv

\* Win32Thread::Stop never waits for a thread that nothing will wake.
THEOREM NoStopLost == Spec => []StopNotLost
<1>1. SyncInv => StopNotLost
    BY DEF SyncInv, StopNotLost
<1> QED
    BY <1>1, SyncInvCorrect, PTL

-----------------------------------------------------------------------------
(* What a Flush leaves, what a Close waits for, and why the thread stops.  *)

(***************************************************************************)
(* What the operations of the queue do to the set of its elements.         *)
(***************************************************************************)
LEMMA RangeOfErase ==
    ASSUME NEW q \in Seq(Messages), NEW m \in Messages
    PROVE  Range(q) \subseteq Range(EraseMatchingElements(q, m)) \cup {m}
<1>1. CASE ~Contains(q, m)
    BY <1>1 DEF EraseMatchingElements
<1>2. CASE Contains(q, m)
    <2> DEFINE i == CHOOSE j \in DOMAIN q : q[j] = m
               a == SubSeq(q, 1, i-1)
               b == SubSeq(q, i+1, Len(q))
    <2>1. DOMAIN q = 1..Len(q) /\ Len(q) \in Nat
        OBVIOUS
    <2>2. i \in 1..Len(q) /\ q[i] = m
        BY <1>2, <2>1 DEF Contains
    <2>3. EraseMatchingElements(q, m) = a \o b
        BY <1>2 DEF EraseMatchingElements, RemoveAt
    <2> HIDE DEF i
    <2>4. \A j \in 1..Len(q) : q[j] \in Messages
        BY ElementOfSeq
    <2>5. /\ a \in Seq(Messages) /\ Len(a) = i - 1
          /\ \A j \in 1..i-1 : a[j] = q[j]
        <3>1. \A j \in 1..(i-1) : q[j] \in Messages
            BY <2>1, <2>2, <2>4
        <3>2. /\ SubSeq(q, 1, i-1) \in Seq(Messages)
              /\ Len(SubSeq(q, 1, i-1)) = IF 1 <= i-1 THEN i-1-1+1 ELSE 0
              /\ \A j \in 1..(i-1)-1+1 : SubSeq(q, 1, i-1)[j] = q[1+j-1]
            BY <2>2, <3>1, SubSeqProperties
        <3> QED
            BY <2>2, <3>2
    <2>6. /\ b \in Seq(Messages) /\ Len(b) = Len(q) - i
          /\ \A j \in 1..Len(q)-i : b[j] = q[i+j]
        <3>1. \A j \in (i+1)..Len(q) : q[j] \in Messages
            BY <2>1, <2>2, <2>4
        <3>2. /\ SubSeq(q, i+1, Len(q)) \in Seq(Messages)
              /\ Len(SubSeq(q, i+1, Len(q))) = IF i+1 <= Len(q) THEN Len(q)-(i+1)+1 ELSE 0
              /\ \A j \in 1..Len(q)-(i+1)+1 : SubSeq(q, i+1, Len(q))[j] = q[(i+1)+j-1]
            BY <2>1, <2>2, <3>1, SubSeqProperties
        <3>3. ASSUME NEW j \in 1..Len(q)-i
              PROVE  b[j] = q[i+j]
            <4>1. j \in 1..Len(q)-(i+1)+1 /\ (i+1)+j-1 = i+j
                BY <2>1, <2>2
            <4> QED
                BY <3>2, <4>1
        <3>4. Len(b) = Len(q) - i
            <4>1. ASSUME NEW n \in Nat, NEW k \in 1..n
                  PROVE  (IF k+1 <= n THEN n-(k+1)+1 ELSE 0) = n - k
                <5>1. CASE k = n
                    BY <5>1
                <5>2. CASE k < n
                    BY <5>2
                <5> QED
                    BY <5>1, <5>2
            <4> QED
                BY <2>1, <2>2, <3>2, <4>1
        <3> QED
            BY <3>2, <3>3, <3>4
    <2>7. Range(a \o b) = Range(a) \cup Range(b)
        BY <2>5, <2>6, RangeConcatenation
    <2>8. Range(a) = {a[j] : j \in 1..i-1} /\ Range(b) = {b[j] : j \in 1..Len(q)-i}
        BY <2>5, <2>6, RangeEquality
    <2>9. Range(q) = {q[j] : j \in 1..Len(q)}
        BY RangeEquality
    <2> HIDE DEF a, b
    <2>10. ASSUME NEW j \in 1..Len(q)
           PROVE  q[j] \in Range(a) \cup Range(b) \cup {m}
        <3>1. CASE j < i
            BY <2>1, <2>2, <2>5, <2>8, <3>1
        <3>2. CASE j = i
            BY <2>2, <3>2
        <3>3. CASE j > i
            <4>1. j - i \in 1..Len(q)-i /\ b[j - i] = q[j]
                BY <2>1, <2>2, <2>6, <3>3
            <4> QED
                BY <2>8, <4>1
        <3> QED
            BY <2>1, <2>2, <3>1, <3>2, <3>3
    <2> QED
        BY <2>3, <2>7, <2>9, <2>10
<1> QED
    BY <1>1, <1>2

-----------------------------------------------------------------------------
(* The message in the hands of the handler thread, and those behind it.    *)

\* A message that has been dispatched, other than the one being served, has
\* been through all handlers; the one being served through those before hidx.
\* A port is open exactly while it has a thread.
ServingInv ==
    /\ isOpen <=> tpc # "none"
    /\ current # NoMessage <=> tpc \in {"handle", "signalHandled"}
    /\ tpc \in {"handle", "signalHandled"} => hidx \in 1..NumHandlers
    /\ tpc = "handle" => \A h \in 1..hidx-1 : current \in Accepts[h] => handled[current]
    /\ tpc = "signalHandled" => handled[current]
    /\ \A m \in Range(dispatched) : m # current /\ Accepted(m) => handled[m]

LEMMA ServingInvThread == TypeOK /\ ServingInv /\ Thread => ServingInv'
<1> SUFFICES ASSUME TypeOK, ServingInv, Thread
             PROVE  ServingInv'
    OBVIOUS
<1> USE AsyncPortAssumption
    DEF ServingInv, portVars, eventVars, clientVars, historyVars
<1>1. CASE OpenHandlers
    BY <1>1 DEF OpenHandlers
<1>2. CASE CheckStop
    BY <1>2 DEF CheckStop
<1>3. CASE QueueWait
    BY <1>3 DEF QueueWait
<1>4. CASE QueueWaitEvent
    BY <1>4 DEF QueueWaitEvent
<1>5. CASE TestIsEmpty
    BY <1>5 DEF TestIsEmpty
<1>6. CASE Dequeue
    <2>1. queue \in Seq(Messages) /\ queue # <<>> /\ dispatched \in Seq(Messages)
        BY <1>6 DEF Dequeue, TypeOK
    <2>2. Head(queue) \in Messages
        BY <2>1, RangeOfTail
    <2>3. Range(dispatched') = Range(dispatched) \cup {Head(queue)}
        BY <1>6, <2>1, <2>2, RangeOfAppend DEF Dequeue
    <2>4. current = NoMessage /\ current' = Head(queue) /\ current' # NoMessage
        BY <1>6, <2>2 DEF Dequeue
    <2>5. \A m \in Range(dispatched) : Accepted(m) => handled[m] \/ m = NoMessage
        BY <2>4
    <2>6. NoMessage \notin Range(dispatched)
        BY <2>1, RangeOfSeq
    <2>7. \A m \in Range(dispatched)' : m # current' /\ Accepted(m) => handled'[m]
        BY <1>6, <2>3, <2>4, <2>5, <2>6 DEF Dequeue
    <2> QED
        BY <1>6, <2>4, <2>7 DEF Dequeue, Accepted
<1>7. CASE DequeueEmpty
    BY <1>7 DEF DequeueEmpty
<1>8. CASE HandleMessage
    <2>1. current \in Messages /\ hidx \in 1..NumHandlers /\ handled \in [Messages -> BOOLEAN]
        BY <1>8 DEF HandleMessage, TypeOK
    <2>2. CASE current \in Accepts[hidx]
        <3>1. /\ handled' = [handled EXCEPT ![current] = TRUE]
              /\ tpc' = "signalHandled" /\ UNCHANGED <<isOpen, current, hidx, dispatched>>
            BY <1>8, <2>2 DEF HandleMessage
        <3>2. \A m \in Messages : handled[m] => handled'[m]
            BY <2>1, <3>1
        <3>3. \A m \in Range(dispatched) : m # current /\ Accepted(m) => handled'[m]
            BY <3>2, RangeOfSeq DEF TypeOK
        <3>4. tpc = "handle"
            BY <1>8 DEF HandleMessage
        <3> QED
            BY <2>1, <3>1, <3>3, <3>4 DEF Accepted
    <2>3. CASE current \notin Accepts[hidx] /\ hidx < NumHandlers
        <3>1. /\ hidx' = hidx + 1 /\ tpc' = "handle" /\ tpc = "handle"
              /\ UNCHANGED <<isOpen, current, handled, dispatched>>
            BY <1>8, <2>3 DEF HandleMessage, NextHandler
        <3>2. \A h \in 1..hidx'-1 : current \in Accepts[h] => handled[current]
            BY <2>1, <2>3, <3>1
        <3> QED
            BY <2>1, <2>3, <3>1, <3>2 DEF Accepted
    <2>4. CASE current \notin Accepts[hidx] /\ ~(hidx < NumHandlers)
        <3>1. /\ tpc' = "isEmpty" /\ current' = NoMessage /\ tpc = "handle"
              /\ UNCHANGED <<isOpen, handled, dispatched>>
            BY <1>8, <2>4 DEF HandleMessage, NextHandler
        <3>2. Accepted(current) => handled[current]
            BY <2>1, <2>4, <3>1 DEF Accepted
        <3> QED
            BY <3>1, <3>2 DEF Accepted
    <2> QED
        BY <2>2, <2>3, <2>4
<1>9. CASE SignalHandled
    <2>1. hidx \in 1..NumHandlers /\ handled[current] /\ UNCHANGED <<handled, dispatched>>
        BY <1>9 DEF SignalHandled
    <2>2. CASE hidx < NumHandlers
        BY <1>9, <2>1, <2>2 DEF SignalHandled, NextHandler, Accepted
    <2>3. CASE ~(hidx < NumHandlers)
        BY <1>9, <2>1, <2>3 DEF SignalHandled, NextHandler, Accepted
    <2> QED
        BY <2>2, <2>3
<1>10. CASE CloseHandlers
    BY <1>10 DEF CloseHandlers
<1> QED
    BY <1>1, <1>2, <1>3, <1>4, <1>5, <1>6, <1>7, <1>8, <1>9, <1>10 DEF Thread

LEMMA ServingInvClient ==
    ASSUME TypeOK, ServingInv, NEW c \in Clients, Continue(c) \/ Call(c) \/ Open \/ Close
    PROVE  ServingInv'
<1>1. ASSUME UNCHANGED <<isOpen, tpc, current, hidx, handled, dispatched>>
      PROVE  ServingInv'
    BY <1>1 DEF ServingInv, Accepted
<1>2. CASE Call(c)
    <2>1. UNCHANGED <<isOpen, tpc, current, hidx, handled, dispatched>>
        BY <1>2 DEF Call, Flush, Send, SendWait, Enqueue, Wait, Cancel, portVars,
            threadVars, historyVars
    <2> QED
        BY <1>1, <2>1
<1>3. CASE Close
    <2>1. UNCHANGED <<isOpen, tpc, current, hidx, handled, dispatched>>
        BY <1>3 DEF Close, portVars, threadVars
    <2> QED
        BY <1>1, <2>1
<1>4. CASE Open
    BY <1>4 DEF Open, historyVars, ServingInv, Accepted
<1>5. CASE Continue(c)
    <2>1. CASE Join
        BY <2>1 DEF Join, historyVars, ServingInv, Accepted
    <2>2. CASE ~Join
        <3>1. UNCHANGED <<isOpen, tpc, current, hidx, handled, dispatched>>
            BY <1>5, <2>2 DEF Continue, SignalEnqueue, TestHandled, AwaitHandledEvent,
                TestEmpty, StopRequest, EmitWakeupSignal, portVars, threadVars, historyVars
        <3> QED
            BY <1>1, <3>1
    <2> QED
        BY <2>1, <2>2
<1> QED
    BY <1>2, <1>3, <1>4, <1>5

LEMMA ServingInvCorrect == Spec => []ServingInv
<1>1. Init => ServingInv
    <2> SUFFICES ASSUME Init PROVE ServingInv
        OBVIOUS
    <2>1. Range(dispatched) = {}
        BY DEF Init, Range
    <2> QED
        BY <2>1 DEF Init, ServingInv
<1>2. TypeOK /\ ServingInv /\ [Next]_vars => ServingInv'
    <2> SUFFICES ASSUME TypeOK, ServingInv, [Next]_vars
                 PROVE  ServingInv'
        OBVIOUS
    <2>1. CASE UNCHANGED vars
        BY <2>1 DEF ServingInv, Accepted, vars, portVars, threadVars, historyVars
    <2>2. CASE Next
        BY <2>1, <2>2, AsyncPortAssumption, ServingInvThread, ServingInvClient
        DEF Next, Finished
    <2> QED
        BY <2>1, <2>2
<1> QED
    BY <1>1, <1>2, TypeCorrect, PTL DEF Spec

-----------------------------------------------------------------------------
(* Which operation a client is in, by its place.                           *)

OpInv ==
    \A c \in Clients :
        /\ pc[c] = "idle" <=> op[c] = "none"
        /\ op[c] = "Send" => pc[c] = "signal"
        /\ op[c] = "SendWait" => pc[c] \in {"signal", "testHandled", "awaitHandled"}
        /\ op[c] = "Wait" => pc[c] \in {"testHandled", "awaitHandled"}
        /\ op[c] = "Flush" => pc[c] \in {"testEmpty", "awaitEmpty"}
        /\ op[c] = "Close" => pc[c] \in {"testEmpty", "awaitEmpty", "stop", "wakeup", "join"}
        /\ op[c] \in {"SendWait", "Wait"} => arg[c] \in Messages

LEMMA OpInvContinue ==
    ASSUME TypeOK, OpInv, NEW c \in Clients, Continue(c)
    PROVE  OpInv'
<1> USE AsyncPortAssumption DEF OpInv, Goto, Return, Enter
<1> /\ pc \in [Clients -> ClientPlaces] /\ op \in [Clients -> Operations]
    /\ arg \in [Clients -> Messages \cup {NoMessage}]
    BY DEF TypeOK
<1>1. CASE SignalEnqueue(c)
    BY <1>1 DEF SignalEnqueue, Operations
<1>2. CASE TestHandled(c)
    BY <1>2 DEF TestHandled
<1>3. CASE AwaitHandledEvent(c)
    BY <1>3 DEF AwaitHandledEvent
<1>4. CASE TestEmpty(c)
    BY <1>4 DEF TestEmpty
<1>5. CASE StopRequest
    BY <1>5 DEF StopRequest
<1>6. CASE EmitWakeupSignal
    BY <1>6 DEF EmitWakeupSignal
<1>7. CASE Join
    BY <1>7 DEF Join
<1> QED
    BY <1>1, <1>2, <1>3, <1>4, <1>5, <1>6, <1>7 DEF Continue

LEMMA OpInvCall ==
    ASSUME TypeOK, OpInv, NEW c \in Clients, Call(c) \/ Open \/ Close
    PROVE  OpInv'
<1> USE AsyncPortAssumption DEF OpInv, Enter, clientVars
<1> /\ pc \in [Clients -> ClientPlaces] /\ op \in [Clients -> Operations]
    /\ arg \in [Clients -> Messages \cup {NoMessage}]
    BY DEF TypeOK
<1>1. CASE Flush(c)
    BY <1>1 DEF Flush
<1>2. ASSUME NEW m \in Messages, Send(c, m) \/ SendWait(c, m)
      PROVE  OpInv'
    BY <1>2 DEF Send, SendWait, Enqueue
<1>3. ASSUME NEW m \in Messages, Wait(c, m)
      PROVE  OpInv'
    BY <1>3 DEF Wait
<1>4. ASSUME NEW m \in Messages, Cancel(c, m)
      PROVE  OpInv'
    BY <1>4 DEF Cancel
<1>5. CASE Open
    BY <1>5 DEF Open
<1>6. CASE Close
    BY <1>6 DEF Close
<1> QED
    BY <1>1, <1>2, <1>3, <1>4, <1>5, <1>6 DEF Call

LEMMA ThreadKeepsClients == Thread => UNCHANGED <<isOpen, clientVars, sendOrder, cancelled, goal>>
BY DEF Thread, OpenHandlers, CheckStop, QueueWait, QueueWaitEvent, TestIsEmpty, Dequeue,
    DequeueEmpty, HandleMessage, SignalHandled, CloseHandlers, portVars, historyVars

LEMMA OpInvCorrect == Spec => []OpInv
<1>1. Init => OpInv
    BY DEF Init, OpInv
<1>2. TypeOK /\ OpInv /\ [Next]_vars => OpInv'
    <2> SUFFICES ASSUME TypeOK, OpInv, [Next]_vars
                 PROVE  OpInv'
        OBVIOUS
    <2>1. ASSUME UNCHANGED clientVars
          PROVE  OpInv'
        BY <2>1 DEF OpInv, clientVars
    <2>2. CASE UNCHANGED vars
        BY <2>1, <2>2 DEF vars
    <2>3. CASE Thread
        BY <2>1, <2>3, ThreadKeepsClients
    <2> QED
        BY <2>2, <2>3, AsyncPortAssumption, OpInvContinue, OpInvCall DEF Next, Finished
<1> QED
    BY <1>1, <1>2, TypeCorrect, PTL DEF Spec

-----------------------------------------------------------------------------
(* What Flush and Close wait for.                                          *)

\* Nothing that was queued when Flush or Close was called gets lost on its way,
\* and from the stop request of Close on all of it has left the queue.
GoalInv ==
    /\ \A c \in Clients : op[c] \in {"Flush", "Close"} =>
          goal[c] \subseteq Range(queue) \cup Range(dispatched) \cup cancelled
    /\ pc[Owner] \in {"stop", "wakeup", "join"} =>
          goal[Owner] \subseteq Range(dispatched) \cup cancelled

LEMMA GoalInvThread == TypeOK /\ GoalInv /\ Thread => GoalInv'
<1> SUFFICES ASSUME TypeOK, GoalInv, Thread
             PROVE  GoalInv'
    OBVIOUS
<1>1. UNCHANGED <<pc, op, goal, cancelled>>
    BY ThreadKeepsClients DEF clientVars
<1>2. CASE Dequeue
    <2>1. queue \in Seq(Messages) /\ queue # <<>> /\ dispatched \in Seq(Messages)
        BY <1>2 DEF Dequeue, TypeOK
    <2>2. Head(queue) \in Messages /\ Range(queue) = {Head(queue)} \cup Range(Tail(queue))
        BY <2>1, RangeOfTail
    <2>3. Range(dispatched') = Range(dispatched) \cup {Head(queue)}
        BY <1>2, <2>1, <2>2, RangeOfAppend DEF Dequeue
    <2> QED
        BY <1>1, <1>2, <2>2, <2>3 DEF Dequeue, GoalInv
<1>3. CASE ~Dequeue
    <2>1. UNCHANGED <<queue, dispatched>>
        BY <1>3 DEF Thread, OpenHandlers, CheckStop, QueueWait, QueueWaitEvent, TestIsEmpty,
            DequeueEmpty, HandleMessage, SignalHandled, CloseHandlers, historyVars
    <2> QED
        BY <1>1, <2>1 DEF GoalInv
<1> QED
    BY <1>2, <1>3

LEMMA GoalInvContinue ==
    ASSUME TypeOK, OpInv, GoalInv, NEW c \in Clients, Continue(c)
    PROVE  GoalInv'
<1>1. UNCHANGED <<queue, dispatched, cancelled, goal>>
    BY DEF Continue, SignalEnqueue, TestHandled, AwaitHandledEvent, TestEmpty,
        StopRequest, EmitWakeupSignal, Join, historyVars
<1>2. pc \in [Clients -> ClientPlaces] /\ op \in [Clients -> Operations]
    BY DEF TypeOK
<1> USE AsyncPortAssumption DEF GoalInv, Goto, Return, Enter
<1>3. \A d \in Clients : op'[d] \in {"Flush", "Close"} => op[d] = op'[d]
    BY <1>2 DEF Continue, SignalEnqueue, TestHandled, AwaitHandledEvent, TestEmpty,
        StopRequest, EmitWakeupSignal, Join
<1>4. ASSUME pc[Owner]' \in {"stop", "wakeup", "join"}
      PROVE  \/ pc[Owner] \in {"stop", "wakeup", "join"}
             \/ op[Owner] = "Close" /\ queue = <<>>
    BY <1>2, <1>4 DEF Continue, SignalEnqueue, TestHandled, AwaitHandledEvent, TestEmpty,
        StopRequest, EmitWakeupSignal, Join
<1>5. queue = <<>> => Range(queue) = {}
    BY DEF Range
<1> QED
    BY <1>1, <1>3, <1>4, <1>5

LEMMA GoalInvCall ==
    ASSUME TypeOK, OpInv, GoalInv, NEW c \in Clients, Call(c) \/ Open \/ Close
    PROVE  GoalInv'
<1> USE AsyncPortAssumption DEF GoalInv, Enter, Idle
<1>1. /\ pc \in [Clients -> ClientPlaces] /\ op \in [Clients -> Operations]
      /\ goal \in [Clients -> SUBSET Messages] /\ queue \in Seq(Messages)
    BY DEF TypeOK
<1>2. CASE Flush(c)
    BY <1>1, <1>2 DEF Flush
<1>3. ASSUME NEW m \in Messages, Send(c, m) \/ SendWait(c, m)
      PROVE  GoalInv'
    <2>1. PICK o \in {"Send", "SendWait"} : Enqueue(c, m, o)
        BY <1>3 DEF Send, SendWait
    <2>2. Range(queue') = Range(queue) \cup {m}
        BY <1>1, <2>1, RangeOfAppend DEF Enqueue
    <2>3. UNCHANGED <<dispatched, cancelled, goal>>
        BY <2>1 DEF Enqueue
    <2>4. /\ \A d \in Clients : op'[d] \in {"Flush", "Close"} => op[d] = op'[d]
          /\ pc[Owner]' \in {"stop", "wakeup", "join"} => pc[Owner] \in {"stop", "wakeup", "join"}
        BY <1>1, <2>1 DEF Enqueue
    <2> QED
        BY <2>2, <2>3, <2>4
<1>4. ASSUME NEW m \in Messages, Wait(c, m)
      PROVE  GoalInv'
    BY <1>1, <1>4 DEF Wait, historyVars
<1>5. ASSUME NEW m \in Messages, Cancel(c, m)
      PROVE  GoalInv'
    <2>1. Range(queue) \subseteq Range(queue') \cup {m}
        BY <1>1, <1>5, RangeOfErase DEF Cancel
    <2> QED
        BY <1>5, <2>1 DEF Cancel, clientVars
<1>6. CASE Open
    BY <1>6 DEF Open, clientVars, historyVars
<1>7. CASE Close
    BY <1>1, <1>7 DEF Close
<1> QED
    BY <1>2, <1>3, <1>4, <1>5, <1>6, <1>7 DEF Call

LEMMA GoalInvCorrect == Spec => []GoalInv
<1>1. Init => GoalInv
    BY AsyncPortAssumption DEF Init, GoalInv
<1>2. TypeOK /\ OpInv /\ GoalInv /\ [Next]_vars => GoalInv'
    <2> SUFFICES ASSUME TypeOK, OpInv, GoalInv, [Next]_vars
                 PROVE  GoalInv'
        OBVIOUS
    <2>1. CASE UNCHANGED vars
        BY <2>1 DEF GoalInv, vars, clientVars, historyVars
    <2>2. CASE Next
        BY <2>1, <2>2, AsyncPortAssumption, GoalInvThread, GoalInvContinue, GoalInvCall
        DEF Next, Finished
    <2> QED
        BY <2>1, <2>2
<1> QED
    BY <1>1, <1>2, TypeCorrect, OpInvCorrect, PTL DEF Spec

\* Flush returns on an empty queue: a message that was queued when it was called,
\* and that some handler accepts, is handled, cancelled, or the one message the
\* handler thread still has in its hands.
THEOREM FlushMissesOnlyCurrent == Spec => FlushLeavesOne
<1>1. TypeOK /\ ServingInv /\ OpInv /\ GoalInv /\ [Next]_vars =>
        [\A c \in Clients : Returns(c, "Flush") =>
            \A m \in goal[c] \ cancelled : Accepted(m) => handled[m] \/ m = current]_vars
    <2> SUFFICES ASSUME TypeOK, ServingInv, OpInv, GoalInv, Next,
                        NEW c \in Clients, Returns(c, "Flush")
                 PROVE  \A m \in goal[c] \ cancelled : Accepted(m) => handled[m] \/ m = current
        OBVIOUS
    <2> USE AsyncPortAssumption
    <2>1. op[c] = "Flush" /\ op'[c] = "none" /\ op' # op
        BY DEF Returns
    <2>2. pc \in [Clients -> ClientPlaces] /\ op \in [Clients -> Operations]
        BY DEF TypeOK
    <2>3. pc[c] \in {"testEmpty", "awaitEmpty"}
        BY <2>1 DEF OpInv
    <2>4. ~Thread
        BY <2>1, ThreadKeepsClients DEF clientVars
    <2>5. ~Open /\ ~Close /\ ~Finished
        BY <2>1, <2>2 DEF Open, Close, Finished, Enter, vars, clientVars
    <2>6. \A d \in Clients : ~Call(d)
        BY <2>1, <2>2 DEF Call, Flush, Send, SendWait, Enqueue, Wait, Cancel, Enter, clientVars
    <2>7. PICK d \in Clients : Continue(d)
        BY <2>4, <2>5, <2>6 DEF Next
    <2>8. d = c /\ TestEmpty(c) /\ queue = <<>>
        BY <2>1, <2>2, <2>3, <2>7 DEF Continue, SignalEnqueue, TestHandled,
            AwaitHandledEvent, TestEmpty, StopRequest, EmitWakeupSignal, Join, Goto, Return, Enter
    <2>9. Range(queue) = {}
        BY <2>8 DEF Range
    <2>10. \A m \in goal[c] \ cancelled : m \in Range(dispatched)
        BY <2>1, <2>9 DEF GoalInv
    <2> QED
        BY <2>10 DEF ServingInv
<1> QED
    BY <1>1, TypeCorrect, ServingInvCorrect, OpInvCorrect, GoalInvCorrect, PTL
    DEF Spec, FlushLeavesOne

\* Close returns with no message in the thread's hands, and every message that
\* was queued when it was called, and not cancelled, has been through all
\* handlers: an accepted one is handled.
THEOREM CloseLosesNothing == Spec => CloseHandlesAll
<1>1. TypeOK /\ ServingInv /\ OpInv /\ GoalInv /\ [Next]_vars =>
        [Returns(Owner, "Close") =>
            /\ current = NoMessage
            /\ \A m \in goal[Owner] \ cancelled :
                  /\ m \in Range(dispatched)
                  /\ Accepted(m) => handled[m]]_vars
    <2> SUFFICES ASSUME TypeOK, ServingInv, OpInv, GoalInv, Next, Returns(Owner, "Close")
                 PROVE  /\ current = NoMessage
                        /\ \A m \in goal[Owner] \ cancelled :
                              /\ m \in Range(dispatched)
                              /\ Accepted(m) => handled[m]
        OBVIOUS
    <2> USE AsyncPortAssumption
    <2>1. op[Owner] = "Close" /\ op'[Owner] = "none" /\ op' # op
        BY DEF Returns
    <2>2. pc \in [Clients -> ClientPlaces] /\ op \in [Clients -> Operations]
        BY DEF TypeOK
    <2>3. pc[Owner] \in {"testEmpty", "awaitEmpty", "stop", "wakeup", "join"}
        BY <2>1 DEF OpInv
    <2>4. ~Thread
        BY <2>1, ThreadKeepsClients DEF clientVars
    <2>5. ~Open /\ ~Close /\ ~Finished
        BY <2>1, <2>3 DEF Open, Close, Idle, Finished, vars, clientVars
    <2>6. \A c \in Clients : ~Call(c)
        BY <2>1, <2>2, <2>3 DEF Call, Flush, Send, SendWait, Enqueue, Wait, Cancel, Idle,
            Enter, clientVars
    <2>7. PICK c \in Clients : Continue(c)
        BY <2>4, <2>5, <2>6 DEF Next
    <2>8. Join
        BY <2>1, <2>2, <2>3, <2>7 DEF Continue, SignalEnqueue, TestHandled,
            AwaitHandledEvent, TestEmpty, StopRequest, EmitWakeupSignal, Goto, Return, Enter
    <2>9. pc[Owner] = "join" /\ tpc = "exited"
        BY <2>8 DEF Join
    <2>10. current = NoMessage
        BY <2>9 DEF ServingInv
    <2>11. \A m \in goal[Owner] \ cancelled : m \in Range(dispatched)
        BY <2>9 DEF GoalInv
    <2>12. NoMessage \notin Range(dispatched)
        BY RangeOfSeq DEF TypeOK
    <2> QED
        BY <2>10, <2>11, <2>12 DEF ServingInv
<1> QED
    BY <1>1, TypeCorrect, ServingInvCorrect, OpInvCorrect, GoalInvCorrect, PTL
    DEF Spec, CloseHandlesAll

-----------------------------------------------------------------------------
(* The dequeue of the handler thread.                                      *)

\* A queue the thread has seen filled stays filled until the thread takes a
\* message, unless a message is cancelled; a thread that has found it empty has
\* ended the process.
DequeueInv ==
    /\ tpc = "dequeue" => queue # <<>> \/ cancelled # {}
    /\ tpc = "barfed" => queue = <<>> /\ cancelled # {}

LEMMA DequeueInvThread == TypeOK /\ DequeueInv /\ Thread => DequeueInv'
BY DEF DequeueInv, Thread, OpenHandlers, CheckStop, QueueWait, QueueWaitEvent, TestIsEmpty,
    Dequeue, DequeueEmpty, HandleMessage, SignalHandled, NextHandler, CloseHandlers, historyVars

LEMMA DequeueInvClient ==
    ASSUME TypeOK, DequeueInv, NEW c \in Clients, Continue(c) \/ Call(c) \/ Open \/ Close
    PROVE  DequeueInv'
<1> USE AsyncPortAssumption DEF DequeueInv, threadVars, historyVars
<1>1. CASE Continue(c)
    BY <1>1 DEF Continue, SignalEnqueue, TestHandled, AwaitHandledEvent, TestEmpty,
        StopRequest, EmitWakeupSignal, Join
<1>2. CASE Flush(c)
    BY <1>2 DEF Flush
<1>3. ASSUME NEW m \in Messages, Send(c, m) \/ SendWait(c, m)
      PROVE  DequeueInv'
    <2>1. PICK o \in {"Send", "SendWait"} : Enqueue(c, m, o)
        BY <1>3 DEF Send, SendWait
    <2>2. queue' # <<>>
        BY <2>1, AppendProperties, EmptySeq DEF Enqueue, TypeOK
    <2> QED
        BY <2>1, <2>2 DEF Enqueue, Idle, Running
<1>4. ASSUME NEW m \in Messages, Wait(c, m)
      PROVE  DequeueInv'
    BY <1>4 DEF Wait
<1>5. ASSUME NEW m \in Messages, Cancel(c, m)
      PROVE  DequeueInv'
    BY <1>5 DEF Cancel, Idle, Running
<1>6. CASE Open
    BY <1>6 DEF Open
<1>7. CASE Close
    BY <1>7 DEF Close
<1> QED
    BY <1>1, <1>2, <1>3, <1>4, <1>5, <1>6, <1>7 DEF Call

\* The handler thread tests IsEmpty without the lock and dequeues afterwards;
\* it meets an empty queue there, and so the assertion of Array::Front, only in
\* a program that has cancelled a message: no stale event, stop or reopened port
\* leads to it.
THEOREM OnlyCancelStops == Spec => []StopsOnlyByCancel
<1>1. Init => DequeueInv
    BY DEF Init, DequeueInv
<1>2. TypeOK /\ DequeueInv /\ [Next]_vars => DequeueInv'
    <2> SUFFICES ASSUME TypeOK, DequeueInv, [Next]_vars
                 PROVE  DequeueInv'
        OBVIOUS
    <2>1. CASE UNCHANGED vars
        BY <2>1 DEF DequeueInv, vars, threadVars, historyVars
    <2>2. CASE Next
        BY <2>1, <2>2, AsyncPortAssumption, DequeueInvThread, DequeueInvClient
        DEF Next, Finished
    <2> QED
        BY <2>1, <2>2
<1>3. DequeueInv => StopsOnlyByCancel
    BY DEF DequeueInv, StopsOnlyByCancel, Running
<1> QED
    BY <1>1, <1>2, <1>3, TypeCorrect, PTL DEF Spec

-----------------------------------------------------------------------------
(* A step of a thread of the port is one step of MessagePort or a stutter. *)

\* The two components of the mapping that are not variables of AsyncPort.
Waiting == [c \in Clients |-> IF op[c] \in {"SendWait", "Wait"} THEN arg[c] ELSE NoMessage]
Handled == {m \in Messages : handled[m]}

\* Entering an operation changes what its client waits for, and nothing else.
LEMMA EnterWaits ==
    ASSUME TypeOK, NEW c \in Clients, NEW o, NEW m, NEW p, Enter(c, o, m, p)
    PROVE  Waiting' = [Waiting EXCEPT ![c] =
                          IF o \in {"SendWait", "Wait"} THEN m ELSE NoMessage]
<1>1. /\ op \in [Clients -> Operations] /\ op' = [op EXCEPT ![c] = o]
      /\ arg \in [Clients -> Messages \cup {NoMessage}] /\ arg' = [arg EXCEPT ![c] = m]
    BY DEF TypeOK, Enter
<1> QED
    BY <1>1 DEF Waiting

\* A client that does not wait is unaffected by leaving or entering an
\* operation that does not wait either.
LEMMA EnterWaitsNot ==
    ASSUME TypeOK, NEW c \in Clients, NEW o, NEW m, NEW p, Enter(c, o, m, p),
           o \notin {"SendWait", "Wait"}, op[c] \notin {"SendWait", "Wait"}
    PROVE  Waiting' = Waiting
<1>1. Waiting' = [Waiting EXCEPT ![c] = NoMessage]
    BY EnterWaits
<1>2. Waiting[c] = NoMessage
    BY DEF Waiting
<1> QED
    BY <1>1, <1>2 DEF Waiting

\* A step that leaves the mapped state alone is a stutter of MessagePort.
LEMMA Stutter ==
    ASSUME UNCHANGED <<isOpen, sendOrder, queue, current>>, Handled' = Handled,
           Waiting' = Waiting
    PROVE  UNCHANGED Port!vars
BY DEF Port!vars, Handled, Waiting, Sent

LEMMA RefinesInit == Init => Port!Init
<1> SUFFICES ASSUME Init
             PROVE  Port!Init
    OBVIOUS
<1>1. Sent = {}
    BY DEF Init, Sent, Range
<1>2. Handled = {}
    BY DEF Init, Handled
<1>3. Waiting = [c \in Clients |-> NoMessage]
    BY DEF Init, Waiting
<1> QED
    BY <1>1, <1>2, <1>3 DEF Init, Port!Init, Handled, Waiting

LEMMA RefinesThread ==
    ASSUME TypeOK, ServingInv, Thread
    PROVE  [Port!Next]_(Port!vars)
<1>1. UNCHANGED <<isOpen, sendOrder, Waiting>>
    BY ThreadKeepsClients DEF clientVars, Waiting
<1>2. CASE Dequeue
    <2>1. isOpen /\ current = NoMessage
        BY <1>2 DEF Dequeue, ServingInv
    <2>2. Handled' = Handled
        BY <1>2 DEF Dequeue, Handled
    <2>3. Port!Take
        BY <1>1, <1>2, <2>1, <2>2 DEF Dequeue, Port!Take, Handled, Waiting, Sent
    <2> QED
        BY <2>3 DEF Port!Next
<1>3. ASSUME NextHandler, UNCHANGED <<queue, handled>>, current # NoMessage
      PROVE  [Port!Next]_(Port!vars)
    <2>1. Handled' = Handled
        BY <1>3 DEF Handled
    <2>2. CASE hidx < NumHandlers
        BY <1>1, <1>3, <2>1, <2>2, Stutter DEF NextHandler
    <2>3. CASE ~(hidx < NumHandlers)
        <3>1. Port!Release
            BY <1>1, <1>3, <2>1, <2>3 DEF NextHandler, Port!Release, Handled, Waiting, Sent
        <3> QED
            BY <3>1 DEF Port!Next
    <2> QED
        BY <2>2, <2>3
<1>4. CASE HandleMessage
    <2>1. current # NoMessage /\ current \in Messages /\ UNCHANGED queue
        BY <1>4 DEF HandleMessage, ServingInv, TypeOK
    <2>2. CASE current \in Accepts[hidx]
        <3>1. handled' = [handled EXCEPT ![current] = TRUE] /\ UNCHANGED current
            BY <1>4, <2>2 DEF HandleMessage
        <3>2. Handled' = Handled \cup {current}
            BY <2>1, <3>1 DEF Handled, TypeOK
        <3>3. Port!Handle
            BY <1>1, <2>1, <3>1, <3>2 DEF Port!Handle, Handled, Waiting, Sent
        <3> QED
            BY <3>3 DEF Port!Next
    <2>3. CASE current \notin Accepts[hidx]
        BY <1>3, <1>4, <2>1, <2>3 DEF HandleMessage
    <2> QED
        BY <2>2, <2>3
<1>5. CASE SignalHandled
    <2>1. current # NoMessage
        BY <1>5 DEF SignalHandled, ServingInv
    <2> QED
        BY <1>3, <1>5, <2>1 DEF SignalHandled
<1>6. CASE ~Dequeue /\ ~HandleMessage /\ ~SignalHandled
    <2>1. UNCHANGED <<queue, current, handled>>
        BY <1>6 DEF Thread, OpenHandlers, CheckStop, QueueWait, QueueWaitEvent, TestIsEmpty,
            DequeueEmpty, CloseHandlers
    <2>2. Handled' = Handled
        BY <2>1 DEF Handled
    <2> QED
        BY <1>1, <2>1, <2>2, Stutter
<1> QED
    BY <1>2, <1>4, <1>5, <1>6

LEMMA RefinesContinue ==
    ASSUME TypeOK, ServingInv, OpInv, NEW c \in Clients, Continue(c)
    PROVE  [Port!Next]_(Port!vars)
<1>1. UNCHANGED <<sendOrder, queue, current, handled, Handled>>
    BY DEF Continue, SignalEnqueue, TestHandled, AwaitHandledEvent, TestEmpty, StopRequest,
        EmitWakeupSignal, Join, threadVars, historyVars, Handled
<1>2. ASSUME NEW d \in Clients, NEW p, Goto(d, p)
      PROVE  Waiting' = Waiting
    BY <1>2 DEF Goto, Waiting
<1>3. ASSUME NEW d \in Clients, Return(d), op[d] \notin {"SendWait", "Wait"}
      PROVE  Waiting' = Waiting
    BY <1>3, EnterWaitsNot DEF Return
<1>4. CASE TestHandled(c) /\ handled[arg[c]]
    <2>1. op[c] \in {"SendWait", "Wait"} /\ arg[c] \in Messages
        BY <1>4 DEF TestHandled, OpInv, TypeOK, Operations
    <2>2. Waiting[c] \in Handled
        BY <1>4, <2>1 DEF Waiting, Handled
    <2>3. Waiting' = [Waiting EXCEPT ![c] = NoMessage]
        BY <1>4, EnterWaits DEF TestHandled, Return
    <2>4. Port!EndWait(c)
        BY <1>1, <1>4, <2>2, <2>3 DEF TestHandled, portVars, Port!EndWait, Handled, Waiting, Sent
    <2> QED
        BY <2>4 DEF Port!Next
<1>5. CASE Join
    <2>1. op[Owner] = "Close" /\ Owner \in Clients
        BY <1>5, AsyncPortAssumption DEF Join, OpInv, TypeOK, Operations
    <2>2. Waiting' = Waiting
        BY <1>3, <1>5, <2>1 DEF Join
    <2>3. isOpen /\ current = NoMessage
        BY <1>5 DEF Join, ServingInv
    <2>4. Port!Close
        BY <1>1, <1>5, <2>2, <2>3 DEF Join, Port!Close, Handled, Waiting, Sent
    <2> QED
        BY <2>4 DEF Port!Next
<1>6. CASE ~Join /\ ~(TestHandled(c) /\ handled[arg[c]])
    <2>1. UNCHANGED isOpen
        BY <1>6 DEF Continue, SignalEnqueue, TestHandled, AwaitHandledEvent, TestEmpty,
            StopRequest, EmitWakeupSignal, portVars
    <2>2. \/ \E d \in Clients, p \in ClientPlaces : Goto(d, p)
          \/ Return(c) /\ op[c] \notin {"SendWait", "Wait"}
        <3>1. CASE SignalEnqueue(c)
            BY <3>1 DEF SignalEnqueue, ClientPlaces, OpInv
        <3>2. CASE TestHandled(c)
            BY <1>6, <3>2 DEF TestHandled, ClientPlaces
        <3>3. CASE AwaitHandledEvent(c)
            BY <3>3 DEF AwaitHandledEvent, ClientPlaces, OpInv
        <3>4. CASE TestEmpty(c)
            BY <3>4 DEF TestEmpty, ClientPlaces, OpInv
        <3>5. CASE StopRequest \/ EmitWakeupSignal
            BY <3>5, AsyncPortAssumption DEF StopRequest, EmitWakeupSignal, ClientPlaces
        <3> QED
            BY <1>6, <3>1, <3>2, <3>3, <3>4, <3>5 DEF Continue
    <2>3. Waiting' = Waiting
        BY <1>2, <1>3, <2>2
    <2> QED
        BY <1>1, <2>1, <2>3, Stutter
<1> QED
    BY <1>4, <1>5, <1>6

LEMMA RefinesCall ==
    ASSUME TypeOK, ServingInv, OpInv, NEW c \in Clients, Call(c) \/ Open \/ Close
    PROVE  [Port!Next]_(Port!vars)
<1>1. UNCHANGED <<current, handled, Handled>>
    BY DEF Call, Flush, Send, SendWait, Enqueue, Wait, Cancel, Open, Close, threadVars, Handled
<1>2. ASSUME NEW d \in Clients, Idle(d)
      PROVE  op[d] = "none" /\ Waiting[d] = NoMessage
    BY <1>2 DEF Idle, OpInv, Waiting
<1>3. CASE Flush(c)
    <2>1. Waiting' = Waiting
        BY <1>2, <1>3, EnterWaitsNot DEF Flush
    <2> QED
        BY <1>1, <1>3, <2>1, Stutter DEF Flush, portVars
<1>4. ASSUME NEW m \in Messages, Send(c, m) \/ SendWait(c, m)
      PROVE  [Port!Next]_(Port!vars)
    <2>1. PICK o \in {"Send", "SendWait"} : Enqueue(c, m, o)
        BY <1>4 DEF Send, SendWait
    <2>2. Waiting[c] = NoMessage
        BY <1>2, <2>1 DEF Enqueue
    <2>3. Waiting' = [Waiting EXCEPT ![c] = IF o = "SendWait" THEN m ELSE NoMessage]
        BY <2>1, EnterWaits DEF Enqueue
    <2>4. Waiting' = IF o = "SendWait" THEN [Waiting EXCEPT ![c] = m] ELSE Waiting
        BY <2>2, <2>3 DEF Waiting
    <2>5. Sent' = Sent \cup {m}
        BY <2>1, RangeOfAppend DEF Enqueue, Sent, TypeOK
    <2>6. Port!Send(c, m, o = "SendWait")
        BY <1>1, <2>1, <2>2, <2>4, <2>5 DEF Enqueue, portVars, Port!Send, Handled, Waiting, Sent
    <2> QED
        BY <2>6 DEF Port!Next
<1>5. ASSUME NEW m \in Messages, Wait(c, m)
      PROVE  [Port!Next]_(Port!vars)
    <2>1. Waiting[c] = NoMessage
        BY <1>2, <1>5 DEF Wait
    <2>2. Waiting' = [Waiting EXCEPT ![c] = m]
        BY <1>5, EnterWaits DEF Wait
    <2>3. Port!Wait(c, m)
        BY <1>1, <1>5, <2>1, <2>2 DEF Wait, portVars, historyVars, Port!Wait, Handled, Waiting, Sent
    <2> QED
        BY <2>3 DEF Port!Next
<1>6. ASSUME NEW m \in Messages, Cancel(c, m)
      PROVE  [Port!Next]_(Port!vars)
    <2>1. EraseMatchingElements(queue, m) = Port!Without(queue, m)
        BY DEF EraseMatchingElements, Port!Without, Contains, Port!Contains, RemoveAt, Port!RemoveAt
    <2>2. UNCHANGED <<isOpen, sendOrder, Waiting>>
        BY <1>6 DEF Cancel, portVars, clientVars, Waiting
    <2>3. queue' = Port!Without(queue, m) /\ m \in Sent
        BY <1>6, <2>1 DEF Cancel
    <2>4. Port!Cancel(m)
        BY <1>1, <2>2, <2>3 DEF Port!Cancel, Handled, Waiting, Sent
    <2> QED
        BY <2>4 DEF Port!Next
<1>7. CASE Open
    <2>1. UNCHANGED <<sendOrder, queue, Waiting>> /\ ~isOpen /\ isOpen'
        BY <1>7 DEF Open, clientVars, historyVars, Waiting
    <2>2. Port!Open
        BY <1>1, <1>7, <2>1 DEF Open, Port!Open, Handled, Waiting, Sent
    <2> QED
        BY <2>2 DEF Port!Next
<1>8. CASE Close
    <2>1. Waiting' = Waiting
        BY <1>2, <1>8, EnterWaitsNot, AsyncPortAssumption DEF Close
    <2> QED
        BY <1>1, <1>8, <2>1, Stutter DEF Close, portVars
<1> QED
    BY <1>3, <1>4, <1>5, <1>6, <1>7, <1>8 DEF Call

\* The port with its threads, events and locks keeps the promise of
\* MessagePort: one queue in sending order, one message served at a time while
\* the port is open, waits that end only on a handled message, and no close on
\* a message being served.
THEOREM Implementation == Spec => ImplementsMessagePort
<1>1. TypeOK /\ ServingInv /\ OpInv /\ [Next]_vars => [Port!Next]_(Port!vars)
    <2> SUFFICES ASSUME TypeOK, ServingInv, OpInv, [Next]_vars
                 PROVE  [Port!Next]_(Port!vars)
        OBVIOUS
    <2>1. CASE UNCHANGED vars
        <3>1. UNCHANGED <<isOpen, sendOrder, queue, current, Handled, Waiting>>
            BY <2>1 DEF vars, portVars, threadVars, clientVars, historyVars, Handled, Waiting
        <3> QED
            BY <3>1, Stutter
    <2>2. CASE Next
        BY <2>1, <2>2, AsyncPortAssumption, RefinesThread, RefinesContinue, RefinesCall
        DEF Next, Finished
    <2> QED
        BY <2>1, <2>2
<1> QED
    BY <1>1, RefinesInit, TypeCorrect, ServingInvCorrect, OpInvCorrect, PTL
    DEF Spec, ImplementsMessagePort, Port!Spec
=============================================================================
