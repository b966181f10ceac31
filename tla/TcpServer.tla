------------------------------ MODULE TcpServer ------------------------------
(***************************************************************************)
(* Net::TcpServer and the Http::HttpServer on top of it: a listener thread *)
(* accepts connections, the application's thread polls them once a frame,  *)
(* answers what they sent and finally stops the listener.                  *)
(*                                                                         *)
(* tpc is the place of the listener thread, apc that of the application's. *)
(* A connection is the accepted socket and its remote end: remote[p] is    *)
(* the state of the peer, sock[p] that of the server's socket, unread[p]   *)
(* whether a request waits in its receive buffer.  The listener's stop     *)
(* request is a Win32 auto-reset event: testing it resets it.              *)
(***************************************************************************)
EXTENDS Naturals, SequencesExt, Filter

CONSTANTS
    Peers,          \* remote clients, each connects once
    HttpPeers,      \* those whose data is a valid HTTP request
    Wakeup,         \* the connection EmitWakeupSignal makes
    MaxOpens        \* bound: how often the server is opened

ASSUME TcpServerAssumption ==
    /\ HttpPeers \subseteq Peers
    /\ Wakeup \notin Peers
    /\ MaxOpens \in Nat

Connections == Peers \cup {Wakeup}

VARIABLES
    isOpen, opens, stopRequestEvent,
    tpc, listening, backlog, newSocket,
    clientConnections, apc, recvConns,
    remote, sock, unread, answered

serverVars  == <<isOpen, opens>>
threadVars  == <<tpc, listening, newSocket>>
appVars     == <<apc, recvConns>>
networkVars == <<remote, sock, unread, answered>>
vars == <<serverVars, stopRequestEvent, threadVars, backlog, clientConnections,
          appVars, networkVars>>

ListenerPlaces == {"none", "bind", "loopTest", "listen", "innerTest", "accept",
                   "add", "closeSocket", "exited"}
AppPlaces == {"idle", "answer", "stop", "wakeup", "join", "shutdown"}

Init ==
    /\ isOpen = FALSE /\ opens = 0
    /\ stopRequestEvent = FALSE
    /\ tpc = "none" /\ listening = FALSE /\ newSocket = <<>>
    /\ backlog = <<>> /\ clientConnections = <<>>
    /\ apc = "idle" /\ recvConns = <<>>
    /\ remote = [p \in Connections |-> "none"]
    /\ sock = [p \in Connections |-> "none"]
    /\ unread = [p \in Connections |-> FALSE]
    /\ answered = {}

\* Close the server's end of the connections in ps.
ShutdownAll(ps) ==
    sock' = [p \in Connections |-> IF p \in ps THEN "closed" ELSE sock[p]]

-----------------------------------------------------------------------------
(* The peers.                                                              *)

PeerConnect(p) ==
    /\ listening
    /\ remote[p] = "none"
    /\ remote' = [remote EXCEPT ![p] = "up"]
    /\ backlog' = Append(backlog, p)
    /\ UNCHANGED <<serverVars, stopRequestEvent, threadVars, clientConnections,
                   appVars, sock, unread, answered>>

PeerSend(p) ==
    /\ remote[p] = "up" /\ sock[p] # "closed"
    /\ ~unread[p] /\ p \notin answered
    /\ unread' = [unread EXCEPT ![p] = TRUE]
    /\ UNCHANGED <<serverVars, stopRequestEvent, threadVars, backlog,
                   clientConnections, appVars, remote, sock, answered>>

PeerClose(p) ==
    /\ remote[p] = "up"
    /\ remote' = [remote EXCEPT ![p] = "gone"]
    /\ UNCHANGED <<serverVars, stopRequestEvent, threadVars, backlog,
                   clientConnections, appVars, sock, unread, answered>>

-----------------------------------------------------------------------------
(* The listener thread: ListenerThread::DoWork.                            *)

\* Open the server socket and bind it; the address may be taken.
Bind ==
    /\ tpc = "bind"
    /\ tpc' \in {"loopTest", "closeSocket"}
    /\ UNCHANGED <<serverVars, stopRequestEvent, listening, newSocket, backlog,
                   clientConnections, appVars, networkVars>>

TestLoop ==
    /\ tpc = "loopTest"
    /\ tpc' = IF stopRequestEvent THEN "closeSocket" ELSE "listen"
    /\ stopRequestEvent' = FALSE
    /\ UNCHANGED <<serverVars, listening, newSocket, backlog,
                   clientConnections, appVars, networkVars>>

\* listen() does not wait for a connection; it may fail.
Listen ==
    /\ tpc = "listen"
    /\ \/ tpc' = "innerTest" /\ listening' = TRUE
       \/ tpc' = "closeSocket" /\ UNCHANGED listening
    /\ UNCHANGED <<serverVars, stopRequestEvent, newSocket, backlog,
                   clientConnections, appVars, networkVars>>

\* Mutant: the sense of the second test is reversed.
TestAfterListen_Inverted ==
    /\ tpc = "innerTest"
    /\ tpc' = IF stopRequestEvent THEN "accept" ELSE "loopTest"
    /\ stopRequestEvent' = FALSE
    /\ UNCHANGED <<serverVars, listening, newSocket, backlog,
                   clientConnections, appVars, networkVars>>

\* "check if this was the wakeup function which woke us up..."
TestAfterListen ==
    /\ tpc = "innerTest"
    /\ tpc' = IF stopRequestEvent THEN "loopTest" ELSE "accept"
    /\ stopRequestEvent' = FALSE
    /\ UNCHANGED <<serverVars, listening, newSocket, backlog,
                   clientConnections, appVars, networkVars>>

\* accept() waits for a connection; with a peer that has gone it may fail.
Accept ==
    /\ tpc = "accept"
    /\ backlog # <<>>
    /\ backlog' = Tail(backlog)
    /\ LET p == Head(backlog) IN
       \/ /\ newSocket' = <<p>>
          /\ sock' = [sock EXCEPT ![p] = "open"]
          /\ tpc' = "add"
       \/ /\ remote[p] = "gone"
          /\ ShutdownAll({p})
          /\ tpc' = "loopTest"
          /\ UNCHANGED newSocket
    /\ UNCHANGED <<serverVars, stopRequestEvent, listening, clientConnections,
                   appVars, remote, unread, answered>>

\* An accepted socket is writable, so Connect succeeds; the append is locked.
AddClientConnection ==
    /\ tpc = "add"
    /\ clientConnections' = clientConnections \o newSocket
    /\ newSocket' = <<>>
    /\ tpc' = "loopTest"
    /\ UNCHANGED <<serverVars, stopRequestEvent, listening, backlog, appVars,
                   networkVars>>

\* Closing the server socket resets the connections nobody accepted.
CloseServerSocket ==
    /\ tpc = "closeSocket"
    /\ listening' = FALSE
    /\ backlog' = <<>>
    /\ ShutdownAll(Range(backlog))
    /\ tpc' = "exited"
    /\ UNCHANGED <<serverVars, stopRequestEvent, newSocket, clientConnections,
                   appVars, remote, unread, answered>>

Listener ==
    \/ Bind \/ TestLoop \/ Listen \/ TestAfterListen \/ Accept
    \/ AddClientConnection \/ CloseServerSocket

-----------------------------------------------------------------------------
(* The application's thread.                                               *)

Open ==
    /\ apc = "idle" /\ ~isOpen
    /\ opens < MaxOpens
    /\ opens' = opens + 1
    /\ isOpen' = TRUE
    /\ stopRequestEvent' = FALSE
    /\ tpc' = "bind"
    /\ UNCHANGED <<listening, newSocket, backlog, clientConnections, appVars,
                   networkVars>>

\* Mutant: Recv does not look whether the connection was shut down.
Stays_Unchecked(p) == remote[p] = "up"

\* A connection stays while its socket is open and reading it does not meet
\* the end of the stream, even when data came before the end.
Stays(p) == sock[p] = "open" /\ remote[p] = "up"

\* Mutant: the data is left in the receive buffers.
ReceiveAll_Peeks(ps) == UNCHANGED unread

\* The data of the connections in ps is read.
ReceiveAll(ps) == unread' = [p \in Connections |-> p \notin ps /\ unread[p]]

\* TcpServer::Recv, all of it under the connections' lock: read every
\* connection, drop the dead ones, return those with data.
Recv ==
    /\ apc = "idle" /\ isOpen
    /\ clientConnections' = Select(clientConnections, {p \in Connections : Stays(p)})
    /\ recvConns' = Select(clientConnections, {p \in Connections : Stays(p) /\ unread[p]})
    /\ ShutdownAll({p \in Range(clientConnections) : ~Stays(p)})
    /\ ReceiveAll(Range(clientConnections))
    /\ apc' = IF recvConns' = <<>> THEN "idle" ELSE "answer"
    /\ UNCHANGED <<serverVars, stopRequestEvent, threadVars, backlog, remote,
                   answered>>

\* The loop of HttpServer::OnFrame: answer a request, shut a stranger down;
\* the connection itself stays in the list until the next Recv.
Answer ==
    /\ apc = "answer"
    /\ LET p == Head(recvConns) IN
       IF p \in HttpPeers
       THEN answered' = answered \cup {p} /\ UNCHANGED sock
       ELSE ShutdownAll({p}) /\ UNCHANGED answered
    /\ recvConns' = Tail(recvConns)
    /\ apc' = IF Len(recvConns) = 1 THEN "idle" ELSE "answer"
    /\ UNCHANGED <<serverVars, stopRequestEvent, threadVars, backlog,
                   clientConnections, remote, unread>>

Close ==
    /\ apc = "idle" /\ isOpen
    /\ apc' = "stop"
    /\ UNCHANGED <<serverVars, stopRequestEvent, threadVars, backlog,
                   clientConnections, recvConns, networkVars>>

StopRequest ==
    /\ apc = "stop"
    /\ stopRequestEvent' = TRUE
    /\ apc' = "wakeup"
    /\ UNCHANGED <<serverVars, threadVars, backlog, clientConnections,
                   recvConns, networkVars>>

\* Mutant: the thread is stopped without the connection that wakes it.
EmitWakeupSignal_Missing ==
    /\ apc = "wakeup"
    /\ apc' = "join"
    /\ UNCHANGED <<serverVars, stopRequestEvent, threadVars, backlog,
                   clientConnections, recvConns, networkVars>>

\* Connect to the own port, if anything listens there, and close at once.
EmitWakeupSignal ==
    /\ apc = "wakeup"
    /\ apc' = "join"
    /\ IF listening
       THEN /\ backlog' = Append(backlog, Wakeup)
            /\ remote' = [remote EXCEPT ![Wakeup] = "gone"]
            /\ sock' = [sock EXCEPT ![Wakeup] = "none"]
       ELSE UNCHANGED <<backlog, remote, sock>>
    /\ UNCHANGED <<serverVars, stopRequestEvent, threadVars, clientConnections,
                   recvConns, unread, answered>>

\* Mutant: the connections are shut down before the listener has ended.
Join_NotAwaited ==
    /\ apc = "join"
    /\ apc' = "shutdown"
    /\ UNCHANGED <<serverVars, stopRequestEvent, threadVars, backlog,
                   clientConnections, recvConns, networkVars>>

Join ==
    /\ apc = "join" /\ tpc = "exited"
    /\ tpc' = "none"
    /\ apc' = "shutdown"
    /\ UNCHANGED <<serverVars, stopRequestEvent, listening, newSocket, backlog,
                   clientConnections, recvConns, networkVars>>

ShutdownConnections ==
    /\ apc = "shutdown"
    /\ ShutdownAll(Range(clientConnections))
    /\ clientConnections' = <<>>
    /\ isOpen' = FALSE
    /\ apc' = "idle"
    /\ UNCHANGED <<opens, stopRequestEvent, threadVars, backlog, recvConns,
                   remote, unread, answered>>

ContinueClose == StopRequest \/ EmitWakeupSignal \/ Join \/ ShutdownConnections

-----------------------------------------------------------------------------
Finished ==
    /\ ~isOpen /\ opens = MaxOpens
    /\ UNCHANGED vars

Next ==
    \/ Listener
    \/ Open \/ Recv \/ Answer \/ Close \/ ContinueClose
    \/ \E p \in Peers : PeerConnect(p) \/ PeerSend(p) \/ PeerClose(p)
    \/ Finished

Spec == Init /\ [][Next]_vars

\* Both threads are scheduled, and the application calls OnFrame every frame.
FairSpec ==
    /\ Spec
    /\ WF_vars(Listener) /\ WF_vars(ContinueClose)
    /\ WF_vars(Recv) /\ WF_vars(Answer)

-----------------------------------------------------------------------------
(* Properties.                                                             *)

\* The values each variable takes.
TypeOK ==
    /\ isOpen \in BOOLEAN /\ opens \in 0..MaxOpens
    /\ stopRequestEvent \in BOOLEAN
    /\ tpc \in ListenerPlaces /\ listening \in BOOLEAN
    /\ backlog \in Seq(Connections) /\ newSocket \in Seq(Connections)
    /\ clientConnections \in Seq(Connections) /\ recvConns \in Seq(Connections)
    /\ apc \in AppPlaces
    /\ remote \in [Connections -> {"none", "up", "gone"}]
    /\ sock \in [Connections -> {"none", "open", "closed"}]
    /\ unread \in [Connections -> BOOLEAN]
    /\ answered \subseteq Connections

\* A connection is in one place: the backlog, the listener's hand or the list,
\* and its socket is open from Accept until it is dropped.
OnePlace ==
    /\ IsInjective(backlog \o newSocket \o clientConnections)
    /\ \A p \in Connections :
          sock[p] = "open" => p \in Range(newSocket \o clientConnections)

\* A closed server has no listener thread, no list and no open socket: Close
\* stops the listener before it walks the list, so nothing is added after.
ClosedMeansClosed ==
    ~isOpen =>
        /\ tpc = "none" /\ ~listening
        /\ clientConnections = <<>> /\ backlog = <<>>
        /\ \A p \in Connections : sock[p] # "open"

\* The books of the server are in order: its types, the one place of each
\* connection through Accept, AddClientConnection and Recv, and nothing left
\* behind by Close.
Consistent == TypeOK /\ OnePlace /\ ClosedMeansClosed

\* Every connection that HttpServer is about to answer is still listed and its
\* socket open: TcpClientConnection::Send asserts its stream.
AnswersOpenConnections ==
    \A p \in Range(recvConns) :
        sock[p] = "open" /\ p \in Range(clientConnections)

\* A request from a peer that stays connected is answered, or its connection
\* is dropped, unless the application closes the server.
RequestsServed ==
    \A p \in HttpPeers :
        unread[p] /\ isOpen ~>
            \/ p \in answered \/ remote[p] = "gone" \/ sock[p] = "closed"
            \/ apc \in {"stop", "wakeup", "join", "shutdown"} \/ ~isOpen

\* Close returns, unless the request was consumed by the listener's second test
\* of it (tcpserver.cc:192): then, and only then, the listener waits in accept
\* with no request pending, and Close waits for the listener.
CloseReturnsOrRequestLost ==
    apc = "stop" ~> \/ apc = "idle"
                    \/ apc = "join" /\ tpc = "accept" /\ ~stopRequestEvent

-----------------------------------------------------------------------------
(* The server implements its promise.                                      *)

Met == {p \in Peers : remote[p] # "none"}
Unlisted == {p \in Peers : p \in Range(backlog) \cup Range(newSocket)}
Listed == {p \in Peers : p \in Range(clientConnections) /\ sock[p] = "open"}
Asked == {p \in Unlisted \cup Listed : unread[p]}
Due == Peers \cap Range(recvConns)

Service == INSTANCE ConnectionService WITH
    open <- isOpen, met <- Met, waiting <- Unlisted, accepted <- Listed,
    asked <- Asked, due <- Due

\* Every step of the two threads is a step of ConnectionService or invisible to
\* it: no connection the server has dropped comes back, no request is answered
\* twice or after its connection is gone, and nothing survives Close, although
\* the listener accepts while the application polls, answers and closes.
ImplementsConnectionService == Service!Spec
=============================================================================
