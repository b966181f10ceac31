-------------------------- MODULE ConnectionService --------------------------
(***************************************************************************)
(* What Net::TcpServer and Http::HttpServer promise, without threads,      *)
(* sockets and lists: a peer waits until it is accepted or refused; an     *)
(* accepted one is served until the server drops it, for good; a poll      *)
(* takes each request once, and what it takes is answered, each time once, *)
(* while its peer is still accepted; a closed server has no peers.         *)
(***************************************************************************)
CONSTANTS Peers, HttpPeers

VARIABLES
    open,       \* the server is open
    met,        \* the peers that have connected
    waiting,    \* those nobody has accepted yet
    accepted,   \* those the server polls
    asked,      \* those whose request has not been taken
    due,        \* those whose request is taken and not answered
    answered    \* those that got an answer

vars == <<open, met, waiting, accepted, asked, due, answered>>

Init ==
    /\ open = FALSE
    /\ met = {} /\ waiting = {} /\ accepted = {}
    /\ asked = {} /\ due = {} /\ answered = {}

Open ==
    /\ ~open
    /\ open' = TRUE
    /\ UNCHANGED <<met, waiting, accepted, asked, due, answered>>

Connect(p) ==
    /\ open /\ p \notin met
    /\ met' = met \cup {p}
    /\ waiting' = waiting \cup {p}
    /\ UNCHANGED <<open, accepted, asked, due, answered>>

Ask(p) ==
    /\ p \in waiting \cup accepted
    /\ p \notin asked \cup answered
    /\ asked' = asked \cup {p}
    /\ UNCHANGED <<open, met, waiting, accepted, due, answered>>

Accept(p) ==
    /\ open /\ p \in waiting
    /\ waiting' = waiting \ {p}
    /\ accepted' = accepted \cup {p}
    /\ UNCHANGED <<open, met, asked, due, answered>>

Refuse(ps) ==
    /\ open /\ ps \subseteq waiting
    /\ waiting' = waiting \ ps
    /\ asked' = asked \ ps
    /\ UNCHANGED <<open, met, accepted, due, answered>>

\* Drop some peers and take the requests of the others.
Poll(dropped) ==
    /\ open /\ due = {}
    /\ dropped \subseteq accepted
    /\ accepted' = accepted \ dropped
    /\ due' = asked \cap accepted'
    /\ asked' = asked \ accepted
    /\ UNCHANGED <<open, met, waiting, answered>>

Answer(p) ==
    /\ p \in due \cap accepted \cap HttpPeers
    /\ due' = due \ {p}
    /\ answered' = answered \cup {p}
    /\ UNCHANGED <<open, met, waiting, accepted, asked>>

\* The data is no request of HTTP.
Reject(p) ==
    /\ p \in (due \cap accepted) \ HttpPeers
    /\ due' = due \ {p}
    /\ accepted' = accepted \ {p}
    /\ asked' = asked \ {p}
    /\ UNCHANGED <<open, met, waiting, answered>>

Close ==
    /\ open /\ due = {} /\ waiting = {}
    /\ open' = FALSE
    /\ accepted' = {} /\ asked' = {}
    /\ UNCHANGED <<met, waiting, due, answered>>

Next ==
    \/ Open \/ Close
    \/ \E p \in Peers : Connect(p) \/ Ask(p) \/ Accept(p) \/ Answer(p) \/ Reject(p)
    \/ \E ps \in SUBSET Peers : Refuse(ps) \/ Poll(ps)

Spec == Init /\ [][Next]_vars
=============================================================================
