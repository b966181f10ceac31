--------------------------- MODULE TcpServerProofs ---------------------------
(***************************************************************************)
(* Proofs about the lists of connections of TcpServer, for any number of   *)
(* peers: the listener thread, the application's thread and the backlog of *)
(* the operating system never hold the same connection, a closed server    *)
(* holds none, and a connection about to be answered is still open.        *)
(***************************************************************************)
EXTENDS TcpServer, SequenceTheorems, FiniteSetTheorems, TLAPS

-----------------------------------------------------------------------------
(* Sequences.                                                              *)

\* What Select keeps: the elements in S, and each of them once if the sequence
\* has it once.  Ranks are a bijection from the places that stay.
LEMMA SelectRange ==
    ASSUME NEW T, NEW s \in Seq(T), NEW S
    PROVE  /\ Select(s, S) \in Seq(T)
           /\ Range(Select(s, S)) = Range(s) \cap S
           /\ (\A i, j \in DOMAIN s : s[i] = s[j] /\ s[i] \in S => i = j) => IsInjective(Select(s, S))
           /\ IsInjective(s) => IsInjective(Select(s, S))
<1> DEFINE K == Staying(s, S)
           N == Cardinality(K)
           Below(i) == {j \in K : j <= i}
           rank == [i \in K |-> Cardinality(Below(i))]
           r == Select(s, S)
<1>1. DOMAIN s = 1..Len(s) /\ Len(s) \in Nat /\ \A i \in 1..Len(s) : s[i] \in T
    BY ElementOfSeq
<1>2. /\ K \in SUBSET (1..Len(s)) /\ \A i \in 1..Len(s) : i \in K <=> s[i] \in S
      /\ \A k : Origin(s, S, k) = CHOOSE i \in K : Cardinality(Below(i)) = k
      /\ r = [k \in 1..N |-> s[Origin(s, S, k)]]
    BY <1>1 DEF Staying, Origin, Rank, Select
<1> HIDE DEF K, N, r
<1>3. IsFiniteSet(K) /\ N \in Nat /\ \A i \in K : i \in Int
    <2>1. IsFiniteSet(1..Len(s))
        BY ONLY <1>1, FS_Interval
    <2>2. IsFiniteSet(K)
        BY ONLY <1>2, <2>1, FS_Subset
    <2> QED
        BY <1>2, <2>2, FS_CardinalityType DEF N
<1>4. ASSUME NEW i \in K PROVE Cardinality(Below(i)) \in 1..N
    <2>1. Below(i) \in SUBSET K /\ i \in Below(i)
        BY <1>3
    <2>2. IsFiniteSet(Below(i)) /\ Cardinality(Below(i)) <= N /\ Cardinality(Below(i)) \in Nat
        BY <1>3, <2>1, FS_Subset, FS_CardinalityType DEF N
    <2>3. Cardinality(Below(i)) # 0
        BY <2>1, <2>2, FS_EmptySet
    <2> QED
        BY <1>3, <2>2, <2>3
<1>5. ASSUME NEW i \in K, NEW j \in K, i < j PROVE Cardinality(Below(i)) # Cardinality(Below(j))
    <2>1. Below(i) \in SUBSET Below(j) /\ j \in Below(j) /\ j \notin Below(i) /\ Below(j) \in SUBSET K
        BY <1>3, <1>5
    <2>2. IsFiniteSet(Below(j))
        BY ONLY <1>3, <2>1, FS_Subset
    <2> QED
        BY ONLY <2>1, <2>2, FS_Subset
<1>6. \A i \in K : rank[i] = Cardinality(Below(i)) /\ rank[i] \in 1..N
    BY <1>4
<1>7. \A i, j \in K : rank[i] = rank[j] => i = j
    <2>1. \A i, j \in K : i < j => rank[i] # rank[j]
        BY <1>5, <1>6
    <2>2. \A i, j \in K : i < j \/ j < i \/ i = j
        BY <1>3
    <2> HIDE DEF rank
    <2> QED
        BY ONLY <2>1, <2>2
<1>8. \A k \in 1..N : \E i \in K : rank[i] = k
    <2>1. rank \in [K -> 1..N]
        BY <1>4
    <2> HIDE DEF rank
    <2>2. rank \in Injection(K, 1..N)
        BY <1>7, <2>1 DEF Injection, IsInjective
    <2>3. IsFiniteSet(1..N) /\ Cardinality(1..N) = N
        BY <1>3, FS_Interval
    <2>4. rank \in Surjection(K, 1..N)
        BY <1>3, <2>2, <2>3, FS_Injection DEF N
    <2> QED
        BY <2>4 DEF Surjection
<1> HIDE DEF rank
<1>9. \A k \in 1..N : Origin(s, S, k) \in K /\ rank[Origin(s, S, k)] = k
    <2>1. \A k \in 1..N : \E i \in K : Cardinality(Below(i)) = k
        BY <1>6, <1>8
    <2> HIDE DEF Below
    <2> QED
        BY <1>2, <1>6, <2>1
<1>10. \A i \in K : rank[i] \in 1..N /\ Origin(s, S, rank[i]) = i
    BY <1>6, <1>7, <1>9
<1>11. r \in Seq(T) /\ DOMAIN r = 1..N /\ \A k \in 1..N : r[k] = s[Origin(s, S, k)]
    <2>1. r \in [1..N -> T]
        BY <1>1, <1>2, <1>9
    <2> QED
        BY <1>2, <1>3, <2>1
<1>12. Range(r) = Range(s) \cap S
    <2>1. Range(r) = {r[k] : k \in 1..N} /\ Range(s) = {s[i] : i \in 1..Len(s)}
        BY <1>1, <1>11 DEF Range
    <2>2. Range(r) \subseteq Range(s) \cap S
        BY <1>2, <1>9, <1>11, <2>1
    <2> QED
        BY <1>2, <1>10, <1>11, <2>1, <2>2
<1>13. ASSUME \A i, j \in DOMAIN s : s[i] = s[j] /\ s[i] \in S => i = j PROVE IsInjective(r)
    <2>1. \A k, l \in 1..N : r[k] = r[l] => Origin(s, S, k) = Origin(s, S, l)
        BY <1>1, <1>2, <1>9, <1>11, <1>13
    <2>2. \A k, l \in 1..N : r[k] = r[l] => k = l
        BY <1>9, <2>1
    <2> QED
        BY <1>11, <2>2 DEF IsInjective
<1> QED
    BY <1>11, <1>12, <1>13 DEF r, IsInjective

\* The elements of a sequence after an append.
LEMMA RangeOfAppend ==
    ASSUME NEW T, NEW s \in Seq(T), NEW m \in T
    PROVE  Range(Append(s, m)) = Range(s) \cup {m}
<1>1. Append(s, m) \in Seq(T) /\ Len(Append(s, m)) = Len(s) + 1
    BY AppendProperties
<1>2. /\ \A i \in 1..Len(s) : Append(s, m)[i] = s[i]
      /\ Append(s, m)[Len(s) + 1] = m
    BY AppendProperties
<1>3. Range(s) = {s[i] : i \in 1..Len(s)}
    BY RangeEquality
<1>4. Range(Append(s, m)) = {Append(s, m)[i] : i \in 1..Len(s) + 1}
    BY <1>1, RangeEquality
<1>5. Len(s) \in Nat
    OBVIOUS
<1> QED
    BY <1>2, <1>3, <1>4, <1>5

\* The elements of a sequence are its head and those of its tail.
LEMMA RangeOfTail ==
    ASSUME NEW T, NEW s \in Seq(T), s # <<>>
    PROVE  /\ Head(s) \in T /\ Tail(s) \in Seq(T)
           /\ Range(s) = {Head(s)} \cup Range(Tail(s))
<1>1. /\ Tail(s) \in Seq(T) /\ Len(Tail(s)) = Len(s) - 1
      /\ \A i \in 1..Len(Tail(s)) : Tail(s)[i] = s[i + 1]
    BY HeadTailProperties
<1>2. Range(s) = {s[i] : i \in 1..Len(s)}
    BY RangeEquality
<1>3. Range(Tail(s)) = {Tail(s)[i] : i \in 1..Len(s) - 1}
    BY <1>1, RangeEquality
<1>4. Len(s) \in Nat \ {0} /\ Head(s) = s[1]
    BY EmptySeq
<1>5. \A i \in 1..Len(s) : i = 1 \/ i - 1 \in 1..Len(s) - 1
    BY <1>4
<1>6. Range(s) \subseteq {Head(s)} \cup Range(Tail(s))
    BY <1>1, <1>2, <1>3, <1>4, <1>5
<1>7. {Head(s)} \cup Range(Tail(s)) \subseteq Range(s)
    BY <1>1, <1>2, <1>3, <1>4
<1> QED
    BY <1>1, <1>4, <1>6, <1>7, HeadTailProperties

\* The empty sequence.
LEMMA InjectiveEmpty == Range(<<>>) = {} /\ IsInjective(<<>>)
<1>1. DOMAIN <<>> = {}
    OBVIOUS
<1> QED
    BY <1>1 DEF Range, IsInjective

\* A sequence of one element.
LEMMA InjectiveSingle ==
    ASSUME NEW T, NEW m \in T
    PROVE  <<m>> \in Seq(T) /\ Range(<<m>>) = {m} /\ IsInjective(<<m>>)
<1>1. DOMAIN <<m>> = {1} /\ <<m>>[1] = m
    OBVIOUS
<1> QED
    BY <1>1 DEF Range, IsInjective

\* The elements of a concatenation are pairwise different if those of its
\* parts are and the parts share none.
LEMMA InjectiveConcat ==
    ASSUME NEW T, NEW s \in Seq(T), NEW t \in Seq(T)
    PROVE  /\ s \o t \in Seq(T)
           /\ Range(s \o t) = Range(s) \cup Range(t)
           /\ IsInjective(s \o t) <=>
                IsInjective(s) /\ IsInjective(t) /\ Range(s) \cap Range(t) = {}
<1> DEFINE u == s \o t
           m == Len(s)
           n == Len(t)
<1>1. /\ u \in Seq(T) /\ Len(u) = m + n /\ m \in Nat /\ n \in Nat
      /\ \A i \in 1..m + n : u[i] = IF i <= m THEN s[i] ELSE t[i - m]
    BY ConcatProperties
<1>2. /\ Range(s) = {s[i] : i \in 1..m} /\ Range(t) = {t[i] : i \in 1..n}
      /\ DOMAIN s = 1..m /\ DOMAIN t = 1..n
    BY RangeEquality
<1>3. Range(u) = Range(s) \cup Range(t)
    BY RangeConcatenation
<1> HIDE DEF u, m, n
<1>4. DOMAIN u = 1..m + n
    <2>1. DOMAIN u = 1..Len(u)
        BY <1>1
    <2> QED
        BY <1>1, <2>1
<1>5. \A i \in 1..m : i \in 1..m + n /\ u[i] = s[i]
    BY <1>1
<1>6. \A j \in 1..n : m + j \in 1..m + n /\ u[m + j] = t[j]
    <2> SUFFICES ASSUME NEW j \in 1..n PROVE m + j \in 1..m + n /\ u[m + j] = t[j]
        OBVIOUS
    <2>1. m + j \in 1..m + n /\ ~(m + j <= m) /\ m + j - m = j
        BY <1>1
    <2> QED
        BY <1>1, <2>1
<1>7. ASSUME IsInjective(u)
      PROVE  IsInjective(s) /\ IsInjective(t) /\ Range(s) \cap Range(t) = {}
    <2>1. \A i, j \in 1..m + n : u[i] = u[j] => i = j
        BY <1>4, <1>7 DEF IsInjective
    <2>2. IsInjective(s)
        BY <1>2, <1>5, <2>1 DEF IsInjective
    <2>3. IsInjective(t)
        <3> SUFFICES ASSUME NEW i \in 1..n, NEW j \in 1..n, t[i] = t[j] PROVE i = j
            BY <1>2 DEF IsInjective
        <3>1. m + i = m + j
            BY <1>6, <2>1
        <3> QED
            BY <1>1, <3>1
    <2>4. Range(s) \cap Range(t) = {}
        <3> SUFFICES ASSUME NEW i \in 1..m, NEW j \in 1..n, s[i] = t[j] PROVE FALSE
            BY <1>2
        <3>1. i = m + j
            BY <1>5, <1>6, <2>1
        <3> QED
            BY <1>1, <3>1
    <2> QED
        BY <2>2, <2>3, <2>4
<1>8. ASSUME IsInjective(s), IsInjective(t), Range(s) \cap Range(t) = {}
      PROVE  IsInjective(u)
    <2> SUFFICES ASSUME NEW i \in 1..m + n, NEW j \in 1..m + n, u[i] = u[j] PROVE i = j
        BY <1>4 DEF IsInjective
    <2>1. \A k \in 1..m + n : (k \in 1..m /\ u[k] = s[k])
                              \/ (~(k <= m) /\ k - m \in 1..n /\ u[k] = t[k - m])
        BY <1>1
    <2>2. CASE i \in 1..m /\ j \in 1..m
        BY <1>2, <1>5, <1>8, <2>2 DEF IsInjective
    <2>3. CASE ~(i <= m) /\ ~(j <= m)
        <3>1. i - m \in 1..n /\ j - m \in 1..n /\ t[i - m] = t[j - m]
            BY <1>1, <2>1, <2>3
        <3>2. i - m = j - m
            BY <1>2, <1>8, <3>1 DEF IsInjective
        <3> QED
            BY <1>1, <3>2
    <2>4. \A k \in 1..m + n : (k <= m => u[k] \in Range(s)) /\ (~(k <= m) => u[k] \in Range(t))
        BY <1>2, <2>1
    <2>5. (i <= m) <=> (j <= m)
        BY <1>8, <2>4
    <2> QED
        BY <2>1, <2>2, <2>3, <2>5
<1> QED
    BY <1>1, <1>3, <1>7, <1>8 DEF u

\* An append keeps the elements pairwise different if the element is new.
LEMMA InjectiveAppend ==
    ASSUME NEW T, NEW s \in Seq(T), NEW m \in T
    PROVE  IsInjective(Append(s, m)) <=> IsInjective(s) /\ m \notin Range(s)
<1> DEFINE u == Append(s, m)
           n == Len(s)
<1>1. /\ n \in Nat /\ DOMAIN s = 1..n /\ DOMAIN u = 1..n + 1
      /\ u[n + 1] = m /\ \A i \in 1..n : u[i] = s[i]
    BY AppendProperties
<1>2. Range(s) = {s[i] : i \in 1..n}
    BY RangeEquality
<1> HIDE DEF u, n
<1>3. /\ \A i \in 1..n : i \in 1..n + 1 /\ i # n + 1
      /\ \A i \in 1..n + 1 : i \in 1..n \/ i = n + 1
      /\ n + 1 \in 1..n + 1
    BY <1>1
<1>4. IsInjective(u) <=> IsInjective(s) /\ m \notin Range(s)
    BY <1>1, <1>2, <1>3 DEF IsInjective
<1> QED
    BY <1>4 DEF u

\* The tail of a sequence of different elements has them, without the head.
LEMMA InjectiveTail ==
    ASSUME NEW T, NEW s \in Seq(T), s # <<>>, IsInjective(s)
    PROVE  IsInjective(Tail(s)) /\ Head(s) \notin Range(Tail(s))
<1>1. /\ Tail(s) \in Seq(T) /\ Len(Tail(s)) = Len(s) - 1
      /\ \A i \in 1..Len(Tail(s)) : Tail(s)[i] = s[i + 1]
    BY HeadTailProperties
<1>2. /\ Len(s) \in Nat \ {0} /\ Head(s) = s[1] /\ DOMAIN s = 1..Len(s)
      /\ DOMAIN Tail(s) = 1..Len(s) - 1
    BY <1>1, EmptySeq
<1>3. \A i, j \in 1..Len(s) : s[i] = s[j] => i = j
    BY <1>2 DEF IsInjective
<1>4. \A i \in 1..Len(s) - 1 : i \in Nat /\ i + 1 \in 1..Len(s) /\ 1 \in 1..Len(s) /\ i + 1 # 1
    BY <1>2
<1>5. IsInjective(Tail(s))
    BY <1>1, <1>2, <1>3, <1>4 DEF IsInjective
<1>6. Head(s) \notin Range(Tail(s))
    BY <1>1, <1>2, <1>3, <1>4 DEF Range
<1> QED
    BY <1>5, <1>6

-----------------------------------------------------------------------------
(* The inductive invariant.                                                *)

Accepted == Range(newSocket) \cup Range(clientConnections)
Held == Range(backlog) \cup Accepted

\* Where the two threads are tells what the lists may hold.
ThreadsInv ==
    /\ tpc # "add" => newSocket = <<>>
    /\ tpc \in {"none", "exited"} => ~listening /\ backlog = <<>>
    /\ tpc = "none" <=> ~isOpen \/ apc = "shutdown"
    /\ ~isOpen => clientConnections = <<>> /\ apc = "idle"
    /\ apc # "answer" <=> recvConns = <<>>

\* A connection is in one of the three lists and there once; it is in none
\* before its peer has connected, and the wakeup's only while Close waits.
PlacesInv ==
    /\ IsInjective(backlog) /\ IsInjective(newSocket) /\ IsInjective(clientConnections)
    /\ Range(backlog) \cap Accepted = {}
    /\ Range(newSocket) \cap Range(clientConnections) = {}
    /\ \A p \in Held : remote[p] # "none"
    /\ Wakeup \in Held => apc \in {"join", "shutdown"}
    /\ \A p \in Connections : sock[p] = "open" => p \in Accepted

\* What Recv returned is answered one by one, each once.
AnswerInv == IsInjective(recvConns) /\ AnswersOpenConnections

IInv == TypeOK /\ ThreadsInv /\ PlacesInv /\ AnswerInv

\* A step of the network or of the listener that leaves the lists alone.
LEMMA InvPeers ==
    ASSUME IInv, NEW p \in Peers, PeerConnect(p) \/ PeerSend(p) \/ PeerClose(p)
    PROVE  IInv'
<1> USE DEF IInv
<1>1. p \in Connections /\ p # Wakeup
    BY TcpServerAssumption DEF Connections
<1>2. CASE PeerConnect(p)
    <2>1. /\ listening /\ remote[p] = "none" /\ backlog' = Append(backlog, p)
          /\ remote' = [remote EXCEPT ![p] = "up"]
          /\ UNCHANGED <<serverVars, stopRequestEvent, threadVars, clientConnections,
                         appVars, sock, unread, answered>>
        BY <1>2 DEF PeerConnect
    <2>2. /\ backlog' \in Seq(Connections) /\ Range(backlog') = Range(backlog) \cup {p}
          /\ IsInjective(backlog')
        <3>1. p \notin Range(backlog)
            BY <2>1 DEF PlacesInv, Held
        <3>2. backlog \in Seq(Connections)
            BY DEF TypeOK
        <3> QED
            BY <1>1, <2>1, <3>1, <3>2, AppendProperties, RangeOfAppend, InjectiveAppend DEF PlacesInv
    <2>3. TypeOK' /\ ThreadsInv'
        BY <1>1, <2>1, <2>2 DEF TypeOK, ThreadsInv, serverVars, threadVars, appVars
    <2>4. PlacesInv'
        BY <1>1, <2>1, <2>2 DEF PlacesInv, Held, Accepted, TypeOK, threadVars, appVars
    <2> QED
        BY <2>1, <2>3, <2>4 DEF AnswerInv, AnswersOpenConnections, appVars
<1>3. CASE PeerSend(p)
    <2>1. unread' \in [Connections -> BOOLEAN]
        BY <1>1, <1>3 DEF PeerSend, TypeOK
    <2> QED
        BY <1>3, <2>1 DEF PeerSend, TypeOK, ThreadsInv, PlacesInv, Held, Accepted, AnswerInv,
            AnswersOpenConnections, serverVars, threadVars, appVars
<1>4. CASE PeerClose(p)
    <2>1. /\ remote' \in [Connections -> {"none", "up", "gone"}]
          /\ \A q \in Connections : remote[q] # "none" => remote'[q] # "none"
        BY <1>1, <1>4 DEF PeerClose, TypeOK
    <2>2. Held \subseteq Connections
        BY RangeOfSeq DEF Held, Accepted, TypeOK
    <2> QED
        BY <1>4, <2>1, <2>2 DEF PeerClose, TypeOK, ThreadsInv, PlacesInv, Held, Accepted, AnswerInv,
            AnswersOpenConnections, serverVars, threadVars, appVars
<1> QED
    BY <1>2, <1>3, <1>4

LEMMA InvListener ==
    ASSUME IInv, Listener
    PROVE  IInv'
<1> USE DEF IInv, serverVars, threadVars, appVars, networkVars
<1>1. CASE Bind \/ TestLoop \/ Listen \/ TestAfterListen
    <2>1. /\ tpc \notin {"none", "exited", "add"} /\ tpc' \notin {"none", "exited", "add"}
          /\ tpc' \in ListenerPlaces /\ listening' \in BOOLEAN /\ stopRequestEvent' \in BOOLEAN
          /\ UNCHANGED <<serverVars, newSocket, backlog, clientConnections, appVars, networkVars>>
        BY <1>1 DEF Bind, TestLoop, Listen, TestAfterListen, TypeOK, ListenerPlaces
    <2> QED
        BY <2>1 DEF TypeOK, ThreadsInv, PlacesInv, Held, Accepted, AnswerInv, AnswersOpenConnections
<1>2. CASE Accept
    <2> DEFINE p == Head(backlog)
    <2>1. /\ tpc = "accept" /\ newSocket = <<>> /\ backlog # <<>> /\ backlog \in Seq(Connections)
          /\ backlog' = Tail(backlog)
          /\ UNCHANGED <<serverVars, stopRequestEvent, listening, clientConnections,
                         appVars, remote, unread, answered>>
        BY <1>2 DEF Accept, ThreadsInv, TypeOK
    <2>2. /\ p \in Connections /\ backlog' \in Seq(Connections)
          /\ Range(backlog) = Range(backlog') \cup {p}
          /\ IsInjective(backlog') /\ p \notin Range(backlog')
        BY <2>1, RangeOfTail, InjectiveTail DEF PlacesInv
    <2>3. p \notin Accepted /\ p \in Held
        BY <2>2 DEF PlacesInv, Held
    <2>4. Range(newSocket) = {}
        BY <2>1, InjectiveEmpty
    <2>5. /\ tpc' \in {"add", "loopTest"}
          /\ \/ /\ newSocket' = <<p>> /\ tpc' = "add"
                /\ sock' = [sock EXCEPT ![p] = "open"]
             \/ /\ newSocket' = <<>>
                /\ sock' = [q \in Connections |-> IF q \in {p} THEN "closed" ELSE sock[q]]
        BY <1>2, <2>1 DEF Accept, ShutdownAll
    <2> HIDE DEF p
    <2>6. /\ newSocket' \in Seq(Connections) /\ IsInjective(newSocket')
          /\ Range(newSocket') \subseteq {p}
          /\ tpc' # "add" => newSocket' = <<>>
          /\ sock' \in [Connections -> {"none", "open", "closed"}]
          /\ \A q \in Connections : q # p => sock'[q] = sock[q]
          /\ sock'[p] = "open" => p \in Range(newSocket')
        <3>1. CASE newSocket' = <<p>> /\ tpc' = "add" /\ sock' = [sock EXCEPT ![p] = "open"]
            <4>1. <<p>> \in Seq(Connections) /\ Range(<<p>>) = {p} /\ IsInjective(<<p>>)
                BY ONLY <2>2, InjectiveSingle
            <4> QED
                BY <2>2, <3>1, <4>1 DEF TypeOK
        <3>2. CASE /\ newSocket' = <<>>
                   /\ sock' = [q \in Connections |-> IF q \in {p} THEN "closed" ELSE sock[q]]
            <4>1. Range(newSocket') = {} /\ IsInjective(newSocket') /\ newSocket' \in Seq(Connections)
                BY <3>2, InjectiveEmpty
            <4> QED
                BY <2>2, <3>2, <4>1 DEF TypeOK
        <3> QED
            BY <2>5, <3>1, <3>2
    <2>7. TypeOK'
        BY <2>1, <2>2, <2>5, <2>6 DEF TypeOK, ListenerPlaces
    <2>8. ThreadsInv'
        BY <2>1, <2>5, <2>6 DEF ThreadsInv
    <2>9. PlacesInv'
        BY <2>1, <2>2, <2>3, <2>4, <2>6 DEF PlacesInv, Held, Accepted
    <2>10. AnswerInv'
        <3>1. recvConns \in Seq(Connections)
            BY DEF TypeOK
        <3>2. Range(recvConns) \subseteq Connections
            BY <3>1, RangeOfSeq
        <3> QED
            BY <2>1, <2>3, <2>6, <3>2 DEF AnswerInv, AnswersOpenConnections, Accepted
    <2> QED
        BY <2>7, <2>8, <2>9, <2>10
<1>3. CASE AddClientConnection
    <2>1. /\ tpc = "add" /\ tpc' = "loopTest" /\ newSocket' = <<>>
          /\ clientConnections' = clientConnections \o newSocket
          /\ UNCHANGED <<serverVars, stopRequestEvent, listening, backlog, appVars, networkVars>>
        BY <1>3 DEF AddClientConnection
    <2>2. clientConnections \in Seq(Connections) /\ newSocket \in Seq(Connections)
        BY DEF TypeOK
    <2>3. /\ clientConnections' \in Seq(Connections) /\ Range(clientConnections') = Accepted
          /\ IsInjective(clientConnections')
        BY <2>1, <2>2, InjectiveConcat DEF PlacesInv, Accepted
    <2>4. Range(newSocket') = {} /\ IsInjective(newSocket') /\ newSocket' \in Seq(Connections)
        BY <2>1, InjectiveEmpty
    <2>5. TypeOK' /\ ThreadsInv'
        BY <2>1, <2>3, <2>4 DEF TypeOK, ListenerPlaces, ThreadsInv
    <2>6. PlacesInv'
        BY <2>1, <2>3, <2>4 DEF PlacesInv, Held, Accepted
    <2>7. AnswerInv'
        BY <2>1, <2>3 DEF AnswerInv, AnswersOpenConnections, Accepted
    <2> QED
        BY <2>5, <2>6, <2>7
<1>4. CASE CloseServerSocket
    <2>1. /\ tpc = "closeSocket" /\ tpc' = "exited" /\ listening' = FALSE /\ backlog' = <<>>
          /\ sock' = [p \in Connections |-> IF p \in Range(backlog) THEN "closed" ELSE sock[p]]
          /\ UNCHANGED <<serverVars, stopRequestEvent, newSocket, clientConnections,
                         appVars, remote, unread, answered>>
        BY <1>4 DEF CloseServerSocket, ShutdownAll
    <2>2. Range(backlog') = {} /\ IsInjective(backlog') /\ backlog' \in Seq(Connections)
        BY <2>1, InjectiveEmpty
    <2>3. /\ sock' \in [Connections -> {"none", "open", "closed"}]
          /\ \A p \in Connections : sock'[p] = "open" <=> sock[p] = "open" /\ p \notin Range(backlog)
        BY <2>1 DEF TypeOK
    <2>4. TypeOK' /\ ThreadsInv'
        BY <2>1, <2>2, <2>3 DEF TypeOK, ListenerPlaces, ThreadsInv
    <2>5. PlacesInv'
        BY <2>1, <2>2, <2>3 DEF PlacesInv, Held, Accepted
    <2>6. AnswerInv'
        <3>1. recvConns \in Seq(Connections)
            BY DEF TypeOK
        <3>2. Range(recvConns) \subseteq Connections
            BY <3>1, RangeOfSeq
        <3> QED
            BY <2>1, <2>3, <3>2 DEF AnswerInv, AnswersOpenConnections, PlacesInv, Accepted
    <2> QED
        BY <2>4, <2>5, <2>6
<1> QED
    BY <1>1, <1>2, <1>3, <1>4 DEF Listener

LEMMA InvOpen ==
    ASSUME IInv, Open
    PROVE  IInv'
<1>1. /\ ~isOpen /\ apc = "idle" /\ tpc = "none" /\ isOpen' = TRUE /\ tpc' = "bind"
      /\ opens' \in 0..MaxOpens /\ stopRequestEvent' = FALSE
      /\ UNCHANGED <<listening, newSocket, backlog, clientConnections, appVars, networkVars>>
    BY TcpServerAssumption DEF IInv, ThreadsInv, TypeOK, Open
<1> QED
    BY <1>1 DEF IInv, TypeOK, ListenerPlaces, ThreadsInv, PlacesInv, Held, Accepted, AnswerInv,
        AnswersOpenConnections, appVars, networkVars

\* A poll keeps what stays, closes the rest and reports those with data.
LEMMA InvRecv ==
    ASSUME IInv, Recv
    PROVE  IInv'
<1> USE DEF IInv, serverVars, threadVars
<1> DEFINE S == {p \in Connections : Stays(p)}
           R == {p \in Connections : Stays(p) /\ unread[p]}
<1>1. /\ apc = "idle" /\ isOpen /\ clientConnections \in Seq(Connections)
      /\ clientConnections' = Select(clientConnections, S)
      /\ recvConns' = Select(clientConnections, R)
      /\ sock' = [p \in Connections |->
                    IF p \in {q \in Range(clientConnections) : ~Stays(q)} THEN "closed" ELSE sock[p]]
      /\ unread' = [p \in Connections |-> p \notin Range(clientConnections) /\ unread[p]]
      /\ apc' = IF recvConns' = <<>> THEN "idle" ELSE "answer"
      /\ UNCHANGED <<serverVars, stopRequestEvent, threadVars, backlog, remote, answered>>
    BY DEF Recv, ReceiveAll, ShutdownAll, TypeOK
<1>2. /\ clientConnections' \in Seq(Connections) /\ IsInjective(clientConnections')
      /\ Range(clientConnections') = Range(clientConnections) \cap S
    BY <1>1, SelectRange DEF PlacesInv
<1>3. /\ recvConns' \in Seq(Connections) /\ IsInjective(recvConns')
      /\ Range(recvConns') = Range(clientConnections) \cap R
    BY <1>1, SelectRange DEF PlacesInv
<1>4. \A p \in Range(clientConnections) : p \in Connections
    BY <1>1, RangeOfSeq
<1>5. \A p \in Connections : Stays(p) <=> sock[p] = "open" /\ remote[p] = "up"
    BY DEF Stays
<1>6. /\ sock' \in [Connections -> {"none", "open", "closed"}]
      /\ unread' \in [Connections -> BOOLEAN]
      /\ \A p \in Connections :
            sock'[p] = "open" <=> sock[p] = "open" /\ (p \in Range(clientConnections) => Stays(p))
    BY <1>1 DEF TypeOK
<1>7. Range(newSocket) \cup Range(backlog) \subseteq Connections
    BY RangeOfSeq DEF TypeOK
<1>8. TypeOK'
    BY <1>1, <1>2, <1>3, <1>6 DEF TypeOK, AppPlaces
<1>9. ThreadsInv'
    BY <1>1 DEF ThreadsInv
<1>10. PlacesInv'
    <2> HIDE DEF S, R
    <2>1. Range(clientConnections') \subseteq Range(clientConnections)
        BY <1>2
    <2>2. Held' \subseteq Held /\ Range(newSocket)' = Range(newSocket) /\ Range(backlog)' = Range(backlog)
        BY <1>1, <2>1 DEF Held, Accepted
    <2>3. \A p \in Connections : sock'[p] = "open" => p \in Accepted'
        BY <1>1, <1>2, <1>5, <1>6 DEF PlacesInv, Accepted, S
    <2>4. Wakeup \notin Held'
        BY <1>1, <2>2 DEF PlacesInv
    <2> QED
        BY <1>1, <1>2, <2>1, <2>2, <2>3, <2>4 DEF PlacesInv, Accepted
<1>11. AnswerInv'
    BY <1>2, <1>3, <1>4, <1>5, <1>6 DEF AnswerInv, AnswersOpenConnections
<1> QED
    BY <1>8, <1>9, <1>10, <1>11

LEMMA InvAnswer ==
    ASSUME IInv, Answer
    PROVE  IInv'
<1> USE DEF IInv, serverVars, threadVars
<1> DEFINE p == Head(recvConns)
<1>1. /\ apc = "answer" /\ recvConns # <<>> /\ recvConns \in Seq(Connections)
      /\ recvConns' = Tail(recvConns)
      /\ apc' = IF Len(recvConns) = 1 THEN "idle" ELSE "answer"
      /\ UNCHANGED <<serverVars, stopRequestEvent, threadVars, backlog, clientConnections, remote, unread>>
    BY DEF Answer, ThreadsInv, TypeOK
<1>2. /\ p \in Connections /\ recvConns' \in Seq(Connections)
      /\ Range(recvConns) = {p} \cup Range(recvConns')
      /\ IsInjective(recvConns') /\ p \notin Range(recvConns')
    BY <1>1, RangeOfTail, InjectiveTail DEF AnswerInv
<1>3. recvConns' = <<>> <=> Len(recvConns) = 1
    <2>1. Len(recvConns') = Len(recvConns) - 1 /\ Len(recvConns) \in Nat
        BY <1>1, HeadTailProperties
    <2> QED
        BY <1>2, <2>1, EmptySeq
<1>4. /\ sock' \in [Connections -> {"none", "open", "closed"}] /\ answered' \subseteq Connections
      /\ \A q \in Connections : q # p => sock'[q] = sock[q]
      /\ \A q \in Connections : sock'[q] = "open" => sock[q] = "open"
    BY <1>2 DEF Answer, ShutdownAll, TypeOK
<1> HIDE DEF p
<1>5. \A q \in Range(recvConns') : q \in Connections /\ q # p /\ q \in Range(recvConns)
    BY <1>2, RangeOfSeq
<1>6. TypeOK' /\ ThreadsInv'
    BY <1>1, <1>2, <1>3, <1>4 DEF TypeOK, AppPlaces, ThreadsInv
<1>7. PlacesInv'
    BY <1>1, <1>4 DEF PlacesInv, Held, Accepted
<1>8. AnswerInv'
    BY <1>1, <1>2, <1>4, <1>5 DEF AnswerInv, AnswersOpenConnections
<1> QED
    BY <1>6, <1>7, <1>8

LEMMA InvClose ==
    ASSUME IInv, Close \/ ContinueClose
    PROVE  IInv'
<1> USE DEF IInv, serverVars, threadVars, appVars, networkVars
<1>1. Wakeup \in Connections
    BY DEF Connections
<1>2. CASE Close \/ StopRequest
    <2>1. /\ apc \in {"idle", "stop"} /\ isOpen /\ apc' \in {"stop", "wakeup"} /\ stopRequestEvent' \in BOOLEAN
          /\ UNCHANGED <<serverVars, threadVars, backlog, clientConnections, recvConns, networkVars>>
        BY <1>2 DEF Close, StopRequest, TypeOK, ThreadsInv
    <2> QED
        BY <2>1 DEF TypeOK, AppPlaces, ThreadsInv, PlacesInv, Held, Accepted, AnswerInv, AnswersOpenConnections
<1>3. CASE EmitWakeupSignal /\ listening
    <2>1. /\ apc = "wakeup" /\ apc' = "join" /\ isOpen
          /\ backlog' = Append(backlog, Wakeup) /\ backlog \in Seq(Connections)
          /\ remote' = [remote EXCEPT ![Wakeup] = "gone"]
          /\ sock' = [sock EXCEPT ![Wakeup] = "none"]
          /\ UNCHANGED <<serverVars, stopRequestEvent, threadVars, clientConnections,
                         recvConns, unread, answered>>
        BY <1>3 DEF EmitWakeupSignal, TypeOK, ThreadsInv
    <2>2. Wakeup \notin Held
        BY <2>1 DEF PlacesInv
    <2>3. /\ backlog' \in Seq(Connections) /\ Range(backlog') = Range(backlog) \cup {Wakeup}
          /\ IsInjective(backlog')
        BY <1>1, <2>1, <2>2, AppendProperties, RangeOfAppend, InjectiveAppend DEF PlacesInv, Held
    <2>4. /\ remote' \in [Connections -> {"none", "up", "gone"}]
          /\ sock' \in [Connections -> {"none", "open", "closed"}]
          /\ \A q \in Connections : /\ remote[q] # "none" \/ q = Wakeup => remote'[q] # "none"
                                    /\ sock'[q] = "open" => sock[q] = "open"
        BY <1>1, <2>1 DEF TypeOK
    <2>5. recvConns = <<>> /\ Range(recvConns) = {}
        BY <2>1, InjectiveEmpty DEF ThreadsInv
    <2>6. Held \subseteq Connections
        BY RangeOfSeq DEF Held, Accepted, TypeOK
    <2>7. TypeOK' /\ ThreadsInv'
        BY <1>3, <2>1, <2>3, <2>4 DEF TypeOK, AppPlaces, ThreadsInv
    <2>8. PlacesInv'
        BY <1>1, <2>1, <2>2, <2>3, <2>4, <2>6 DEF PlacesInv, Held, Accepted
    <2>9. AnswerInv'
        BY <2>1, <2>5 DEF AnswerInv, AnswersOpenConnections
    <2> QED
        BY <2>7, <2>8, <2>9
<1>4. CASE EmitWakeupSignal /\ ~listening
    <2>1. /\ apc = "wakeup" /\ apc' = "join" /\ isOpen
          /\ UNCHANGED <<serverVars, stopRequestEvent, threadVars, backlog, clientConnections,
                         recvConns, networkVars>>
        BY <1>4 DEF EmitWakeupSignal, ThreadsInv
    <2> QED
        BY <2>1 DEF TypeOK, AppPlaces, ThreadsInv, PlacesInv, Held, Accepted, AnswerInv, AnswersOpenConnections
<1>5. CASE Join
    <2>1. /\ apc = "join" /\ apc' = "shutdown" /\ tpc = "exited" /\ tpc' = "none" /\ isOpen
          /\ UNCHANGED <<serverVars, stopRequestEvent, listening, newSocket, backlog,
                         clientConnections, recvConns, networkVars>>
        BY <1>5 DEF Join, ThreadsInv
    <2> QED
        BY <2>1 DEF TypeOK, AppPlaces, ListenerPlaces, ThreadsInv, PlacesInv, Held, Accepted,
            AnswerInv, AnswersOpenConnections
<1>6. CASE ShutdownConnections
    <2>1. /\ apc = "shutdown" /\ apc' = "idle" /\ tpc = "none" /\ isOpen' = FALSE
          /\ newSocket = <<>> /\ backlog = <<>> /\ recvConns = <<>>
          /\ clientConnections' = <<>>
          /\ sock' = [p \in Connections |-> IF p \in Range(clientConnections) THEN "closed" ELSE sock[p]]
          /\ UNCHANGED <<opens, stopRequestEvent, threadVars, backlog, recvConns, remote,
                         unread, answered>>
        BY <1>6 DEF ShutdownConnections, ShutdownAll, ThreadsInv
    <2>2. /\ Range(clientConnections') = {} /\ IsInjective(clientConnections')
          /\ clientConnections' \in Seq(Connections)
          /\ Range(newSocket) = {} /\ Range(backlog) = {} /\ Range(recvConns) = {}
        BY <2>1, InjectiveEmpty
    <2>3. /\ sock' \in [Connections -> {"none", "open", "closed"}]
          /\ \A q \in Connections : sock'[q] # "open"
        BY <2>1, <2>2 DEF TypeOK, PlacesInv, Accepted
    <2>4. TypeOK' /\ ThreadsInv'
        BY <2>1, <2>2, <2>3 DEF TypeOK, AppPlaces, ThreadsInv
    <2>5. PlacesInv'
        BY <2>1, <2>2, <2>3 DEF PlacesInv, Held, Accepted
    <2>6. AnswerInv'
        BY <2>1, <2>2 DEF AnswerInv, AnswersOpenConnections
    <2> QED
        BY <2>4, <2>5, <2>6
<1> QED
    BY <1>2, <1>3, <1>4, <1>5, <1>6 DEF ContinueClose

-----------------------------------------------------------------------------
(* The theorems.                                                           *)

LEMMA Inductive == Spec => []IInv
<1>1. Init => IInv
    <2> SUFFICES ASSUME Init PROVE IInv
        OBVIOUS
    <2>1. /\ Range(backlog) = {} /\ Range(newSocket) = {} /\ Range(clientConnections) = {}
          /\ Range(recvConns) = {}
          /\ IsInjective(backlog) /\ IsInjective(newSocket) /\ IsInjective(clientConnections)
          /\ IsInjective(recvConns)
        BY InjectiveEmpty DEF Init
    <2>2. Accepted = {} /\ Held = {}
        BY <2>1 DEF Held, Accepted
    <2>3. TypeOK
        <3>1. <<>> \in Seq(Connections) /\ 0 \in 0..MaxOpens
            BY TcpServerAssumption
        <3>2. /\ remote \in [Connections -> {"none", "up", "gone"}]
              /\ sock \in [Connections -> {"none", "open", "closed"}]
              /\ unread \in [Connections -> BOOLEAN]
            BY DEF Init
        <3> QED
            BY <3>1, <3>2 DEF Init, TypeOK, ListenerPlaces, AppPlaces
    <2>4. ThreadsInv
        BY DEF Init, ThreadsInv
    <2>5. PlacesInv
        BY <2>1, <2>2 DEF Init, PlacesInv
    <2>6. AnswerInv
        BY <2>1 DEF AnswerInv, AnswersOpenConnections
    <2> QED
        BY <2>3, <2>4, <2>5, <2>6 DEF IInv
<1>2. IInv /\ [Next]_vars => IInv'
    <2> SUFFICES ASSUME IInv, [Next]_vars PROVE IInv'
        OBVIOUS
    <2>1. CASE UNCHANGED vars
        BY <2>1 DEF vars, serverVars, threadVars, appVars, networkVars, IInv, TypeOK, ThreadsInv,
            PlacesInv, Held, Accepted, AnswerInv, AnswersOpenConnections
    <2>2. CASE Next
        BY <2>1, <2>2, InvPeers, InvListener, InvOpen, InvRecv, InvAnswer, InvClose
        DEF Next, Finished
    <2> QED
        BY <2>1, <2>2
<1> QED
    BY <1>1, <1>2, PTL DEF Spec

\* The books of the server are in order: a connection is in one place, and a
\* closed server has no listener, no list and no open socket.
THEOREM BooksInOrder == Spec => []Consistent
<1>1. IInv => Consistent
    <2> SUFFICES ASSUME IInv PROVE Consistent
        OBVIOUS
    <2> USE DEF IInv
    <2>1. /\ backlog \in Seq(Connections) /\ newSocket \in Seq(Connections)
          /\ clientConnections \in Seq(Connections)
        BY DEF TypeOK
    <2>2. /\ backlog \o newSocket \in Seq(Connections)
          /\ Range(backlog \o newSocket) = Range(backlog) \cup Range(newSocket)
          /\ IsInjective(backlog \o newSocket)
        BY <2>1, InjectiveConcat DEF PlacesInv, Accepted
    <2>3. IsInjective((backlog \o newSocket) \o clientConnections)
        <3> DEFINE t == backlog \o newSocket
        <3>1. t \in Seq(Connections) /\ IsInjective(t)
            BY <2>2
        <3>2. IsInjective(clientConnections) /\ Range(t) \cap Range(clientConnections) = {}
            BY <2>2 DEF PlacesInv, Accepted
        <3> HIDE DEF t
        <3>3. IsInjective(t \o clientConnections)
            BY <2>1, <3>1, <3>2, InjectiveConcat
        <3> QED
            BY <3>3 DEF t
    <2>4. Range(newSocket \o clientConnections) = Accepted
        BY <2>1, InjectiveConcat DEF Accepted
    <2>5. OnePlace
        BY <2>3, <2>4 DEF OnePlace, PlacesInv
    <2>6. ClosedMeansClosed
        <3> SUFFICES ASSUME ~isOpen PROVE ClosedMeansClosed
            BY DEF ClosedMeansClosed
        <3>1. tpc = "none" /\ newSocket = <<>> /\ clientConnections = <<>>
            BY DEF ThreadsInv
        <3>2. Accepted = {}
            BY <3>1, InjectiveEmpty DEF Accepted
        <3> QED
            BY <3>1, <3>2 DEF ClosedMeansClosed, ThreadsInv, PlacesInv
    <2> QED
        BY <2>5, <2>6 DEF Consistent
<1> QED
    BY <1>1, Inductive, PTL

\* Whatever peers and the listener do while HttpServer walks over what Recv
\* returned, each of these connections is listed and its socket open.
THEOREM AnsweredWhileOpen == Spec => []AnswersOpenConnections
<1>1. IInv => AnswersOpenConnections
    BY DEF IInv, AnswerInv
<1> QED
    BY <1>1, Inductive, PTL

-----------------------------------------------------------------------------
(* The server implements ConnectionService.                                *)

\* A connection that is not closed is in one of the lists; one at a time is in
\* the listener's hand, and is open there; in the server's list it has been
\* opened.  Who has sent something has connected.
ReachInv ==
    /\ tpc = "add" => \E p \in Connections : newSocket = <<p>>
    /\ \A p \in Connections : remote[p] # "none" /\ sock[p] # "closed" => p \in Held
    /\ \A p \in Range(newSocket) : sock[p] = "open"
    /\ \A p \in Range(clientConnections) : sock[p] # "none"
    /\ \A p \in Connections : unread[p] => remote[p] # "none"

\* A step ConnectionService does not see.
Same == isOpen' = isOpen /\ Met' = Met /\ Unlisted' = Unlisted /\ Listed' = Listed
            /\ Asked' = Asked /\ Due' = Due /\ answered' = answered

LEMMA Stutter ==
    ASSUME Same
    PROVE  UNCHANGED Service!vars
BY DEF Same, Service!vars

\* What is listed is a connection.
LEMMA ListsOfConnections ==
    ASSUME IInv
    PROVE  /\ Held \subseteq Connections /\ Range(recvConns) \subseteq Connections
           /\ Peers \subseteq Connections /\ Wakeup \in Connections /\ Wakeup \notin Peers
BY RangeOfSeq, TcpServerAssumption DEF IInv, TypeOK, Held, Accepted, Connections

\* A peer that connects or sends does so in ConnectionService; that it goes
\* away is not seen there.
LEMMA RefinesPeers ==
    ASSUME IInv, ReachInv, NEW p \in Peers, PeerConnect(p) \/ PeerSend(p) \/ PeerClose(p)
    PROVE  ReachInv' /\ [Service!Next]_(Service!vars)
<1> USE DEF IInv
<1>1. /\ p \in Connections /\ Held \subseteq Connections
      /\ remote \in [Connections -> {"none", "up", "gone"}] /\ unread \in [Connections -> BOOLEAN]
      /\ Peers \subseteq Connections
    BY ListsOfConnections DEF TypeOK
<1>2. CASE PeerConnect(p)
    <2>1. /\ listening /\ remote[p] = "none" /\ remote' = [remote EXCEPT ![p] = "up"]
          /\ UNCHANGED <<isOpen, tpc, newSocket, clientConnections, recvConns, sock, unread, answered>>
          /\ isOpen
        BY <1>2 DEF PeerConnect, ThreadsInv, serverVars, threadVars, appVars
    <2>2. Range(backlog') = Range(backlog) \cup {p}
        BY <1>1, <1>2, RangeOfAppend DEF PeerConnect, TypeOK
    <2>3. ReachInv'
        BY <1>1, <2>1, <2>2 DEF ReachInv, Held, Accepted
    <2>4. p \notin Met /\ Met' = Met \cup {p} /\ Unlisted' = Unlisted \cup {p} /\ Listed' = Listed
          /\ Due' = Due
        BY <1>1, <2>1, <2>2 DEF Met, Unlisted, Listed, Due
    <2>5. Asked' = Asked
        BY <1>1, <2>1, <2>4 DEF Asked, Unlisted, Listed, ReachInv
    <2>6. Service!Connect(p)
        BY <2>1, <2>4, <2>5 DEF Service!Connect
    <2> QED
        BY <2>3, <2>6 DEF Service!Next
<1>3. CASE PeerSend(p)
    <2>1. /\ remote[p] = "up" /\ sock[p] # "closed" /\ ~unread[p] /\ p \notin answered
          /\ unread' = [unread EXCEPT ![p] = TRUE]
          /\ UNCHANGED <<isOpen, tpc, backlog, newSocket, clientConnections, recvConns, remote, sock, answered>>
        BY <1>3 DEF PeerSend, serverVars, threadVars, appVars
    <2>2. ReachInv'
        BY <2>1 DEF ReachInv, Held, Accepted
    <2>3. Met' = Met /\ Unlisted' = Unlisted /\ Listed' = Listed /\ Due' = Due
        BY <2>1 DEF Met, Unlisted, Listed, Due
    <2>4. p \in Unlisted \cup Listed
        <3>1. p \in Held
            BY <1>1, <2>1 DEF ReachInv
        <3>2. CASE p \in Range(clientConnections)
            <4>1. sock[p] = "open"
                BY <1>1, <2>1, <3>2 DEF ReachInv, TypeOK
            <4> QED
                BY <3>2, <4>1 DEF Listed
        <3> QED
            BY <3>1, <3>2 DEF Held, Accepted, Unlisted
    <2>5. Asked' = Asked \cup {p} /\ p \notin Asked
        BY <1>1, <2>1, <2>3, <2>4 DEF Asked, Unlisted, Listed
    <2>6. Service!Ask(p)
        BY <2>1, <2>3, <2>4, <2>5 DEF Service!Ask
    <2> QED
        BY <2>2, <2>6 DEF Service!Next
<1>4. CASE PeerClose(p)
    <2>1. /\ remote[p] = "up" /\ remote' = [remote EXCEPT ![p] = "gone"]
          /\ UNCHANGED <<isOpen, tpc, backlog, newSocket, clientConnections, recvConns, sock, unread, answered>>
        BY <1>4 DEF PeerClose, serverVars, threadVars, appVars
    <2>2. ReachInv'
        BY <1>1, <2>1 DEF ReachInv, Held, Accepted
    <2>3. Same
        BY <1>1, <2>1 DEF Same, Met, Unlisted, Listed, Asked, Due
    <2> QED
        BY <2>2, <2>3, Stutter
<1> QED
    BY <1>2, <1>3, <1>4

\* A connection in the listener's hand still waits: it is accepted when it is
\* added to the list.
LEMMA RefinesListener ==
    ASSUME IInv, ReachInv, Listener
    PROVE  ReachInv' /\ [Service!Next]_(Service!vars)
<1> USE DEF IInv, serverVars, threadVars, appVars, networkVars
<1>1. /\ Held \subseteq Connections /\ Peers \subseteq Connections
      /\ sock \in [Connections -> {"none", "open", "closed"}]
    BY ListsOfConnections DEF TypeOK
<1>2. CASE Bind \/ TestLoop \/ Listen \/ TestAfterListen
    <2>1. tpc' # "add" /\ UNCHANGED <<isOpen, newSocket, backlog, clientConnections, appVars, networkVars>>
        BY <1>2 DEF Bind, TestLoop, Listen, TestAfterListen
    <2> QED
        BY <2>1, Stutter DEF ReachInv, Held, Accepted, Same, Met, Unlisted, Listed, Asked, Due
<1>3. CASE Accept
    <2> DEFINE p == Head(backlog)
    <2>1. /\ tpc = "accept" /\ newSocket = <<>> /\ backlog # <<>> /\ backlog \in Seq(Connections)
          /\ backlog' = Tail(backlog) /\ isOpen
          /\ UNCHANGED <<isOpen, clientConnections, recvConns, remote, unread, answered>>
        BY <1>3 DEF Accept, ThreadsInv, TypeOK
    <2>2. /\ p \in Connections /\ Range(backlog) = Range(backlog') \cup {p} /\ p \notin Range(backlog')
          /\ Range(newSocket) = {} /\ p \notin Accepted
        BY <2>1, RangeOfTail, InjectiveTail, InjectiveEmpty DEF PlacesInv
    <2>3. Met' = Met /\ Due' = Due /\ p \notin Range(clientConnections)
        BY <2>1, <2>2 DEF Met, Due, Accepted
    <2>4. \/ newSocket' = <<p>> /\ sock' = [sock EXCEPT ![p] = "open"]
          \/ newSocket' = <<>> /\ tpc' = "loopTest" /\ sock' = [q \in Connections |-> IF q \in {p} THEN "closed" ELSE sock[q]]
        BY <1>3, <2>1 DEF Accept, ShutdownAll
    <2> HIDE DEF p
    <2>5. /\ \A q \in Connections : q # p => sock'[q] = sock[q]
          /\ Listed' = Listed
        <3>1. \A q \in Connections : q # p => sock'[q] = sock[q]
            BY <1>1, <2>4
        <3> QED
            BY <1>1, <2>1, <2>3, <3>1 DEF Listed
    <2>6. CASE newSocket' = <<p>> /\ sock' = [sock EXCEPT ![p] = "open"]
        <3>1. Range(newSocket') = {p} /\ sock'[p] = "open"
            BY <1>1, <2>2, <2>6, InjectiveSingle
        <3>2. Unlisted' = Unlisted
            BY <2>2, <3>1 DEF Unlisted
        <3>3. Same
            BY <2>1, <2>3, <2>5, <3>2 DEF Same, Asked
        <3>4. ReachInv'
            BY <1>1, <2>1, <2>2, <2>3, <2>5, <2>6, <3>1 DEF ReachInv, Held, Accepted
        <3> QED
            BY <3>3, <3>4, Stutter
    <2>7. CASE /\ newSocket' = <<>> /\ tpc' = "loopTest"
               /\ sock' = [q \in Connections |-> IF q \in {p} THEN "closed" ELSE sock[q]]
        <3>1. Range(newSocket') = {} /\ sock'[p] = "closed"
            BY <2>2, <2>7, InjectiveEmpty
        <3>2. ReachInv'
            BY <1>1, <2>1, <2>2, <2>3, <2>5, <2>7, <3>1 DEF ReachInv, Held, Accepted
        <3>3. Unlisted' = Unlisted \ {p} /\ Peers \cap {p} \subseteq Unlisted
            BY <2>2, <3>1 DEF Unlisted
        <3>4. Asked' = Asked \ {p}
            BY <2>1, <2>3, <2>5, <3>3 DEF Asked, Listed
        <3>5. Service!Refuse(Peers \cap {p})
            BY <2>1, <2>3, <2>5, <3>3, <3>4 DEF Service!Refuse, Unlisted, Asked, Listed
        <3> QED
            BY <3>2, <3>5 DEF Service!Next
    <2> QED
        BY <2>4, <2>6, <2>7
<1>4. CASE AddClientConnection
    <2>1. /\ tpc = "add" /\ tpc' = "loopTest" /\ newSocket' = <<>> /\ clientConnections' = clientConnections \o newSocket
          /\ UNCHANGED <<isOpen, backlog, recvConns, networkVars>>
          /\ isOpen
        BY <1>4 DEF AddClientConnection, ThreadsInv
    <2>2. Range(newSocket') = {} /\ Range(clientConnections') = Accepted
        BY <2>1, InjectiveConcat, InjectiveEmpty DEF TypeOK, Accepted
    <2>3. ReachInv'
        BY <2>1, <2>2 DEF ReachInv, Held, Accepted
    <2>4. PICK p \in Connections : newSocket = <<p>>
        BY <2>1 DEF ReachInv
    <2>5. Range(newSocket) = {p} /\ sock[p] = "open" /\ p \notin Range(backlog)
        BY <2>4, InjectiveSingle DEF ReachInv, PlacesInv, Accepted
    <2>6. /\ Met' = Met /\ Due' = Due /\ Unlisted' = Unlisted \ {p}
          /\ Listed' = Listed \cup (Peers \cap {p}) /\ Peers \cap {p} \subseteq Unlisted
        BY <2>1, <2>2, <2>5 DEF Met, Due, Unlisted, Listed, Accepted
    <2>7. Asked' = Asked
        BY <2>1, <2>6 DEF Asked, Unlisted
    <2>8. CASE p \in Peers
        <3>1. Service!Accept(p)
            BY <2>1, <2>6, <2>7, <2>8 DEF Service!Accept
        <3> QED
            BY <2>3, <2>8, <3>1 DEF Service!Next
    <2>9. CASE p \notin Peers
        <3>1. Same
            BY <2>1, <2>6, <2>7, <2>9 DEF Same, Unlisted
        <3> QED
            BY <2>3, <3>1, Stutter
    <2> QED
        BY <2>8, <2>9
<1>5. CASE CloseServerSocket
    <2>1. /\ tpc = "closeSocket" /\ tpc' = "exited" /\ backlog' = <<>> /\ isOpen /\ newSocket = <<>>
          /\ sock' = [p \in Connections |-> IF p \in Range(backlog) THEN "closed" ELSE sock[p]]
          /\ UNCHANGED <<isOpen, newSocket, clientConnections, recvConns, remote, unread, answered>>
        BY <1>5 DEF CloseServerSocket, ShutdownAll, ThreadsInv
    <2>2. Range(backlog') = {} /\ Range(newSocket) = {} /\ Range(newSocket') = {}
        BY <2>1, InjectiveEmpty
    <2>3. \A p \in Connections : p \notin Range(backlog) => sock'[p] = sock[p]
        BY <2>1
    <2>4. ReachInv'
        BY <1>1, <2>1, <2>2, <2>3 DEF ReachInv, Held, Accepted, PlacesInv
    <2>5. /\ Met' = Met /\ Due' = Due /\ Unlisted' = {} /\ Unlisted \subseteq Range(backlog)
          /\ Listed' = Listed /\ Listed \cap Unlisted = {}
        BY <1>1, <2>1, <2>2, <2>3 DEF Met, Due, Unlisted, Listed, PlacesInv, Accepted
    <2>6. Asked' = Asked \ Unlisted
        BY <2>1, <2>5 DEF Asked
    <2>7. Service!Refuse(Unlisted) /\ Unlisted \in SUBSET Peers
        BY <2>1, <2>5, <2>6 DEF Service!Refuse, Unlisted
    <2> QED
        BY <2>4, <2>7 DEF Service!Next
<1> QED
    BY <1>2, <1>3, <1>4, <1>5 DEF Listener

\* A poll drops what does not stay and takes the requests of what does.
LEMMA RefinesRecv ==
    ASSUME IInv, ReachInv, Recv
    PROVE  ReachInv' /\ [Service!Next]_(Service!vars)
<1> USE DEF IInv, serverVars, threadVars
<1> DEFINE S == {p \in Connections : Stays(p)}
           R == {p \in Connections : Stays(p) /\ unread[p]}
           dropped == {p \in Listed : ~Stays(p)}
<1>1. /\ apc = "idle" /\ isOpen /\ clientConnections \in Seq(Connections)
      /\ clientConnections' = Select(clientConnections, S)
      /\ recvConns' = Select(clientConnections, R)
      /\ sock' = [p \in Connections |->
                    IF p \in {q \in Range(clientConnections) : ~Stays(q)} THEN "closed" ELSE sock[p]]
      /\ unread' = [p \in Connections |-> p \notin Range(clientConnections) /\ unread[p]]
      /\ UNCHANGED <<isOpen, tpc, newSocket, backlog, remote, answered>>
    BY DEF Recv, ReceiveAll, ShutdownAll, TypeOK
<1>2. /\ Range(clientConnections') = Range(clientConnections) \cap S
      /\ Range(recvConns') = Range(clientConnections) \cap R
    BY <1>1, SelectRange
<1>3. Held \subseteq Connections /\ Peers \subseteq Connections
    BY ListsOfConnections
<1>4. \A p \in Connections : Stays(p) <=> sock[p] = "open" /\ remote[p] = "up"
    BY DEF Stays
<1>5. \A p \in Connections : p \notin Range(clientConnections) \/ Stays(p) => sock'[p] = sock[p]
    BY <1>1
<1>6. \A p \in Connections : p \in Range(clientConnections) /\ ~Stays(p) => sock'[p] = "closed"
    BY <1>1
<1>7. \A p \in Connections : unread'[p] <=> p \notin Range(clientConnections) /\ unread[p]
    BY <1>1
<1>8. ReachInv'
    <2>1. \A p \in Connections : remote'[p] # "none" /\ sock'[p] # "closed" => p \in Held'
        BY <1>1, <1>2, <1>5, <1>6 DEF ReachInv, Held, Accepted
    <2>2. \A p \in Range(newSocket') : sock'[p] = "open"
        BY <1>1, <1>3, <1>5 DEF ReachInv, PlacesInv, Held, Accepted
    <2>3. \A p \in Range(clientConnections') : sock'[p] # "none"
        BY <1>2, <1>4, <1>5
    <2> QED
        BY <1>1, <1>7, <2>1, <2>2, <2>3 DEF ReachInv
<1>9. /\ Met' = Met /\ Unlisted' = Unlisted /\ Unlisted \cap Listed = {}
      /\ \A p \in Peers : p \in Unlisted => p \notin Range(clientConnections)
    BY <1>1 DEF Met, Unlisted, Listed, PlacesInv, Accepted
<1>10. Listed' = Listed \ dropped
    BY <1>2, <1>3, <1>4, <1>5 DEF Listed
<1>11. Due = {}
    BY <1>1, InjectiveEmpty DEF Due, ThreadsInv
<1>12. Due' = Asked \cap Listed'
    BY <1>2, <1>3, <1>4, <1>9, <1>10 DEF Due, Asked, Listed
<1>13. Asked' = Asked \ Listed
    BY <1>3, <1>7, <1>9, <1>10 DEF Asked, Unlisted, Listed
<1>14. Service!Poll(dropped) /\ dropped \in SUBSET Peers
    <2> HIDE DEF dropped
    <2>1. dropped \in SUBSET Listed
        BY DEF dropped
    <2> QED
        BY <1>1, <1>9, <1>10, <1>11, <1>12, <1>13, <2>1 DEF Service!Poll, Listed
<1> QED
    BY <1>8, <1>14 DEF Service!Next

\* An answer, or the end of a peer that does not speak HTTP.
LEMMA RefinesAnswer ==
    ASSUME IInv, ReachInv, Answer
    PROVE  ReachInv' /\ [Service!Next]_(Service!vars)
<1> USE DEF IInv, serverVars, threadVars
<1> DEFINE p == Head(recvConns)
<1>1. /\ recvConns # <<>> /\ recvConns \in Seq(Connections) /\ recvConns' = Tail(recvConns)
      /\ UNCHANGED <<isOpen, tpc, newSocket, backlog, clientConnections, remote, unread>>
    BY DEF Answer, ThreadsInv, TypeOK
<1>2. /\ p \in Connections /\ Range(recvConns) = {p} \cup Range(recvConns') /\ p \notin Range(recvConns')
      /\ sock[p] = "open" /\ p \in Range(clientConnections)
    BY <1>1, RangeOfTail, InjectiveTail DEF AnswerInv, AnswersOpenConnections
<1>3. \/ p \in HttpPeers /\ answered' = answered \cup {p} /\ sock' = sock
      \/ /\ p \notin HttpPeers /\ answered' = answered
         /\ sock' = [q \in Connections |-> IF q \in {p} THEN "closed" ELSE sock[q]]
    BY DEF Answer, ShutdownAll
<1> HIDE DEF p
<1>4. Held \subseteq Connections /\ Peers \subseteq Connections /\ HttpPeers \subseteq Peers
    BY ListsOfConnections, TcpServerAssumption
<1>5. Met' = Met /\ Unlisted' = Unlisted /\ Due' = Due \ {p} /\ Peers \cap {p} \subseteq Due \cap Listed
    BY <1>1, <1>2 DEF Met, Unlisted, Due, Listed
<1>6. p \notin Range(newSocket) /\ p \notin Unlisted
    BY <1>2 DEF PlacesInv, Accepted, Unlisted
<1>7. CASE p \in HttpPeers /\ answered' = answered \cup {p} /\ sock' = sock
    <2>1. ReachInv'
        BY <1>1, <1>7 DEF ReachInv, Held, Accepted
    <2>2. Listed' = Listed /\ Asked' = Asked
        BY <1>1, <1>7 DEF Listed, Asked, Unlisted
    <2>3. Service!Answer(p)
        BY <1>1, <1>4, <1>5, <1>7, <2>2 DEF Service!Answer
    <2> QED
        BY <1>4, <1>7, <2>1, <2>3 DEF Service!Next
<1>8. CASE /\ p \notin HttpPeers /\ answered' = answered
           /\ sock' = [q \in Connections |-> IF q \in {p} THEN "closed" ELSE sock[q]]
    <2>1. sock'[p] = "closed" /\ \A q \in Connections : q # p => sock'[q] = sock[q]
        BY <1>2, <1>8
    <2>2. ReachInv'
        BY <1>1, <1>2, <1>4, <1>6, <2>1 DEF ReachInv, Held, Accepted
    <2>3. Listed' = Listed \ {p}
        BY <1>1, <1>4, <2>1 DEF Listed
    <2>4. Asked' = Asked \ {p}
        BY <1>1, <1>5, <1>6, <2>3 DEF Asked
    <2>5. CASE p \in Peers
        <3>1. Service!Reject(p)
            BY <1>1, <1>5, <1>8, <2>3, <2>4, <2>5 DEF Service!Reject
        <3> QED
            BY <2>2, <2>5, <3>1 DEF Service!Next
    <2>6. CASE p \notin Peers
        <3>1. Same
            BY <1>1, <1>5, <1>8, <2>3, <2>4, <2>6 DEF Same, Due, Listed, Asked, Unlisted
        <3> QED
            BY <2>2, <3>1, Stutter
    <2> QED
        BY <2>5, <2>6
<1> QED
    BY <1>3, <1>7, <1>8

\* Of a Close only its last step is seen, when nobody waits any more.
LEMMA RefinesClose ==
    ASSUME IInv, ReachInv, Open \/ Close \/ ContinueClose
    PROVE  ReachInv' /\ [Service!Next]_(Service!vars)
<1> USE DEF IInv, serverVars, threadVars, appVars, networkVars
<1>1. /\ Held \subseteq Connections /\ Peers \subseteq Connections /\ Wakeup \in Connections
      /\ Wakeup \notin Peers /\ sock \in [Connections -> {"none", "open", "closed"}]
      /\ remote \in [Connections -> {"none", "up", "gone"}]
    BY ListsOfConnections DEF TypeOK
<1>2. CASE Open
    <2>1. ~isOpen /\ isOpen' = TRUE /\ tpc' = "bind"
          /\ UNCHANGED <<newSocket, backlog, clientConnections, appVars, networkVars>>
        BY <1>2 DEF Open
    <2>2. ReachInv'
        BY <2>1 DEF ReachInv, Held, Accepted
    <2>3. Service!Open
        BY <2>1 DEF Service!Open, Met, Unlisted, Listed, Asked, Due
    <2> QED
        BY <2>2, <2>3 DEF Service!Next
<1>3. CASE Close \/ StopRequest \/ Join \/ (EmitWakeupSignal /\ ~listening)
    <2>1. /\ tpc' = tpc \/ tpc' = "none"
          /\ UNCHANGED <<isOpen, newSocket, backlog, clientConnections, recvConns, networkVars>>
        BY <1>3 DEF Close, StopRequest, Join, EmitWakeupSignal
    <2>2. ReachInv'
        BY <2>1 DEF ReachInv, Held, Accepted
    <2>3. Same
        BY <2>1 DEF Same, Met, Unlisted, Listed, Asked, Due
    <2> QED
        BY <2>2, <2>3, Stutter
<1>4. CASE EmitWakeupSignal /\ listening
    <2>1. /\ backlog' = Append(backlog, Wakeup) /\ apc = "wakeup"
          /\ remote' = [remote EXCEPT ![Wakeup] = "gone"] /\ sock' = [sock EXCEPT ![Wakeup] = "none"]
          /\ UNCHANGED <<isOpen, tpc, newSocket, clientConnections, recvConns, unread, answered>>
        BY <1>4 DEF EmitWakeupSignal
    <2>2. Range(backlog') = Range(backlog) \cup {Wakeup} /\ Wakeup \notin Held
        BY <1>1, <2>1, RangeOfAppend DEF TypeOK, PlacesInv
    <2>3. \A q \in Connections : q # Wakeup => sock'[q] = sock[q] /\ remote'[q] = remote[q]
        BY <2>1
    <2>4. remote'[Wakeup] # "none"
        BY <1>1, <2>1
    <2>5. ReachInv'
        BY <1>1, <2>1, <2>2, <2>3, <2>4 DEF ReachInv, Held, Accepted
    <2>6. Met' = Met /\ Unlisted' = Unlisted /\ Listed' = Listed /\ Due' = Due
        BY <1>1, <2>1, <2>2, <2>3 DEF Met, Unlisted, Listed, Due
    <2>7. Same
        BY <2>1, <2>6 DEF Same, Asked
    <2> QED
        BY <2>5, <2>7, Stutter
<1>5. CASE ShutdownConnections
    <2>1. /\ isOpen /\ isOpen' = FALSE /\ tpc = "none"
          /\ newSocket = <<>> /\ backlog = <<>> /\ recvConns = <<>> /\ clientConnections' = <<>>
          /\ sock' = [p \in Connections |-> IF p \in Range(clientConnections) THEN "closed" ELSE sock[p]]
          /\ UNCHANGED <<tpc, newSocket, backlog, recvConns, remote, unread, answered>>
        BY <1>5 DEF ShutdownConnections, ShutdownAll, ThreadsInv
    <2>2. /\ Range(clientConnections') = {} /\ Range(newSocket) = {} /\ Range(backlog) = {}
          /\ Range(recvConns) = {}
        BY <2>1, InjectiveEmpty
    <2>3. ReachInv'
        BY <2>1, <2>2 DEF ReachInv, Held, Accepted
    <2>4. /\ Met' = Met /\ Unlisted = {} /\ Unlisted' = {} /\ Listed' = {} /\ Due = {} /\ Due' = {}
          /\ Asked' = {}
        BY <2>1, <2>2 DEF Met, Unlisted, Listed, Due, Asked
    <2>5. Service!Close
        BY <2>1, <2>4 DEF Service!Close
    <2> QED
        BY <2>3, <2>5 DEF Service!Next
<1> QED
    BY <1>2, <1>3, <1>4, <1>5 DEF ContinueClose

\* The listener, the application and the peers together are a ConnectionService.
THEOREM Implementation == Spec => ImplementsConnectionService
<1>1. Init => ReachInv /\ Service!Init
    <2> SUFFICES ASSUME Init PROVE ReachInv /\ Service!Init
        OBVIOUS
    <2>1. Range(backlog) = {} /\ Range(newSocket) = {} /\ Range(clientConnections) = {} /\ Range(recvConns) = {}
        BY InjectiveEmpty DEF Init
    <2>2. ReachInv
        BY <2>1 DEF Init, ReachInv
    <2>3. Met = {} /\ Unlisted = {} /\ Listed = {} /\ Asked = {} /\ Due = {}
        BY <2>1, TcpServerAssumption DEF Init, Met, Unlisted, Listed, Asked, Due, Connections
    <2> QED
        BY <2>2, <2>3 DEF Init, Service!Init
<1>2. IInv /\ ReachInv /\ [Next]_vars => ReachInv' /\ [Service!Next]_(Service!vars)
    <2> SUFFICES ASSUME IInv, ReachInv, [Next]_vars
                 PROVE  ReachInv' /\ [Service!Next]_(Service!vars)
        OBVIOUS
    <2>1. CASE UNCHANGED vars
        BY <2>1, Stutter DEF vars, serverVars, threadVars, appVars, networkVars, ReachInv, Held, Accepted,
            Same, Met, Unlisted, Listed, Asked, Due
    <2>2. CASE Next
        <3>1. \/ Listener \/ Recv \/ Answer \/ Open \/ Close \/ ContinueClose
              \/ (\E p \in Peers : PeerConnect(p) \/ PeerSend(p) \/ PeerClose(p)) \/ UNCHANGED vars
            BY <2>2 DEF Next, Finished
        <3> HIDE DEF Next
        <3> QED
            BY ONLY IInv, ReachInv, <2>1, <3>1, RefinesPeers, RefinesListener, RefinesRecv,
                RefinesAnswer, RefinesClose
    <2> QED
        BY <2>1, <2>2
<1> QED
    BY <1>1, <1>2, Inductive, PTL DEF Spec, ImplementsConnectionService, Service!Spec
=============================================================================
