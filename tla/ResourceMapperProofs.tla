------------------------ MODULE ResourceMapperProofs ------------------------
(***************************************************************************)
(* Proofs about ResourceMapper, for any number of files, clients and       *)
(* objects: the two reference counts and the pending list agree with who   *)
(* holds what, a dead resource is unloaded, no assertion fails under       *)
(* patient clients, and holders see what ResourceStore lets them see.      *)
(***************************************************************************)
EXTENDS ResourceMapper, SequenceTheorems, FiniteSetTheorems, TLAPS

-----------------------------------------------------------------------------
(* Sequences.                                                              *)

\* What Select keeps: the elements in S, and each of them once if the sequence
\* has it once.  Ranks are a bijection from the places that stay.
LEMMA SelectRange ==
    ASSUME NEW T, NEW s \in Seq(T), NEW S
    PROVE  /\ Select(s, S) \in Seq(T)
           /\ Range(Select(s, S)) = Range(s) \cap S
           /\ (\A i, j \in DOMAIN s : s[i] = s[j] /\ s[i] \in S => i = j) => IsInjective(Select(s, S))
           /\ IsInjective(s) => IsInjective(Select(s, S))
<1> DEFINE K == Staying(s, S)
           N == Cardinality(K)
           Below(i) == {j \in K : j <= i}
           rank == [i \in K |-> Cardinality(Below(i))]
           r == Select(s, S)
<1>1. DOMAIN s = 1..Len(s) /\ Len(s) \in Nat /\ \A i \in 1..Len(s) : s[i] \in T
    BY ElementOfSeq
<1>2. /\ K \in SUBSET (1..Len(s)) /\ \A i \in 1..Len(s) : i \in K <=> s[i] \in S
      /\ \A k : Origin(s, S, k) = CHOOSE i \in K : Cardinality(Below(i)) = k
      /\ r = [k \in 1..N |-> s[Origin(s, S, k)]]
    BY <1>1 DEF Staying, Origin, Rank, Select
<1> HIDE DEF K, N, r
<1>3. IsFiniteSet(K) /\ N \in Nat /\ \A i \in K : i \in Int
    <2>1. IsFiniteSet(1..Len(s))
        BY ONLY <1>1, FS_Interval
    <2>2. IsFiniteSet(K)
        BY ONLY <1>2, <2>1, FS_Subset
    <2> QED
        BY <1>2, <2>2, FS_CardinalityType DEF N
<1>4. ASSUME NEW i \in K PROVE Cardinality(Below(i)) \in 1..N
    <2>1. Below(i) \in SUBSET K /\ i \in Below(i)
        BY <1>3
    <2>2. IsFiniteSet(Below(i)) /\ Cardinality(Below(i)) <= N /\ Cardinality(Below(i)) \in Nat
        BY <1>3, <2>1, FS_Subset, FS_CardinalityType DEF N
    <2>3. Cardinality(Below(i)) # 0
        BY <2>1, <2>2, FS_EmptySet
    <2> QED
        BY <1>3, <2>2, <2>3
<1>5. ASSUME NEW i \in K, NEW j \in K, i < j PROVE Cardinality(Below(i)) # Cardinality(Below(j))
    <2>1. Below(i) \in SUBSET Below(j) /\ j \in Below(j) /\ j \notin Below(i) /\ Below(j) \in SUBSET K
        BY <1>3, <1>5
    <2>2. IsFiniteSet(Below(j))
        BY ONLY <1>3, <2>1, FS_Subset
    <2> QED
        BY ONLY <2>1, <2>2, FS_Subset
<1>6. \A i \in K : rank[i] = Cardinality(Below(i)) /\ rank[i] \in 1..N
    BY <1>4
<1>7. \A i, j \in K : rank[i] = rank[j] => i = j
    <2>1. \A i, j \in K : i < j => rank[i] # rank[j]
        BY <1>5, <1>6
    <2>2. \A i, j \in K : i < j \/ j < i \/ i = j
        BY <1>3
    <2> HIDE DEF rank
    <2> QED
        BY ONLY <2>1, <2>2
<1>8. \A k \in 1..N : \E i \in K : rank[i] = k
    <2>1. rank \in [K -> 1..N]
        BY <1>4
    <2> HIDE DEF rank
    <2>2. rank \in Injection(K, 1..N)
        BY <1>7, <2>1 DEF Injection, IsInjective
    <2>3. IsFiniteSet(1..N) /\ Cardinality(1..N) = N
        BY <1>3, FS_Interval
    <2>4. rank \in Surjection(K, 1..N)
        BY <1>3, <2>2, <2>3, FS_Injection DEF N
    <2> QED
        BY <2>4 DEF Surjection
<1> HIDE DEF rank
<1>9. \A k \in 1..N : Origin(s, S, k) \in K /\ rank[Origin(s, S, k)] = k
    <2>1. \A k \in 1..N : \E i \in K : Cardinality(Below(i)) = k
        BY <1>6, <1>8
    <2> HIDE DEF Below
    <2> QED
        BY <1>2, <1>6, <2>1
<1>10. \A i \in K : rank[i] \in 1..N /\ Origin(s, S, rank[i]) = i
    BY <1>6, <1>7, <1>9
<1>11. r \in Seq(T) /\ DOMAIN r = 1..N /\ \A k \in 1..N : r[k] = s[Origin(s, S, k)]
    <2>1. r \in [1..N -> T]
        BY <1>1, <1>2, <1>9
    <2> QED
        BY <1>2, <1>3, <2>1
<1>12. Range(r) = Range(s) \cap S
    <2>1. Range(r) = {r[k] : k \in 1..N} /\ Range(s) = {s[i] : i \in 1..Len(s)}
        BY <1>1, <1>11 DEF Range
    <2>2. Range(r) \subseteq Range(s) \cap S
        BY <1>2, <1>9, <1>11, <2>1
    <2> QED
        BY <1>2, <1>10, <1>11, <2>1, <2>2
<1>13. ASSUME \A i, j \in DOMAIN s : s[i] = s[j] /\ s[i] \in S => i = j PROVE IsInjective(r)
    <2>1. \A k, l \in 1..N : r[k] = r[l] => Origin(s, S, k) = Origin(s, S, l)
        BY <1>1, <1>2, <1>9, <1>11, <1>13
    <2>2. \A k, l \in 1..N : r[k] = r[l] => k = l
        BY <1>9, <2>1
    <2> QED
        BY <1>11, <2>2 DEF IsInjective
<1> QED
    BY <1>11, <1>12, <1>13 DEF r, IsInjective

\* The elements of a sequence after an append.
LEMMA RangeOfAppend ==
    ASSUME NEW T, NEW s \in Seq(T), NEW m \in T
    PROVE  Range(Append(s, m)) = Range(s) \cup {m}
<1>1. Append(s, m) \in Seq(T) /\ Len(Append(s, m)) = Len(s) + 1
    BY AppendProperties
<1>2. /\ \A i \in 1..Len(s) : Append(s, m)[i] = s[i]
      /\ Append(s, m)[Len(s) + 1] = m
    BY AppendProperties
<1>3. Range(s) = {s[i] : i \in 1..Len(s)}
    BY RangeEquality
<1>4. Range(Append(s, m)) = {Append(s, m)[i] : i \in 1..Len(s) + 1}
    BY <1>1, RangeEquality
<1>5. Len(s) \in Nat
    OBVIOUS
<1> QED
    BY <1>2, <1>3, <1>4, <1>5

\* The empty sequence.
LEMMA InjectiveEmpty == Range(<<>>) = {} /\ IsInjective(<<>>)
<1>1. DOMAIN <<>> = {}
    OBVIOUS
<1> QED
    BY <1>1 DEF Range, IsInjective

\* An append keeps the elements pairwise different if the element is new.
LEMMA InjectiveAppend ==
    ASSUME NEW T, NEW s \in Seq(T), NEW m \in T
    PROVE  IsInjective(Append(s, m)) <=> IsInjective(s) /\ m \notin Range(s)
<1> DEFINE u == Append(s, m)
           n == Len(s)
<1>1. /\ n \in Nat /\ DOMAIN s = 1..n /\ DOMAIN u = 1..n + 1
      /\ u[n + 1] = m /\ \A i \in 1..n : u[i] = s[i]
    BY AppendProperties
<1>2. Range(s) = {s[i] : i \in 1..n}
    BY RangeEquality
<1> HIDE DEF u, n
<1>3. /\ \A i \in 1..n : i \in 1..n + 1 /\ i # n + 1
      /\ \A i \in 1..n + 1 : i \in 1..n \/ i = n + 1
      /\ n + 1 \in 1..n + 1
    BY <1>1
<1>4. IsInjective(u) <=> IsInjective(s) /\ m \notin Range(s)
    BY <1>1, <1>2, <1>3 DEF IsInjective
<1> QED
    BY <1>4 DEF u

-----------------------------------------------------------------------------
(* The inductive invariant.                                                *)

\* An object is shared under its own id only.
SharedInv == \A i \in Ids : shared[i] # Nothing => res[shared[i]].id = i

\* A handle shows its shared resource, and only after its load has ended.
ShownInv ==
    phase = "open" =>
        \A i \in Ids : shown[i] # Nothing =>
            i \in managed /\ shown[i] = shared[i] /\ res[shown[i]].state \in {"Loaded", "Failed"}

\* What a reader has published is loaded.
PublishedInv == phase = "open" => \A i \in published : res[shared[i]].state = "Loaded"

\* A loader has a message only for a handle that waits for it in the pending list.
MessageInv ==
    phase = "open" =>
        \A o \in Objects : res[o].msg # "none" =>
            /\ res[o].state = "Pending" /\ o \in Range(pending)
            /\ res[o].id \in managed /\ shared[res[o].id] = o /\ shown[res[o].id] = Nothing

IInv ==
    /\ TypeOK /\ SharedInv /\ ShownInv /\ PublishedInv /\ MessageInv /\ IsInjective(pending)
    /\ CountsAgree /\ PendingTracked /\ DeadIsUnloaded /\ AssertionsHold

-----------------------------------------------------------------------------
(* Pieces of the actions.                                                  *)

\* An unregistered resource loses a use, and with the last one its content.
LEMMA Unregistering ==
    ASSUME TypeOK, SharedInv, NEW S \in SUBSET Ids,
           \A i \in S : shared[i] # Nothing /\ res[shared[i]].useCount > 0,
           NEW r, r = ResAfterUnregister(S), NEW h, h = SharedAfterUnregister(S)
    PROVE  /\ r \in [Objects -> Resource] /\ h \in [Ids -> Objects \cup {Nothing}]
           /\ \A o \in Objects : r[o].id = res[o].id
           /\ \A o \in Objects : (\A i \in S : shared[i] # o) => r[o] = res[o]
           /\ \A i \in Ids \ S : h[i] = shared[i] /\ (shared[i] # Nothing => r[shared[i]] = res[shared[i]])
           /\ \A i \in S : res[shared[i]].useCount = 1 =>
                /\ h[i] = Nothing
                /\ r[shared[i]].state = "Initial" /\ r[shared[i]].msg = "none"
           /\ \A i \in S : res[shared[i]].useCount # 1 =>
                /\ h[i] = shared[i]
                /\ r[shared[i]].useCount = res[shared[i]].useCount - 1
                /\ r[shared[i]].state = res[shared[i]].state /\ r[shared[i]].msg = res[shared[i]].msg
<1>1. \A q \in Resource : q.useCount > 0 =>
        /\ Unregistered(q) \in Resource
        /\ Unregistered(q).id = q.id
        /\ q.useCount = 1 => Unregistered(q).state = "Initial" /\ Unregistered(q).msg = "none"
        /\ q.useCount # 1 => /\ Unregistered(q).useCount = q.useCount - 1
                             /\ Unregistered(q).state = q.state /\ Unregistered(q).msg = q.msg
    <2> SUFFICES ASSUME NEW q \in Resource, q.useCount > 0
                 PROVE  /\ Unregistered(q) \in Resource
                        /\ Unregistered(q).id = q.id
                        /\ q.useCount = 1 => Unregistered(q).state = "Initial" /\ Unregistered(q).msg = "none"
                        /\ q.useCount # 1 => /\ Unregistered(q).useCount = q.useCount - 1
                                             /\ Unregistered(q).state = q.state /\ Unregistered(q).msg = q.msg
        OBVIOUS
    <2>1. Unload(q) \in Resource /\ Unload(q).id = q.id /\ Unload(q).state = "Initial" /\ Unload(q).msg = "none"
        BY DEF Unload, Resource, States
    <2>2. CASE q.useCount = 1
        BY <2>1, <2>2 DEF Unregistered, Resource
    <2>3. CASE q.useCount # 1
        BY <2>3 DEF Unregistered, Resource
    <2> QED
        BY <2>2, <2>3
<1>2. \A i \in S : shared[i] \in Objects /\ res[shared[i]] \in Resource
    BY DEF TypeOK
<1>3. \A o \in Objects : r[o] = IF \E i \in S : shared[i] = o THEN Unregistered(res[o]) ELSE res[o]
    BY DEF ResAfterUnregister
<1>4. \A i \in Ids : h[i] = IF i \in S /\ res[shared[i]].useCount = 1 THEN Nothing ELSE shared[i]
    BY DEF SharedAfterUnregister
<1>5. \A o \in Objects : res[o] \in Resource
    BY DEF TypeOK
<1>6. \A o \in Objects : (\A i \in S : shared[i] # o) => r[o] = res[o]
    BY <1>3
<1>7. \A i \in S : r[shared[i]] = Unregistered(res[shared[i]])
    BY <1>2, <1>3
<1>8. \A o \in Objects : r[o] \in Resource /\ r[o].id = res[o].id
    <2> SUFFICES ASSUME NEW o \in Objects PROVE r[o] \in Resource /\ r[o].id = res[o].id
        OBVIOUS
    <2>1. CASE \E i \in S : shared[i] = o
        BY <1>1, <1>2, <1>7, <2>1
    <2>2. CASE \A i \in S : shared[i] # o
        BY <1>5, <1>6, <2>2
    <2> QED
        BY <2>1, <2>2
<1>9. r \in [Objects -> Resource]
    BY <1>8 DEF ResAfterUnregister
<1>10. h \in [Ids -> Objects \cup {Nothing}]
    BY <1>4 DEF SharedAfterUnregister, TypeOK
<1>11. \A i \in Ids \ S : shared[i] # Nothing => shared[i] \in Objects /\ \A j \in S : shared[j] # shared[i]
    BY DEF TypeOK, SharedInv
<1>12. \A i \in Ids \ S : h[i] = shared[i] /\ (shared[i] # Nothing => r[shared[i]] = res[shared[i]])
    BY <1>4, <1>6, <1>11
<1>13. \A i \in S : res[shared[i]].useCount = 1 =>
        h[i] = Nothing /\ r[shared[i]].state = "Initial" /\ r[shared[i]].msg = "none"
    BY <1>1, <1>2, <1>4, <1>7
<1>14. \A i \in S : res[shared[i]].useCount # 1 =>
        /\ h[i] = shared[i]
        /\ r[shared[i]].useCount = res[shared[i]].useCount - 1
        /\ r[shared[i]].state = res[shared[i]].state /\ r[shared[i]].msg = res[shared[i]].msg
    BY <1>1, <1>2, <1>4, <1>7
<1> QED
    BY ONLY <1>6, <1>8, <1>9, <1>10, <1>12, <1>13, <1>14

\* A new object is nobody's, and so nothing that is loaded or waits.
LEMMA NewObjectIsFree ==
    ASSUME TypeOK, ShownInv, phase = "open", Unreferenced # {}
    PROVE  /\ NewObject \in Objects /\ NewObject # Nothing
           /\ \A i \in Ids : shared[i] # NewObject
           /\ NewObject \notin Range(pending)
<1>1. NewObject \in Unreferenced
    BY DEF NewObject
<1> QED
    BY <1>1, ResourceAssumption DEF Unreferenced, Referenced

LEMMA Initially == Init => IInv
<1> SUFFICES ASSUME Init PROVE IInv
    OBVIOUS
<1>1. Range(pending) = {} /\ IsInjective(pending) /\ pending \in Seq(Objects)
    BY InjectiveEmpty DEF Init
<1>2. TypeOK
    BY <1>1 DEF Init, TypeOK, Resource, States
<1>3. SharedInv /\ ShownInv /\ PublishedInv /\ MessageInv
    BY DEF Init, SharedInv, ShownInv, PublishedInv, MessageInv
<1>4. CountsAgree
    <2>1. Cardinality({}) = 0
        BY FS_EmptySet
    <2> QED
        BY <2>1 DEF Init, CountsAgree
<1>5. PendingTracked
    BY <1>1 DEF Init, PendingTracked
<1>6. DeadIsUnloaded /\ AssertionsHold
    BY DEF Init, DeadIsUnloaded, AssertionsHold
<1> QED
    BY <1>1, <1>2, <1>3, <1>4, <1>5, <1>6 DEF IInv

-----------------------------------------------------------------------------
(* A reader's own objects.                                                 *)

LEMMA InvPublish ==
    ASSUME IInv, NEW i \in Ids, Publish(i)
    PROVE  IInv'
<1> USE DEF IInv
<1> DEFINE n == NewObject
           q == [NewResource(i) EXCEPT !.state = "Loaded"]
<1>1. /\ Running /\ phase = "open" /\ i \in Generated /\ shared[i] = Nothing
      /\ res' = [res EXCEPT ![n] = q] /\ shared' = [shared EXCEPT ![i] = n]
      /\ published' = published \cup {i}
      /\ UNCHANGED <<use, phase, broken, asyncEnabled, managed, clientCount, shown, holders, pending>>
    BY DEF Publish
<1>2. n \in Objects /\ n # Nothing /\ (\A j \in Ids : shared[j] # n) /\ n \notin Range(pending)
    BY <1>1, NewObjectIsFree DEF Publish
<1>3. /\ q \in Resource /\ q.id = i /\ q.state = "Loaded" /\ q.useCount = 1 /\ q.msg = "none"
    BY DEF NewResource, Resource, States
<1>4. i \notin managed /\ i \notin published
    BY <1>1 DEF CountsAgree
<1> HIDE DEF n, q
<1>5. TypeOK'
    BY <1>1, <1>2, <1>3 DEF TypeOK
<1>6. SharedInv'
    BY <1>1, <1>2, <1>3 DEF TypeOK, SharedInv
<1>7. ShownInv'
    BY <1>1, <1>2, <1>4 DEF TypeOK, ShownInv
<1>8. PublishedInv'
    <2>1. \A j \in published : j \in Ids /\ shared[j] # Nothing /\ shared[j] \in Objects
        BY <1>1 DEF TypeOK, CountsAgree, Ids
    <2> QED
        BY <1>1, <1>2, <1>3, <2>1 DEF TypeOK, PublishedInv
<1>9. MessageInv'
    BY <1>1, <1>2, <1>3, <1>4 DEF TypeOK, MessageInv
<1>10. CountsAgree'
    <2>1. \A j \in Ids : j # i => shared'[j] = shared[j] /\ (shared[j] # Nothing => res'[shared[j]] = res[shared[j]])
        BY <1>1, <1>2 DEF TypeOK
    <2>2. shared'[i] = n /\ res'[n] = q
        BY <1>1, <1>2 DEF TypeOK
    <2> QED
        BY <1>1, <1>2, <1>3, <1>4, <2>1, <2>2 DEF CountsAgree
<1>11. PendingTracked'
    <2>1. Range(pending) \subseteq Objects
        BY RangeOfSeq DEF TypeOK
    <2> QED
        BY <1>1, <1>2, <1>4, <2>1 DEF TypeOK, PendingTracked
<1>12. DeadIsUnloaded'
    <2> SUFFICES ASSUME NEW p \in Objects, ~Referenced(p)'
                 PROVE  res'[p].state \notin {"Loaded", "Pending"} /\ res'[p].msg = "none"
        BY DEF DeadIsUnloaded
    <2>1. shared'[i] = n /\ (\A j \in Ids : j # i => shared'[j] = shared[j]) /\ p # Nothing
        BY <1>1, ResourceAssumption DEF TypeOK
    <2>2. p # n /\ ~Referenced(p)
        BY <1>1, <2>1 DEF Referenced
    <2>3. res'[p] = res[p]
        BY <1>1, <1>2, <2>2 DEF TypeOK
    <2> QED
        BY <2>2, <2>3 DEF DeadIsUnloaded
<1> QED
    BY <1>1, <1>5, <1>6, <1>7, <1>8, <1>9, <1>10, <1>11, <1>12 DEF AssertionsHold

LEMMA InvWithdraw ==
    ASSUME IInv, NEW i \in Ids, Withdraw(i)
    PROVE  IInv'
<1> USE DEF IInv
<1>1. /\ Running /\ phase = "open" /\ i \in published
      /\ published' = published \ {i}
      /\ UNCHANGED <<use, phase, broken, asyncEnabled, managed, clientCount, shown, holders, pending>>
    BY DEF Withdraw
<1>2. /\ shared[i] \in Objects /\ shared[i] # Nothing /\ res[shared[i]].useCount = (IF i \in managed THEN 2 ELSE 1)
      /\ res[shared[i]].state = "Loaded"
    BY <1>1 DEF CountsAgree, PublishedInv, TypeOK
<1>3. /\ res' \in [Objects -> Resource] /\ shared' \in [Ids -> Objects \cup {Nothing}]
      /\ \A p \in Objects : res'[p].id = res[p].id
      /\ \A p \in Objects : p # shared[i] => res'[p] = res[p]
      /\ \A j \in Ids \ {i} : shared'[j] = shared[j]
      /\ \A j \in Ids \ {i} : shared[j] # Nothing => shared[j] # shared[i] /\ res'[shared[j]] = res[shared[j]]
      /\ i \notin managed => shared'[i] = Nothing /\ res'[shared[i]].state = "Initial" /\ res'[shared[i]].msg = "none"
      /\ i \in managed => /\ shared'[i] = shared[i] /\ res'[shared[i]].useCount = 1
                          /\ res'[shared[i]].state = res[shared[i]].state /\ res'[shared[i]].msg = res[shared[i]].msg
    <2>1. {i} \in SUBSET Ids /\ \A j \in {i} : shared[j] # Nothing /\ res[shared[j]].useCount > 0
        BY <1>2
    <2>2. \A j \in Ids \ {i} : shared[j] # Nothing => shared[j] # shared[i]
        BY <1>2 DEF SharedInv
    <2> HIDE DEF IInv
    <2>3. TypeOK /\ SharedInv
        BY DEF IInv
    <2>4. res' = ResAfterUnregister({i}) /\ shared' = SharedAfterUnregister({i})
        BY DEF Withdraw
    <2> QED
        BY <1>1, <1>2, <2>1, <2>2, <2>3, <2>4, Unregistering
<1>4. TypeOK'
    BY <1>1, <1>3 DEF TypeOK
<1>5. SharedInv'
    BY <1>1, <1>2, <1>3 DEF TypeOK, SharedInv
<1>6. ShownInv'
    BY <1>1, <1>2, <1>3 DEF TypeOK, ShownInv
<1>7. PublishedInv'
    <2>1. \A j \in published : j \in Ids /\ shared[j] # Nothing
        BY <1>1 DEF TypeOK, CountsAgree, Ids
    <2> QED
        BY <1>1, <1>2, <1>3, <2>1 DEF TypeOK, PublishedInv
<1>8. MessageInv'
    <2>1. res[shared[i]].msg = "none"
        BY <1>1, <1>2 DEF MessageInv
    <2> QED
        BY <1>1, <1>2, <1>3, <2>1 DEF TypeOK, MessageInv
<1>9. CountsAgree'
    BY <1>1, <1>2, <1>3 DEF CountsAgree
<1>10. PendingTracked'
    <2>1. Range(pending) \subseteq Objects
        BY RangeOfSeq DEF TypeOK
    <2>2. i \in managed \/ i \notin managed
        OBVIOUS
    <2>3. \A j \in managed : j \in Ids /\ shared'[j] = shared[j]
        BY <1>3 DEF TypeOK
    <2> QED
        BY <1>1, <1>2, <1>3, <2>1, <2>3 DEF PendingTracked
<1>11. DeadIsUnloaded'
    BY <1>1, <1>2, <1>3 DEF TypeOK, DeadIsUnloaded, Referenced
<1> QED
    BY <1>1, <1>4, <1>5, <1>6, <1>7, <1>8, <1>9, <1>10, <1>11 DEF AssertionsHold

-----------------------------------------------------------------------------
(* Handles.                                                                *)

LEMMA InvCreateAgain ==
    ASSUME IInv, NEW c \in Clients, NEW i \in Ids, CreateAgain(c, i)
    PROVE  IInv'
<1> USE DEF IInv
<1>1. /\ Running /\ phase = "open" /\ i \in managed /\ c \in Clients \ holders[i]
      /\ clientCount' = [clientCount EXCEPT ![i] = @ + 1]
      /\ holders' = [holders EXCEPT ![i] = @ \cup {c}]
      /\ UNCHANGED <<use, phase, broken, asyncEnabled, managed, shown, pending, shared, published, res>>
    BY DEF CreateAgain
<1>2. /\ holders[i] \subseteq Clients /\ IsFiniteSet(holders[i]) /\ clientCount[i] \in Nat
      /\ clientCount[i] = Cardinality(holders[i]) /\ clientCount[i] > 0
    BY <1>1, FS_Subset, ResourceAssumption DEF TypeOK, CountsAgree
<1>3. Cardinality(holders[i] \cup {c}) = clientCount[i] + 1
    BY <1>1, <1>2, FS_AddElement
<1>4. TypeOK'
    BY <1>1, <1>2 DEF TypeOK
<1>5. SharedInv' /\ ShownInv' /\ PublishedInv' /\ MessageInv' /\ IsInjective(pending)' /\ AssertionsHold'
    BY <1>1 DEF SharedInv, ShownInv, PublishedInv, MessageInv, AssertionsHold
<1>6. CountsAgree'
    <2>1. clientCount'[i] = Cardinality(holders'[i]) /\ clientCount'[i] > 0
        BY <1>1, <1>2, <1>3 DEF TypeOK
    <2>2. \A j \in Ids : j # i => clientCount'[j] = clientCount[j] /\ holders'[j] = holders[j]
        BY <1>1 DEF TypeOK
    <2> QED
        BY <1>1, <1>2, <2>1, <2>2 DEF CountsAgree
<1>7. PendingTracked'
    BY <1>1 DEF PendingTracked
<1>8. DeadIsUnloaded'
    <2>1. \A j \in Ids : clientCount[j] > 0 => clientCount'[j] > 0
        BY <1>1, <1>2 DEF TypeOK
    <2> QED
        BY <1>1, <2>1 DEF DeadIsUnloaded, Referenced
<1> QED
    BY <1>4, <1>5, <1>6, <1>7, <1>8

LEMMA InvDiscardOne ==
    ASSUME IInv, NEW c \in Clients, NEW i \in Ids, DiscardOne(c, i)
    PROVE  IInv'
<1> USE DEF IInv
<1>1. /\ Running /\ phase = "open" /\ c \in holders[i] /\ clientCount[i] > 1
      /\ clientCount' = [clientCount EXCEPT ![i] = @ - 1]
      /\ holders' = [holders EXCEPT ![i] = @ \ {c}]
      /\ UNCHANGED <<use, phase, broken, asyncEnabled, managed, shown, pending, shared, published, res>>
    BY DEF DiscardOne
<1>2. /\ holders[i] \subseteq Clients /\ IsFiniteSet(holders[i]) /\ clientCount[i] \in Nat
      /\ clientCount[i] = Cardinality(holders[i]) /\ i \in managed
    BY <1>1, FS_Subset, ResourceAssumption DEF TypeOK, CountsAgree
<1>3. Cardinality(holders[i] \ {c}) = clientCount[i] - 1
    BY <1>1, <1>2, FS_RemoveElement
<1>4. TypeOK'
    BY <1>1, <1>2 DEF TypeOK
<1>5. SharedInv' /\ ShownInv' /\ PublishedInv' /\ MessageInv' /\ IsInjective(pending)' /\ AssertionsHold'
    BY <1>1 DEF SharedInv, ShownInv, PublishedInv, MessageInv, AssertionsHold
<1>6. CountsAgree'
    <2>1. clientCount'[i] = Cardinality(holders'[i]) /\ clientCount'[i] > 0
        BY <1>1, <1>2, <1>3 DEF TypeOK
    <2>2. \A j \in Ids : j # i => clientCount'[j] = clientCount[j] /\ holders'[j] = holders[j]
        BY <1>1 DEF TypeOK
    <2> QED
        BY <1>1, <1>2, <2>1, <2>2 DEF CountsAgree
<1>7. PendingTracked'
    BY <1>1 DEF PendingTracked
<1>8. DeadIsUnloaded'
    <2>1. \A j \in Ids : clientCount[j] > 0 => clientCount'[j] > 0
        BY <1>1, <1>2 DEF TypeOK
    <2> QED
        BY <1>1, <2>1 DEF DeadIsUnloaded, Referenced
<1> QED
    BY <1>4, <1>5, <1>6, <1>7, <1>8

\* Both ways to make a handle: what they leave to be shown.
LEMMA Creating ==
    ASSUME IInv, NEW c \in Clients, NEW i \in Ids, CreateManaged(c, i)
    PROVE  \E o \in Objects, q \in Resource :
            /\ res' = [res EXCEPT ![o] = q] /\ shared' = [shared EXCEPT ![i] = o]
            /\ shown' = [shown EXCEPT ![i] = IF q.state = "Pending" THEN Nothing ELSE o]
            /\ pending' = IF q.state = "Pending" THEN Append(pending, o) ELSE pending
            /\ q.id = i /\ q.useCount = (IF i \in published THEN 2 ELSE 1) /\ broken' = "none"
            /\ q.state \in {"Loaded", "Failed", "Pending"} /\ (i \in published => q.state = "Loaded")
            /\ q.state = "Pending" <=> q.msg # "none"
            /\ \A j \in Ids : j # i => shared[j] # o
            /\ i \notin published => o \notin Range(pending)
            /\ i \notin published => \A j \in Ids : shared[j] # o
            /\ i \in published => shared[i] = o /\ res[o].state = "Loaded" /\ res[o].msg = "none"
            /\ i \notin published => i \in Files /\ (q.state = "Pending" <=> asyncEnabled)
<1> USE DEF IInv
<1>1. /\ Running /\ phase = "open" /\ i \notin managed
      /\ managed' = managed \cup {i}
      /\ clientCount' = [clientCount EXCEPT ![i] = 1]
      /\ holders' = [holders EXCEPT ![i] = {c}]
      /\ UNCHANGED <<use, phase, asyncEnabled, published>>
    BY DEF CreateManaged
<1>2. /\ clientCount[i] = 0 /\ shown[i] = Nothing
      /\ shared[i] # Nothing => i \in published /\ res[shared[i]].useCount = 1 /\ shared[i] \in Objects
      /\ shared[i] = Nothing => i \notin published
    BY <1>1 DEF CountsAgree, TypeOK, ShownInv
<1>3. CASE AdoptShared(i)
    <2> DEFINE o == shared[i]
               q == [res[o] EXCEPT !.useCount = @ + 1]
    <2>1. /\ i \in published /\ o \in Objects /\ o # Nothing /\ res[o].useCount = 1
          /\ res[o].state = "Loaded" /\ res[o] \in Resource /\ res[o].id = i
          /\ \A j \in Ids : j # i => shared[j] # o
        BY <1>1, <1>2, <1>3 DEF AdoptShared, PublishedInv, SharedInv, TypeOK
    <2>2. res[o].msg = "none"
        BY <1>1, <2>1 DEF MessageInv
    <2>3. /\ q \in Resource /\ q.id = i /\ q.useCount = 2 /\ q.state = "Loaded" /\ q.msg = "none"
        BY <2>1, <2>2 DEF Resource
    <2>4. /\ res' = [res EXCEPT ![o] = q] /\ shared' = shared
          /\ shown' = [shown EXCEPT ![i] = IF q.state = "Pending" THEN Nothing ELSE o]
          /\ pending' = IF q.state = "Pending" THEN Append(pending, o) ELSE pending
          /\ broken' = "none"
        BY <1>3, <2>1 DEF AdoptShared, Adopt
    <2>5. [shared EXCEPT ![i] = o] = shared
        BY DEF TypeOK
    <2> HIDE DEF q, o
    <2>6. shared[i] = o
        BY DEF o
    <2> QED
        BY <2>1, <2>2, <2>3, <2>4, <2>5, <2>6
<1>4. CASE LoadNew(i)
    <2> DEFINE o == NewObject
    <2>1. /\ shared[i] = Nothing /\ Unreferenced # {} /\ i \notin published /\ i \in Files
          /\ shared' = [shared EXCEPT ![i] = o] /\ UNCHANGED broken
        BY <1>2, <1>4, ResourceAssumption DEF LoadNew, TypeOK
    <2>2. PICK q \in Requested(NewResource(i)) : Adopt(i, o, q)
        BY <1>4 DEF LoadNew
    <2>3. /\ q \in Resource /\ q.id = i /\ q.useCount = 1 /\ q.state \in {"Loaded", "Failed", "Pending"}
          /\ (q.state = "Pending" <=> q.msg # "none") /\ (q.state = "Pending" <=> asyncEnabled)
        <3> DEFINE r == NewResource(i)
        <3>1. r \in Resource /\ r.id = i /\ r.useCount = 1 /\ r.msg = "none"
            BY DEF NewResource, Resource, States
        <3> HIDE DEF r
        <3>2. ASSUME q = [r EXCEPT !.state = "Pending", !.msg = "sent"]
              PROVE  /\ q \in Resource /\ q.id = i /\ q.useCount = 1
                     /\ q.state = "Pending" /\ q.msg = "sent"
            BY <3>1, <3>2 DEF Resource, States
        <3>3. ASSUME NEW s \in {"Loaded", "Failed"}, q = [r EXCEPT !.state = s]
              PROVE  /\ q \in Resource /\ q.id = i /\ q.useCount = 1
                     /\ q.state \in {"Loaded", "Failed"} /\ q.msg = "none"
            BY <3>1, <3>3 DEF Resource, States
        <3>4. \/ asyncEnabled /\ q = [r EXCEPT !.state = "Pending", !.msg = "sent"]
              \/ ~asyncEnabled /\ \E s \in {"Loaded", "Failed"} : q = [r EXCEPT !.state = s]
            BY <2>2 DEF Requested, r
        <3> QED
            BY <3>2, <3>3, <3>4
    <2>4. o \in Objects /\ (\A j \in Ids : shared[j] # o) /\ o \notin Range(pending)
        BY <1>1, <2>1, NewObjectIsFree
    <2>5. /\ res' = [res EXCEPT ![o] = q]
          /\ shown' = [shown EXCEPT ![i] = IF q.state = "Pending" THEN Nothing ELSE o]
          /\ pending' = IF q.state = "Pending" THEN Append(pending, o) ELSE pending
        BY <2>2 DEF Adopt
    <2>6. broken' = "none"
        BY <1>1, <2>1 DEF Running
    <2> HIDE DEF o
    <2> QED
        BY <2>1, <2>3, <2>4, <2>5, <2>6
<1> QED
    BY <1>3, <1>4 DEF CreateManaged

LEMMA InvCreateManaged ==
    ASSUME IInv, NEW c \in Clients, NEW i \in Ids, CreateManaged(c, i)
    PROVE  IInv'
<1> USE DEF IInv
<1>1. /\ Running /\ phase = "open" /\ i \notin managed
      /\ managed' = managed \cup {i}
      /\ clientCount' = [clientCount EXCEPT ![i] = 1]
      /\ holders' = [holders EXCEPT ![i] = {c}]
      /\ UNCHANGED <<use, phase, asyncEnabled, published>>
    BY DEF CreateManaged
<1>2. /\ clientCount[i] = 0 /\ shown[i] = Nothing
      /\ shared[i] # Nothing => i \in published /\ res[shared[i]].useCount = 1 /\ shared[i] \in Objects
      /\ shared[i] = Nothing => i \notin published
    BY <1>1 DEF CountsAgree, TypeOK, ShownInv
<1>3. /\ clientCount' \in [Ids -> Nat] /\ holders' \in [Ids -> SUBSET Clients] /\ managed' \in SUBSET Ids
      /\ clientCount'[i] = 1 /\ holders'[i] = {c}
      /\ \A j \in Ids : j # i => clientCount'[j] = clientCount[j] /\ holders'[j] = holders[j]
    BY <1>1 DEF TypeOK
<1>4. Cardinality({c}) = 1
    BY FS_Singleton
<1>5. PICK o \in Objects, q \in Resource :
        /\ res' = [res EXCEPT ![o] = q] /\ shared' = [shared EXCEPT ![i] = o]
        /\ shown' = [shown EXCEPT ![i] = IF q.state = "Pending" THEN Nothing ELSE o]
        /\ pending' = IF q.state = "Pending" THEN Append(pending, o) ELSE pending
        /\ q.id = i /\ q.useCount = (IF i \in published THEN 2 ELSE 1) /\ broken' = "none"
        /\ q.state \in {"Loaded", "Failed", "Pending"} /\ (i \in published => q.state = "Loaded")
        /\ q.state = "Pending" <=> q.msg # "none"
        /\ \A j \in Ids : j # i => shared[j] # o
        /\ i \notin published => o \notin Range(pending)
        /\ i \notin published => \A j \in Ids : shared[j] # o
        /\ i \in published => shared[i] = o /\ res[o].state = "Loaded" /\ res[o].msg = "none"
    BY Creating
<1>6. /\ res'[o] = q /\ \A p \in Objects : p # o => res'[p] = res[p]
      /\ shared'[i] = o /\ \A j \in Ids : j # i => shared'[j] = shared[j]
      /\ shown'[i] = (IF q.state = "Pending" THEN Nothing ELSE o)
      /\ \A j \in Ids : j # i => shown'[j] = shown[j]
      /\ o # Nothing
    BY <1>5, ResourceAssumption DEF TypeOK
<1>7. /\ pending' \in Seq(Objects) /\ IsInjective(pending')
      /\ Range(pending') = Range(pending) \cup (IF q.state = "Pending" THEN {o} ELSE {})
    <2>1. pending \in Seq(Objects) /\ IsInjective(pending)
        BY DEF TypeOK
    <2>2. CASE q.state = "Pending"
        <3>1. pending' = Append(pending, o) /\ o \notin Range(pending)
            BY <1>5, <2>2
        <3>2. Append(pending, o) \in Seq(Objects)
            BY <2>1, AppendProperties
        <3> QED
            BY <2>1, <2>2, <3>1, <3>2, RangeOfAppend, InjectiveAppend
    <2>3. CASE q.state # "Pending"
        BY <1>5, <2>1, <2>3
    <2> QED
        BY <2>2, <2>3
<1>8. /\ res' \in [Objects -> Resource] /\ shared' \in [Ids -> Objects \cup {Nothing}]
      /\ shown' \in [Ids -> Objects \cup {Nothing}]
    BY <1>5 DEF TypeOK
<1>9. TypeOK'
    BY <1>1, <1>3, <1>5, <1>7, <1>8 DEF TypeOK
<1>10. SharedInv'
    BY <1>5, <1>6 DEF SharedInv, TypeOK
<1>11. ShownInv'
    BY <1>1, <1>5, <1>6 DEF ShownInv, TypeOK
<1>12. PublishedInv'
    <2>1. \A j \in published : j \in Ids /\ shared[j] # Nothing /\ shared[j] \in Objects
        BY <1>1 DEF TypeOK, CountsAgree, Ids
    <2> QED
        BY <1>1, <1>5, <1>6, <2>1 DEF PublishedInv
<1>13. MessageInv'
    BY <1>1, <1>5, <1>6, <1>7 DEF MessageInv, TypeOK
<1>14. CountsAgree'
    <2>1. \A j \in Ids : (j # i /\ shared[j] # Nothing) => res'[shared[j]] = res[shared[j]]
        BY <1>5, <1>6 DEF TypeOK
    <2> QED
        BY <1>1, <1>3, <1>4, <1>5, <1>6, <2>1 DEF CountsAgree
<1>15. PendingTracked'
    <2> SUFFICES ASSUME use.patient
                 PROVE  /\ \A j, k \in 1..Len(pending') : pending'[j] = pending'[k] => j = k
                        /\ Range(pending') = {shared'[j] : j \in {k \in managed' : shown'[k] = Nothing}}
                        /\ \A p \in Range(pending') : res'[p].state = "Pending" /\ res'[p].msg # "none"
        BY <1>1 DEF PendingTracked
    <2>1. /\ Range(pending) = {shared[j] : j \in {k \in managed : shown[k] = Nothing}}
          /\ \A p \in Range(pending) : res[p].state = "Pending" /\ res[p].msg # "none"
        BY <1>1 DEF PendingTracked
    <2>2. DOMAIN pending' = 1..Len(pending')
        BY <1>7
    <2>3. Range(pending) \subseteq Objects
        BY RangeOfSeq DEF TypeOK
    <2>4. o \notin Range(pending)
        BY <1>5, <2>1
    <2>5. {shared'[j] : j \in {k \in managed' : shown'[k] = Nothing}} =
            {shared[j] : j \in {k \in managed : shown[k] = Nothing}} \cup (IF q.state = "Pending" THEN {o} ELSE {})
        BY <1>1, <1>6 DEF TypeOK
    <2>6. \A p \in Range(pending') : res'[p].state = "Pending" /\ res'[p].msg # "none"
        BY <1>5, <1>6, <1>7, <2>1, <2>3, <2>4
    <2> QED
        BY <1>7, <2>1, <2>2, <2>5, <2>6 DEF IsInjective
<1>16. DeadIsUnloaded'
    <2> SUFFICES ASSUME NEW p \in Objects, ~Referenced(p)'
                 PROVE  res'[p].state \notin {"Loaded", "Pending"} /\ res'[p].msg = "none"
        BY DEF DeadIsUnloaded
    <2>1. p # o
        BY <1>6 DEF Referenced
    <2>2. ~Referenced(p)
        <3>1. \A j \in Ids : shared[j] = p => shared'[j] = p
            BY <1>2, <1>5, <1>6, <2>1, ResourceAssumption
        <3> QED
            BY <1>2, <1>3, <1>6, <1>7, <3>1 DEF Referenced
    <2> QED
        BY <1>6, <2>1, <2>2 DEF DeadIsUnloaded
<1> QED
    BY <1>5, <1>7, <1>9, <1>10, <1>11, <1>12, <1>13, <1>14, <1>15, <1>16 DEF AssertionsHold

LEMMA InvDiscardLast ==
    ASSUME IInv, NEW c \in Clients, NEW i \in Ids, DiscardLast(c, i)
    PROVE  IInv'
<1> USE DEF IInv
<1> DEFINE U == {o \in Objects : ~(o = shown[i] /\ res'[o].state = "Loaded")}
<1>1. /\ Running /\ phase = "open" /\ clientCount[i] = 1 /\ WaitsForLoad(i)
      /\ pending' = Select(pending, U)
      /\ managed' = managed \ {i}
      /\ clientCount' = [clientCount EXCEPT ![i] = 0]
      /\ holders' = [holders EXCEPT ![i] = {}]
      /\ shown' = [shown EXCEPT ![i] = Nothing]
      /\ UNCHANGED <<use, phase, broken, asyncEnabled, published>>
    BY DEF DiscardLast, PendingAfterDiscard
<1>2. /\ i \in managed /\ shared[i] \in Objects /\ shared[i] # Nothing
      /\ res[shared[i]].useCount = (IF i \in published THEN 2 ELSE 1)
    BY <1>1 DEF CountsAgree, TypeOK
<1>3. /\ res' \in [Objects -> Resource] /\ shared' \in [Ids -> Objects \cup {Nothing}]
      /\ \A p \in Objects : res'[p].id = res[p].id
      /\ \A p \in Objects : p # shared[i] => res'[p] = res[p]
      /\ \A j \in Ids \ {i} : shared'[j] = shared[j]
      /\ \A j \in Ids \ {i} : shared[j] # Nothing => shared[j] # shared[i] /\ res'[shared[j]] = res[shared[j]]
      /\ i \notin published => /\ shared'[i] = Nothing
                               /\ res'[shared[i]].state = "Initial" /\ res'[shared[i]].msg = "none"
      /\ i \in published => /\ shared'[i] = shared[i] /\ res'[shared[i]].useCount = 1
                            /\ res'[shared[i]].state = res[shared[i]].state
                            /\ res'[shared[i]].msg = res[shared[i]].msg
    <2>1. {i} \in SUBSET Ids /\ \A j \in {i} : shared[j] # Nothing /\ res[shared[j]].useCount > 0
        BY <1>2
    <2>2. \A j \in Ids \ {i} : shared[j] # Nothing => shared[j] # shared[i]
        BY <1>2 DEF SharedInv
    <2> HIDE DEF IInv
    <2>3. TypeOK /\ SharedInv
        BY DEF IInv
    <2>4. res' = ResAfterUnregister({i}) /\ shared' = SharedAfterUnregister({i})
        BY DEF DiscardLast
    <2> QED
        BY <1>2, <2>1, <2>2, <2>3, <2>4, Unregistering
<1>4. /\ clientCount' \in [Ids -> Nat] /\ holders' \in [Ids -> SUBSET Clients] /\ managed' \in SUBSET Ids
      /\ shown' \in [Ids -> Objects \cup {Nothing}]
      /\ clientCount'[i] = 0 /\ holders'[i] = {} /\ shown'[i] = Nothing
      /\ \A j \in Ids : j # i =>
            clientCount'[j] = clientCount[j] /\ holders'[j] = holders[j] /\ shown'[j] = shown[j]
    BY <1>1 DEF TypeOK
<1>5. pending \in Seq(Objects) /\ Range(pending) \subseteq Objects
    BY RangeOfSeq DEF TypeOK
<1>6. /\ pending' \in Seq(Objects) /\ IsInjective(pending') /\ Range(pending') = Range(pending) \cap U
    <2> HIDE DEF U
    <2> QED
        BY <1>1, <1>5, SelectRange
<1>7. res[shared[i]].msg # "none" => shared[i] \in Range(pending) /\ shown[i] = Nothing
    BY <1>1, <1>2 DEF MessageInv, SharedInv
<1>8. shown[i] # Nothing => shown[i] = shared[i]
    BY <1>1 DEF ShownInv
<1>9. \A p \in Range(pending) : p # shared[i] => p \in Range(pending')
    BY <1>5, <1>6, <1>8, ResourceAssumption
<1>10. TypeOK'
    BY <1>1, <1>3, <1>4, <1>6 DEF TypeOK
<1>11. SharedInv'
    BY <1>2, <1>3 DEF SharedInv, TypeOK
<1>12. ShownInv'
    BY <1>1, <1>2, <1>3, <1>4 DEF ShownInv, TypeOK
<1>13. PublishedInv'
    <2>1. \A j \in published : j \in Ids /\ shared[j] # Nothing
        BY <1>1 DEF TypeOK, CountsAgree, Ids
    <2> QED
        BY <1>1, <1>2, <1>3, <2>1 DEF PublishedInv
<1>14. res'[shared[i]].msg = "none"
    <2>1. i \in published => res[shared[i]].state = "Loaded"
        BY <1>1 DEF PublishedInv
    <2>2. i \in published => res[shared[i]].msg = "none"
        BY <1>1, <1>2, <2>1 DEF MessageInv
    <2> QED
        BY <1>3, <2>2
<1>15. MessageInv'
    <2> SUFFICES ASSUME NEW p \in Objects, res'[p].msg # "none"
                 PROVE  /\ res'[p].state = "Pending" /\ p \in Range(pending')
                        /\ res'[p].id \in managed' /\ shared'[res'[p].id] = p /\ shown'[res'[p].id] = Nothing
        BY DEF MessageInv
    <2>1. p # shared[i] /\ res'[p] = res[p]
        BY <1>3, <1>14
    <2>2. /\ res[p].state = "Pending" /\ p \in Range(pending)
          /\ res[p].id \in managed /\ shared[res[p].id] = p /\ shown[res[p].id] = Nothing
        BY <1>1, <2>1 DEF MessageInv
    <2>3. res[p].id \in Ids \ {i}
        BY <2>1, <2>2 DEF TypeOK
    <2> QED
        BY <1>1, <1>3, <1>4, <1>9, <2>1, <2>2, <2>3
<1>16. CountsAgree'
    <2>1. Cardinality({}) = 0
        BY FS_EmptySet
    <2> QED
        BY <1>1, <1>2, <1>3, <1>4, <2>1 DEF CountsAgree
<1>17. PendingTracked'
    <2> SUFFICES ASSUME use.patient
                 PROVE  /\ \A j, k \in 1..Len(pending') : pending'[j] = pending'[k] => j = k
                        /\ Range(pending') = {shared'[j] : j \in {k \in managed' : shown'[k] = Nothing}}
                        /\ \A p \in Range(pending') : res'[p].state = "Pending" /\ res'[p].msg # "none"
        BY <1>1 DEF PendingTracked
    <2>1. /\ Range(pending) = {shared[j] : j \in {k \in managed : shown[k] = Nothing}}
          /\ \A p \in Range(pending) : res[p].state = "Pending" /\ res[p].msg # "none"
        BY <1>1 DEF PendingTracked
    <2>2. shown[i] # Nothing
        BY <1>1 DEF WaitsForLoad
    <2>3. shared[i] \notin Range(pending)
        <3>1. res[shared[i]].state \in {"Loaded", "Failed"}
            BY <1>1, <1>8, <2>2 DEF ShownInv
        <3> QED
            BY <2>1, <3>1
    <2>4. Range(pending') = Range(pending)
        BY <1>6, <1>9, <2>3
    <2>5. DOMAIN pending' = 1..Len(pending')
        BY <1>6
    <2>6. {shared'[j] : j \in {k \in managed' : shown'[k] = Nothing}} =
            {shared[j] : j \in {k \in managed : shown[k] = Nothing}}
        BY <1>1, <1>3, <1>4, <2>2 DEF TypeOK
    <2>7. \A p \in Range(pending') : res'[p].state = "Pending" /\ res'[p].msg # "none"
        BY <1>3, <1>5, <2>1, <2>3, <2>4
    <2> QED
        BY <1>6, <2>1, <2>4, <2>5, <2>6, <2>7 DEF IsInjective
<1>18. DeadIsUnloaded'
    <2> SUFFICES ASSUME NEW p \in Objects, ~Referenced(p)'
                 PROVE  res'[p].state \notin {"Loaded", "Pending"} /\ res'[p].msg = "none"
        BY DEF DeadIsUnloaded
    <2>1. CASE p = shared[i]
        <3>1. i \notin published
            BY <1>3, <2>1 DEF Referenced
        <3> QED
            BY <1>3, <2>1, <3>1
    <2>2. CASE p # shared[i]
        <3>1. ~Referenced(p)
            BY <1>3, <1>4, <1>8, <1>9, <2>2, ResourceAssumption DEF Referenced
        <3> QED
            BY <1>3, <2>2, <3>1 DEF DeadIsUnloaded
    <2> QED
        BY <2>1, <2>2
<1> QED
    BY <1>1, <1>6, <1>10, <1>11, <1>12, <1>13, <1>15, <1>16, <1>17, <1>18 DEF AssertionsHold

-----------------------------------------------------------------------------
(* The frame, the IO thread and the shutdown.                              *)

LEMMA InvPrepareBreaks ==
    ASSUME IInv, PrepareBreaks
    PROVE  IInv'
<1> USE DEF IInv
<1>1. /\ phase = "open" /\ broken' = "OnPrepare"
      /\ UNCHANGED <<use, phase, asyncEnabled, managed, clientCount, shown, holders,
                     pending, shared, published, res>>
    BY DEF PrepareBreaks
<1>2. ~use.patient
    <2>1. PICK k \in 1..Len(pending) : res[pending[k]].state # "Pending"
        BY DEF PrepareBreaks, Looked
    <2>2. pending[k] \in Range(pending)
        BY <2>1, RangeEquality DEF TypeOK
    <2> QED
        BY <1>1, <2>1, <2>2 DEF PendingTracked
<1> QED
    BY <1>1, <1>2 DEF TypeOK, SharedInv, ShownInv, PublishedInv, MessageInv, CountsAgree,
        PendingTracked, DeadIsUnloaded, Referenced, AssertionsHold

\* What has finished is what its handle waits for.
LEMMA DoneProperties ==
    ASSUME IInv, phase = "open"
    PROVE  /\ \A o \in Done :
                /\ o \in Objects /\ o \in Range(pending) /\ res[o].msg \in {"ok", "bad"}
                /\ res[o].id \in managed /\ shared[res[o].id] = o /\ shown[res[o].id] = Nothing
           /\ \A i \in Ids : DoneFor(i) = IF i \in managed /\ shared[i] \in Done THEN {shared[i]} ELSE {}
<1> USE DEF IInv
<1>1. pending \in Seq(Objects) /\ Range(pending) \subseteq Objects
    BY RangeOfSeq DEF TypeOK
<1>2. ASSUME NEW o \in Done
      PROVE  /\ o \in Objects /\ o \in Range(pending) /\ res[o].msg \in {"ok", "bad"}
             /\ res[o].id \in managed /\ shared[res[o].id] = o /\ shown[res[o].id] = Nothing
    <2>1. PICK k \in 1..Len(pending) : o = pending[k] /\ res[pending[k]].msg \in {"ok", "bad"}
        BY DEF Done, FinishedNow, Finishing
    <2>2. o \in Range(pending) /\ o \in Objects
        BY <1>1, <2>1, RangeEquality
    <2> QED
        BY <2>1, <2>2 DEF MessageInv
<1>3. ASSUME NEW i \in Ids
      PROVE  DoneFor(i) = IF i \in managed /\ shared[i] \in Done THEN {shared[i]} ELSE {}
    <2>1. i \in managed => shared[i] # Nothing /\ res[shared[i]].id = i
        BY DEF SharedInv, CountsAgree
    <2>2. \A o \in DoneFor(i) : o \in Done /\ i \in managed /\ o = shared[i]
        BY <1>2 DEF DoneFor
    <2>3. i \in managed /\ shared[i] \in Done => shared[i] \in DoneFor(i)
        BY <2>1 DEF DoneFor
    <2> QED
        BY <2>2, <2>3
<1> QED
    BY <1>2, <1>3

LEMMA InvPrepare ==
    ASSUME IInv, Prepare
    PROVE  IInv'
<1> USE DEF IInv
<1>1. /\ Running /\ phase = "open"
      /\ \A o \in Objects : res'[o] = IF o \in Done THEN Polled(res[o]) ELSE res[o]
      /\ res' = [o \in Objects |-> res'[o]]
      /\ pending' = Select(pending, Objects \ Done)
      /\ UNCHANGED <<use, phase, broken, asyncEnabled, managed, clientCount, holders, shared, published>>
    BY DEF Prepare
<1>2. /\ \A o \in Done :
            /\ o \in Objects /\ o \in Range(pending) /\ res[o].msg \in {"ok", "bad"}
            /\ res[o].id \in managed /\ shared[res[o].id] = o /\ shown[res[o].id] = Nothing
    BY <1>1, DoneProperties
<1>3. /\ \A i \in Ids : shown'[i] = IF i \in managed /\ shared[i] \in Done THEN shared[i] ELSE shown[i]
      /\ shown' \in [Ids -> Objects \cup {Nothing}]
    <2>1. /\ shown' = [i \in Ids |-> IF DoneFor(i) = {} THEN shown[i] ELSE CHOOSE o \in DoneFor(i) : TRUE]
          /\ \A i \in Ids : DoneFor(i) = IF i \in managed /\ shared[i] \in Done THEN {shared[i]} ELSE {}
        BY <1>1, DoneProperties DEF Prepare
    <2>2. \A i \in Ids : shown'[i] = IF i \in managed /\ shared[i] \in Done THEN shared[i] ELSE shown[i]
        BY <2>1
    <2> QED
        BY <2>1, <2>2 DEF TypeOK
<1>4. \A o \in Done :
        /\ res'[o] \in Resource /\ res'[o].id = res[o].id /\ res'[o].useCount = res[o].useCount
        /\ res'[o].state \in {"Loaded", "Failed"} /\ res'[o].msg = "none"
    <2>1. \A q \in Resource : q.msg \in {"ok", "bad"} =>
            /\ Polled(q) \in Resource /\ Polled(q).id = q.id /\ Polled(q).useCount = q.useCount
            /\ Polled(q).state \in {"Loaded", "Failed"} /\ Polled(q).msg = "none"
        BY DEF Polled, Resource, States
    <2>2. \A o \in Done : res[o] \in Resource
        BY <1>2 DEF TypeOK
    <2> QED
        BY <1>1, <1>2, <2>1, <2>2
<1>5. \A o \in Objects : o \notin Done => res'[o] = res[o]
    BY <1>1
<1>6. pending \in Seq(Objects) /\ Range(pending) \subseteq Objects
    BY RangeOfSeq DEF TypeOK
<1>7. pending' \in Seq(Objects) /\ IsInjective(pending') /\ Range(pending') = Range(pending) \ Done
    BY <1>1, <1>6, SelectRange
<1>8. TypeOK'
    <2>1. \A o \in Objects : res'[o] \in Resource
        BY <1>4, <1>5 DEF TypeOK
    <2>2. res' \in [Objects -> Resource]
        BY <1>1, <2>1
    <2> QED
        BY <1>1, <1>3, <1>7, <2>2 DEF TypeOK
<1>9. \A o \in Objects : res'[o].id = res[o].id /\ res'[o].useCount = res[o].useCount
    BY <1>4, <1>5
<1>10. SharedInv'
    BY <1>1, <1>9 DEF SharedInv, TypeOK
<1>11. ShownInv'
    <2> SUFFICES ASSUME NEW i \in Ids, shown'[i] # Nothing
                 PROVE  i \in managed /\ shown'[i] = shared[i] /\ res'[shown'[i]].state \in {"Loaded", "Failed"}
        BY <1>1 DEF ShownInv
    <2>1. CASE i \in managed /\ shared[i] \in Done
        BY <1>3, <1>4, <2>1
    <2>2. CASE ~(i \in managed /\ shared[i] \in Done)
        <3>1. /\ shown'[i] = shown[i] /\ i \in managed /\ shown[i] = shared[i]
              /\ res[shown[i]].state \in {"Loaded", "Failed"}
            BY <1>1, <1>3, <2>2 DEF ShownInv
        <3>2. shown[i] \in Objects /\ shown[i] \notin Done
            BY <2>2, <3>1 DEF TypeOK
        <3> QED
            BY <1>5, <3>1, <3>2
    <2> QED
        BY <2>1, <2>2
<1>12. PublishedInv'
    <2>1. \A j \in published : j \in Ids /\ shared[j] \in Objects /\ res[shared[j]].state = "Loaded"
        BY <1>1 DEF TypeOK, CountsAgree, Ids, PublishedInv
    <2>2. \A j \in published : shared[j] \notin Done
        BY <1>1, <1>2, <2>1 DEF MessageInv
    <2> QED
        BY <1>1, <1>5, <2>1, <2>2 DEF PublishedInv
<1>13. MessageInv'
    <2> SUFFICES ASSUME NEW p \in Objects, res'[p].msg # "none"
                 PROVE  /\ res'[p].state = "Pending" /\ p \in Range(pending')
                        /\ res'[p].id \in managed' /\ shared'[res'[p].id] = p /\ shown'[res'[p].id] = Nothing
        BY DEF MessageInv
    <2>1. p \notin Done /\ res'[p] = res[p]
        BY <1>4, <1>5
    <2>2. /\ res[p].state = "Pending" /\ p \in Range(pending)
          /\ res[p].id \in managed /\ shared[res[p].id] = p /\ shown[res[p].id] = Nothing
        BY <1>1, <2>1 DEF MessageInv
    <2>3. res[p].id \in Ids
        BY <2>2 DEF TypeOK
    <2> QED
        BY <1>1, <1>3, <1>7, <2>1, <2>2, <2>3
<1>14. CountsAgree'
    <2>1. \A j \in Ids : shared[j] # Nothing => shared[j] \in Objects
        BY DEF TypeOK
    <2> QED
        BY <1>1, <1>9, <2>1 DEF CountsAgree
<1>15. PendingTracked'
    <2> SUFFICES ASSUME use.patient
                 PROVE  /\ \A j, k \in 1..Len(pending') : pending'[j] = pending'[k] => j = k
                        /\ Range(pending') = {shared'[j] : j \in {k \in managed' : shown'[k] = Nothing}}
                        /\ \A p \in Range(pending') : res'[p].state = "Pending" /\ res'[p].msg # "none"
        BY <1>1 DEF PendingTracked
    <2>1. /\ Range(pending) = {shared[j] : j \in {k \in managed : shown[k] = Nothing}}
          /\ \A p \in Range(pending) : res[p].state = "Pending" /\ res[p].msg # "none"
        BY <1>1 DEF PendingTracked
    <2>2. DOMAIN pending' = 1..Len(pending')
        BY <1>7
    <2>3. \A j \in managed : j \in Ids /\ shared[j] # Nothing
        BY <1>1 DEF TypeOK, CountsAgree
    <2>4. {shared'[j] : j \in {k \in managed' : shown'[k] = Nothing}} = Range(pending) \ Done
        <3>1. \A j \in managed : shown'[j] = Nothing <=> shown[j] = Nothing /\ shared[j] \notin Done
            BY <1>3, <2>3
        <3> QED
            BY <1>1, <2>1, <3>1
    <2>5. \A p \in Range(pending') : res'[p].state = "Pending" /\ res'[p].msg # "none"
        BY <1>5, <1>6, <1>7, <2>1
    <2> QED
        BY <1>7, <2>2, <2>4, <2>5 DEF IsInjective
<1>16. DeadIsUnloaded'
    <2> SUFFICES ASSUME NEW p \in Objects, ~Referenced(p)'
                 PROVE  res'[p].state \notin {"Loaded", "Pending"} /\ res'[p].msg = "none"
        BY DEF DeadIsUnloaded
    <2>1. \A j \in Ids : shared[j] # p
        BY <1>1 DEF Referenced
    <2>2. p \notin Done
        BY <1>2, <2>1 DEF TypeOK
    <2>3. ~Referenced(p)
        <3>1. \A j \in Ids : shown[j] = p => shown'[j] = p
            BY <1>1, <2>1, ResourceAssumption DEF ShownInv
        <3> QED
            BY <1>1, <1>7, <2>2, <3>1 DEF Referenced
    <2> QED
        BY <1>5, <2>2, <2>3 DEF DeadIsUnloaded
<1> QED
    BY <1>1, <1>7, <1>8, <1>10, <1>11, <1>12, <1>13, <1>14, <1>15, <1>16 DEF AssertionsHold

LEMMA InvServeRead ==
    ASSUME IInv, NEW o \in Objects, ServeRead(o)
    PROVE  IInv'
<1> USE DEF IInv
<1>1. PICK m \in {"ok", "bad"} : res' = [res EXCEPT ![o].msg = m]
    BY DEF ServeRead
<1>2. /\ res[o].msg = "sent"
      /\ UNCHANGED <<use, phase, broken, asyncEnabled, managed, clientCount, shown, holders,
                     pending, shared, published>>
    BY DEF ServeRead
<1>3. /\ res' \in [Objects -> Resource] /\ res'[o].msg # "none"
      /\ \A p \in Objects : p # o => res'[p] = res[p]
      /\ \A p \in Objects : res'[p].id = res[p].id
      /\ \A p \in Objects : res'[p].useCount = res[p].useCount
      /\ \A p \in Objects : res'[p].state = res[p].state
    BY <1>1, <1>2 DEF TypeOK, Resource
<1>4. TypeOK'
    BY <1>2, <1>3 DEF TypeOK
<1>5. /\ \A j \in Ids : shared[j] # Nothing => shared[j] \in Objects
      /\ \A j \in Ids : shown[j] # Nothing => shown[j] \in Objects
    BY DEF TypeOK
<1>6. SharedInv' /\ ShownInv'
    <2>1. SharedInv'
        BY <1>2, <1>3, <1>5 DEF SharedInv
    <2>2. ShownInv'
        BY <1>2, <1>3, <1>5 DEF ShownInv
    <2> QED
        BY <2>1, <2>2
<1>7. PublishedInv'
    <2>1. phase = "open" => \A j \in published : shared[j] \in Objects
        BY <1>5 DEF TypeOK, CountsAgree, Ids
    <2> QED
        BY <1>2, <1>3, <2>1 DEF PublishedInv
<1>8. MessageInv'
    <2> SUFFICES ASSUME phase = "open", NEW p \in Objects, res'[p].msg # "none"
                 PROVE  /\ res'[p].state = "Pending" /\ p \in Range(pending)
                        /\ res'[p].id \in managed /\ shared[res'[p].id] = p /\ shown[res'[p].id] = Nothing
        BY <1>2 DEF MessageInv
    <2>1. res[p].msg # "none"
        BY <1>2, <1>3
    <2>2. /\ res[p].state = "Pending" /\ p \in Range(pending)
          /\ res[p].id \in managed /\ shared[res[p].id] = p /\ shown[res[p].id] = Nothing
        BY <2>1 DEF MessageInv
    <2> QED
        BY <1>3, <2>2
<1>9. CountsAgree'
    BY <1>2, <1>3, <1>5 DEF CountsAgree
<1>10. PendingTracked'
    <2>1. Range(pending) \subseteq Objects
        BY RangeOfSeq DEF TypeOK
    <2> QED
        BY <1>2, <1>3, <2>1 DEF PendingTracked
<1>11. DeadIsUnloaded'
    <2>1. Referenced(o)
        BY <1>2 DEF DeadIsUnloaded
    <2> QED
        BY <1>2, <1>3, <2>1 DEF DeadIsUnloaded, Referenced
<1> QED
    BY <1>2, <1>4, <1>6, <1>7, <1>8, <1>9, <1>10, <1>11 DEF AssertionsHold

LEMMA InvRemoveMapper ==
    ASSUME IInv, RemoveMapper
    PROVE  IInv'
<1> USE DEF IInv
<1> DEFINE S == {i \in managed : clientCount[i] = 1}
<1>1. /\ Running /\ phase = "open" /\ phase' = "removed"
      /\ use.patient => pending = <<>>
      /\ shown' = [i \in Ids |-> IF i \in S THEN Nothing ELSE shown[i]]
      /\ clientCount' = [i \in Ids |-> IF i \in managed THEN clientCount[i] - 1 ELSE clientCount[i]]
      /\ managed' = {}
      /\ broken' = IF pending = <<>> THEN "none" ELSE "OnRemoveFromResourceManager"
      /\ UNCHANGED <<use, asyncEnabled, holders, pending, published>>
    BY DEF RemoveMapper
<1>2. S \in SUBSET Ids /\ \A i \in S : shared[i] # Nothing /\ shared[i] \in Objects /\ res[shared[i]].useCount > 0
    <2>1. S \in SUBSET Ids /\ S \subseteq managed
        BY DEF TypeOK
    <2>2. \A i \in Ids : i \in managed => shared[i] # Nothing /\ res[shared[i]].useCount > 0
        BY <1>1 DEF CountsAgree
    <2> QED
        BY <2>1, <2>2 DEF TypeOK
<1>3. res' = ResAfterUnregister(S) /\ shared' = SharedAfterUnregister(S)
    BY DEF RemoveMapper
<1> HIDE DEF S
<1>4. /\ res' \in [Objects -> Resource] /\ shared' \in [Ids -> Objects \cup {Nothing}]
      /\ \A p \in Objects : res'[p].id = res[p].id
      /\ \A p \in Objects : (\A i \in S : shared[i] # p) => res'[p] = res[p]
      /\ \A i \in Ids \ S : shared'[i] = shared[i]
      /\ \A i \in S : \/ shared'[i] = shared[i]
                      \/ /\ shared'[i] = Nothing
                         /\ res'[shared[i]].state = "Initial" /\ res'[shared[i]].msg = "none"
    <2> HIDE DEF IInv
    <2>1. TypeOK /\ SharedInv
        BY DEF IInv
    <2> QED
        BY <1>2, <1>3, <2>1, Unregistering
<1>5. \A i \in managed : clientCount[i] > 0 /\ clientCount[i] \in Nat
    BY <1>1 DEF CountsAgree, TypeOK
<1>6. clientCount' \in [Ids -> Nat] /\ shown' \in [Ids -> Objects \cup {Nothing}]
    BY <1>1, <1>5 DEF TypeOK
<1>7. TypeOK'
    BY <1>1, <1>4, <1>6 DEF TypeOK
<1>8. SharedInv'
    BY <1>2, <1>4 DEF SharedInv, TypeOK
<1>9. ShownInv' /\ PublishedInv' /\ MessageInv' /\ CountsAgree' /\ PendingTracked'
    BY <1>1 DEF ShownInv, PublishedInv, MessageInv, CountsAgree, PendingTracked
<1>10. DeadIsUnloaded'
    <2> SUFFICES ASSUME NEW p \in Objects, ~Referenced(p)'
                 PROVE  res'[p].state \notin {"Loaded", "Pending"} /\ res'[p].msg = "none"
        BY DEF DeadIsUnloaded
    <2>1. CASE \E i \in S : shared[i] = p
        <3>1. PICK i \in S : shared[i] = p
            BY <2>1
        <3>2. shared'[i] # p
            BY <1>2 DEF Referenced
        <3> QED
            BY <1>4, <3>1, <3>2
    <2>2. CASE \A i \in S : shared[i] # p
        <3>1. \A i \in Ids : shared[i] # p
            BY <1>4, <2>2 DEF Referenced
        <3>2. \A i \in Ids : shown[i] # p
            BY <1>1, <3>1, ResourceAssumption DEF ShownInv
        <3>3. p \notin Range(pending)
            BY <1>1 DEF Referenced
        <3>4. ~Referenced(p) /\ res'[p] = res[p]
            BY <1>4, <2>2, <3>1, <3>2, <3>3 DEF Referenced
        <3> QED
            BY <3>4 DEF DeadIsUnloaded
    <2> QED
        BY <2>1, <2>2
<1>11. IsInjective(pending)' /\ AssertionsHold'
    BY <1>1 DEF AssertionsHold
<1> QED
    BY <1>7, <1>8, <1>9, <1>10, <1>11

LEMMA InvCloseShared ==
    ASSUME IInv, CloseShared
    PROVE  IInv'
<1> USE DEF IInv
<1>1. /\ phase' = "closed" /\ shared' = [i \in Ids |-> Nothing]
      /\ res' = [o \in Objects |-> IF \E i \in Ids : shared[i] = o THEN Unload(res[o]) ELSE res[o]]
      /\ UNCHANGED <<use, broken, asyncEnabled, managed, clientCount, shown, holders, pending, published>>
    BY DEF CloseShared
<1>2. \A q \in Resource : Unload(q) \in Resource /\ Unload(q).state = "Initial" /\ Unload(q).msg = "none"
    BY DEF Unload, Resource, States
<1>3. TypeOK'
    BY <1>1, <1>2 DEF TypeOK
<1>4. SharedInv' /\ ShownInv' /\ PublishedInv' /\ MessageInv' /\ CountsAgree' /\ PendingTracked'
    BY <1>1 DEF SharedInv, ShownInv, PublishedInv, MessageInv, CountsAgree, PendingTracked
<1>5. DeadIsUnloaded'
    <2> SUFFICES ASSUME NEW p \in Objects, ~Referenced(p)'
                 PROVE  res'[p].state \notin {"Loaded", "Pending"} /\ res'[p].msg = "none"
        BY DEF DeadIsUnloaded
    <2>1. CASE \E i \in Ids : shared[i] = p
        BY <1>1, <1>2, <2>1 DEF TypeOK
    <2>2. CASE \A i \in Ids : shared[i] # p
        <3>1. ~Referenced(p) /\ res'[p] = res[p]
            BY <1>1, <2>2 DEF Referenced
        <3> QED
            BY <3>1 DEF DeadIsUnloaded
    <2> QED
        BY <2>1, <2>2
<1> QED
    BY <1>1, <1>3, <1>4, <1>5 DEF AssertionsHold

-----------------------------------------------------------------------------
(* The theorems.                                                           *)

LEMMA InvStutter ==
    ASSUME IInv, UNCHANGED vars
    PROVE  IInv'
BY DEF IInv, vars, TypeOK, SharedInv, ShownInv, PublishedInv, MessageInv, CountsAgree,
    PendingTracked, DeadIsUnloaded, Referenced, AssertionsHold

LEMMA Inductive == IInv /\ [Next]_vars => IInv'
<1> SUFFICES ASSUME IInv, [Next]_vars PROVE IInv'
    OBVIOUS
<1>1. CASE \E i \in Ids : Publish(i) \/ Withdraw(i)
    BY <1>1, InvPublish, InvWithdraw
<1>2. CASE \E c \in Clients, i \in Ids :
            CreateAgain(c, i) \/ CreateManaged(c, i) \/ DiscardOne(c, i) \/ DiscardLast(c, i)
    BY <1>2, InvCreateAgain, InvCreateManaged, InvDiscardOne, InvDiscardLast
<1>3. CASE PrepareBreaks \/ Prepare
    BY <1>3, InvPrepareBreaks, InvPrepare
<1>4. CASE \E o \in Objects : ServeRead(o)
    BY <1>4, InvServeRead
<1>5. CASE RemoveMapper \/ CloseShared
    BY <1>5, InvRemoveMapper, InvCloseShared
<1>6. CASE UNCHANGED vars
    BY <1>6, InvStutter
<1> QED
    BY <1>1, <1>2, <1>3, <1>4, <1>5, <1>6 DEF Next

LEMMA Invariant == Spec => []IInv
BY Initially, Inductive, PTL DEF Spec

\* The client counts of the mapper, the use counts of the shared server, the
\* pending list and the messages of the loaders agree after every call, for
\* patient clients and for others, and what is destroyed has been unloaded.
THEOREM RecordsAgree == Spec => []Consistent
<1>1. IInv => Consistent
    BY DEF IInv, Consistent
<1> QED
    BY <1>1, Invariant, PTL

\* No assertion of mapper, loaders and shared server fails as long as nobody
\* gives up a load in flight, in whatever order the IO thread answers.
THEOREM PatientClientsAreSafe == Spec => []AssertionsHold
<1>1. IInv => AssertionsHold
    BY DEF IInv
<1> QED
    BY <1>1, Invariant, PTL

-----------------------------------------------------------------------------
(* The mapper implements ResourceStore.                                    *)

\* Whoever keeps a handle that shows a resource keeps that resource in that
\* state: other clients, readers, loads that finish and new loads leave it alone.
LEMMA Kept ==
    ASSUME IInv, Next, NEW i \in Ids, phase' = "open", shown[i] # Nothing, holders[i] \cap holders'[i] # {}
    PROVE  shown'[i] = shown[i] /\ res'[shown[i]].state = res[shown[i]].state
<1> USE DEF IInv
<1> DEFINE Same == shown'[i] = shown[i] /\ res'[shown[i]].state = res[shown[i]].state
<1>1. phase = "open"
    BY DEF Next, Publish, Withdraw, CreateAgain, CreateManaged, DiscardOne, DiscardLast,
        PrepareBreaks, Prepare, ServeRead, RemoveMapper, CloseShared
<1>2. /\ shown[i] = shared[i] /\ shown[i] \in Objects /\ i \in managed
      /\ res[shown[i]].state \in {"Loaded", "Failed"} /\ res[shown[i]].msg = "none"
      /\ res[shown[i]].id = i
    BY <1>1 DEF ShownInv, SharedInv, MessageInv, TypeOK
<1>3. \A j \in Ids : j # i => shared[j] # shown[i]
    BY <1>2 DEF SharedInv
<1>4. ASSUME NEW j \in Ids, Publish(j) PROVE Same
    <2>1. /\ Unreferenced # {} /\ shown' = shown
          /\ res' = [res EXCEPT ![NewObject] = [NewResource(j) EXCEPT !.state = "Loaded"]]
        BY <1>4 DEF Publish
    <2>2. shown[i] # NewObject
        BY <1>1, <1>2, <2>1, NewObjectIsFree
    <2> QED
        BY <1>2, <2>1, <2>2 DEF TypeOK
<1>5. ASSUME NEW j \in Ids, NEW S, S = {j}, res' = ResAfterUnregister(S), j # i
      PROVE  res'[shown[i]] = res[shown[i]]
    <2>1. \A k \in S : shared[k] # shown[i]
        BY <1>3, <1>5
    <2> QED
        BY <1>2, <1>5, <2>1 DEF ResAfterUnregister
<1>6. ASSUME NEW j \in Ids, Withdraw(j) PROVE Same
    <2>1. CASE j # i
        <3>1. shown' = shown
            BY <1>6 DEF Withdraw
        <3>2. res' = ResAfterUnregister({j})
            BY <1>6 DEF Withdraw
        <3>3. res'[shown[i]] = res[shown[i]]
            BY <1>5, <2>1, <3>2
        <3> QED
            BY <3>1, <3>3
    <2>2. CASE j = i
        <3>1. i \in published /\ shown' = shown
            BY <1>6, <2>2 DEF Withdraw
        <3>2. res[shared[i]].useCount = 2
            BY <1>1, <1>2, <3>1 DEF CountsAgree
        <3>3. res'[shown[i]] = Unregistered(res[shown[i]])
            <4>1. res' = ResAfterUnregister({i})
                BY <1>6, <2>2 DEF Withdraw
            <4>2. \E k \in {i} : shared[k] = shown[i]
                BY <1>2
            <4> QED
                BY <1>2, <4>1, <4>2 DEF ResAfterUnregister
        <3>4. res[shown[i]] \in Resource /\ res[shown[i]].useCount = 2
            BY <1>2, <3>2 DEF TypeOK
        <3> QED
            BY <3>1, <3>3, <3>4 DEF Unregistered, Resource
    <2> QED
        BY <2>1, <2>2
<1>7. ASSUME NEW c \in Clients, NEW j \in Ids, CreateManaged(c, j) PROVE Same
    <2>1. j # i
        BY <1>2, <1>7 DEF CreateManaged
    <2>2. ASSUME NEW o \in Objects, NEW q, Adopt(j, o, q), o # shown[i] PROVE Same
        BY <1>2, <2>1, <2>2 DEF Adopt, TypeOK
    <2>3. CASE AdoptShared(j)
        <3>1. shared[j] \in Objects
            BY <2>3 DEF AdoptShared, TypeOK
        <3> QED
            BY <1>3, <2>1, <2>2, <2>3, <3>1 DEF AdoptShared
    <2>4. CASE LoadNew(j)
        <3>1. Unreferenced # {}
            BY <2>4 DEF LoadNew
        <3>2. NewObject \in Objects /\ NewObject # shown[i]
            BY <1>1, <1>2, <3>1, NewObjectIsFree
        <3> QED
            BY <2>2, <2>4, <3>2 DEF LoadNew
    <2> QED
        BY <1>7, <2>3, <2>4 DEF CreateManaged
<1>8. ASSUME NEW c \in Clients, NEW j \in Ids, DiscardLast(c, j) PROVE Same
    <2>1. holders' = [holders EXCEPT ![j] = {}] /\ shown' = [shown EXCEPT ![j] = Nothing]
        BY <1>8 DEF DiscardLast
    <2>2. j # i
        BY <2>1 DEF TypeOK
    <2>3. res' = ResAfterUnregister({j})
        BY <1>8 DEF DiscardLast
    <2>4. res'[shown[i]] = res[shown[i]]
        BY <1>5, <2>2, <2>3
    <2>5. shown'[i] = shown[i]
        BY <2>1, <2>2 DEF TypeOK
    <2> QED
        BY <2>4, <2>5
<1>9. ASSUME Prepare PROVE Same
    <2>1. /\ \A o \in Done : o \in Objects /\ shown[res[o].id] = Nothing
          /\ DoneFor(i) = IF i \in managed /\ shared[i] \in Done THEN {shared[i]} ELSE {}
        BY <1>1, DoneProperties
    <2>2. shown[i] \notin Done
        BY <1>2, <2>1
    <2>3. DoneFor(i) = {}
        BY <1>2, <2>1, <2>2
    <2> QED
        BY <1>2, <1>9, <2>2, <2>3 DEF Prepare
<1>10. ASSUME NEW o \in Objects, ServeRead(o) PROVE Same
    BY <1>2, <1>10 DEF ServeRead, TypeOK, Resource
<1>11. ASSUME PrepareBreaks \/ \E c \in Clients, j \in Ids : CreateAgain(c, j) \/ DiscardOne(c, j)
       PROVE  Same
    BY <1>11 DEF PrepareBreaks, CreateAgain, DiscardOne
<1>12. ~RemoveMapper /\ ~CloseShared
    BY DEF RemoveMapper, CloseShared
<1> QED
    BY <1>4, <1>6, <1>7, <1>8, <1>9, <1>10, <1>11, <1>12 DEF Next

\* An id is managed as long as it has a client.
LEMMA ManagedAreHeld ==
    ASSUME IInv, phase = "open", NEW i \in Ids
    PROVE  /\ i \in managed <=> holders[i] # {}
           /\ clientCount[i] = 1 => \A c \in holders[i] : holders[i] = {c}
           /\ clientCount[i] > 1 => \A c \in holders[i] : holders[i] # {c}
<1>1. /\ clientCount[i] = Cardinality(holders[i]) /\ clientCount[i] \in Nat
      /\ i \in managed <=> clientCount[i] > 0
      /\ holders[i] \subseteq Clients
    BY DEF IInv, CountsAgree, TypeOK
<1>2. IsFiniteSet(holders[i])
    BY <1>1, ResourceAssumption, FS_Subset
<1>3. i \in managed <=> holders[i] # {}
    BY <1>1, <1>2, FS_EmptySet
<1>4. Cardinality(holders[i]) = 1 <=> \E x : holders[i] = {x}
    BY <1>2, FS_Singleton
<1>5. ASSUME NEW c \in holders[i]
      PROVE  holders[i] = {c} <=> clientCount[i] = 1
    BY <1>1, <1>4, <1>5
<1> QED
    BY <1>3, <1>5

\* An id whose clients stay the same, or one of whose clients stays, is seen as
\* before, unless it has stopped waiting.
LEMMA SeenAsBefore ==
    ASSUME IInv, IInv', Next, phase = "open", phase' = "open", NEW i \in Ids,
           holders'[i] = holders[i] \/ holders[i] \cap holders'[i] # {},
           shown[i] = Nothing => shown'[i] = Nothing
    PROVE  View'[i] = View[i]
<1>1. i \in managed <=> holders[i] # {}
    BY ManagedAreHeld
<1>2. i \in managed' <=> holders'[i] # {}
    <2>1. /\ clientCount'[i] = Cardinality(holders'[i]) /\ clientCount'[i] \in Nat
          /\ i \in managed' <=> clientCount'[i] > 0
          /\ holders'[i] \subseteq Clients
        BY DEF IInv, CountsAgree, TypeOK
    <2>2. IsFiniteSet(holders'[i])
        BY <2>1, ResourceAssumption, FS_Subset
    <2> QED
        BY <2>1, <2>2, FS_EmptySet
<1>3. CASE i \in managed /\ shown[i] # Nothing
    <2>1. shown'[i] = shown[i] /\ res'[shown[i]].state = res[shown[i]].state
        BY <1>1, <1>3, Kept
    <2> QED
        BY <1>1, <1>2, <1>3, <2>1 DEF View
<1>4. CASE ~(i \in managed /\ shown[i] # Nothing)
    BY <1>1, <1>2, <1>4 DEF View
<1> QED
    BY <1>3, <1>4

\* No two handles show one object.
LEMMA NothingShared ==
    ASSUME IInv'
    PROVE  Store!NoSharing'
<1> SUFFICES ASSUME NEW i \in Ids, NEW j \in Ids, i # j,
                    View'[i] \in Store!Settled, View'[j] \in Store!Settled
             PROVE  View'[i].object # View'[j].object
    BY DEF Store!NoSharing
<1>1. ASSUME NEW k \in Ids, View'[k] \in Store!Settled
      PROVE  View'[k].object = shown'[k] /\ res'[shown'[k]].id = k
    <2>1. phase' = "open" /\ k \in managed' /\ shown'[k] # Nothing
        BY <1>1 DEF View, Store!Settled
    <2>2. shown'[k] = shared'[k] /\ res'[shared'[k]].id = k
        BY <2>1 DEF IInv, ShownInv, SharedInv
    <2> QED
        BY <2>1, <2>2 DEF View
<1> QED
    BY <1>1

\* A step that leaves every handle as it is.
LEMMA AllSeenAsBefore ==
    ASSUME IInv, IInv', Next, phase = "open", phase' = "open",
           \A i \in Ids : holders'[i] = holders[i] /\ (shown[i] = Nothing => shown'[i] = Nothing)
    PROVE  View' = View
<1>1. \A i \in Ids : View'[i] = View[i]
    BY SeenAsBefore
<1> QED
    BY <1>1 DEF View

LEMMA RefinesInit == Init => Store!Init
BY DEF Init, Store!Init, View, Store!Absent

LEMMA RefinesReaders ==
    ASSUME IInv, IInv', NEW i \in Ids, Publish(i) \/ Withdraw(i)
    PROVE  Store!Publish(i) \/ Store!Withdraw(i)
<1>1. /\ phase = "open" /\ phase' = "open" /\ Next
      /\ UNCHANGED <<asyncEnabled, holders, shown>>
    BY DEF Publish, Withdraw, Next
<1>2. View' = View
    BY <1>1, AllSeenAsBefore
<1>3. CASE Publish(i)
    <2>1. i \in Generated /\ shared[i] = Nothing /\ published' = published \cup {i}
        BY <1>3 DEF Publish
    <2>2. i \notin published /\ i \notin managed /\ i \notin Files
        BY <1>1, <2>1, ResourceAssumption DEF IInv, CountsAgree
    <2>3. holders[i] = {}
        BY <1>1, <2>2, ManagedAreHeld
    <2> QED
        BY <1>1, <1>2, <2>1, <2>2, <2>3 DEF Store!Publish
<1>4. CASE Withdraw(i)
    BY <1>1, <1>2, <1>4 DEF Withdraw, Store!Withdraw
<1> QED
    BY <1>3, <1>4

LEMMA RefinesJoin ==
    ASSUME IInv, IInv', NEW c \in Clients, NEW i \in Ids, CreateAgain(c, i)
    PROVE  Store!Join(c, i)
<1>1. /\ phase = "open" /\ phase' = "open" /\ Next /\ i \in managed /\ c \notin holders[i]
      /\ holders' = [holders EXCEPT ![i] = @ \cup {c}]
      /\ UNCHANGED <<asyncEnabled, published, shown>>
    BY DEF CreateAgain, Next
<1>2. holders[i] # {}
    BY <1>1, ManagedAreHeld
<1>3. \A j \in Ids : holders'[j] = holders[j] \/ holders[j] \cap holders'[j] # {}
    BY <1>1, <1>2 DEF IInv, TypeOK
<1>4. \A j \in Ids : View'[j] = View[j]
    BY <1>1, <1>3, SeenAsBefore
<1>5. View' = [View EXCEPT ![i] = View[i]]
    BY <1>4 DEF View
<1> QED
    BY <1>1, <1>2, <1>5, NothingShared DEF Store!Join, Store!Enter

LEMMA RefinesEnter ==
    ASSUME IInv, IInv', NEW c \in Clients, NEW i \in Ids, CreateManaged(c, i)
    PROVE  Store!Find(c, i) \/ Store!Request(c, i)
<1>1. /\ phase = "open" /\ phase' = "open" /\ Next /\ i \notin managed
      /\ managed' = managed \cup {i}
      /\ holders' = [holders EXCEPT ![i] = {c}]
      /\ UNCHANGED <<asyncEnabled, published>>
    BY DEF CreateManaged, Next
<1>2. holders[i] = {}
    BY <1>1, ManagedAreHeld
<1>3. holders' = [holders EXCEPT ![i] = @ \cup {c}] /\ c \notin holders[i]
    BY <1>1, <1>2 DEF IInv, TypeOK
<1>4. PICK o \in Objects, q \in Resource :
        /\ res' = [res EXCEPT ![o] = q]
        /\ shown' = [shown EXCEPT ![i] = IF q.state = "Pending" THEN Nothing ELSE o]
        /\ q.state \in {"Loaded", "Failed", "Pending"} /\ (i \in published => q.state = "Loaded")
        /\ i \notin published => i \in Files /\ (q.state = "Pending" <=> asyncEnabled)
    BY Creating
<1>5. /\ res'[o] = q /\ o # Nothing
      /\ shown'[i] = (IF q.state = "Pending" THEN Nothing ELSE o)
      /\ \A j \in Ids : j # i => shown'[j] = shown[j] /\ holders'[j] = holders[j]
    BY <1>1, <1>4, ResourceAssumption DEF IInv, TypeOK
<1>6. \A j \in Ids : j # i => View'[j] = View[j]
    BY <1>1, <1>5, SeenAsBefore
<1>7. View'[i] = IF q.state = "Pending" THEN Store!Waiting ELSE [state |-> q.state, object |-> o]
    BY <1>1, <1>5 DEF View, Store!Waiting
<1> DEFINE v == View'[i]
<1>8. View' = [View EXCEPT ![i] = v]
    BY <1>6 DEF View
<1>9. Store!Enter(c, i, v)
    BY <1>1, <1>3, <1>8, NothingShared DEF Store!Enter
<1>10. CASE i \in published
    <2>1. v \in Store!Settled /\ v.state = "Loaded"
        BY <1>4, <1>7, <1>10 DEF Store!Settled
    <2> QED
        BY <1>2, <1>9, <1>10, <2>1 DEF Store!Find
<1>11. CASE i \notin published
    <2>1. asyncEnabled => v = Store!Waiting
        BY <1>4, <1>7, <1>11
    <2>2. ~asyncEnabled => v \in Store!Settled
        BY <1>4, <1>7, <1>11 DEF Store!Settled
    <2> QED
        BY <1>2, <1>4, <1>9, <1>11, <2>1, <2>2 DEF Store!Request
<1> QED
    BY <1>10, <1>11

LEMMA RefinesRelease ==
    ASSUME IInv, IInv', NEW c \in Clients, NEW i \in Ids, DiscardOne(c, i) \/ DiscardLast(c, i)
    PROVE  Store!Release(c, i)
<1>1. /\ phase = "open" /\ phase' = "open" /\ Next /\ c \in holders[i]
      /\ UNCHANGED <<asyncEnabled, published>>
    BY DEF DiscardOne, DiscardLast, Next
<1>2. CASE DiscardOne(c, i)
    <2>1. /\ clientCount[i] > 1 /\ shown' = shown
          /\ holders' = [holders EXCEPT ![i] = @ \ {c}]
        BY <1>2 DEF DiscardOne
    <2>2. holders[i] # {c}
        BY <1>1, <2>1, ManagedAreHeld
    <2>3. \A j \in Ids : holders'[j] = holders[j] \/ holders[j] \cap holders'[j] # {}
        BY <1>1, <2>1, <2>2 DEF IInv, TypeOK
    <2>4. \A j \in Ids : View'[j] = View[j]
        BY <1>1, <2>1, <2>3, SeenAsBefore
    <2>5. View' = View
        BY <2>4 DEF View
    <2> QED
        BY <1>1, <2>1, <2>2, <2>5 DEF Store!Release
<1>3. CASE DiscardLast(c, i)
    <2>1. /\ clientCount[i] = 1 /\ managed' = managed \ {i}
          /\ holders' = [holders EXCEPT ![i] = {}] /\ shown' = [shown EXCEPT ![i] = Nothing]
        BY <1>3 DEF DiscardLast
    <2>2. holders[i] = {c}
        BY <1>1, <2>1, ManagedAreHeld
    <2>3. holders' = [holders EXCEPT ![i] = @ \ {c}]
        BY <2>1, <2>2 DEF IInv, TypeOK
    <2>4. \A j \in Ids : j # i => holders'[j] = holders[j] /\ shown'[j] = shown[j]
        BY <2>1 DEF IInv, TypeOK
    <2>5. \A j \in Ids : j # i => View'[j] = View[j]
        BY <1>1, <2>4, SeenAsBefore
    <2>6. View'[i] = Store!Absent
        BY <2>1 DEF View, Store!Absent
    <2>7. View' = [View EXCEPT ![i] = Store!Absent]
        BY <2>5, <2>6 DEF View
    <2> QED
        BY <1>1, <2>2, <2>3, <2>7 DEF Store!Release
<1> QED
    BY <1>2, <1>3

\* OnPrepare leaves its loop when LoadsPerFrame loads have finished.
LEMMA FrameFinishesFew ==
    ASSUME pending \in Seq(Objects)
    PROVE  IsFiniteSet(Done) /\ Cardinality(Done) <= LoadsPerFrame
<1> DEFINE Before(k) == {j \in Finishing : j < k}
<1>1. IsFiniteSet(Finishing) /\ FinishedNow \subseteq Finishing /\ \A k \in Finishing : k \in Nat
    <2>1. Len(pending) \in Nat
        OBVIOUS
    <2>2. IsFiniteSet(1..Len(pending))
        BY <2>1, FS_Interval
    <2>3. Finishing \subseteq 1..Len(pending)
        BY DEF Finishing
    <2>4. IsFiniteSet(Finishing)
        BY <2>2, <2>3, FS_Subset
    <2> QED
        BY <2>1, <2>3, <2>4 DEF FinishedNow
<1>2. IsFiniteSet(FinishedNow) /\ Cardinality(FinishedNow) \in Nat
    BY <1>1, FS_Subset, FS_CardinalityType
<1>3. ASSUME NEW a \in FinishedNow, NEW b \in FinishedNow, NEW c \in FinishedNow, a # b, a < c, b < c
      PROVE  FALSE
    <2>1. {a, b} \subseteq Before(c)
        BY <1>1, <1>3
    <2>2. Cardinality({a, b}) = 2
        <3>1. IsFiniteSet({a}) /\ Cardinality({a}) = 1 /\ b \notin {a} /\ {a} \cup {b} = {a, b}
            BY <1>3, FS_Singleton
        <3>2. Cardinality({a} \cup {b}) = Cardinality({a}) + 1
            BY <3>1, FS_AddElement
        <3> QED
            BY <3>1, <3>2
    <2>3. IsFiniteSet(Before(c))
        BY <1>1, FS_Subset
    <2>4. Cardinality(Before(c)) >= 2
        BY <2>1, <2>2, <2>3, FS_Subset, FS_CardinalityType
    <2>5. Cardinality(Before(c)) < LoadsPerFrame
        BY <1>3 DEF FinishedNow, FinishingBefore
    <2> QED
        BY <2>3, <2>4, <2>5, FS_CardinalityType DEF LoadsPerFrame
<1>4. Cardinality(FinishedNow) <= LoadsPerFrame
    <2> SUFFICES ASSUME Cardinality(FinishedNow) > 2 PROVE FALSE
        BY <1>2 DEF LoadsPerFrame
    <2>1. PICK a \in FinishedNow : TRUE
        BY <1>2, FS_EmptySet
    <2>2. /\ IsFiniteSet(FinishedNow \ {a})
          /\ Cardinality(FinishedNow \ {a}) = Cardinality(FinishedNow) - 1
        BY <1>2, <2>1, FS_RemoveElement
    <2>3. PICK b \in FinishedNow \ {a} : TRUE
        BY <1>2, <2>2, FS_EmptySet
    <2>4. /\ IsFiniteSet((FinishedNow \ {a}) \ {b})
          /\ Cardinality((FinishedNow \ {a}) \ {b}) = Cardinality(FinishedNow) - 2
        <3>1. Cardinality((FinishedNow \ {a}) \ {b}) = Cardinality(FinishedNow \ {a}) - 1
            BY <2>2, <2>3, FS_RemoveElement
        <3>2. IsFiniteSet((FinishedNow \ {a}) \ {b})
            BY <2>2, FS_RemoveElement
        <3> QED
            BY <1>2, <2>2, <3>1, <3>2
    <2>5. PICK c \in (FinishedNow \ {a}) \ {b} : TRUE
        BY <1>2, <2>4, FS_EmptySet
    <2>6. a \in Nat /\ b \in Nat /\ c \in Nat /\ a # b /\ b # c /\ a # c
        BY <1>1, <2>1, <2>3, <2>5
    <2> QED
        BY <1>3, <2>1, <2>3, <2>5, <2>6
<1>5. IsFiniteSet(Done) /\ Cardinality(Done) <= Cardinality(FinishedNow)
    <2> DEFINE f == [k \in FinishedNow |-> pending[k]]
    <2>1. f \in Surjection(FinishedNow, Done)
        BY DEF Surjection, Done
    <2> QED
        BY <1>2, <2>1, FS_Surjection
<1> QED
    BY <1>2, <1>4, <1>5, FS_CardinalityType DEF LoadsPerFrame

LEMMA RefinesFrame ==
    ASSUME IInv, IInv', Prepare
    PROVE  \E S \in SUBSET Ids : Store!Settle(S)
<1> DEFINE S == {i \in managed : shared[i] \in Done}
<1>1. /\ phase = "open" /\ phase' = "open" /\ Next
      /\ UNCHANGED <<managed, holders, asyncEnabled, published, shared>>
    BY DEF Prepare, Next
<1>2. /\ \A o \in Done : o \in Objects /\ shown[res[o].id] = Nothing /\ res[o].msg \in {"ok", "bad"}
      /\ \A i \in Ids : DoneFor(i) = IF i \in S THEN {shared[i]} ELSE {}
    BY <1>1, DoneProperties
<1>3. S \in SUBSET Ids /\ \A i \in S : shared[i] # Nothing /\ res[shared[i]].id = i
    <2>1. managed \in SUBSET Ids
        BY DEF IInv, TypeOK
    <2>2. \A i \in Ids : i \in managed => shared[i] # Nothing
        BY <1>1 DEF IInv, CountsAgree
    <2> QED
        BY <2>1, <2>2 DEF IInv, SharedInv
<1>4. \A i \in Ids : shown'[i] = IF i \in S THEN shared[i] ELSE shown[i]
    BY <1>2 DEF Prepare
<1>5. \A i \in Ids \ S : View'[i] = View[i]
    BY <1>1, <1>4, SeenAsBefore
<1>6. \A i \in S : View[i] = Store!Waiting
    BY <1>1, <1>2, <1>3 DEF View, Store!Waiting
<1>7. \A i \in S : View'[i] \in Store!Settled
    <2> SUFFICES ASSUME NEW i \in S PROVE View'[i] \in Store!Settled
        OBVIOUS
    <2>1. i \in Ids /\ i \in managed' /\ shown'[i] = shared[i] /\ shared[i] \in Objects
        BY <1>1, <1>2, <1>3, <1>4
    <2>2. shown'[i] # Nothing
        BY <1>3, <2>1
    <2>3. res'[shown'[i]].state \in {"Loaded", "Failed"}
        BY <1>1, <2>1, <2>2 DEF IInv, ShownInv
    <2> QED
        BY <1>1, <2>1, <2>2, <2>3 DEF View, Store!Settled
<1>8. Cardinality(S) <= LoadsPerFrame
    <2> DEFINE g == [i \in S |-> shared[i]]
    <2>1. IsFiniteSet(Done) /\ Cardinality(Done) <= LoadsPerFrame
        BY FrameFinishesFew DEF IInv, TypeOK
    <2>2. g \in Injection(S, Done)
        BY <1>3 DEF Injection, IsInjective
    <2>3. IsFiniteSet(S) /\ Cardinality(S) <= Cardinality(Done)
        BY <2>1, <2>2, FS_Injection
    <2> QED
        BY <2>1, <2>3, FS_CardinalityType DEF LoadsPerFrame
<1> DEFINE v == [i \in S |-> View'[i]]
<1>9. v \in [S -> Store!Settled]
    BY <1>7
<1>10. View' = [i \in Ids |-> IF i \in S THEN v[i] ELSE View[i]]
    BY <1>5 DEF View
<1> HIDE DEF v, S
<1>11. Store!Settle(S)
    BY <1>1, <1>6, <1>8, <1>9, <1>10, NothingShared DEF Store!Settle, Store!Cardinality, Cardinality
<1> QED
    BY <1>3, <1>11

LEMMA RefinesRest ==
    ASSUME IInv, IInv', Next,
           PrepareBreaks \/ (\E o \in Objects : ServeRead(o)) \/ RemoveMapper \/ CloseShared
    PROVE  Store!Shutdown \/ UNCHANGED Store!vars
<1>1. CASE PrepareBreaks \/ \E o \in Objects : ServeRead(o)
    <2>1. UNCHANGED <<phase, asyncEnabled, published, holders, shown>>
        BY <1>1 DEF PrepareBreaks, ServeRead
    <2>2. View' = View
        <3>1. CASE phase = "open"
            BY <2>1, <3>1, AllSeenAsBefore
        <3>2. CASE phase # "open"
            BY <2>1, <3>2 DEF View
        <3> QED
            BY <3>1, <3>2
    <2> QED
        BY <2>1, <2>2 DEF Store!vars
<1>2. CASE RemoveMapper
    <2>1. /\ phase = "open" /\ phase' = "removed"
          /\ UNCHANGED <<asyncEnabled, published, holders>>
        BY <1>2 DEF RemoveMapper
    <2>2. View' = [i \in Ids |-> Store!Absent]
        BY <2>1 DEF View, Store!Absent
    <2> QED
        BY <2>1, <2>2 DEF Store!Shutdown
<1>3. CASE CloseShared
    <2>1. /\ phase = "removed" /\ phase' = "closed"
          /\ UNCHANGED <<asyncEnabled, published, holders>>
        BY <1>3 DEF CloseShared
    <2>2. View' = View
        BY <2>1 DEF View
    <2> QED
        BY <2>1, <2>2 DEF Store!vars
<1> QED
    BY <1>1, <1>2, <1>3

\* Whatever clients, readers, frames and the IO thread do, holders of handles
\* see what ResourceStore lets them see: a resource that waits is filled in
\* once, at most LoadsPerFrame of them per frame, and then stays what it is.
THEOREM Implementation == Spec => ImplementsResourceStore
<1>1. ASSUME IInv, IInv', [Next]_vars
      PROVE  Store!Next \/ UNCHANGED Store!vars
    <2>1. ASSUME NEW i \in Ids, Publish(i) \/ Withdraw(i) PROVE Store!Next
        BY <1>1, <2>1, RefinesReaders DEF Store!Next
    <2>2. ASSUME NEW c \in Clients, NEW i \in Ids,
                 CreateAgain(c, i) \/ CreateManaged(c, i) \/ DiscardOne(c, i) \/ DiscardLast(c, i)
          PROVE  Store!Next
        BY <1>1, <2>2, RefinesJoin, RefinesEnter, RefinesRelease DEF Store!Next
    <2>3. ASSUME Prepare PROVE Store!Next
        BY <1>1, <2>3, RefinesFrame DEF Store!Next
    <2>4. ASSUME Next, PrepareBreaks \/ (\E o \in Objects : ServeRead(o)) \/ RemoveMapper \/ CloseShared
          PROVE  Store!Next \/ UNCHANGED Store!vars
        BY <1>1, <2>4, RefinesRest DEF Store!Next
    <2>5. ASSUME UNCHANGED vars PROVE UNCHANGED Store!vars
        <3>1. View' = View /\ UNCHANGED <<phase, asyncEnabled, published, holders>>
            BY <2>5 DEF vars, View
        <3> QED
            BY <3>1 DEF Store!vars
    <2> QED
        BY <1>1, <2>1, <2>2, <2>3, <2>4, <2>5 DEF Next
<1> QED
    BY <1>1, RefinesInit, Invariant, PTL DEF Spec, ImplementsResourceStore, Store!Spec
=============================================================================
