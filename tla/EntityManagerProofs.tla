------------------------- MODULE EntityManagerProofs -------------------------
(***************************************************************************)
(* Proofs about the entities of EntityManager and the frame that calls     *)
(* them, for any number of entities and whatever the callbacks attach and  *)
(* remove.                                                                 *)
(***************************************************************************)
EXTENDS EntityManager, SequenceTheorems, FiniteSetTheorems, TLAPS

-----------------------------------------------------------------------------
(* Sequences.                                                              *)

\* What Select keeps: the elements in S, and each of them once if the sequence
\* has it once.  Ranks are a bijection from the places that stay.
LEMMA SelectRange ==
    ASSUME NEW T, NEW s \in Seq(T), NEW S
    PROVE  /\ Select(s, S) \in Seq(T)
           /\ Range(Select(s, S)) = Range(s) \cap S
           /\ (\A i, j \in DOMAIN s : s[i] = s[j] /\ s[i] \in S => i = j) => IsInjective(Select(s, S))
           /\ IsInjective(s) => IsInjective(Select(s, S))
<1> DEFINE K == Staying(s, S)
           N == Cardinality(K)
           Below(i) == {j \in K : j <= i}
           rank == [i \in K |-> Cardinality(Below(i))]
           r == Select(s, S)
<1>1. DOMAIN s = 1..Len(s) /\ Len(s) \in Nat /\ \A i \in 1..Len(s) : s[i] \in T
    BY ElementOfSeq
<1>2. /\ K \in SUBSET (1..Len(s)) /\ \A i \in 1..Len(s) : i \in K <=> s[i] \in S
      /\ \A k : Origin(s, S, k) = CHOOSE i \in K : Cardinality(Below(i)) = k
      /\ r = [k \in 1..N |-> s[Origin(s, S, k)]]
    BY <1>1 DEF Staying, Origin, Rank, Select
<1> HIDE DEF K, N, r
<1>3. IsFiniteSet(K) /\ N \in Nat /\ \A i \in K : i \in Int
    <2>1. IsFiniteSet(1..Len(s))
        BY ONLY <1>1, FS_Interval
    <2>2. IsFiniteSet(K)
        BY ONLY <1>2, <2>1, FS_Subset
    <2> QED
        BY <1>2, <2>2, FS_CardinalityType DEF N
<1>4. ASSUME NEW i \in K PROVE Cardinality(Below(i)) \in 1..N
    <2>1. Below(i) \in SUBSET K /\ i \in Below(i)
        BY <1>3
    <2>2. IsFiniteSet(Below(i)) /\ Cardinality(Below(i)) <= N /\ Cardinality(Below(i)) \in Nat
        BY <1>3, <2>1, FS_Subset, FS_CardinalityType DEF N
    <2>3. Cardinality(Below(i)) # 0
        BY <2>1, <2>2, FS_EmptySet
    <2> QED
        BY <1>3, <2>2, <2>3
<1>5. ASSUME NEW i \in K, NEW j \in K, i < j PROVE Cardinality(Below(i)) # Cardinality(Below(j))
    <2>1. Below(i) \in SUBSET Below(j) /\ j \in Below(j) /\ j \notin Below(i) /\ Below(j) \in SUBSET K
        BY <1>3, <1>5
    <2>2. IsFiniteSet(Below(j))
        BY ONLY <1>3, <2>1, FS_Subset
    <2> QED
        BY ONLY <2>1, <2>2, FS_Subset
<1>6. \A i \in K : rank[i] = Cardinality(Below(i)) /\ rank[i] \in 1..N
    BY <1>4
<1>7. \A i, j \in K : rank[i] = rank[j] => i = j
    <2>1. \A i, j \in K : i < j => rank[i] # rank[j]
        BY <1>5, <1>6
    <2>2. \A i, j \in K : i < j \/ j < i \/ i = j
        BY <1>3
    <2> HIDE DEF rank
    <2> QED
        BY ONLY <2>1, <2>2
<1>8. \A k \in 1..N : \E i \in K : rank[i] = k
    <2>1. rank \in [K -> 1..N]
        BY <1>4
    <2> HIDE DEF rank
    <2>2. rank \in Injection(K, 1..N)
        BY <1>7, <2>1 DEF Injection, IsInjective
    <2>3. IsFiniteSet(1..N) /\ Cardinality(1..N) = N
        BY <1>3, FS_Interval
    <2>4. rank \in Surjection(K, 1..N)
        BY <1>3, <2>2, <2>3, FS_Injection DEF N
    <2> QED
        BY <2>4 DEF Surjection
<1> HIDE DEF rank
<1>9. \A k \in 1..N : Origin(s, S, k) \in K /\ rank[Origin(s, S, k)] = k
    <2>1. \A k \in 1..N : \E i \in K : Cardinality(Below(i)) = k
        BY <1>6, <1>8
    <2> HIDE DEF Below
    <2> QED
        BY <1>2, <1>6, <2>1
<1>10. \A i \in K : rank[i] \in 1..N /\ Origin(s, S, rank[i]) = i
    BY <1>6, <1>7, <1>9
<1>11. r \in Seq(T) /\ DOMAIN r = 1..N /\ \A k \in 1..N : r[k] = s[Origin(s, S, k)]
    <2>1. r \in [1..N -> T]
        BY <1>1, <1>2, <1>9
    <2> QED
        BY <1>2, <1>3, <2>1
<1>12. Range(r) = Range(s) \cap S
    <2>1. Range(r) = {r[k] : k \in 1..N} /\ Range(s) = {s[i] : i \in 1..Len(s)}
        BY <1>1, <1>11 DEF Range
    <2>2. Range(r) \subseteq Range(s) \cap S
        BY <1>2, <1>9, <1>11, <2>1
    <2> QED
        BY <1>2, <1>10, <1>11, <2>1, <2>2
<1>13. ASSUME \A i, j \in DOMAIN s : s[i] = s[j] /\ s[i] \in S => i = j PROVE IsInjective(r)
    <2>1. \A k, l \in 1..N : r[k] = r[l] => Origin(s, S, k) = Origin(s, S, l)
        BY <1>1, <1>2, <1>9, <1>11, <1>13
    <2>2. \A k, l \in 1..N : r[k] = r[l] => k = l
        BY <1>9, <2>1
    <2> QED
        BY <1>11, <2>2 DEF IsInjective
<1> QED
    BY <1>11, <1>12, <1>13 DEF r, IsInjective

\* The elements of a sequence after an append.
LEMMA RangeOfAppend ==
    ASSUME NEW T, NEW s \in Seq(T), NEW m \in T
    PROVE  Range(Append(s, m)) = Range(s) \cup {m}
<1>1. Append(s, m) \in Seq(T) /\ Len(Append(s, m)) = Len(s) + 1
    BY AppendProperties
<1>2. /\ \A i \in 1..Len(s) : Append(s, m)[i] = s[i]
      /\ Append(s, m)[Len(s) + 1] = m
    BY AppendProperties
<1>3. Range(s) = {s[i] : i \in 1..Len(s)}
    BY RangeEquality
<1>4. Range(Append(s, m)) = {Append(s, m)[i] : i \in 1..Len(s) + 1}
    BY <1>1, RangeEquality
<1>5. Len(s) \in Nat
    OBVIOUS
<1> QED
    BY <1>2, <1>3, <1>4, <1>5

\* The empty sequence.
LEMMA InjectiveEmpty == Range(<<>>) = {} /\ IsInjective(<<>>)
<1>1. DOMAIN <<>> = {}
    OBVIOUS
<1> QED
    BY <1>1 DEF Range, IsInjective

\* The elements of a concatenation are pairwise different if those of its
\* parts are and the parts share none.
LEMMA InjectiveConcat ==
    ASSUME NEW T, NEW s \in Seq(T), NEW t \in Seq(T)
    PROVE  /\ s \o t \in Seq(T)
           /\ Range(s \o t) = Range(s) \cup Range(t)
           /\ IsInjective(s \o t) <=>
                IsInjective(s) /\ IsInjective(t) /\ Range(s) \cap Range(t) = {}
<1> DEFINE u == s \o t
           m == Len(s)
           n == Len(t)
<1>1. /\ u \in Seq(T) /\ Len(u) = m + n /\ m \in Nat /\ n \in Nat
      /\ \A i \in 1..m + n : u[i] = IF i <= m THEN s[i] ELSE t[i - m]
    BY ConcatProperties
<1>2. /\ Range(s) = {s[i] : i \in 1..m} /\ Range(t) = {t[i] : i \in 1..n}
      /\ DOMAIN s = 1..m /\ DOMAIN t = 1..n
    BY RangeEquality
<1>3. Range(u) = Range(s) \cup Range(t)
    BY RangeConcatenation
<1> HIDE DEF u, m, n
<1>4. DOMAIN u = 1..m + n
    <2>1. DOMAIN u = 1..Len(u)
        BY <1>1
    <2> QED
        BY <1>1, <2>1
<1>5. \A i \in 1..m : i \in 1..m + n /\ u[i] = s[i]
    BY <1>1
<1>6. \A j \in 1..n : m + j \in 1..m + n /\ u[m + j] = t[j]
    <2> SUFFICES ASSUME NEW j \in 1..n PROVE m + j \in 1..m + n /\ u[m + j] = t[j]
        OBVIOUS
    <2>1. m + j \in 1..m + n /\ ~(m + j <= m) /\ m + j - m = j
        BY <1>1
    <2> QED
        BY <1>1, <2>1
<1>7. ASSUME IsInjective(u)
      PROVE  IsInjective(s) /\ IsInjective(t) /\ Range(s) \cap Range(t) = {}
    <2>1. \A i, j \in 1..m + n : u[i] = u[j] => i = j
        BY <1>4, <1>7 DEF IsInjective
    <2>2. IsInjective(s)
        BY <1>2, <1>5, <2>1 DEF IsInjective
    <2>3. IsInjective(t)
        <3> SUFFICES ASSUME NEW i \in 1..n, NEW j \in 1..n, t[i] = t[j] PROVE i = j
            BY <1>2 DEF IsInjective
        <3>1. m + i = m + j
            BY <1>6, <2>1
        <3> QED
            BY <1>1, <3>1
    <2>4. Range(s) \cap Range(t) = {}
        <3> SUFFICES ASSUME NEW i \in 1..m, NEW j \in 1..n, s[i] = t[j] PROVE FALSE
            BY <1>2
        <3>1. i = m + j
            BY <1>5, <1>6, <2>1
        <3> QED
            BY <1>1, <3>1
    <2> QED
        BY <2>2, <2>3, <2>4
<1>8. ASSUME IsInjective(s), IsInjective(t), Range(s) \cap Range(t) = {}
      PROVE  IsInjective(u)
    <2> SUFFICES ASSUME NEW i \in 1..m + n, NEW j \in 1..m + n, u[i] = u[j] PROVE i = j
        BY <1>4 DEF IsInjective
    <2>1. \A k \in 1..m + n : (k \in 1..m /\ u[k] = s[k])
                              \/ (~(k <= m) /\ k - m \in 1..n /\ u[k] = t[k - m])
        BY <1>1
    <2>2. CASE i \in 1..m /\ j \in 1..m
        BY <1>2, <1>5, <1>8, <2>2 DEF IsInjective
    <2>3. CASE ~(i <= m) /\ ~(j <= m)
        <3>1. i - m \in 1..n /\ j - m \in 1..n /\ t[i - m] = t[j - m]
            BY <1>1, <2>1, <2>3
        <3>2. i - m = j - m
            BY <1>2, <1>8, <3>1 DEF IsInjective
        <3> QED
            BY <1>1, <3>2
    <2>4. \A k \in 1..m + n : (k <= m => u[k] \in Range(s)) /\ (~(k <= m) => u[k] \in Range(t))
        BY <1>2, <2>1
    <2>5. (i <= m) <=> (j <= m)
        BY <1>8, <2>4
    <2> QED
        BY <2>1, <2>2, <2>3, <2>5
<1> QED
    BY <1>1, <1>3, <1>7, <1>8 DEF u

\* An append keeps the elements pairwise different if the element is new.
LEMMA InjectiveAppend ==
    ASSUME NEW T, NEW s \in Seq(T), NEW m \in T
    PROVE  IsInjective(Append(s, m)) <=> IsInjective(s) /\ m \notin Range(s)
<1> DEFINE u == Append(s, m)
           n == Len(s)
<1>1. /\ n \in Nat /\ DOMAIN s = 1..n /\ DOMAIN u = 1..n + 1
      /\ u[n + 1] = m /\ \A i \in 1..n : u[i] = s[i]
    BY AppendProperties
<1>2. Range(s) = {s[i] : i \in 1..n}
    BY RangeEquality
<1> HIDE DEF u, n
<1>3. /\ \A i \in 1..n : i \in 1..n + 1 /\ i # n + 1
      /\ \A i \in 1..n + 1 : i \in 1..n \/ i = n + 1
      /\ n + 1 \in 1..n + 1
    BY <1>1
<1>4. IsInjective(u) <=> IsInjective(s) /\ m \notin Range(s)
    BY <1>1, <1>2, <1>3 DEF IsInjective
<1> QED
    BY <1>4 DEF u

-----------------------------------------------------------------------------
(* The inductive invariant.                                                *)

Present == {e \in Entities : activated[e]}

\* The array and the registry hold the entities of the world, each once.
WorldInv ==
    /\ \A e \in Entities : activated[e] <=> registry[e] = "entity"
    /\ \A i, j \in DOMAIN active : active[i] = active[j] /\ active[i] # Null => i = j
    /\ \A e \in Entities : activated[e] <=> e \in Range(active)

DivisionInv ==
    /\ IsInjective(triggered) /\ IsInjective(untriggered)
    /\ Range(triggered) \cap Range(untriggered) = {}
    /\ Range(triggered) \cup Range(untriggered) = Present

Twice(s, e) == \E i, j \in DOMAIN s : i # j /\ s[i] = e /\ s[j] = e

\* A delayed job finds its entity, and finds it once, unless its removal was
\* asked for twice.
JobsInv ==
    \A e \in Entities :
        /\ asked[e] = 0 => e \notin Range(jobs)
        /\ asked[e] < 2 /\ e \in Range(jobs) => activated[e] /\ ~Twice(jobs, e)

\* Nothing has left the array of a game that was not started, and no job
\* waits to take anything out, unless a removal was asked for.
EarlyInv ==
    /\ ~started /\ ~early => jobs = <<>> /\ Null \notin Range(active)
    /\ Locked => started
    /\ where = "starting" => ~started

\* The calls a triggered entity has had when a loop of the frame begins.
CallsBefore ==
    CASE where = "OnBeginFrame" -> 0
      [] where = "OnMoveBefore" -> 1
      [] where \in {"frame", "OnMoveAfter"} -> 2
      [] OTHER -> 3

\* The loop has called the triggered entities before the cursor.
FrameInv ==
    Locked =>
        /\ cursor \in 1..Len(triggered) + 1
        /\ where = "frame" => cursor = 1
        /\ \A k \in DOMAIN triggered :
                calls[triggered[k]] = CallsBefore + (IF k < cursor THEN 1 ELSE 0)
        /\ \A e \in Entities \ Range(triggered) : calls[e] = 0

\* The start has called the entities before the cursor, and none before.
StartInv ==
    /\ \A e \in Entities : starts[e] > 0 => activated[e] \/ asked[e] > 0
    /\ ~started /\ where = "idle" => \A e \in Entities : starts[e] = 0
    /\ where = "starting" =>
         /\ cursor \in 1..Len(active) + 1
         /\ \A k \in DOMAIN active : active[k] # Null =>
                starts[active[k]] = IF k < cursor THEN 1 ELSE 0
    /\ StartedOnce

IInv ==
    /\ TypeOK /\ WorldInv /\ DivisionInv
    /\ JobsInv /\ EarlyInv /\ FrameInv /\ StartInv /\ StopsOnlyBy

-----------------------------------------------------------------------------
(* The arrays after somebody has left.                                     *)

LEMMA NullIsNoEntity == Null \notin Entities
    BY EntityManagerAssumption DEF Entities

LEMMA PlacesOfLoops ==
    /\ Range(Loops) = {"OnBeginFrame", "OnMoveBefore", "frame", "OnMoveAfter", "OnRender"}
    /\ Loops[1] = "OnBeginFrame" /\ Loops[2] = "OnMoveBefore" /\ Loops[3] = "frame"
    /\ Loops[4] = "OnMoveAfter" /\ Loops[5] = "OnRender" /\ Len(Loops) = 5
<1>1. /\ Loops[1] = "OnBeginFrame" /\ Loops[2] = "OnMoveBefore" /\ Loops[3] = "frame"
      /\ Loops[4] = "OnMoveAfter" /\ Loops[5] = "OnRender" /\ Len(Loops) = 5
    BY DEF Loops
<1>2. DOMAIN Loops = {1, 2, 3, 4, 5}
    BY DEF Loops
<1> HIDE DEF Loops
<1> QED
    BY <1>1, <1>2 DEF Range

LEMMA WithoutProperties ==
    ASSUME NEW T, NEW s \in Seq(T), NEW S
    PROVE  /\ Without(s, S) \in Seq(T)
           /\ Range(Without(s, S)) = Range(s) \ S
           /\ (\A i, j \in DOMAIN s : s[i] = s[j] /\ s[i] \notin S => i = j)
                => IsInjective(Without(s, S))
           /\ IsInjective(s) => IsInjective(Without(s, S))
<1> DEFINE U == Range(s) \ S
<1>1. /\ Select(s, U) \in Seq(T)
      /\ Range(Select(s, U)) = Range(s) \cap U
      /\ (\A i, j \in DOMAIN s : s[i] = s[j] /\ s[i] \in U => i = j) => IsInjective(Select(s, U))
      /\ IsInjective(s) => IsInjective(Select(s, U))
    BY ONLY s \in Seq(T), SelectRange
<1>2. Without(s, S) = Select(s, U)
    BY DEF Without
<1> QED
    BY <1>1, <1>2

\* What LeaveWorld does to the array, and that it keeps the three records of
\* the world in agreement.
LEMMA LeaveKeepsWorld ==
    ASSUME TypeOK, WorldInv, NEW S \in SUBSET Entities, LeaveWorld(S)
    PROVE  /\ activated' \in [Entities -> BOOLEAN]
           /\ active' \in Seq(Entities \cup {Null})
           /\ registry' \in [Entities -> {"absent", "null", "entity"}]
           /\ Len(active') = Len(active)
           /\ DOMAIN active' = DOMAIN active /\ DOMAIN active = 1..Len(active)
           /\ \A k \in DOMAIN active : active'[k] = IF active[k] \in S THEN Null ELSE active[k]
           /\ \A e \in Entities : activated'[e] = (activated[e] /\ e \notin S)
           /\ WorldInv'
<1>1. /\ active \in Seq(Entities \cup {Null}) /\ DOMAIN active = 1..Len(active) /\ Len(active) \in Nat
      /\ \A k \in DOMAIN active : active[k] \in Entities \cup {Null}
    BY DEF TypeOK
<1>2. /\ activated' = [e \in Entities |-> activated[e] /\ e \notin S]
      /\ active' = [k \in DOMAIN active |-> IF active[k] \in S THEN Null ELSE active[k]]
      /\ registry' = [e \in Entities |-> IF e \in S THEN "null" ELSE registry[e]]
    BY DEF LeaveWorld, ActiveWithout, RegistryWithout
<1>3. /\ active' \in Seq(Entities \cup {Null}) /\ Len(active') = Len(active)
      /\ DOMAIN active' = DOMAIN active
      /\ \A k \in DOMAIN active : active'[k] = IF active[k] \in S THEN Null ELSE active[k]
    <2>1. active' \in [1..Len(active) -> Entities \cup {Null}]
        BY <1>1, <1>2
    <2> QED
        BY <1>1, <1>2, <2>1
<1>4. /\ activated' \in [Entities -> BOOLEAN]
      /\ \A e \in Entities : activated'[e] = (activated[e] /\ e \notin S)
    BY <1>2
<1>5. /\ registry' \in [Entities -> {"absent", "null", "entity"}]
      /\ \A e \in Entities : registry'[e] = IF e \in S THEN "null" ELSE registry[e]
    BY <1>2 DEF TypeOK
<1>6. \A e \in Entities : e \in Range(active') <=> e \in Range(active) /\ e \notin S
    BY <1>3, NullIsNoEntity DEF Range
<1>7. WorldInv'
    BY <1>3, <1>4, <1>5, <1>6 DEF WorldInv
<1> QED
    BY <1>1, <1>3, <1>4, <1>5, <1>7

LEMMA LeaveKeepsDivision ==
    ASSUME TypeOK, DivisionInv, NEW S, RemoveEntityFromTriggered(S),
           \A e \in Entities : activated'[e] = (activated[e] /\ e \notin S)
    PROVE  /\ triggered' \in Seq(Entities) /\ untriggered' \in Seq(Entities)
           /\ DivisionInv'
<1>1. /\ triggered \in Seq(Entities) /\ untriggered \in Seq(Entities)
      /\ triggered' = Without(triggered, S) /\ untriggered' = Without(untriggered, S)
    BY DEF TypeOK, RemoveEntityFromTriggered
<1>2. /\ triggered' \in Seq(Entities) /\ Range(triggered') = Range(triggered) \ S
      /\ IsInjective(triggered')
    BY <1>1, WithoutProperties DEF DivisionInv
<1>3. /\ untriggered' \in Seq(Entities) /\ Range(untriggered') = Range(untriggered) \ S
      /\ IsInjective(untriggered')
    BY <1>1, WithoutProperties DEF DivisionInv
<1> QED
    BY <1>2, <1>3 DEF DivisionInv, Present

LEMMA UpdateKeepsDivision ==
    ASSUME TypeOK, DivisionInv, NEW gone, NEW near \in SUBSET Entities,
           UpdateTriggeredEntities(gone, near),
           \A e \in Entities : activated'[e] = (activated[e] /\ e \notin gone)
    PROVE  /\ triggered' \in Seq(Entities) /\ untriggered' \in Seq(Entities)
           /\ DivisionInv'
<1> DEFINE in == Without(triggered, gone)
           out == Without(untriggered, gone)
           E == Entities \ near
<1>1. /\ triggered' = Without(in \o out, E)
      /\ untriggered' = Without(out \o in, near)
      /\ triggered \in Seq(Entities) /\ untriggered \in Seq(Entities)
    BY DEF UpdateTriggeredEntities, TypeOK
<1>2. /\ in \in Seq(Entities) /\ Range(in) = Range(triggered) \ gone /\ IsInjective(in)
    BY <1>1, WithoutProperties DEF DivisionInv
<1>3. /\ out \in Seq(Entities) /\ Range(out) = Range(untriggered) \ gone /\ IsInjective(out)
    BY <1>1, WithoutProperties DEF DivisionInv
<1> HIDE DEF in, out, E
<1>4. Range(in) \cap Range(out) = {} /\ Range(in) \cup Range(out) = Present'
    BY <1>2, <1>3 DEF DivisionInv, Present
<1>5. /\ in \o out \in Seq(Entities) /\ Range(in \o out) = Present' /\ IsInjective(in \o out)
      /\ out \o in \in Seq(Entities) /\ Range(out \o in) = Present' /\ IsInjective(out \o in)
    <2>1. /\ in \o out \in Seq(Entities) /\ Range(in \o out) = Range(in) \cup Range(out)
          /\ IsInjective(in \o out) <=>
                IsInjective(in) /\ IsInjective(out) /\ Range(in) \cap Range(out) = {}
        BY ONLY <1>2, <1>3, InjectiveConcat
    <2>2. /\ out \o in \in Seq(Entities) /\ Range(out \o in) = Range(out) \cup Range(in)
          /\ IsInjective(out \o in) <=>
                IsInjective(out) /\ IsInjective(in) /\ Range(out) \cap Range(in) = {}
        BY ONLY <1>2, <1>3, InjectiveConcat
    <2> QED
        BY <1>2, <1>3, <1>4, <2>1, <2>2
<1>6. /\ triggered' \in Seq(Entities) /\ Range(triggered') = Range(in \o out) \ E
      /\ IsInjective(triggered')
    BY <1>1, <1>5, WithoutProperties
<1>7. /\ untriggered' \in Seq(Entities) /\ Range(untriggered') = Range(out \o in) \ near
      /\ IsInjective(untriggered')
    BY <1>1, <1>5, WithoutProperties
<1> QED
    BY <1>5, <1>6, <1>7 DEF DivisionInv, Present, E

-----------------------------------------------------------------------------
(* Calls of the game code.                                                 *)

LEMMA InvAttachEntity ==
    ASSUME IInv, NEW e \in Entities, AttachEntity(e)
    PROVE  IInv'
<1> USE NullIsNoEntity DEF IInv, control, worldVars
<1>1. /\ ~activated[e] /\ asked[e] = 0 /\ Running
      /\ active' = Append(active, e) /\ untriggered' = Append(untriggered, e)
      /\ registry' = [registry EXCEPT ![e] = "entity"]
      /\ activated' = [activated EXCEPT ![e] = TRUE]
      /\ starts' = [starts EXCEPT ![e] = IF started THEN @ + 1 ELSE @]
      /\ UNCHANGED <<control, triggered, jobs, calls, asked, early>>
    BY DEF AttachEntity, GameCodeRuns
<1>2. /\ active \in Seq(Entities \cup {Null}) /\ untriggered \in Seq(Entities)
      /\ triggered \in Seq(Entities) /\ Len(active) \in Nat
      /\ DOMAIN active = 1..Len(active)
    BY DEF TypeOK
<1>3. starts[e] = 0 /\ e \notin Range(active) /\ e \notin Range(triggered) \cup Range(untriggered)
    <2>1. starts[e] = 0
        <3>1. starts[e] \in Nat
            BY DEF TypeOK
        <3>2. ~(starts[e] > 0)
            BY <1>1 DEF StartInv
        <3> QED
            BY <3>1, <3>2
    <2>2. e \notin Range(active)
        BY <1>1 DEF WorldInv
    <2>3. e \notin Range(triggered) \cup Range(untriggered)
        BY <1>1 DEF DivisionInv, Present
    <2> QED
        BY <2>1, <2>2, <2>3
<1>4. /\ active' \in Seq(Entities \cup {Null})
      /\ Len(active') = Len(active) + 1
      /\ \A k \in 1..Len(active) : active'[k] = active[k]
      /\ active'[Len(active) + 1] = e
      /\ Range(active') = Range(active) \cup {e}
    <2>1. e \in Entities \cup {Null}
        OBVIOUS
    <2> QED
        BY <1>1, <1>2, <2>1, AppendProperties, RangeOfAppend
<1>5. DOMAIN active' = 1..Len(active) + 1
    BY <1>4
<1>6. /\ untriggered' \in Seq(Entities) /\ Range(untriggered') = Range(untriggered) \cup {e}
      /\ IsInjective(untriggered')
    BY <1>1, <1>2, <1>3, AppendProperties, RangeOfAppend, InjectiveAppend DEF DivisionInv
<1>7. /\ activated' \in [Entities -> BOOLEAN] /\ activated'[e] = TRUE
      /\ \A f \in Entities : f # e => activated'[f] = activated[f]
      /\ registry' \in [Entities -> {"absent", "null", "entity"}] /\ registry'[e] = "entity"
      /\ \A f \in Entities : f # e => registry'[f] = registry[f]
      /\ starts' \in [Entities -> Nat] /\ starts'[e] = IF started THEN 1 ELSE 0
      /\ \A f \in Entities : f # e => starts'[f] = starts[f]
    BY <1>1, <1>3 DEF TypeOK
<1>8. TypeOK'
    BY <1>1, <1>4, <1>6, <1>7 DEF TypeOK
<1>9. WorldInv'
    <2>1. \A i \in DOMAIN active : active[i] # e
        BY <1>3 DEF Range
    <2>2. \A i, j \in DOMAIN active' : active'[i] = active'[j] /\ active'[i] # Null => i = j
        BY <1>2, <1>4, <1>5, <2>1 DEF WorldInv
    <2> QED
        BY <1>4, <1>7, <2>2 DEF WorldInv
<1>10. DivisionInv'
    BY <1>1, <1>3, <1>6, <1>7 DEF DivisionInv, Present
<1>11. JobsInv'
    BY <1>1, <1>7 DEF JobsInv, Twice
<1>12. EarlyInv'
    BY <1>1, <1>4 DEF EarlyInv, Locked
<1>13. FrameInv'
    BY <1>1 DEF FrameInv, Locked, CallsBefore
<1>14. StartInv'
    <2>1. \A f \in Entities : starts'[f] > 0 => activated'[f] \/ asked'[f] > 0
        BY <1>1, <1>3, <1>7 DEF StartInv
    <2>2. ~started' /\ where' = "idle" => \A f \in Entities : starts'[f] = 0
        BY <1>1, <1>7 DEF StartInv
    <2>3. StartedOnce'
        BY <1>1, <1>7 DEF StartInv, StartedOnce
    <2>4. ASSUME where' = "starting"
          PROVE  /\ cursor' \in 1..Len(active') + 1
                 /\ \A k \in DOMAIN active' : active'[k] # Null =>
                        starts'[active'[k]] = IF k < cursor' THEN 1 ELSE 0
        <3>1. where = "starting" /\ ~started /\ cursor' = cursor /\ cursor \in 1..Len(active) + 1
            BY <1>1, <2>4 DEF StartInv, EarlyInv
        <3>2. \A k \in DOMAIN active : active[k] # Null =>
                    active[k] \in Entities /\ active[k] # e /\ starts[active[k]] = IF k < cursor THEN 1 ELSE 0
            BY <1>2, <1>3, <3>1 DEF StartInv, Range
        <3>3. \A k \in DOMAIN active : active'[k] = active[k]
            BY <1>2, <1>4
        <3>4. ~(Len(active) + 1 < cursor)
            BY <1>2, <3>1
        <3>5. \A k \in DOMAIN active' : k \in DOMAIN active \/ k = Len(active) + 1
            BY <1>2, <1>5
        <3>6. cursor' \in 1..Len(active') + 1
            BY <1>2, <1>4, <3>1
        <3> QED
            BY <1>4, <1>7, <3>1, <3>2, <3>3, <3>4, <3>5, <3>6
    <2> QED
        BY <2>1, <2>2, <2>3, <2>4 DEF StartInv
<1>15. StopsOnlyBy'
    BY <1>1 DEF StopsOnlyBy, Running
<1> QED
    BY <1>8, <1>9, <1>10, <1>11, <1>12, <1>13, <1>14, <1>15

LEMMA InvRemoveEntity ==
    ASSUME IInv, NEW e \in Entities, RemoveEntity(e)
    PROVE  IInv'
<1> USE DEF IInv, control, worldVars, triggerVars
<1>1. /\ activated[e] /\ jobs' = Append(jobs, e) /\ jobs \in Seq(Entities)
      /\ asked' = [asked EXCEPT ![e] = @ + 1]
      /\ early' = (early \/ ~started)
      /\ UNCHANGED <<control, worldVars, triggerVars, starts, calls>>
    BY DEF RemoveEntity, Ask, TypeOK
<1>2. /\ jobs' \in Seq(Entities) /\ Len(jobs') = Len(jobs) + 1 /\ Len(jobs) \in Nat
      /\ \A k \in 1..Len(jobs) : jobs'[k] = jobs[k]
      /\ jobs'[Len(jobs) + 1] = e
      /\ Range(jobs') = Range(jobs) \cup {e}
    BY <1>1, AppendProperties, RangeOfAppend
<1>3. DOMAIN jobs = 1..Len(jobs) /\ DOMAIN jobs' = 1..Len(jobs) + 1
    BY <1>1, <1>2
<1>4. /\ asked' \in [Entities -> Nat] /\ asked'[e] = asked[e] + 1
      /\ \A f \in Entities : asked[f] \in Nat /\ (f # e => asked'[f] = asked[f])
    BY <1>1 DEF TypeOK
<1>5. TypeOK' /\ WorldInv' /\ DivisionInv'
    BY <1>1, <1>2, <1>4 DEF TypeOK, WorldInv, DivisionInv, Present
<1>6. JobsInv'
    <2> SUFFICES ASSUME NEW f \in Entities
                 PROVE  /\ asked'[f] = 0 => f \notin Range(jobs')
                        /\ asked'[f] < 2 /\ f \in Range(jobs') => activated'[f] /\ ~Twice(jobs', f)
        BY DEF JobsInv
    <2>1. CASE f # e
        <3>1. Twice(jobs', f) => Twice(jobs, f)
            BY <1>2, <1>3, <2>1 DEF Twice
        <3> QED
            BY <1>1, <1>2, <1>4, <2>1, <3>1 DEF JobsInv
    <2>2. CASE f = e
        <3>1. asked'[f] # 0
            BY <1>4, <2>2
        <3>2. ASSUME asked'[f] < 2 PROVE ~Twice(jobs', f)
            <4>1. asked[e] = 0
                BY <1>4, <2>2, <3>2
            <4>2. e \notin Range(jobs)
                BY <4>1 DEF JobsInv
            <4>3. \A k \in 1..Len(jobs) : jobs[k] # e
                BY <1>3, <4>2 DEF Range
            <4> QED
                BY <1>2, <1>3, <2>2, <4>3 DEF Twice
        <3> QED
            BY <1>1, <2>2, <3>1, <3>2
    <2> QED
        BY <2>1, <2>2
<1>7. EarlyInv' /\ FrameInv'
    BY <1>1 DEF EarlyInv, FrameInv, Locked, CallsBefore
<1>8. StartInv'
    <2>1. \A f \in Entities : starts'[f] > 0 => activated'[f] \/ asked'[f] > 0
        BY <1>1, <1>4 DEF StartInv
    <2> QED
        BY <1>1, <2>1 DEF StartInv, StartedOnce
<1>9. StopsOnlyBy'
    <2>1. \A f \in Entities : asked[f] > 1 => asked'[f] > 1
        BY <1>4
    <2> QED
        BY <1>1, <2>1 DEF StopsOnlyBy
<1> QED
    BY <1>5, <1>6, <1>7, <1>8, <1>9

\* What the removal of some entities does to the loop of the start, which is
\* at the same place of the array.
LEMMA LeaveKeepsStart ==
    ASSUME IInv, NEW S \in SUBSET Entities, LeaveWorld(S),
           \A e \in Entities : asked'[e] \in Nat /\ asked'[e] >= asked[e],
           \A e \in S : activated[e] => asked'[e] > 0,
           UNCHANGED <<where, cursor, started, starts>>
    PROVE  StartInv'
<1> USE DEF IInv
<1>1. /\ Len(active') = Len(active)
      /\ DOMAIN active' = DOMAIN active /\ DOMAIN active = 1..Len(active)
      /\ \A k \in DOMAIN active : active'[k] = IF active[k] \in S THEN Null ELSE active[k]
      /\ \A e \in Entities : activated'[e] = (activated[e] /\ e \notin S)
    BY LeaveKeepsWorld
<1>2. \A e \in Entities : asked[e] \in Nat
    BY DEF TypeOK
<1>3. \A e \in Entities : starts'[e] > 0 => activated'[e] \/ asked'[e] > 0
    <2> SUFFICES ASSUME NEW e \in Entities, starts[e] > 0
                 PROVE  activated'[e] \/ asked'[e] > 0
        OBVIOUS
    <2>1. CASE activated[e]
        BY <1>1, <2>1
    <2>2. CASE asked[e] > 0
        <3>1. asked[e] \in Nat /\ asked'[e] \in Nat /\ asked'[e] >= asked[e]
            BY <1>2
        <3> QED
            BY <2>2, <3>1
    <2> QED
        BY <2>1, <2>2 DEF StartInv
<1>4. where' = "starting" =>
         /\ cursor' \in 1..Len(active') + 1
         /\ \A k \in DOMAIN active' : active'[k] # Null =>
                starts'[active'[k]] = IF k < cursor' THEN 1 ELSE 0
    BY <1>1 DEF StartInv
<1>5. StartedOnce'
    BY <1>1 DEF StartInv, StartedOnce
<1> QED
    BY <1>3, <1>4, <1>5 DEF StartInv

LEMMA InvRemoveEntityImmediate ==
    ASSUME IInv, NEW e \in Entities, RemoveEntityImmediate(e)
    PROVE  IInv'
<1> USE DEF IInv, control
<1>1. /\ activated[e] /\ ~Locked /\ LeaveWorld({e}) /\ RemoveEntityFromTriggered({e})
      /\ asked' = [asked EXCEPT ![e] = @ + 1]
      /\ early' = (early \/ ~started)
      /\ UNCHANGED <<control, jobs, starts, calls>>
    BY DEF RemoveEntityImmediate, Ask
<1>2. {e} \in SUBSET Entities
    OBVIOUS
<1>3. /\ activated' \in [Entities -> BOOLEAN]
      /\ active' \in Seq(Entities \cup {Null})
      /\ registry' \in [Entities -> {"absent", "null", "entity"}]
      /\ \A f \in Entities : activated'[f] = (activated[f] /\ f \notin {e})
      /\ WorldInv'
    BY <1>1, <1>2, LeaveKeepsWorld
<1>4. /\ triggered' \in Seq(Entities) /\ untriggered' \in Seq(Entities)
      /\ DivisionInv'
    BY <1>1, <1>3, LeaveKeepsDivision
<1>5. /\ asked' \in [Entities -> Nat] /\ asked'[e] = asked[e] + 1
      /\ \A f \in Entities : asked[f] \in Nat /\ (f # e => asked'[f] = asked[f])
    BY <1>1 DEF TypeOK
<1>6. where \notin {"OnBeginFrame", "OnMoveBefore", "OnMoveAfter", "OnRender"}
    BY <1>1, PlacesOfLoops DEF Locked
<1>7. TypeOK'
    BY <1>1, <1>3, <1>4, <1>5, <1>6 DEF TypeOK
<1>8. JobsInv'
    <2> SUFFICES ASSUME NEW f \in Entities
                 PROVE  /\ asked'[f] = 0 => f \notin Range(jobs)
                        /\ asked'[f] < 2 /\ f \in Range(jobs) => activated'[f] /\ ~Twice(jobs, f)
        BY <1>1 DEF JobsInv
    <2>1. CASE f # e
        BY <1>3, <1>5, <2>1 DEF JobsInv
    <2>2. CASE f = e
        <3>1. asked'[f] # 0 /\ (asked'[f] < 2 => asked[e] = 0)
            BY <1>5, <2>2
        <3> QED
            BY <2>2, <3>1 DEF JobsInv
    <2> QED
        BY <2>1, <2>2
<1>9. EarlyInv' /\ FrameInv'
    BY <1>1 DEF EarlyInv, FrameInv, Locked
<1>10. StartInv'
    <2>1. \A f \in Entities : asked'[f] \in Nat /\ asked'[f] >= asked[f]
        BY <1>5
    <2>2. asked'[e] > 0
        BY <1>5
    <2> QED
        BY <1>1, <1>2, <2>1, <2>2, LeaveKeepsStart
<1>11. StopsOnlyBy'
    <2>1. \A f \in Entities : asked[f] > 1 => asked'[f] > 1
        BY <1>5
    <2> QED
        BY <1>1, <2>1 DEF StopsOnlyBy
<1> QED
    BY <1>3, <1>4, <1>7, <1>8, <1>9, <1>10, <1>11

-----------------------------------------------------------------------------
(* Delayed jobs.                                                           *)

\* The entity a job does not find was asked for twice.
LEMMA InvJobsBreak ==
    ASSUME IInv, JobsBreak
    PROVE  IInv'
<1> USE DEF IInv, worldVars, triggerVars, historyVars
<1>1. /\ ~JobsPass /\ broken' = "RemoveEntityImmediate"
      /\ UNCHANGED <<started, where, cursor, worldVars, triggerVars, jobs, historyVars>>
    BY DEF JobsBreak
<1>2. \E e \in Entities : asked[e] > 1
    <2>1. /\ jobs \in Seq(Entities) /\ \A k \in DOMAIN jobs : jobs[k] \in Entities /\ jobs[k] \in Range(jobs)
          /\ \A e \in Entities : asked[e] \in Nat
        BY DEF TypeOK, Range
    <2>2. CASE ~IsInjective(jobs)
        <3>1. PICK i \in DOMAIN jobs, j \in DOMAIN jobs : jobs[i] = jobs[j] /\ i # j
            BY <2>2 DEF IsInjective
        <3>2. Twice(jobs, jobs[i]) /\ jobs[i] \in Entities /\ jobs[i] \in Range(jobs)
            BY <2>1, <3>1 DEF Twice
        <3> QED
            BY <2>1, <3>2 DEF JobsInv
    <2>3. CASE \E e \in Range(jobs) : ~activated[e]
        <3>1. PICK e \in Range(jobs) : ~activated[e]
            BY <2>3
        <3>2. e \in Entities
            BY <2>1, <3>1 DEF Range
        <3> QED
            BY <2>1, <3>1, <3>2 DEF JobsInv
    <2> QED
        BY <1>1, <2>2, <2>3 DEF JobsPass
<1>3. TypeOK'
    <2>1. broken' \in {"none", "RemoveEntityImmediate", "StartEntities"}
        BY <1>1
    <2>2. /\ started' = started /\ where' = where /\ cursor' = cursor
          /\ activated' = activated /\ active' = active /\ registry' = registry
          /\ triggered' = triggered /\ untriggered' = untriggered /\ jobs' = jobs
          /\ starts' = starts /\ calls' = calls /\ asked' = asked /\ early' = early
        BY <1>1
    <2> QED
        BY <2>1, <2>2 DEF TypeOK
<1>4. WorldInv' /\ DivisionInv'
    BY <1>1 DEF WorldInv, DivisionInv, Present
<1>5. JobsInv' /\ EarlyInv'
    BY <1>1 DEF JobsInv, Twice, EarlyInv, Locked
<1>6. FrameInv'
    BY <1>1 DEF FrameInv, Locked, CallsBefore
<1>7. StartInv'
    BY <1>1 DEF StartInv, StartedOnce
<1>8. StopsOnlyBy'
    BY <1>1, <1>2 DEF StopsOnlyBy
<1> QED
    BY <1>3, <1>4, <1>5, <1>6, <1>7, <1>8

\* Who leaves with the delayed jobs.
LEMMA LeavingProperties ==
    ASSUME IInv
    PROVE  /\ Leaving \in SUBSET Entities
           /\ \A e \in Leaving : asked[e] > 0
           /\ jobs = <<>> => Leaving = {}
<1>1. jobs \in Seq(Entities) /\ asked \in [Entities -> Nat]
    BY DEF IInv, TypeOK
<1>2. Range(jobs) \subseteq Entities
    BY <1>1, RangeOfSeq
<1>3. jobs = <<>> => Range(jobs) = {}
    BY InjectiveEmpty
<1> QED
    BY <1>1, <1>2, <1>3 DEF Leaving, IInv, JobsInv

LEMMA NoJobsLeft ==
    ASSUME IInv, jobs' = <<>>, UNCHANGED <<asked, broken, early>>
    PROVE  JobsInv' /\ StopsOnlyBy' /\ jobs' \in Seq(Entities)
<1>1. Range(jobs') = {} /\ jobs' \in Seq(Entities)
    BY InjectiveEmpty
<1> QED
    BY <1>1 DEF JobsInv, IInv, StopsOnlyBy

\* The delayed jobs at the start of the game and of a frame.
LEMMA LeavingTogether ==
    ASSUME IInv, HandleDelayedJobs, UNCHANGED <<broken, starts, asked, early>>
    PROVE  /\ activated' \in [Entities -> BOOLEAN]
           /\ active' \in Seq(Entities \cup {Null})
           /\ registry' \in [Entities -> {"absent", "null", "entity"}]
           /\ jobs' = <<>> /\ jobs' \in Seq(Entities)
           /\ Len(active') = Len(active) /\ DOMAIN active' = DOMAIN active
           /\ \A k \in DOMAIN active : active'[k] = active[k] \/ active'[k] = Null
           /\ \A e \in Entities : activated'[e] = (activated[e] /\ e \notin Leaving)
           /\ WorldInv' /\ JobsInv' /\ StopsOnlyBy'
           /\ ~started /\ ~early => Null \notin Range(active')
           /\ \A e \in Entities : starts'[e] > 0 => activated'[e] \/ asked'[e] > 0
<1>1. /\ jobs' = <<>> /\ LeaveWorld(Leaving)
      /\ UNCHANGED <<broken, starts, asked, early>>
    BY DEF HandleDelayedJobs
<1>2. /\ Leaving \in SUBSET Entities /\ \A e \in Leaving : asked[e] > 0
      /\ jobs = <<>> => Leaving = {}
    BY LeavingProperties
<1>3. /\ activated' \in [Entities -> BOOLEAN]
      /\ active' \in Seq(Entities \cup {Null})
      /\ registry' \in [Entities -> {"absent", "null", "entity"}]
      /\ Len(active') = Len(active) /\ DOMAIN active' = DOMAIN active
      /\ \A k \in DOMAIN active : active'[k] = IF active[k] \in Leaving THEN Null ELSE active[k]
      /\ \A e \in Entities : activated'[e] = (activated[e] /\ e \notin Leaving)
      /\ WorldInv'
    BY <1>1, <1>2, LeaveKeepsWorld DEF IInv
<1>4. JobsInv' /\ StopsOnlyBy' /\ jobs' \in Seq(Entities)
    BY <1>1, NoJobsLeft
<1>5. ASSUME ~started, ~early PROVE Null \notin Range(active')
    <2>1. Leaving = {} /\ Null \notin Range(active)
        BY <1>2, <1>5 DEF IInv, EarlyInv
    <2> QED
        BY <1>3, <2>1 DEF Range
<1>6. \A e \in Entities : starts'[e] > 0 => activated'[e] \/ asked'[e] > 0
    BY <1>1, <1>2, <1>3 DEF IInv, StartInv
<1> QED
    BY <1>1, <1>3, <1>4, <1>5, <1>6

-----------------------------------------------------------------------------
(* Starting the game.                                                      *)

LEMMA InvStartEntities ==
    ASSUME IInv, StartEntities
    PROVE  IInv'
<1> USE DEF historyVars
<1>1. /\ where = "idle" /\ ~started /\ HandleDelayedJobs /\ RemoveEntityFromTriggered(Leaving)
      /\ where' = "starting" /\ cursor' = 1
      /\ UNCHANGED <<started, broken, historyVars>>
    BY DEF StartEntities, CanStart
<1>2. /\ activated' \in [Entities -> BOOLEAN]
      /\ active' \in Seq(Entities \cup {Null})
      /\ registry' \in [Entities -> {"absent", "null", "entity"}]
      /\ jobs' = <<>> /\ jobs' \in Seq(Entities)
      /\ \A e \in Entities : activated'[e] = (activated[e] /\ e \notin Leaving)
      /\ WorldInv' /\ JobsInv' /\ StopsOnlyBy'
      /\ ~started /\ ~early => Null \notin Range(active')
      /\ \A e \in Entities : starts'[e] > 0 => activated'[e] \/ asked'[e] > 0
    BY <1>1, LeavingTogether
<1>3. triggered' \in Seq(Entities) /\ untriggered' \in Seq(Entities) /\ DivisionInv'
    BY <1>1, <1>2, LeaveKeepsDivision DEF IInv
<1>4. TypeOK'
    <2>1. where' \in Places
        BY <1>1 DEF Places
    <2> QED
        BY <1>1, <1>2, <1>3, <2>1 DEF IInv, TypeOK
<1>5. ~Locked'
    BY <1>1, PlacesOfLoops DEF Locked
<1>6. EarlyInv' /\ FrameInv'
    BY <1>1, <1>2, <1>5 DEF EarlyInv, FrameInv
<1>7. StartInv'
    <2>1. \A e \in Entities : starts'[e] = 0
        BY <1>1 DEF IInv, StartInv
    <2>2. /\ Len(active') \in Nat /\ DOMAIN active' = 1..Len(active')
          /\ \A k \in DOMAIN active' : active'[k] # Null => active'[k] \in Entities
        BY <1>2
    <2>3. cursor' \in 1..Len(active') + 1
        BY <1>1, <2>2
    <2>4. \A k \in DOMAIN active' : active'[k] # Null =>
                starts'[active'[k]] = IF k < cursor' THEN 1 ELSE 0
        BY <1>1, <2>1, <2>2
    <2>5. StartedOnce'
        BY <1>1 DEF StartedOnce
    <2> QED
        BY <1>1, <1>2, <2>3, <2>4, <2>5 DEF StartInv
<1> QED
    BY <1>2, <1>3, <1>4, <1>6, <1>7 DEF IInv

LEMMA InvOnStart ==
    ASSUME IInv, OnStart
    PROVE  IInv'
<1> USE DEF worldVars, triggerVars
<1> DEFINE x == active[cursor]
<1>1. /\ Running /\ where = "starting" /\ cursor <= Len(active) /\ x # Null
      /\ starts' = [starts EXCEPT ![x] = @ + 1] /\ cursor' = cursor + 1
      /\ UNCHANGED <<started, where, broken, worldVars, triggerVars, jobs, calls, asked, early>>
    BY DEF OnStart, AtEntity
<1>2. /\ active \in Seq(Entities \cup {Null}) /\ DOMAIN active = 1..Len(active) /\ Len(active) \in Nat
      /\ starts \in [Entities -> Nat]
    BY DEF IInv, TypeOK
<1>3. /\ cursor \in 1..Len(active)
      /\ \A k \in DOMAIN active : active[k] # Null =>
             starts[active[k]] = IF k < cursor THEN 1 ELSE 0
    BY <1>1, <1>2 DEF IInv, StartInv
<1>4. x \in Entities /\ activated[x] /\ starts[x] = 0 /\ ~started
    <2>1. x \in Entities /\ x \in Range(active)
        BY <1>1, <1>2, <1>3 DEF Range
    <2>2. starts[x] = 0
        BY <1>1, <1>2, <1>3
    <2> QED
        BY <1>1, <2>1, <2>2 DEF IInv, WorldInv, EarlyInv
<1>5. /\ starts' \in [Entities -> Nat] /\ starts'[x] = 1
      /\ \A e \in Entities : e # x => starts'[e] = starts[e]
    BY <1>1, <1>2, <1>4
<1>6. TypeOK'
    BY <1>1, <1>2, <1>3, <1>5 DEF IInv, TypeOK
<1>7. WorldInv' /\ DivisionInv'
    BY <1>1 DEF IInv, WorldInv, DivisionInv, Present
<1>8. JobsInv' /\ StopsOnlyBy'
    BY <1>1 DEF IInv, JobsInv, Twice, StopsOnlyBy
<1>9. EarlyInv' /\ FrameInv'
    <2>1. ~Locked /\ ~Locked'
        BY <1>1, PlacesOfLoops DEF Locked
    <2> QED
        BY <1>1, <2>1 DEF IInv, EarlyInv, FrameInv
<1>10. StartInv'
    <2>1. \A e \in Entities : starts'[e] > 0 => activated'[e] \/ asked'[e] > 0
        BY <1>1, <1>4, <1>5 DEF IInv, StartInv
    <2>2. \A k \in DOMAIN active : active[k] # Null =>
                active[k] \in Entities /\ (active[k] = x => k = cursor)
        BY <1>1, <1>2, <1>3 DEF IInv, WorldInv
    <2>3. \A k \in DOMAIN active : active[k] # Null =>
                starts'[active[k]] = IF k < cursor + 1 THEN 1 ELSE 0
        <3> SUFFICES ASSUME NEW k \in DOMAIN active, active[k] # Null
                     PROVE  starts'[active[k]] = IF k < cursor + 1 THEN 1 ELSE 0
            OBVIOUS
        <3>1. CASE active[k] = x
            BY <1>3, <1>5, <2>2, <3>1
        <3>2. CASE active[k] # x
            <4>1. k # cursor /\ starts'[active[k]] = starts[active[k]]
                BY <1>5, <2>2, <3>2
            <4>2. k \in Nat /\ cursor \in Nat
                BY <1>2, <1>3
            <4> QED
                BY <1>3, <4>1, <4>2
        <3> QED
            BY <3>1, <3>2
    <2>4. cursor' \in 1..Len(active') + 1
        BY <1>1, <1>2, <1>3
    <2>5. StartedOnce'
        BY <1>1, <1>4 DEF StartedOnce
    <2> QED
        BY <1>1, <2>1, <2>3, <2>4, <2>5 DEF StartInv
<1> QED
    BY <1>6, <1>7, <1>8, <1>9, <1>10 DEF IInv

\* The null entry was left by a removal that came before the start.
LEMMA InvOnStartOfNull ==
    ASSUME IInv, OnStartOfNull
    PROVE  IInv'
<1> USE DEF worldVars, triggerVars, historyVars
<1>1. /\ where = "starting" /\ cursor <= Len(active) /\ active[cursor] = Null
      /\ broken' = "StartEntities"
      /\ UNCHANGED <<started, where, cursor, worldVars, triggerVars, jobs, historyVars>>
    BY DEF OnStartOfNull, AtEntity
<1>2. early
    <2>1. ~started /\ cursor \in 1..Len(active) + 1 /\ Len(active) \in Nat /\ DOMAIN active = 1..Len(active)
        BY <1>1 DEF IInv, EarlyInv, StartInv, TypeOK
    <2>2. Null \in Range(active)
        BY <1>1, <2>1 DEF Range
    <2> QED
        BY <2>1, <2>2 DEF IInv, EarlyInv, TypeOK
<1>3. TypeOK'
    <2>1. broken' \in {"none", "RemoveEntityImmediate", "StartEntities"}
        BY <1>1
    <2> QED
        BY <1>1, <2>1 DEF IInv, TypeOK
<1>4. WorldInv' /\ DivisionInv'
    BY <1>1 DEF IInv, WorldInv, DivisionInv, Present
<1>5. JobsInv' /\ EarlyInv'
    BY <1>1 DEF IInv, JobsInv, Twice, EarlyInv, Locked
<1>6. FrameInv'
    BY <1>1 DEF IInv, FrameInv, Locked, CallsBefore
<1>7. StartInv'
    BY <1>1 DEF IInv, StartInv, StartedOnce
<1>8. StopsOnlyBy'
    BY <1>1, <1>2 DEF StopsOnlyBy
<1> QED
    BY <1>3, <1>4, <1>5, <1>6, <1>7, <1>8 DEF IInv

LEMMA InvStarted ==
    ASSUME IInv, Started
    PROVE  IInv'
<1> USE DEF historyVars
<1>1. /\ where = "starting" /\ cursor > Len(active)
      /\ HandleDelayedJobs /\ RemoveEntityFromTriggered(Leaving)
      /\ started' = TRUE /\ where' = "idle" /\ cursor' = 0
      /\ UNCHANGED <<broken, historyVars>>
    BY DEF Started, AllStarted
<1>2. /\ activated' \in [Entities -> BOOLEAN]
      /\ active' \in Seq(Entities \cup {Null})
      /\ registry' \in [Entities -> {"absent", "null", "entity"}]
      /\ jobs' = <<>> /\ jobs' \in Seq(Entities)
      /\ \A e \in Entities : activated'[e] = (activated[e] /\ e \notin Leaving)
      /\ WorldInv' /\ JobsInv' /\ StopsOnlyBy'
      /\ \A e \in Entities : starts'[e] > 0 => activated'[e] \/ asked'[e] > 0
    BY <1>1, LeavingTogether
<1>3. triggered' \in Seq(Entities) /\ untriggered' \in Seq(Entities) /\ DivisionInv'
    BY <1>1, <1>2, LeaveKeepsDivision DEF IInv
<1>4. TypeOK'
    <2>1. where' \in Places
        BY <1>1 DEF Places
    <2> QED
        BY <1>1, <1>2, <1>3, <2>1 DEF IInv, TypeOK
<1>5. ~Locked'
    BY <1>1, PlacesOfLoops DEF Locked
<1>6. EarlyInv' /\ FrameInv'
    BY <1>1, <1>2, <1>5 DEF EarlyInv, FrameInv
<1>7. StartInv'
    <2>1. ASSUME NEW e \in Entities, activated'[e] PROVE starts'[e] = 1
        <3>1. e \in Range(active)
            BY <1>2, <2>1 DEF IInv, WorldInv
        <3>2. PICK k \in DOMAIN active : active[k] = e
            BY <3>1 DEF Range
        <3>3. k < cursor
            <4>1. k \in 1..Len(active) /\ Len(active) \in Nat /\ cursor \in Nat
                BY <3>2 DEF IInv, TypeOK
            <4> QED
                BY <1>1, <4>1
        <3> QED
            BY <1>1, <3>2, <3>3, NullIsNoEntity DEF IInv, StartInv
    <2> QED
        BY <1>1, <1>2, <2>1 DEF StartInv, StartedOnce
<1> QED
    BY <1>2, <1>3, <1>4, <1>6, <1>7 DEF IInv

-----------------------------------------------------------------------------
(* A frame.                                                                *)

LEMMA InvOnBeginFrame ==
    ASSUME IInv, OnBeginFrame
    PROVE  IInv'
<1>1. /\ started /\ HandleDelayedJobs
      /\ where' = Loops[1] /\ cursor' = 1 /\ calls' = Zero
      /\ UNCHANGED <<started, broken, starts, asked, early>>
    BY DEF OnBeginFrame, CanBegin
<1>2. PICK near \in Bubbles({e \in Entities : activated'[e]}) :
            UpdateTriggeredEntities(Leaving, near)
    BY DEF OnBeginFrame
<1>3. near \in SUBSET Entities
    BY <1>2 DEF Bubbles
<1>4. /\ activated' \in [Entities -> BOOLEAN]
      /\ active' \in Seq(Entities \cup {Null})
      /\ registry' \in [Entities -> {"absent", "null", "entity"}]
      /\ jobs' = <<>> /\ jobs' \in Seq(Entities)
      /\ \A e \in Entities : activated'[e] = (activated[e] /\ e \notin Leaving)
      /\ WorldInv' /\ JobsInv' /\ StopsOnlyBy'
      /\ \A e \in Entities : starts'[e] > 0 => activated'[e] \/ asked'[e] > 0
    BY <1>1, LeavingTogether
<1>5. triggered' \in Seq(Entities) /\ untriggered' \in Seq(Entities) /\ DivisionInv'
    BY <1>2, <1>3, <1>4, UpdateKeepsDivision DEF IInv
<1>6. where' = "OnBeginFrame" /\ where' \in Places /\ Locked'
    BY <1>1, PlacesOfLoops DEF Places, Locked
<1>7. Len(triggered') \in Nat /\ 1 \in 1..Len(triggered') + 1
    BY <1>5
<1>8. calls' \in [Entities -> 0..4] /\ \A e \in Entities : calls'[e] = 0
    BY <1>1 DEF Zero
<1>9. TypeOK'
    BY <1>1, <1>4, <1>5, <1>6, <1>7, <1>8 DEF IInv, TypeOK
<1>10. EarlyInv'
    BY <1>1, <1>6 DEF EarlyInv
<1>11. FrameInv'
    <2>1. \A k \in DOMAIN triggered' : k >= 1 /\ triggered'[k] \in Entities
        BY <1>5
    <2>2. CallsBefore' = 0
        BY <1>6 DEF CallsBefore
    <2>3. \A k \in DOMAIN triggered' :
                calls'[triggered'[k]] = CallsBefore' + (IF k < cursor' THEN 1 ELSE 0)
        <3> SUFFICES ASSUME NEW k \in DOMAIN triggered'
                     PROVE  calls'[triggered'[k]] = CallsBefore' + (IF k < cursor' THEN 1 ELSE 0)
            OBVIOUS
        <3>1. k \in Nat /\ ~(k < 1)
            BY <1>5
        <3>2. calls'[triggered'[k]] = 0
            BY <1>8, <2>1
        <3>3. ~(k < cursor')
            BY <1>1, <3>1
        <3> HIDE DEF CallsBefore
        <3> QED
            BY <2>2, <3>2, <3>3
    <2> QED
        BY <1>1, <1>6, <1>7, <1>8, <2>3 DEF FrameInv
<1>12. StartInv'
    <2>1. StartedOnce'
        BY <1>1, <1>4 DEF IInv, StartInv, StartedOnce
    <2> QED
        BY <1>1, <1>4, <1>6, <2>1 DEF StartInv
<1> QED
    BY <1>4, <1>5, <1>9, <1>10, <1>11, <1>12 DEF IInv

LEMMA InvTrigger ==
    ASSUME IInv, Trigger
    PROVE  IInv'
<1> USE DEF worldVars, triggerVars
<1> DEFINE x == triggered[cursor]
<1>1. /\ Locked /\ where # "frame" /\ cursor <= Len(triggered)
      /\ calls' = [calls EXCEPT ![x] = IF activated[x] THEN @ + 1 ELSE @]
      /\ cursor' = cursor + 1
      /\ UNCHANGED <<started, where, broken, worldVars, triggerVars, jobs, starts, asked, early>>
    BY DEF Trigger
<1>2. /\ triggered \in Seq(Entities) /\ DOMAIN triggered = 1..Len(triggered) /\ Len(triggered) \in Nat
      /\ calls \in [Entities -> 0..4]
    BY DEF IInv, TypeOK
<1>3. /\ cursor \in 1..Len(triggered)
      /\ \A k \in DOMAIN triggered :
             calls[triggered[k]] = CallsBefore + (IF k < cursor THEN 1 ELSE 0)
      /\ \A e \in Entities \ Range(triggered) : calls[e] = 0
    BY <1>1, <1>2 DEF IInv, FrameInv
<1>4. CallsBefore \in 0..3 /\ CallsBefore' = CallsBefore
    BY <1>1 DEF CallsBefore
<1>5. x \in Entities /\ x \in Range(triggered) /\ activated[x] /\ calls[x] = CallsBefore
    <2>1. x \in Entities /\ x \in Range(triggered)
        BY <1>2, <1>3 DEF Range
    <2>2. calls[x] = CallsBefore
        BY <1>2, <1>3, <1>4
    <2> QED
        BY <2>1, <2>2 DEF IInv, DivisionInv, Present
<1> HIDE DEF CallsBefore
<1>6. /\ calls' \in [Entities -> 0..4] /\ calls'[x] = CallsBefore + 1
      /\ \A e \in Entities : e # x => calls'[e] = calls[e]
    <2>1. calls' = [calls EXCEPT ![x] = CallsBefore + 1]
        BY <1>1, <1>2, <1>5
    <2>2. CallsBefore + 1 \in 0..4
        BY <1>4
    <2> QED
        BY <1>2, <1>5, <2>1, <2>2
<1>7. TypeOK'
    <2>1. cursor' \in Nat /\ cursor' <= Len(triggered') + 1
        BY <1>1, <1>2, <1>3
    <2> QED
        BY <1>1, <1>6, <2>1 DEF IInv, TypeOK
<1>8. WorldInv' /\ DivisionInv'
    BY <1>1 DEF IInv, WorldInv, DivisionInv, Present
<1>9. JobsInv' /\ StopsOnlyBy'
    BY <1>1 DEF IInv, JobsInv, Twice, StopsOnlyBy
<1>10. EarlyInv'
    BY <1>1 DEF IInv, EarlyInv, Locked
<1>11. where \notin {"idle", "starting"}
    BY <1>1, PlacesOfLoops DEF Locked
<1>12. StartInv'
    BY <1>1, <1>11 DEF IInv, StartInv, StartedOnce
<1>13. FrameInv'
    <2>1. \A k \in DOMAIN triggered : triggered[k] \in Entities /\ (triggered[k] = x => k = cursor)
        BY <1>2, <1>3 DEF IInv, DivisionInv, IsInjective
    <2>2. \A k \in DOMAIN triggered :
                calls'[triggered[k]] = CallsBefore + (IF k < cursor + 1 THEN 1 ELSE 0)
        <3> SUFFICES ASSUME NEW k \in DOMAIN triggered
                     PROVE  calls'[triggered[k]] = CallsBefore + (IF k < cursor + 1 THEN 1 ELSE 0)
            OBVIOUS
        <3>1. k \in Nat /\ cursor \in Nat
            BY <1>2, <1>3
        <3>2. CASE triggered[k] = x
            BY <1>6, <2>1, <3>1, <3>2
        <3>3. CASE triggered[k] # x
            <4>1. k # cursor /\ calls'[triggered[k]] = calls[triggered[k]]
                BY <1>6, <2>1, <3>3
            <4> QED
                BY <1>3, <3>1, <4>1
        <3> QED
            BY <3>2, <3>3
    <2>3. \A e \in Entities \ Range(triggered) : calls'[e] = 0
        BY <1>3, <1>5, <1>6
    <2>4. cursor' \in 1..Len(triggered') + 1
        BY <1>1, <1>2, <1>3
    <2> QED
        BY <1>1, <1>4, <2>2, <2>3, <2>4 DEF FrameInv
<1> QED
    BY <1>7, <1>8, <1>9, <1>10, <1>12, <1>13 DEF IInv

\* When a loop is done, every triggered entity has had its call.
LEMMA InvNextLoop ==
    ASSUME IInv, NextLoop
    PROVE  IInv'
<1> USE DEF worldVars, triggerVars, historyVars
<1>1. /\ Locked /\ (where = "frame" \/ cursor > Len(triggered)) /\ cursor' = 1
      /\ UNCHANGED <<started, broken, worldVars, triggerVars, jobs, historyVars>>
    BY DEF NextLoop, LoopDone
<1>2. PICK k \in 1..Len(Loops) - 1 : where = Loops[k] /\ where' = Loops[k + 1]
    BY DEF NextLoop
<1>3. /\ triggered \in Seq(Entities) /\ DOMAIN triggered = 1..Len(triggered) /\ Len(triggered) \in Nat
    BY DEF IInv, TypeOK
<1>4. \/ where = "OnBeginFrame" /\ where' = "OnMoveBefore"
      \/ where = "OnMoveBefore" /\ where' = "frame"
      \/ where = "frame" /\ where' = "OnMoveAfter"
      \/ where = "OnMoveAfter" /\ where' = "OnRender"
    <2>1. k \in {1, 2, 3, 4}
        BY <1>2, PlacesOfLoops
    <2>2. CASE k = 1
        BY <1>2, <2>2, PlacesOfLoops
    <2>3. CASE k = 2
        BY <1>2, <2>3, PlacesOfLoops
    <2>4. CASE k = 3
        BY <1>2, <2>4, PlacesOfLoops
    <2>5. CASE k = 4
        BY <1>2, <2>5, PlacesOfLoops
    <2> QED
        BY <2>1, <2>2, <2>3, <2>4, <2>5
<1>5. Locked' /\ where' \in Places /\ where' \notin {"idle", "starting"}
    BY <1>4, PlacesOfLoops DEF Locked, Places
<1>6. TypeOK'
    <2>1. cursor' \in Nat /\ cursor' <= Len(triggered') + 1
        BY <1>1, <1>3
    <2> QED
        BY <1>1, <1>5, <2>1 DEF IInv, TypeOK
<1>7. WorldInv' /\ DivisionInv'
    BY <1>1 DEF IInv, WorldInv, DivisionInv, Present
<1>8. JobsInv' /\ StopsOnlyBy'
    BY <1>1 DEF IInv, JobsInv, Twice, StopsOnlyBy
<1>9. EarlyInv'
    BY <1>1, <1>5 DEF IInv, EarlyInv
<1>10. StartInv'
    BY <1>1, <1>5 DEF IInv, StartInv, StartedOnce
<1>11. FrameInv'
    <2>1. \A i \in DOMAIN triggered :
                calls[triggered[i]] = CallsBefore + (IF i < cursor THEN 1 ELSE 0)
        BY <1>1 DEF IInv, FrameInv
    <2>2. \A i \in DOMAIN triggered : calls[triggered[i]] = CallsBefore'
        <3> SUFFICES ASSUME NEW i \in DOMAIN triggered
                     PROVE  calls[triggered[i]] = CallsBefore'
            OBVIOUS
        <3>1. CASE where = "frame"
            <4>1. cursor = 1 /\ ~(i < 1)
                BY <1>1, <1>3, <3>1 DEF IInv, FrameInv
            <4> QED
                BY <1>4, <2>1, <3>1, <4>1 DEF CallsBefore
        <3>2. CASE where # "frame"
            <4>1. i < cursor
                <5>1. i \in 1..Len(triggered) /\ cursor \in Nat /\ cursor > Len(triggered)
                    BY <1>1, <1>3, <3>2 DEF IInv, TypeOK
                <5> QED
                    BY <1>3, <5>1
            <4>2. calls[triggered[i]] = CallsBefore + 1
                BY <2>1, <4>1
            <4> QED
                BY <1>4, <3>2, <4>2 DEF CallsBefore
        <3> QED
            BY <3>1, <3>2
    <2>3. CallsBefore' \in Nat
        BY DEF CallsBefore
    <2>4. \A i \in DOMAIN triggered' :
                calls'[triggered'[i]] = CallsBefore' + (IF i < cursor' THEN 1 ELSE 0)
        <3>1. \A i \in DOMAIN triggered : ~(i < 1)
            BY <1>3
        <3> HIDE DEF CallsBefore
        <3> QED
            BY <1>1, <2>2, <2>3, <3>1
    <2>5. \A e \in Entities \ Range(triggered') : calls'[e] = 0
        BY <1>1 DEF IInv, FrameInv
    <2>6. cursor' \in 1..Len(triggered') + 1
        BY <1>1, <1>3
    <2> QED
        BY <1>1, <2>4, <2>5, <2>6 DEF FrameInv
<1> QED
    BY <1>6, <1>7, <1>8, <1>9, <1>10, <1>11 DEF IInv

LEMMA InvOnEndFrame ==
    ASSUME IInv, OnEndFrame
    PROVE  IInv'
<1> USE DEF historyVars
<1> DEFINE s == ActiveWithout(Leaving)
           r == RegistryWithout(Leaving)
<1>1. /\ Locked /\ jobs' = <<>>
      /\ activated' = [e \in Entities |-> activated[e] /\ e \notin Leaving]
      /\ active' = Without(s, {Null})
      /\ registry' = RegistryAfterLoop(r)
      /\ RemoveEntityFromTriggered(Leaving)
      /\ where' = "idle" /\ cursor' = 0
      /\ UNCHANGED <<started, broken, historyVars>>
    BY DEF OnEndFrame, FrameDone, LoopDone
<1>2. Leaving \in SUBSET Entities /\ \A e \in Leaving : asked[e] > 0
    BY LeavingProperties
<1>3. /\ activated' \in [Entities -> BOOLEAN]
      /\ \A e \in Entities : activated'[e] = (activated[e] /\ e \notin Leaving)
    BY <1>1
<1>4. triggered' \in Seq(Entities) /\ untriggered' \in Seq(Entities) /\ DivisionInv'
    BY <1>1, <1>3, LeaveKeepsDivision DEF IInv
<1>5. JobsInv' /\ StopsOnlyBy' /\ jobs' \in Seq(Entities)
    BY <1>1, NoJobsLeft
<1>6. /\ registry' \in [Entities -> {"absent", "null", "entity"}]
      /\ \A e \in Entities : registry'[e] = "entity" <=> registry[e] = "entity" /\ e \notin Leaving
    <2>1. /\ r \in [Entities -> {"absent", "null", "entity"}]
          /\ \A e \in Entities : r[e] = IF e \in Leaving THEN "null" ELSE registry[e]
        BY DEF RegistryWithout, IInv, TypeOK
    <2> HIDE DEF r
    <2>2. registry' = [e \in Entities |-> IF r[e] = "null" /\ LookedAt(r, e) THEN "absent" ELSE r[e]]
        BY <1>1 DEF RegistryAfterLoop
    <2> QED
        BY <2>1, <2>2
<1>7. /\ s \in Seq(Entities \cup {Null})
      /\ \A k \in DOMAIN active : s[k] = IF active[k] \in Leaving THEN Null ELSE active[k]
      /\ DOMAIN s = DOMAIN active
    <2>1. /\ active \in Seq(Entities \cup {Null}) /\ DOMAIN active = 1..Len(active) /\ Len(active) \in Nat
          /\ \A k \in DOMAIN active : active[k] \in Entities \cup {Null}
        BY DEF IInv, TypeOK
    <2>2. s = [k \in DOMAIN active |-> IF active[k] \in Leaving THEN Null ELSE active[k]]
        BY DEF ActiveWithout
    <2>3. s \in [1..Len(active) -> Entities \cup {Null}]
        BY <2>1, <2>2
    <2> QED
        BY <2>1, <2>2, <2>3
<1> HIDE DEF s
<1>8. \A i, j \in DOMAIN s : s[i] = s[j] /\ s[i] \notin {Null} => i = j
    BY <1>7 DEF IInv, WorldInv
<1>9. \A e \in Entities : e \in Range(s) <=> e \in Range(active) /\ e \notin Leaving
    BY <1>7, NullIsNoEntity DEF Range
<1>10. /\ active' \in Seq(Entities \cup {Null})
       /\ Range(active') = Range(s) \ {Null}
       /\ IsInjective(active')
    BY <1>1, <1>7, <1>8, WithoutProperties
<1>11. WorldInv'
    <2>1. \A i, j \in DOMAIN active' : active'[i] = active'[j] /\ active'[i] # Null => i = j
        BY <1>10 DEF IsInjective
    <2>2. \A e \in Entities : activated'[e] <=> e \in Range(active')
        BY <1>3, <1>9, <1>10, NullIsNoEntity DEF IInv, WorldInv
    <2> QED
        BY <1>3, <1>6, <2>1, <2>2 DEF IInv, WorldInv
<1>12. TypeOK'
    <2>1. where' \in Places
        BY <1>1 DEF Places
    <2> QED
        BY <1>1, <1>3, <1>4, <1>5, <1>6, <1>10, <2>1 DEF IInv, TypeOK
<1>13. ~Locked' /\ started'
    BY <1>1, PlacesOfLoops DEF Locked, IInv, EarlyInv
<1>14. EarlyInv' /\ FrameInv'
    BY <1>1, <1>13 DEF EarlyInv, FrameInv
<1>15. StartInv'
    <2>1. \A e \in Entities : starts'[e] > 0 => activated'[e] \/ asked'[e] > 0
        BY <1>1, <1>2, <1>3 DEF IInv, StartInv
    <2>2. StartedOnce'
        BY <1>1, <1>3 DEF IInv, StartInv, StartedOnce
    <2> QED
        BY <1>1, <1>13, <2>1, <2>2 DEF StartInv
<1> QED
    BY <1>4, <1>5, <1>11, <1>12, <1>14, <1>15 DEF IInv

-----------------------------------------------------------------------------
(* Leaving the game state.                                                 *)

LEMMA InvOnStateLeave ==
    ASSUME IInv, OnStateLeave
    PROVE  IInv'
<1>1. /\ where = "idle" /\ broken = "none"
      /\ activated' = [e \in Entities |-> FALSE]
      /\ active' = <<>> /\ triggered' = <<>> /\ untriggered' = <<>> /\ jobs' = <<>>
      /\ registry' = [e \in Entities |-> "absent"]
      /\ started' = FALSE
      /\ starts' = Zero /\ calls' = Zero /\ asked' = Zero /\ early' = FALSE
      /\ UNCHANGED <<where, cursor, broken>>
    BY DEF OnStateLeave, CanBegin, Running, Cleanup
<1>2. Range(<<>>) = {} /\ IsInjective(<<>>)
    BY InjectiveEmpty
<1>3. /\ Zero \in [Entities -> Nat] /\ Zero \in [Entities -> 0..4]
      /\ \A e \in Entities : Zero[e] = 0
    BY DEF Zero
<1>4. TypeOK'
    <2>1. /\ <<>> \in Seq(Entities \cup {Null}) /\ <<>> \in Seq(Entities)
          /\ activated' \in [Entities -> BOOLEAN]
          /\ registry' \in [Entities -> {"absent", "null", "entity"}]
        BY <1>1
    <2> QED
        BY <1>1, <1>3, <2>1 DEF IInv, TypeOK
<1>5. WorldInv'
    <2>1. DOMAIN active' = {}
        BY <1>1
    <2> QED
        BY <1>1, <1>2, <2>1 DEF WorldInv
<1>6. DivisionInv'
    BY <1>1, <1>2 DEF DivisionInv, Present
<1>7. JobsInv' /\ StopsOnlyBy'
    BY <1>1, <1>2, <1>3 DEF JobsInv, StopsOnlyBy
<1>8. ~Locked'
    BY <1>1, PlacesOfLoops DEF Locked
<1>9. EarlyInv' /\ FrameInv'
    BY <1>1, <1>2, <1>8 DEF EarlyInv, FrameInv
<1>10. StartInv'
    BY <1>1, <1>3 DEF StartInv, StartedOnce
<1> QED
    BY <1>4, <1>5, <1>6, <1>7, <1>9, <1>10 DEF IInv

-----------------------------------------------------------------------------
(* The invariant and what follows from it.                                 *)

LEMMA Initially == Init => IInv
<1> SUFFICES ASSUME Init PROVE IInv
    OBVIOUS
<1>1. Range(<<>>) = {} /\ IsInjective(<<>>)
    BY InjectiveEmpty
<1>2. /\ Zero \in [Entities -> Nat] /\ Zero \in [Entities -> 0..4]
      /\ \A e \in Entities : Zero[e] = 0
    BY DEF Zero
<1>3. TypeOK
    <2>1. /\ <<>> \in Seq(Entities \cup {Null}) /\ <<>> \in Seq(Entities)
          /\ where \in Places
        BY DEF Init, Places
    <2> QED
        BY <1>2, <2>1 DEF Init, TypeOK
<1>4. WorldInv
    <2>1. DOMAIN active = {}
        BY DEF Init
    <2> QED
        BY <1>1, <2>1 DEF Init, WorldInv
<1>5. DivisionInv
    BY <1>1 DEF Init, DivisionInv, Present
<1>6. JobsInv /\ StopsOnlyBy
    BY <1>1, <1>2 DEF Init, JobsInv, StopsOnlyBy
<1>7. ~Locked
    BY PlacesOfLoops DEF Init, Locked
<1>8. EarlyInv /\ FrameInv
    BY <1>1, <1>7 DEF Init, EarlyInv, FrameInv
<1>9. StartInv
    BY <1>2 DEF Init, StartInv, StartedOnce
<1> QED
    BY <1>3, <1>4, <1>5, <1>6, <1>8, <1>9 DEF IInv

LEMMA InvStutter ==
    ASSUME IInv, UNCHANGED vars
    PROVE  IInv'
<1>1. UNCHANGED <<started, where, cursor, broken, activated, active, registry,
                  triggered, untriggered, jobs, starts, calls, asked, early>>
    BY DEF vars, control, worldVars, triggerVars, historyVars
<1>2. TypeOK'
    BY <1>1 DEF IInv, TypeOK
<1>3. WorldInv' /\ DivisionInv'
    BY <1>1 DEF IInv, WorldInv, DivisionInv, Present
<1>4. JobsInv' /\ EarlyInv'
    BY <1>1 DEF IInv, JobsInv, Twice, EarlyInv, Locked
<1>5. FrameInv'
    BY <1>1 DEF IInv, FrameInv, Locked, CallsBefore
<1>6. StartInv'
    BY <1>1 DEF IInv, StartInv, StartedOnce
<1>7. StopsOnlyBy'
    BY <1>1 DEF IInv, StopsOnlyBy
<1> QED
    BY <1>2, <1>3, <1>4, <1>5, <1>6, <1>7 DEF IInv

LEMMA Inductive == IInv /\ [Next]_vars => IInv'
<1> SUFFICES ASSUME IInv, [Next]_vars PROVE IInv'
    OBVIOUS
<1>1. CASE StartEntities
    BY <1>1, InvStartEntities
<1>2. CASE StartEntitiesBreaks \/ StartedBreaks \/ OnBeginFrameBreaks \/ OnEndFrameBreaks
    BY <1>2, InvJobsBreak DEF StartEntitiesBreaks, StartedBreaks, OnBeginFrameBreaks, OnEndFrameBreaks
<1>3. CASE OnStart
    BY <1>3, InvOnStart
<1>4. CASE OnStartOfNull
    BY <1>4, InvOnStartOfNull
<1>5. CASE Started
    BY <1>5, InvStarted
<1>6. CASE OnBeginFrame
    BY <1>6, InvOnBeginFrame
<1>7. CASE Trigger
    BY <1>7, InvTrigger
<1>8. CASE NextLoop
    BY <1>8, InvNextLoop
<1>9. CASE OnEndFrame
    BY <1>9, InvOnEndFrame
<1>10. CASE GameCode
    BY <1>10, InvAttachEntity, InvRemoveEntity, InvRemoveEntityImmediate DEF GameCode
<1>11. CASE OnStateLeave
    BY <1>11, InvOnStateLeave
<1>12. CASE UNCHANGED vars
    BY <1>12, InvStutter
<1> QED
    BY <1>1, <1>2, <1>3, <1>4, <1>5, <1>6, <1>7, <1>8, <1>9, <1>10, <1>11, <1>12
       DEF Next, Start, Frame

LEMMA Invariant == Spec => []IInv
    BY Initially, Inductive, PTL DEF Spec

LEMMA CopiesProperties ==
    ASSUME NEW s, NEW e,
           \A i, j \in DOMAIN s : s[i] = e /\ s[j] = e => i = j
    PROVE  Copies(s, e) = IF e \in Range(s) THEN 1 ELSE 0
<1>1. CASE e \in Range(s)
    <2>1. PICK i \in DOMAIN s : s[i] = e
        BY <1>1 DEF Range
    <2>2. {k \in DOMAIN s : s[k] = e} = {i}
        BY <2>1
    <2> QED
        BY <1>1, <2>2, FS_Singleton DEF Copies
<1>2. CASE e \notin Range(s)
    <2>1. {k \in DOMAIN s : s[k] = e} = {}
        BY <1>2 DEF Range
    <2> QED
        BY <1>2, <2>1, FS_EmptySet DEF Copies
<1> QED
    BY <1>1, <1>2

LEMMA IInvConsistent == IInv => Consistent
<1> SUFFICES ASSUME IInv PROVE Consistent
    OBVIOUS
<1>1. InWorld
    <2> SUFFICES ASSUME NEW e \in Entities
                 PROVE  /\ Copies(active, e) = (IF activated[e] THEN 1 ELSE 0)
                        /\ registry[e] = "entity" <=> activated[e]
        BY DEF InWorld
    <2>1. \A i, j \in DOMAIN active : active[i] = e /\ active[j] = e => i = j
        BY NullIsNoEntity DEF IInv, WorldInv
    <2>2. Copies(active, e) = IF e \in Range(active) THEN 1 ELSE 0
        BY <2>1, CopiesProperties
    <2> QED
        BY <2>2 DEF IInv, WorldInv
<1>2. Divided
    <2> DEFINE u == triggered \o untriggered
    <2>1. /\ triggered \in Seq(Entities) /\ untriggered \in Seq(Entities)
          /\ IsInjective(triggered) /\ IsInjective(untriggered)
          /\ Range(triggered) \cap Range(untriggered) = {}
          /\ Range(triggered) \cup Range(untriggered) = Present
        BY DEF IInv, TypeOK, DivisionInv
    <2>2. Range(u) = Present /\ IsInjective(u)
        BY <2>1, InjectiveConcat
    <2> HIDE DEF u
    <2> SUFFICES ASSUME NEW e \in Entities
                 PROVE  Copies(u, e) = (IF activated[e] THEN 1 ELSE 0)
        BY DEF Divided, u
    <2>3. \A i, j \in DOMAIN u : u[i] = e /\ u[j] = e => i = j
        BY <2>2 DEF IsInjective
    <2>4. Copies(u, e) = IF e \in Range(u) THEN 1 ELSE 0
        BY <2>3, CopiesProperties
    <2> QED
        BY <2>2, <2>4 DEF Present
<1> QED
    BY <1>1, <1>2 DEF Consistent, IInv

\* The array of the active entities, the registry and the division into
\* triggered and untriggered entities agree in every callback of the start and
\* of a frame and between them, and nobody is in one of them twice.
THEOREM WorldIsConsistent == Spec => []Consistent
    BY Invariant, IInvConsistent, PTL

LEMMA IInvCalledOnce == IInv => CalledOnce
<1> SUFFICES ASSUME IInv PROVE CalledOnce
    OBVIOUS
<1>1. ASSUME FrameDone, NEW e \in Entities
      PROVE  calls[e] = IF Contains(triggered, e) THEN 4 ELSE 0
    <2>1. Locked /\ where = "OnRender" /\ cursor > Len(triggered)
        BY <1>1, PlacesOfLoops DEF FrameDone, LoopDone
    <2>2. CallsBefore = 3
        BY <2>1 DEF CallsBefore
    <2>3. /\ triggered \in Seq(Entities) /\ DOMAIN triggered = 1..Len(triggered)
          /\ Len(triggered) \in Nat /\ cursor \in Nat
        BY DEF IInv, TypeOK
    <2>4. /\ \A k \in DOMAIN triggered :
                calls[triggered[k]] = CallsBefore + (IF k < cursor THEN 1 ELSE 0)
          /\ \A f \in Entities \ Range(triggered) : calls[f] = 0
        BY <2>1 DEF IInv, FrameInv
    <2> HIDE DEF CallsBefore
    <2>5. \A k \in DOMAIN triggered : k < cursor
        BY <2>1, <2>3
    <2>6. \A k \in DOMAIN triggered : calls[triggered[k]] = 4
        BY <2>2, <2>4, <2>5
    <2>7. Contains(triggered, e) <=> e \in Range(triggered)
        BY <2>3 DEF Contains, Range
    <2> QED
        BY <2>4, <2>6, <2>7 DEF Range
<1> QED
    BY <1>1 DEF CalledOnce, FrameCallsEachOnce, IInv, StartInv

\* A frame calls each of its four callbacks once for every entity that was
\* triggered when it began and for no other, and OnStart is called once for
\* every entity of a game that has started.
THEOREM EveryEntityCalledOnce == Spec => []CalledOnce
    BY Invariant, IInvCalledOnce, PTL

\* A delayed job that does not find its entity was asked for twice, and a null
\* entry met by the start was left by a removal before it.
THEOREM StopsForAReason == Spec => []StopsOnlyBy
<1>1. IInv => StopsOnlyBy
    BY DEF IInv
<1> QED
    BY <1>1, Invariant, PTL

\* Nothing a callback does inside of a frame takes an entity out of the world
\* or changes the list that is walked over.
THEOREM FunctionsUntilFrameEnd == Spec => StaysUntilFrameEnd
<1> DEFINE Stays == Locked /\ Locked' =>
                        /\ \A e \in Entities : activated[e] => activated'[e]
                        /\ triggered' = triggered
<1>1. ASSUME IInv, [Next]_vars PROVE Stays
    <2> USE DEF control, worldVars, triggerVars
    <2>1. CASE Start
        <3>1. ~Locked \/ ~Locked'
            BY <2>1, PlacesOfLoops DEF Start, StartEntities, StartEntitiesBreaks, OnStart, OnStartOfNull,
                Started, StartedBreaks, CanStart, AtEntity, AllStarted, Locked
        <3> QED
            BY <3>1
    <2>2. CASE OnBeginFrame \/ OnBeginFrameBreaks \/ OnStateLeave
        <3>1. where = "idle"
            BY <2>2 DEF OnBeginFrame, OnBeginFrameBreaks, OnStateLeave, CanBegin
        <3> QED
            BY <3>1, PlacesOfLoops DEF Locked
    <2>3. CASE Trigger \/ NextLoop \/ OnEndFrameBreaks
        BY <2>3 DEF Trigger, NextLoop, OnEndFrameBreaks, JobsBreak
    <2>4. CASE OnEndFrame
        BY <2>4, PlacesOfLoops DEF OnEndFrame, Locked
    <2>5. ASSUME NEW e \in Entities, AttachEntity(e) PROVE Stays
        <3>1. activated' = [activated EXCEPT ![e] = TRUE] /\ triggered' = triggered
            BY <2>5 DEF AttachEntity
        <3> QED
            BY <1>1, <3>1 DEF IInv, TypeOK
    <2>6. ASSUME NEW e \in Entities, RemoveEntity(e) PROVE Stays
        BY <2>6 DEF RemoveEntity
    <2>7. ASSUME NEW e \in Entities, RemoveEntityImmediate(e) PROVE Stays
        BY <2>7 DEF RemoveEntityImmediate
    <2>8. CASE UNCHANGED vars
        BY <2>8 DEF vars
    <2> QED
        BY <1>1, <2>1, <2>2, <2>3, <2>4, <2>5, <2>6, <2>7, <2>8 DEF Next, Frame, GameCode
<1>2. IInv /\ [Next]_vars => [Stays]_vars
    BY <1>1
<1> HIDE DEF Stays
<1>3. Spec => [][Stays]_vars
    BY <1>2, Invariant, PTL DEF Spec
<1> QED
    BY <1>3 DEF StaysUntilFrameEnd, Stays
=============================================================================
