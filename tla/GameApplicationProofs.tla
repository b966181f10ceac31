------------------------ MODULE GameApplicationProofs ------------------------
(***************************************************************************)
(* Proofs about GameApplication, for any states, any level and any number  *)
(* of entities the game creates: no assertion fails, exactly the current   *)
(* state is entered, nothing is left after closing, every entity is        *)
(* started once and the last request is honoured.                          *)
(***************************************************************************)
EXTENDS GameApplication, SequenceTheorems, TLAPS

-----------------------------------------------------------------------------
(* Sequences.                                                              *)

\* The elements of a sequence after an append.
LEMMA RangeOfAppend ==
    ASSUME NEW T, NEW s \in Seq(T), NEW m \in T
    PROVE  Range(Append(s, m)) = Range(s) \cup {m}
<1>1. Append(s, m) \in Seq(T) /\ Len(Append(s, m)) = Len(s) + 1
    BY AppendProperties
<1>2. /\ \A i \in 1..Len(s) : Append(s, m)[i] = s[i]
      /\ Append(s, m)[Len(s) + 1] = m
    BY AppendProperties
<1>3. Range(s) = {s[i] : i \in 1..Len(s)}
    BY RangeEquality
<1>4. Range(Append(s, m)) = {Append(s, m)[i] : i \in 1..Len(s) + 1}
    BY <1>1, RangeEquality
<1>5. Len(s) \in Nat
    OBVIOUS
<1> QED
    BY <1>2, <1>3, <1>4, <1>5

\* The empty sequence.
LEMMA InjectiveEmpty == Range(<<>>) = {} /\ IsInjective(<<>>)
<1>1. DOMAIN <<>> = {}
    OBVIOUS
<1> QED
    BY <1>1 DEF Range, IsInjective

\* An append keeps the elements pairwise different if the element is new.
LEMMA InjectiveAppend ==
    ASSUME NEW T, NEW s \in Seq(T), NEW m \in T
    PROVE  IsInjective(Append(s, m)) <=> IsInjective(s) /\ m \notin Range(s)
<1> DEFINE u == Append(s, m)
           n == Len(s)
<1>1. /\ n \in Nat /\ DOMAIN s = 1..n /\ DOMAIN u = 1..n + 1
      /\ u[n + 1] = m /\ \A i \in 1..n : u[i] = s[i]
    BY AppendProperties
<1>2. Range(s) = {s[i] : i \in 1..n}
    BY RangeEquality
<1> HIDE DEF u, n
<1>3. /\ \A i \in 1..n : i \in 1..n + 1 /\ i # n + 1
      /\ \A i \in 1..n + 1 : i \in 1..n \/ i = n + 1
      /\ n + 1 \in 1..n + 1
    BY <1>1
<1>4. IsInjective(u) <=> IsInjective(s) /\ m \notin Range(s)
    BY <1>1, <1>2, <1>3 DEF IsInjective
<1> QED
    BY <1>4 DEF u

\* The tail of a sequence of different elements has them, without the head.
LEMMA InjectiveTail ==
    ASSUME NEW T, NEW s \in Seq(T), s # <<>>, IsInjective(s)
    PROVE  IsInjective(Tail(s)) /\ Head(s) \notin Range(Tail(s))
<1>1. /\ Tail(s) \in Seq(T) /\ Len(Tail(s)) = Len(s) - 1
      /\ \A i \in 1..Len(Tail(s)) : Tail(s)[i] = s[i + 1]
    BY HeadTailProperties
<1>2. /\ Len(s) \in Nat \ {0} /\ Head(s) = s[1] /\ DOMAIN s = 1..Len(s)
      /\ DOMAIN Tail(s) = 1..Len(s) - 1
    BY <1>1, EmptySeq
<1>3. \A i, j \in 1..Len(s) : s[i] = s[j] => i = j
    BY <1>2 DEF IsInjective
<1>4. \A i \in 1..Len(s) - 1 : i \in Nat /\ i + 1 \in 1..Len(s) /\ 1 \in 1..Len(s) /\ i + 1 # 1
    BY <1>2
<1>5. IsInjective(Tail(s))
    BY <1>1, <1>2, <1>3, <1>4 DEF IsInjective
<1>6. Head(s) \notin Range(Tail(s))
    BY <1>1, <1>2, <1>3, <1>4 DEF Range
<1> QED
    BY <1>5, <1>6

-----------------------------------------------------------------------------
(* The inductive invariant.                                                *)

\* The steps there are, with their arguments.
Steps ==
    ({"AttachGameFeature"} \X Features) \cup ({"RemoveGameFeature"} \X {"basegame", "graphics", "core"})
        \cup ({"AttachEntity"} \X Range(Level))
        \cup ({"OnStateLeave", "OnStateEnter", "ClearRequest"} \X States)
        \cup ({"StartEntities"} \X Nat)
        \cup ({"OnFrame", "OnEndFrame", "HandlerFrame", "ClearJobs", "Cleanup", "AssertEmpty",
               "NotifyGameLoad", "AssertStopped", "SetStarted", "Stop",
               "CleanupStateHandlers", "CloseServer"} \X {0})

\* The step that attaches the i-th entity of the level, or the one after the last.
Loading(i) == IF i \in DOMAIN Level THEN <<"AttachEntity", Level[i]>> ELSE <<"NotifyGameLoad", 0>>

\* What attaching and removing a feature are followed by.
FollowsAttach(f) ==
    CASE f = "core"     -> {<<"AttachGameFeature", "graphics">>}
      [] f = "graphics" -> {<<"AttachGameFeature", "fighting">>}
      [] f = "fighting" -> {"OnStateLeave"} \X States
      [] OTHER          -> {<<"AssertEmpty", 0>>, <<"ClearJobs", 0>>}

FollowsRemove(f) ==
    CASE f = "basegame" -> {<<"Stop", 0>>}
      [] f = "graphics" -> {<<"RemoveGameFeature", "core">>}
      [] OTHER          -> {<<"CleanupStateHandlers", 0>>}

\* The steps that may come after a step.
Follows(a) ==
    CASE a[1] = "AttachGameFeature" -> FollowsAttach(a[2])
      [] a[1] = "RemoveGameFeature" -> FollowsRemove(a[2])
      [] a[1] = "OnStateLeave"   -> {<<"OnStateEnter", a[2]>>}
      [] a[1] = "OnStateEnter"   -> {<<"ClearRequest", a[2]>>}
      [] a[1] = "OnFrame"        -> {<<"OnEndFrame", 0>>}
      [] a[1] = "OnEndFrame"     -> {<<"HandlerFrame", 0>>}
      [] a[1] = "ClearJobs"      -> {<<"Cleanup", 0>>}
      [] a[1] = "Cleanup"        -> {<<"RemoveGameFeature", "basegame">>, <<"AssertEmpty", 0>>}
      [] a[1] = "AssertEmpty"    -> {Loading(1), <<"AssertStopped", 0>>}
      [] a[1] = "AttachEntity"   -> {Loading(i + 1) : i \in {j \in DOMAIN Level : Level[j] = a[2]}}
      [] a[1] = "NotifyGameLoad" -> {<<"AssertStopped", 0>>, <<"HandlerFrame", 0>>}
      [] a[1] = "AssertStopped"  -> {<<"StartEntities", 1>>}
      [] a[1] = "StartEntities"  -> {<<"SetStarted", 0>>}
      [] a[1] = "SetStarted"     -> {"ClearRequest"} \X States
      [] a[1] = "Stop"           -> {"OnStateEnter"} \X States
      [] a[1] = "CleanupStateHandlers" -> {<<"CloseServer", 0>>}
      [] OTHER -> {}

\* The steps a call ends with: a transition, a frame and the closing.
Final(a) == a[1] \in {"ClearRequest", "HandlerFrame", "CloseServer"}

\* Steps in an order the code has, and such steps up to the last one of a call.
Chain(s) == s \in Seq(Steps) /\ \A i \in 1..Len(s) : i + 1 <= Len(s) => s[i + 1] \in Follows(s[i])
EndOfCall(s) == Chain(s) /\ (s # <<>> => Final(Last(s)))

Has(s, step) == \E i \in DOMAIN s : s[i][1] = step
Pending(step) == Has(todo, step)
InGame == curState \in GameStates

\* The steps that clean up and set up the world.
SetupNames == {"ClearJobs", "Cleanup", "AssertEmpty", "AttachEntity", "NotifyGameLoad"}

\* Which state is current at which step.
StateInv ==
    /\ Pending("Stop") \/ Pending("SetStarted") \/ (\E x \in SetupNames : At(x)) => InGame
    /\ At("AttachGameFeature") => IF Arg = "basegame" THEN InGame ELSE curState = NoState
    /\ Pending("CloseServer") => curState \in {Exit, NoState}
    /\ At("CloseServer") => curState = NoState /\ requestedState = NoState
    /\ isOpen /\ curState = NoState => Pending("OnStateEnter") \/ Pending("CloseServer")
    /\ entered = IF Pending("OnStateEnter") /\ ~Pending("OnStateLeave") THEN {}
                 ELSE {curState} \ {Exit, NoState}

\* The server is started, and the features are attached, from one step to another.
ServerInv ==
    /\ isStarted = (InGame /\ ~Pending("SetStarted") /\ ~At("OnStateEnter"))
    /\ "basegame" \in active <=>
        InGame /\ ~At("Stop") /\ ~At("OnStateEnter") /\ ~At("AttachGameFeature")
    /\ gameFeatures = active
    /\ isOpen =>
        IF Pending("CloseServer")
        THEN At("RemoveGameFeature") => Arg \in {"graphics", "core"} /\ {"core", Arg} \subseteq active
        ELSE IF At("AttachGameFeature") /\ Arg # "basegame"
             THEN active = CASE Arg = "core" -> {}
                             [] Arg = "graphics" -> {"core"}
                             [] Arg = "fighting" -> {"core", "graphics"}
             ELSE Range(AppFeatures) \subseteq active

\* There are entities in a game only, none when it is set up or left, and those
\* of the level are attached one by one.
WorldInv ==
    /\ "basegame" \notin active \/ At("AssertEmpty") \/ At("RemoveGameFeature") => activeEntities = <<>>
    /\ At("AttachEntity") =>
        \A i \in DOMAIN Level : Level[i] = Arg =>
            \A j \in DOMAIN Level : j >= i => Level[j] \notin Range(activeEntities)

\* The entities in front of the loop of StartEntities are started, and all are
\* afterwards.
LifeInv ==
    /\ At("StartEntities") => Arg \in 1..Len(activeEntities) + 1
    /\ \A k \in DOMAIN activeEntities :
        life[activeEntities[k]].starts =
            IF isStarted \/ At("SetStarted") \/ (At("StartEntities") /\ k < Arg) THEN 1 ELSE 0
    /\ \A e \in Entities : life[e].starts \in 0..1

\* A request is the state of the transition it leads to.
RequestInv ==
    /\ ~InTransition => owed = requestedState
    /\ InTransition =>
        /\ owed \in {NoState, Last(todo)[2]}
        /\ Pending("OnStateEnter") \/ curState = Last(todo)[2]

ClosedInv ==
    ~isOpen => todo = <<>> /\ curState = NoState /\ active = {} /\ owed = NoState /\ requestedState = NoState

IInv ==
    /\ ~broken /\ TypeOK /\ EndOfCall(todo)
    /\ StateInv /\ ServerInv /\ WorldInv /\ LifeInv /\ RequestInv /\ ClosedInv

-----------------------------------------------------------------------------
(* Lists of steps.                                                         *)

LEMMA StepTypes ==
    ASSUME NEW a \in Steps
    PROVE  /\ a[1] = "AttachGameFeature" => a[2] \in Features
           /\ a[1] = "RemoveGameFeature" => a[2] \in {"basegame", "graphics", "core"}
           /\ a[1] \in {"OnStateLeave", "OnStateEnter", "ClearRequest"} => a[2] \in States
           /\ a[1] = "AttachEntity" => a[2] \in Range(Level)
           /\ a[1] = "StartEntities" => a[2] \in Nat
           /\ a = <<a[1], a[2]>>
BY DEF Steps

\* What a step that is done leaves.
LEMMA TailOfCall ==
    ASSUME NEW s, EndOfCall(s), s # <<>>
    PROVE  /\ EndOfCall(Tail(s)) /\ Head(s) \in Steps
           /\ Tail(s) = <<>> <=> Final(Head(s))
           /\ Tail(s) # <<>> => Head(Tail(s)) \in Follows(Head(s)) /\ Last(Tail(s)) = Last(s)
           /\ Tail(s) = <<>> => Last(s) = Head(s)
           /\ \A y : Has(s, y) <=> Head(s)[1] = y \/ Has(Tail(s), y)
<1>1. /\ s \in Seq(Steps) /\ Len(s) \in Nat \ {0} /\ Head(s) = s[1] /\ DOMAIN s = 1..Len(s)
      /\ s[1] \in Steps
    BY EmptySeq, ElementOfSeq DEF EndOfCall, Chain
<1>2. /\ Tail(s) \in Seq(Steps) /\ Len(Tail(s)) = Len(s) - 1 /\ DOMAIN Tail(s) = 1..Len(s) - 1
      /\ \A i \in 1..Len(s) - 1 : Tail(s)[i] = s[i + 1]
    BY <1>1, HeadTailProperties
<1>3. \A a : Final(a) => Follows(a) = {}
    <2> SUFFICES ASSUME NEW a, Final(a) PROVE Follows(a) = {}
        OBVIOUS
    <2>1. CASE a[1] = "ClearRequest"
        BY <2>1 DEF Follows
    <2>2. CASE a[1] = "HandlerFrame"
        BY <2>2 DEF Follows
    <2>3. CASE a[1] = "CloseServer"
        BY <2>3 DEF Follows
    <2> QED
        BY <2>1, <2>2, <2>3 DEF Final
<1>4. Tail(s) = <<>> <=> Len(s) = 1
    <2>1. Tail(s) = <<>> <=> Len(Tail(s)) = 0
        BY <1>2, EmptySeq
    <2> QED
        BY <1>1, <1>2, <2>1
<1>5. Len(s) = 1 <=> Final(s[1])
    <2>1. Len(s) # 1 => s[2] \in Follows(s[1])
        BY <1>1 DEF EndOfCall, Chain
    <2> QED
        BY <1>1, <1>3, <2>1 DEF EndOfCall, Last
<1>6. Len(s) # 1 => Last(Tail(s)) = Last(s) /\ Head(Tail(s)) = s[2] /\ s[2] \in Follows(s[1])
    <2>1. Len(s) # 1 => Len(s) - 1 \in 1..Len(s) - 1 /\ 1 \in 1..Len(s) - 1 /\ Len(s) - 1 + 1 = Len(s)
        BY <1>1
    <2>2. Len(s) # 1 => s[2] \in Follows(s[1])
        BY <1>1 DEF EndOfCall, Chain
    <2>3. Len(s) # 1 => Head(Tail(s)) = Tail(s)[1]
        BY <1>2, <1>4, EmptySeq
    <2> QED
        BY <1>2, <2>1, <2>2, <2>3 DEF Last
<1>7. EndOfCall(Tail(s))
    <2>1. ASSUME NEW i \in 1..Len(s) - 1, i + 1 <= Len(s) - 1
          PROVE  Tail(s)[i + 1] \in Follows(Tail(s)[i])
        BY <1>1, <1>2, <2>1 DEF EndOfCall, Chain
    <2>2. Chain(Tail(s))
        BY <1>1, <1>2, <2>1 DEF Chain
    <2> QED
        BY <1>1, <1>4, <1>6, <2>2 DEF EndOfCall
<1>8. ASSUME NEW y
      PROVE  Has(s, y) <=> s[1][1] = y \/ Has(Tail(s), y)
    <2>1. \A i \in 1..Len(s) - 1 : i + 1 \in 1..Len(s)
        BY <1>1
    <2>2. \A i \in 1..Len(s) : i = 1 \/ (i - 1 \in 1..Len(s) - 1 /\ i - 1 + 1 = i)
        BY <1>1
    <2>3. Has(s, y) => s[1][1] = y \/ Has(Tail(s), y)
        <3> SUFFICES ASSUME NEW i \in 1..Len(s), s[i][1] = y, i # 1 PROVE Has(Tail(s), y)
            BY <1>1 DEF Has
        <3>1. i - 1 \in 1..Len(s) - 1 /\ Tail(s)[i - 1] = s[i]
            BY <1>2, <2>2
        <3> QED
            BY <1>2, <3>1 DEF Has
    <2>4. s[1][1] = y \/ Has(Tail(s), y) => Has(s, y)
        BY <1>1, <1>2, <2>1 DEF Has
    <2> QED
        BY <2>3, <2>4
<1> QED
    BY <1>1, <1>4, <1>5, <1>6, <1>7, <1>8 DEF Last

\* What steps that are put in front give.
LEMMA ChainConcat ==
    ASSUME NEW s, NEW t, Chain(s), Chain(t), s # <<>>, t # <<>>, t[1] \in Follows(s[Len(s)])
    PROVE  /\ Chain(s \o t) /\ s \o t # <<>>
           /\ (s \o t)[1] = s[1] /\ Head(s \o t) = s[1]
           /\ (s \o t)[Len(s \o t)] = t[Len(t)] /\ Last(s \o t) = Last(t)
           /\ \A y : Has(s \o t, y) <=> Has(s, y) \/ Has(t, y)
<1> DEFINE u == s \o t
           m == Len(s)
           n == Len(t)
<1>1. /\ s \in Seq(Steps) /\ t \in Seq(Steps) /\ m \in Nat \ {0} /\ n \in Nat \ {0}
      /\ DOMAIN s = 1..m /\ DOMAIN t = 1..n
    BY EmptySeq DEF Chain
<1>2. /\ u \in Seq(Steps) /\ Len(u) = m + n /\ DOMAIN u = 1..m + n
      /\ \A i \in 1..m + n : u[i] = IF i <= m THEN s[i] ELSE t[i - m]
    BY <1>1, ConcatProperties
<1> HIDE DEF u, m, n
<1>3. ASSUME NEW i \in 1..m + n, i + 1 <= m + n
      PROVE  u[i + 1] \in Follows(u[i])
    <2>1. CASE i < m
        BY <1>1, <1>2, <1>3, <2>1 DEF Chain, m
    <2>2. CASE i = m
        <3>1. u[i + 1] = t[1] /\ u[i] = s[m]
            BY <1>1, <1>2, <1>3, <2>2
        <3> QED
            BY <3>1 DEF m
    <2>3. CASE i > m
        <3>1. u[i + 1] = t[i - m + 1] /\ u[i] = t[i - m] /\ i - m \in 1..n /\ i - m + 1 <= n
            BY <1>1, <1>2, <1>3, <2>3
        <3> QED
            BY <1>1, <3>1 DEF Chain, n
    <2>4. i < m \/ i = m \/ i > m
        BY <1>1
    <2> QED
        BY <2>1, <2>2, <2>3, <2>4
<1>4. Chain(u) /\ u # <<>> /\ Head(u) = u[1] /\ u[1] = s[1] /\ u[Len(u)] = t[n]
    <2>1. Chain(u) /\ u # <<>>
        BY <1>1, <1>2, <1>3, EmptySeq DEF Chain
    <2>2. Head(u) = u[1]
        BY <1>2, <2>1, EmptySeq
    <2>3. u[1] = s[1] /\ u[m + n] = t[n]
        BY <1>1, <1>2
    <2> QED
        BY <1>2, <2>1, <2>2, <2>3
<1>5. ASSUME NEW y
      PROVE  Has(u, y) <=> Has(s, y) \/ Has(t, y)
    <2>1. \A i \in 1..m : i \in 1..m + n /\ u[i] = s[i]
        BY <1>1, <1>2
    <2>2. ASSUME NEW i \in 1..n PROVE m + i \in 1..m + n /\ u[m + i] = t[i]
        <3>1. m \in Nat /\ n \in Nat
            BY <1>1
        <3>2. m + i \in 1..m + n /\ ~(m + i <= m) /\ m + i - m = i
            BY <3>1
        <3>3. \A k \in 1..m + n : ~(k <= m) => u[k] = t[k - m]
            BY <1>1, <1>2
        <3> QED
            BY <3>1, <3>2, <3>3
    <2>3. \A i \in 1..m + n : (i \in 1..m /\ u[i] = s[i]) \/ (i - m \in 1..n /\ u[i] = t[i - m])
        BY <1>1, <1>2
    <2>4. Has(u, y) => Has(s, y) \/ Has(t, y)
        BY <1>1, <1>2, <2>3 DEF Has
    <2>5. Has(s, y) \/ Has(t, y) => Has(u, y)
        BY <1>1, <1>2, <2>1, <2>2 DEF Has
    <2> QED
        BY <2>4, <2>5
<1> QED
    BY <1>1, <1>2, <1>4, <1>5 DEF u, m, n, Last

\* What comes after a step, name by name.
LEMMA NextStep ==
    ASSUME NEW a, NEW b \in Follows(a)
    PROVE  /\ ~Final(a)
           /\ a[1] = "OnStateEnter" => b[1] = "ClearRequest" /\ b[2] = a[2]
           /\ a[1] = "SetStarted" => b[1] = "ClearRequest"
           /\ a[1] = "OnStateLeave" => b[1] = "OnStateEnter" /\ b[2] = a[2]
           /\ a[1] = "Stop" => b[1] = "OnStateEnter"
           /\ a[1] = "StartEntities" => b[1] = "SetStarted"
           /\ a[1] = "AssertStopped" => b[1] = "StartEntities" /\ b[2] = 1
           /\ a[1] = "OnEndFrame" => b[1] = "HandlerFrame"
           /\ a[1] = "OnFrame" => b[1] = "OnEndFrame"
           /\ a[1] = "CleanupStateHandlers" => b[1] = "CloseServer"
           /\ a[1] = "RemoveGameFeature" /\ a[2] = "basegame" => b[1] = "Stop"
           /\ a[1] = "RemoveGameFeature" /\ a[2] = "core" => b[1] = "CleanupStateHandlers"
           /\ a[1] = "RemoveGameFeature" /\ a[2] = "graphics" => b[1] = "RemoveGameFeature" /\ b[2] = "core"
           /\ a[1] = "AttachGameFeature" /\ a[2] = "fighting" => b[1] = "OnStateLeave"
           /\ a[1] = "AttachGameFeature" /\ a[2] = "graphics" => b[1] = "AttachGameFeature" /\ b[2] = "fighting"
           /\ a[1] = "AttachGameFeature" /\ a[2] = "core" => b[1] = "AttachGameFeature" /\ b[2] = "graphics"
           /\ a[1] = "AttachGameFeature" /\ a[2] = "basegame" => b[1] \in {"AssertEmpty", "ClearJobs"}
           /\ a[1] = "ClearJobs" => b[1] = "Cleanup"
           /\ a[1] = "Cleanup" => (b[1] = "RemoveGameFeature" /\ b[2] = "basegame") \/ b[1] = "AssertEmpty"
           /\ a[1] = "AssertEmpty" => b = Loading(1) \/ b[1] = "AssertStopped"
           /\ a[1] = "AttachEntity" => \E i \in DOMAIN Level : Level[i] = a[2] /\ b = Loading(i + 1)
           /\ a[1] = "NotifyGameLoad" => b[1] \in {"AssertStopped", "HandlerFrame"}
<1>1. ~Final(a)
    BY DEF Follows, Final
<1>2. a[1] = "OnStateEnter" => b[1] = "ClearRequest" /\ b[2] = a[2]
    BY DEF Follows
<1>3. a[1] = "SetStarted" => b[1] = "ClearRequest"
    BY DEF Follows
<1>4. a[1] = "OnStateLeave" => b[1] = "OnStateEnter" /\ b[2] = a[2]
    BY DEF Follows
<1>5. a[1] = "Stop" => b[1] = "OnStateEnter"
    BY DEF Follows
<1>6. a[1] = "StartEntities" => b[1] = "SetStarted"
    BY DEF Follows
<1>7. a[1] = "AssertStopped" => b[1] = "StartEntities" /\ b[2] = 1
    BY DEF Follows
<1>8. a[1] = "OnEndFrame" => b[1] = "HandlerFrame"
    BY DEF Follows
<1>9. a[1] = "OnFrame" => b[1] = "OnEndFrame"
    BY DEF Follows
<1>10. a[1] = "CleanupStateHandlers" => b[1] = "CloseServer"
    BY DEF Follows
<1>11. a[1] = "RemoveGameFeature" /\ a[2] = "basegame" => b[1] = "Stop"
    BY DEF Follows, FollowsRemove
<1>12. a[1] = "RemoveGameFeature" /\ a[2] = "core" => b[1] = "CleanupStateHandlers"
    BY DEF Follows, FollowsRemove
<1>13. a[1] = "RemoveGameFeature" /\ a[2] = "graphics" => b[1] = "RemoveGameFeature" /\ b[2] = "core"
    BY DEF Follows, FollowsRemove
<1>14. a[1] = "AttachGameFeature" /\ a[2] = "fighting" => b[1] = "OnStateLeave"
    BY DEF Follows, FollowsAttach
<1>15. a[1] = "AttachGameFeature" /\ a[2] = "graphics" => b[1] = "AttachGameFeature" /\ b[2] = "fighting"
    BY DEF Follows, FollowsAttach
<1>16. a[1] = "AttachGameFeature" /\ a[2] = "core" => b[1] = "AttachGameFeature" /\ b[2] = "graphics"
    BY DEF Follows, FollowsAttach
<1>17. a[1] = "AttachGameFeature" /\ a[2] = "basegame" => b[1] \in {"AssertEmpty", "ClearJobs"}
    BY DEF Follows, FollowsAttach
<1>18. a[1] = "ClearJobs" => b[1] = "Cleanup"
    BY DEF Follows
<1>19. a[1] = "Cleanup" => (b[1] = "RemoveGameFeature" /\ b[2] = "basegame") \/ b[1] = "AssertEmpty"
    BY DEF Follows
<1>20. a[1] = "AssertEmpty" => b = Loading(1) \/ b[1] = "AssertStopped"
    BY DEF Follows
<1>21. a[1] = "AttachEntity" => \E i \in DOMAIN Level : Level[i] = a[2] /\ b = Loading(i + 1)
    BY DEF Follows
<1>22. a[1] = "NotifyGameLoad" => b[1] \in {"AssertStopped", "HandlerFrame"}
    BY DEF Follows
<1> QED
    BY <1>1, <1>2, <1>3, <1>4, <1>5, <1>6, <1>7, <1>8, <1>9, <1>10, <1>11, <1>12, <1>13, <1>14, <1>15, <1>16, <1>17, <1>18, <1>19, <1>20, <1>21, <1>22

\* What is left of a call at the steps near its end, and that a transition is one
\* to a single state.
Names(s, N) == \A y : Has(s, y) <=> y \in N

LEMMA RestOfCall ==
    ASSUME NEW s, EndOfCall(s), s # <<>>
    PROVE  /\ Final(Head(s)) => Names(Tail(s), {})
           /\ Head(s)[1] = "OnStateEnter" => Names(Tail(s), {"ClearRequest"})
           /\ Head(s)[1] = "SetStarted" => Names(Tail(s), {"ClearRequest"})
           /\ Head(s)[1] = "OnStateLeave" => Names(Tail(s), {"OnStateEnter", "ClearRequest"})
           /\ Head(s)[1] = "Stop" => Names(Tail(s), {"OnStateEnter", "ClearRequest"})
           /\ Head(s)[1] = "StartEntities" => Names(Tail(s), {"SetStarted", "ClearRequest"})
           /\ Head(s)[1] = "AssertStopped" => Names(Tail(s), {"StartEntities", "ClearRequest", "SetStarted"})
           /\ Head(s)[1] = "OnEndFrame" => Names(Tail(s), {"HandlerFrame"})
           /\ Head(s)[1] = "OnFrame" => Names(Tail(s), {"OnEndFrame", "HandlerFrame"})
           /\ Head(s)[1] = "CleanupStateHandlers" => Names(Tail(s), {"CloseServer"})
           /\ Head(s)[1] = "RemoveGameFeature" /\ Head(s)[2] = "basegame" => Names(Tail(s), {"Stop", "OnStateEnter", "ClearRequest"})
           /\ Head(s)[1] = "RemoveGameFeature" /\ Head(s)[2] = "core" => Names(Tail(s), {"CleanupStateHandlers", "CloseServer"})
           /\ Head(s)[1] = "RemoveGameFeature" /\ Head(s)[2] = "graphics" => Names(Tail(s), {"RemoveGameFeature", "CleanupStateHandlers", "CloseServer"})
           /\ Head(s)[1] = "AttachGameFeature" /\ Head(s)[2] = "fighting" => Names(Tail(s), {"OnStateLeave", "OnStateEnter", "ClearRequest"})
           /\ Head(s)[1] = "AttachGameFeature" /\ Head(s)[2] = "graphics" => Names(Tail(s), {"AttachGameFeature", "OnStateLeave", "OnStateEnter", "ClearRequest"})
           /\ Head(s)[1] = "AttachGameFeature" /\ Head(s)[2] = "core" => Names(Tail(s), {"AttachGameFeature", "OnStateLeave", "OnStateEnter", "ClearRequest"})
           /\ Head(s)[1] \in {"ClearRequest", "OnStateEnter", "OnStateLeave"} => Last(s)[2] = Head(s)[2]
<1> DEFINE Known(t) == EndOfCall(t) /\ t # <<>>
<1>1. \A t : Known(t) =>
        /\ Final(Head(t)) => Tail(t) = <<>> /\ Last(t) = Head(t)
        /\ ~Final(Head(t)) =>
            Known(Tail(t)) /\ Head(Tail(t)) \in Follows(Head(t)) /\ Last(Tail(t)) = Last(t)
    BY TailOfCall
<1>2. \A t : Known(t) => \A y : Has(t, y) <=> Head(t)[1] = y \/ Has(Tail(t), y)
    BY TailOfCall
<1> HIDE DEF Known
<1>3. \A t : Known(t) /\ Final(Head(t)) => Names(Tail(t), {})
    <2>1. Names(<<>>, {})
        BY DEF Names, Has
    <2> QED
        BY <1>1, <2>1
<1>4. \A t : Known(t) /\ Head(t)[1] = "OnStateEnter" => Names(Tail(t), {"ClearRequest"})
    <2> SUFFICES ASSUME NEW t, Known(t), Head(t)[1] = "OnStateEnter" PROVE Names(Tail(t), {"ClearRequest"})
        OBVIOUS
    <2>1. ~Final(Head(t))
        BY DEF Final
    <2>2. Known(Tail(t)) /\ Head(Tail(t))[1] = "ClearRequest"
        BY <1>1, <2>1, NextStep
    <2>3. Names(Tail(Tail(t)), {})
        BY <1>3, <2>2 DEF Final
    <2> QED
        BY <1>2, <2>2, <2>3 DEF Names
<1>5. \A t : Known(t) /\ Head(t)[1] = "SetStarted" => Names(Tail(t), {"ClearRequest"})
    <2> SUFFICES ASSUME NEW t, Known(t), Head(t)[1] = "SetStarted" PROVE Names(Tail(t), {"ClearRequest"})
        OBVIOUS
    <2>1. ~Final(Head(t))
        BY DEF Final
    <2>2. Known(Tail(t)) /\ Head(Tail(t))[1] = "ClearRequest"
        BY <1>1, <2>1, NextStep
    <2>3. Names(Tail(Tail(t)), {})
        BY <1>3, <2>2 DEF Final
    <2> QED
        BY <1>2, <2>2, <2>3 DEF Names
<1>6. \A t : Known(t) /\ Head(t)[1] = "OnStateLeave" => Names(Tail(t), {"OnStateEnter", "ClearRequest"})
    <2> SUFFICES ASSUME NEW t, Known(t), Head(t)[1] = "OnStateLeave" PROVE Names(Tail(t), {"OnStateEnter", "ClearRequest"})
        OBVIOUS
    <2>1. ~Final(Head(t))
        BY DEF Final
    <2>2. Known(Tail(t)) /\ Head(Tail(t))[1] = "OnStateEnter"
        BY <1>1, <2>1, NextStep
    <2>3. Names(Tail(Tail(t)), {"ClearRequest"})
        BY <1>4, <2>2
    <2> QED
        BY <1>2, <2>2, <2>3 DEF Names
<1>7. \A t : Known(t) /\ Head(t)[1] = "Stop" => Names(Tail(t), {"OnStateEnter", "ClearRequest"})
    <2> SUFFICES ASSUME NEW t, Known(t), Head(t)[1] = "Stop" PROVE Names(Tail(t), {"OnStateEnter", "ClearRequest"})
        OBVIOUS
    <2>1. ~Final(Head(t))
        BY DEF Final
    <2>2. Known(Tail(t)) /\ Head(Tail(t))[1] = "OnStateEnter"
        BY <1>1, <2>1, NextStep
    <2>3. Names(Tail(Tail(t)), {"ClearRequest"})
        BY <1>4, <2>2
    <2> QED
        BY <1>2, <2>2, <2>3 DEF Names
<1>8. \A t : Known(t) /\ Head(t)[1] = "StartEntities" => Names(Tail(t), {"SetStarted", "ClearRequest"})
    <2> SUFFICES ASSUME NEW t, Known(t), Head(t)[1] = "StartEntities" PROVE Names(Tail(t), {"SetStarted", "ClearRequest"})
        OBVIOUS
    <2>1. ~Final(Head(t))
        BY DEF Final
    <2>2. Known(Tail(t)) /\ Head(Tail(t))[1] = "SetStarted"
        BY <1>1, <2>1, NextStep
    <2>3. Names(Tail(Tail(t)), {"ClearRequest"})
        BY <1>5, <2>2
    <2> QED
        BY <1>2, <2>2, <2>3 DEF Names
<1>9. \A t : Known(t) /\ Head(t)[1] = "AssertStopped" => Names(Tail(t), {"StartEntities", "ClearRequest", "SetStarted"})
    <2> SUFFICES ASSUME NEW t, Known(t), Head(t)[1] = "AssertStopped" PROVE Names(Tail(t), {"StartEntities", "ClearRequest", "SetStarted"})
        OBVIOUS
    <2>1. ~Final(Head(t))
        BY DEF Final
    <2>2. Known(Tail(t)) /\ Head(Tail(t))[1] = "StartEntities"
        BY <1>1, <2>1, NextStep
    <2>3. Names(Tail(Tail(t)), {"ClearRequest", "SetStarted"})
        BY <1>8, <2>2
    <2> QED
        BY <1>2, <2>2, <2>3 DEF Names
<1>10. \A t : Known(t) /\ Head(t)[1] = "OnEndFrame" => Names(Tail(t), {"HandlerFrame"})
    <2> SUFFICES ASSUME NEW t, Known(t), Head(t)[1] = "OnEndFrame" PROVE Names(Tail(t), {"HandlerFrame"})
        OBVIOUS
    <2>1. ~Final(Head(t))
        BY DEF Final
    <2>2. Known(Tail(t)) /\ Head(Tail(t))[1] = "HandlerFrame"
        BY <1>1, <2>1, NextStep
    <2>3. Names(Tail(Tail(t)), {})
        BY <1>3, <2>2 DEF Final
    <2> QED
        BY <1>2, <2>2, <2>3 DEF Names
<1>11. \A t : Known(t) /\ Head(t)[1] = "OnFrame" => Names(Tail(t), {"OnEndFrame", "HandlerFrame"})
    <2> SUFFICES ASSUME NEW t, Known(t), Head(t)[1] = "OnFrame" PROVE Names(Tail(t), {"OnEndFrame", "HandlerFrame"})
        OBVIOUS
    <2>1. ~Final(Head(t))
        BY DEF Final
    <2>2. Known(Tail(t)) /\ Head(Tail(t))[1] = "OnEndFrame"
        BY <1>1, <2>1, NextStep
    <2>3. Names(Tail(Tail(t)), {"HandlerFrame"})
        BY <1>10, <2>2
    <2> QED
        BY <1>2, <2>2, <2>3 DEF Names
<1>12. \A t : Known(t) /\ Head(t)[1] = "CleanupStateHandlers" => Names(Tail(t), {"CloseServer"})
    <2> SUFFICES ASSUME NEW t, Known(t), Head(t)[1] = "CleanupStateHandlers" PROVE Names(Tail(t), {"CloseServer"})
        OBVIOUS
    <2>1. ~Final(Head(t))
        BY DEF Final
    <2>2. Known(Tail(t)) /\ Head(Tail(t))[1] = "CloseServer"
        BY <1>1, <2>1, NextStep
    <2>3. Names(Tail(Tail(t)), {})
        BY <1>3, <2>2 DEF Final
    <2> QED
        BY <1>2, <2>2, <2>3 DEF Names
<1>13. \A t : Known(t) /\ Head(t)[1] = "RemoveGameFeature" /\ Head(t)[2] = "basegame" => Names(Tail(t), {"Stop", "OnStateEnter", "ClearRequest"})
    <2> SUFFICES ASSUME NEW t, Known(t), Head(t)[1] = "RemoveGameFeature" /\ Head(t)[2] = "basegame" PROVE Names(Tail(t), {"Stop", "OnStateEnter", "ClearRequest"})
        OBVIOUS
    <2>1. ~Final(Head(t))
        BY DEF Final
    <2>2. Known(Tail(t)) /\ Head(Tail(t))[1] = "Stop"
        BY <1>1, <2>1, NextStep
    <2>3. Names(Tail(Tail(t)), {"OnStateEnter", "ClearRequest"})
        BY <1>7, <2>2
    <2> QED
        BY <1>2, <2>2, <2>3 DEF Names
<1>14. \A t : Known(t) /\ Head(t)[1] = "RemoveGameFeature" /\ Head(t)[2] = "core" => Names(Tail(t), {"CleanupStateHandlers", "CloseServer"})
    <2> SUFFICES ASSUME NEW t, Known(t), Head(t)[1] = "RemoveGameFeature" /\ Head(t)[2] = "core" PROVE Names(Tail(t), {"CleanupStateHandlers", "CloseServer"})
        OBVIOUS
    <2>1. ~Final(Head(t))
        BY DEF Final
    <2>2. Known(Tail(t)) /\ Head(Tail(t))[1] = "CleanupStateHandlers"
        BY <1>1, <2>1, NextStep
    <2>3. Names(Tail(Tail(t)), {"CloseServer"})
        BY <1>12, <2>2
    <2> QED
        BY <1>2, <2>2, <2>3 DEF Names
<1>15. \A t : Known(t) /\ Head(t)[1] = "RemoveGameFeature" /\ Head(t)[2] = "graphics" => Names(Tail(t), {"RemoveGameFeature", "CleanupStateHandlers", "CloseServer"})
    <2> SUFFICES ASSUME NEW t, Known(t), Head(t)[1] = "RemoveGameFeature" /\ Head(t)[2] = "graphics" PROVE Names(Tail(t), {"RemoveGameFeature", "CleanupStateHandlers", "CloseServer"})
        OBVIOUS
    <2>1. ~Final(Head(t))
        BY DEF Final
    <2>2. Known(Tail(t)) /\ Head(Tail(t))[1] = "RemoveGameFeature" /\ Head(Tail(t))[2] = "core"
        BY <1>1, <2>1, NextStep
    <2>3. Names(Tail(Tail(t)), {"CleanupStateHandlers", "CloseServer"})
        BY <1>14, <2>2
    <2> QED
        BY <1>2, <2>2, <2>3 DEF Names
<1>16. \A t : Known(t) /\ Head(t)[1] = "AttachGameFeature" /\ Head(t)[2] = "fighting" => Names(Tail(t), {"OnStateLeave", "OnStateEnter", "ClearRequest"})
    <2> SUFFICES ASSUME NEW t, Known(t), Head(t)[1] = "AttachGameFeature" /\ Head(t)[2] = "fighting" PROVE Names(Tail(t), {"OnStateLeave", "OnStateEnter", "ClearRequest"})
        OBVIOUS
    <2>1. ~Final(Head(t))
        BY DEF Final
    <2>2. Known(Tail(t)) /\ Head(Tail(t))[1] = "OnStateLeave"
        BY <1>1, <2>1, NextStep
    <2>3. Names(Tail(Tail(t)), {"OnStateEnter", "ClearRequest"})
        BY <1>6, <2>2
    <2> QED
        BY <1>2, <2>2, <2>3 DEF Names
<1>17. \A t : Known(t) /\ Head(t)[1] = "AttachGameFeature" /\ Head(t)[2] = "graphics" => Names(Tail(t), {"AttachGameFeature", "OnStateLeave", "OnStateEnter", "ClearRequest"})
    <2> SUFFICES ASSUME NEW t, Known(t), Head(t)[1] = "AttachGameFeature" /\ Head(t)[2] = "graphics" PROVE Names(Tail(t), {"AttachGameFeature", "OnStateLeave", "OnStateEnter", "ClearRequest"})
        OBVIOUS
    <2>1. ~Final(Head(t))
        BY DEF Final
    <2>2. Known(Tail(t)) /\ Head(Tail(t))[1] = "AttachGameFeature" /\ Head(Tail(t))[2] = "fighting"
        BY <1>1, <2>1, NextStep
    <2>3. Names(Tail(Tail(t)), {"OnStateLeave", "OnStateEnter", "ClearRequest"})
        BY <1>16, <2>2
    <2> QED
        BY <1>2, <2>2, <2>3 DEF Names
<1>18. \A t : Known(t) /\ Head(t)[1] = "AttachGameFeature" /\ Head(t)[2] = "core" => Names(Tail(t), {"AttachGameFeature", "OnStateLeave", "OnStateEnter", "ClearRequest"})
    <2> SUFFICES ASSUME NEW t, Known(t), Head(t)[1] = "AttachGameFeature" /\ Head(t)[2] = "core" PROVE Names(Tail(t), {"AttachGameFeature", "OnStateLeave", "OnStateEnter", "ClearRequest"})
        OBVIOUS
    <2>1. ~Final(Head(t))
        BY DEF Final
    <2>2. Known(Tail(t)) /\ Head(Tail(t))[1] = "AttachGameFeature" /\ Head(Tail(t))[2] = "graphics"
        BY <1>1, <2>1, NextStep
    <2>3. Names(Tail(Tail(t)), {"AttachGameFeature", "OnStateLeave", "OnStateEnter", "ClearRequest"})
        BY <1>17, <2>2
    <2> QED
        BY <1>2, <2>2, <2>3 DEF Names
<1>19. \A t : Known(t) /\ Head(t)[1] = "ClearRequest" => Last(t)[2] = Head(t)[2]
    BY <1>1 DEF Final
<1>20. \A t : Known(t) /\ Head(t)[1] = "OnStateEnter" => Last(t)[2] = Head(t)[2]
    <2> SUFFICES ASSUME NEW t, Known(t), Head(t)[1] = "OnStateEnter" PROVE Last(t)[2] = Head(t)[2]
        OBVIOUS
    <2>1. ~Final(Head(t))
        BY DEF Final
    <2>2. Known(Tail(t)) /\ Last(Tail(t)) = Last(t) /\ Head(Tail(t))[1] = "ClearRequest" /\ Head(Tail(t))[2] = Head(t)[2]
        BY <1>1, <2>1, NextStep
    <2> QED
        BY <1>19, <2>2
<1>21. \A t : Known(t) /\ Head(t)[1] = "OnStateLeave" => Last(t)[2] = Head(t)[2]
    <2> SUFFICES ASSUME NEW t, Known(t), Head(t)[1] = "OnStateLeave" PROVE Last(t)[2] = Head(t)[2]
        OBVIOUS
    <2>1. ~Final(Head(t))
        BY DEF Final
    <2>2. Known(Tail(t)) /\ Last(Tail(t)) = Last(t) /\ Head(Tail(t))[1] = "OnStateEnter" /\ Head(Tail(t))[2] = Head(t)[2]
        BY <1>1, <2>1, NextStep
    <2> QED
        BY <1>20, <2>2
<1>22. Known(s)
    BY DEF Known
<1> QED
    BY <1>3, <1>4, <1>5, <1>6, <1>7, <1>8, <1>9, <1>10, <1>11, <1>12, <1>13, <1>14, <1>15, <1>16, <1>17, <1>18, <1>19, <1>20, <1>21, <1>22

\* Lists of one step to four.
LEMMA ChainOfOne ==
    ASSUME NEW a \in Steps
    PROVE  /\ Chain(<<a>>) /\ <<a>> # <<>> /\ <<a>>[1] = a /\ <<a>>[Len(<<a>>)] = a /\ Last(<<a>>) = a
           /\ \A y : Has(<<a>>, y) <=> y \in {a[1]}
<1>1. <<a>> \in Seq(Steps) /\ Len(<<a>>) = 1 /\ <<a>>[1] = a /\ DOMAIN <<a>> = {1}
    OBVIOUS
<1>2. Chain(<<a>>)
    BY <1>1 DEF Chain
<1> QED
    BY <1>1, <1>2 DEF Has, Last

LEMMA ChainOfTwo ==
    ASSUME NEW a \in Steps, NEW b \in Steps, b \in Follows(a)
    PROVE  /\ Chain(<<a, b>>) /\ <<a, b>> # <<>>
           /\ <<a, b>>[1] = a /\ <<a, b>>[Len(<<a, b>>)] = b /\ Last(<<a, b>>) = b
           /\ \A y : Has(<<a, b>>, y) <=> y \in {a[1], b[1]}
<1>1. <<a, b>> \in Seq(Steps) /\ Len(<<a, b>>) = 2 /\ <<a, b>>[1] = a /\ <<a, b>>[2] = b
      /\ DOMAIN <<a, b>> = {1, 2}
    OBVIOUS
<1>2. Chain(<<a, b>>)
    BY <1>1 DEF Chain
<1> QED
    BY <1>1, <1>2 DEF Has, Last

LEMMA ChainOfThree ==
    ASSUME NEW a \in Steps, NEW b \in Steps, NEW c \in Steps, b \in Follows(a), c \in Follows(b)
    PROVE  /\ Chain(<<a, b, c>>) /\ <<a, b, c>> # <<>>
           /\ <<a, b, c>>[1] = a /\ <<a, b, c>>[Len(<<a, b, c>>)] = c /\ Last(<<a, b, c>>) = c
           /\ \A y : Has(<<a, b, c>>, y) <=> y \in {a[1], b[1], c[1]}
<1>1. /\ <<a, b, c>> \in Seq(Steps) /\ Len(<<a, b, c>>) = 3
      /\ <<a, b, c>>[1] = a /\ <<a, b, c>>[2] = b /\ <<a, b, c>>[3] = c
      /\ DOMAIN <<a, b, c>> = {1, 2, 3}
    OBVIOUS
<1>2. Chain(<<a, b, c>>)
    BY <1>1 DEF Chain
<1> QED
    BY <1>1, <1>2 DEF Has, Last

LEMMA ChainOfFour ==
    ASSUME NEW a \in Steps, NEW b \in Steps, NEW c \in Steps, NEW d \in Steps,
           b \in Follows(a), c \in Follows(b), d \in Follows(c)
    PROVE  /\ Chain(<<a, b, c, d>>) /\ <<a, b, c, d>> # <<>>
           /\ <<a, b, c, d>>[1] = a /\ <<a, b, c, d>>[Len(<<a, b, c, d>>)] = d /\ Last(<<a, b, c, d>>) = d
           /\ \A y : Has(<<a, b, c, d>>, y) <=> y \in {a[1], b[1], c[1], d[1]}
<1>1. /\ <<a, b, c, d>> \in Seq(Steps) /\ Len(<<a, b, c, d>>) = 4
      /\ <<a, b, c, d>>[1] = a /\ <<a, b, c, d>>[2] = b /\ <<a, b, c, d>>[3] = c /\ <<a, b, c, d>>[4] = d
      /\ DOMAIN <<a, b, c, d>> = {1, 2, 3, 4}
    OBVIOUS
<1>2. Chain(<<a, b, c, d>>)
    BY <1>1 DEF Chain
<1> QED
    BY <1>1, <1>2 DEF Has, Last

LEMMA FeatureNames ==
    /\ AppFeatures = <<"core", "graphics", "fighting">> /\ DOMAIN AppFeatures = {1, 2, 3}
    /\ Range(AppFeatures) = {"core", "graphics", "fighting"}
    /\ Features = {"core", "graphics", "fighting", "basegame"}
<1>1. AppFeatures = <<"core", "graphics", "fighting">> /\ DOMAIN AppFeatures = {1, 2, 3}
    BY DEF AppFeatures
<1>2. Range(AppFeatures) = {"core", "graphics", "fighting"}
    BY <1>1 DEF Range
<1> QED
    BY <1>1, <1>2 DEF Features

\* The lists of steps the code has: a transition, a frame, the closing.
LEMMA TransitionChain ==
    ASSUME NEW s \in States
    PROVE  /\ Chain(Transition(s)) /\ Transition(s) # <<>>
           /\ Transition(s)[1] = <<"OnStateLeave", s>> /\ Last(Transition(s)) = <<"ClearRequest", s>>
           /\ Names(Transition(s), {"OnStateLeave", "OnStateEnter", "ClearRequest"})
<1> DEFINE a == <<"OnStateLeave", s>>
           b == <<"OnStateEnter", s>>
           c == <<"ClearRequest", s>>
<1>1. a \in Steps /\ b \in Steps /\ c \in Steps
    BY DEF Steps
<1>2. b \in Follows(a) /\ c \in Follows(b)
    BY DEF Follows
<1>3. a[1] = "OnStateLeave" /\ b[1] = "OnStateEnter" /\ c[1] = "ClearRequest"
    OBVIOUS
<1>4. Transition(s) = <<a, b, c>>
    BY DEF Transition
<1> HIDE DEF a, b, c
<1> QED
    BY <1>1, <1>2, <1>3, <1>4, ChainOfThree DEF Names, a, c

LEMMA FrameChain ==
    LET s == <<<<"OnFrame", 0>>, <<"OnEndFrame", 0>>, <<"HandlerFrame", 0>>>>
    IN  /\ Chain(s) /\ s # <<>> /\ s[1] = <<"OnFrame", 0>> /\ Last(s) = <<"HandlerFrame", 0>>
        /\ Names(s, {"OnFrame", "OnEndFrame", "HandlerFrame"})
<1> DEFINE a == <<"OnFrame", 0>>
           b == <<"OnEndFrame", 0>>
           c == <<"HandlerFrame", 0>>
<1>1. a \in Steps /\ b \in Steps /\ c \in Steps
    BY DEF Steps
<1>2. b \in Follows(a) /\ c \in Follows(b)
    BY DEF Follows
<1>3. a[1] = "OnFrame" /\ b[1] = "OnEndFrame" /\ c[1] = "HandlerFrame"
    OBVIOUS
<1> HIDE DEF a, b, c
<1>4. /\ Chain(<<a, b, c>>) /\ <<a, b, c>> # <<>> /\ <<a, b, c>>[1] = a /\ Last(<<a, b, c>>) = c
      /\ Names(<<a, b, c>>, {"OnFrame", "OnEndFrame", "HandlerFrame"})
    BY <1>1, <1>2, <1>3, ChainOfThree DEF Names
<1> QED
    BY <1>4 DEF a, b, c

LEMMA CloseChain ==
    LET s == <<<<"RemoveGameFeature", "graphics">>, <<"RemoveGameFeature", "core">>,
               <<"CleanupStateHandlers", 0>>, <<"CloseServer", 0>>>>
    IN  /\ Chain(s) /\ s # <<>> /\ s[1] = <<"RemoveGameFeature", "graphics">> /\ Last(s) = <<"CloseServer", 0>>
        /\ Names(s, {"RemoveGameFeature", "CleanupStateHandlers", "CloseServer"})
<1> DEFINE a == <<"RemoveGameFeature", "graphics">>
           b == <<"RemoveGameFeature", "core">>
           c == <<"CleanupStateHandlers", 0>>
           d == <<"CloseServer", 0>>
<1>1. a \in Steps /\ b \in Steps /\ c \in Steps /\ d \in Steps
    BY FeatureNames DEF Steps
<1>2. b \in Follows(a) /\ c \in Follows(b) /\ d \in Follows(c)
    BY DEF Follows, FollowsRemove
<1>3. a[1] = "RemoveGameFeature" /\ b[1] = "RemoveGameFeature" /\ c[1] = "CleanupStateHandlers" /\ d[1] = "CloseServer"
    OBVIOUS
<1> HIDE DEF a, b, c, d
<1>4. /\ Chain(<<a, b, c, d>>) /\ <<a, b, c, d>> # <<>> /\ <<a, b, c, d>>[1] = a /\ Last(<<a, b, c, d>>) = d
      /\ Names(<<a, b, c, d>>, {"RemoveGameFeature", "CleanupStateHandlers", "CloseServer"})
    BY <1>1, <1>2, <1>3, ChainOfFour DEF Names
<1> QED
    BY <1>4 DEF a, b, c, d

LEMMA OpenChain ==
    LET s == [i \in DOMAIN AppFeatures |-> <<"AttachGameFeature", AppFeatures[i]>>] \o Transition(FirstState)
    IN  /\ Chain(s) /\ s # <<>> /\ s[1] = <<"AttachGameFeature", "core">> /\ Head(s) = s[1]
        /\ Last(s) = <<"ClearRequest", FirstState>>
        /\ Names(s, {"AttachGameFeature", "OnStateLeave", "OnStateEnter", "ClearRequest"})
<1> DEFINE a == <<"AttachGameFeature", "core">>
           b == <<"AttachGameFeature", "graphics">>
           c == <<"AttachGameFeature", "fighting">>
           f == [i \in DOMAIN AppFeatures |-> <<"AttachGameFeature", AppFeatures[i]>>]
           t == Transition(FirstState)
<1>1. a \in Steps /\ b \in Steps /\ c \in Steps
    BY FeatureNames DEF Steps
<1>2. b \in Follows(a) /\ c \in Follows(b) /\ \A s \in States : <<"OnStateLeave", s>> \in Follows(c)
    BY DEF Follows, FollowsAttach
<1>3. a[1] = "AttachGameFeature" /\ b[1] = "AttachGameFeature" /\ c[1] = "AttachGameFeature"
    OBVIOUS
<1>4. f = <<a, b, c>>
    <2>1. DOMAIN f = {1, 2, 3} /\ f[1] = a /\ f[2] = b /\ f[3] = c /\ f \in [1..3 -> {a, b, c}]
        BY FeatureNames
    <2>2. f \in Seq({a, b, c}) /\ Len(f) = 3
        BY <2>1
    <2> HIDE DEF f, a, b, c
    <2> QED
        BY <2>1, <2>2
<1>5. FirstState \in States
    BY GameApplicationAssumption
<1> HIDE DEF a, b, c, f
<1>6. /\ Chain(f) /\ f # <<>> /\ f[1] = a /\ f[Len(f)] = c
      /\ Names(f, {"AttachGameFeature"})
    BY <1>1, <1>2, <1>3, <1>4, ChainOfThree DEF Names
<1>7. /\ Chain(t) /\ t # <<>> /\ t[1] = <<"OnStateLeave", FirstState>> /\ Last(t) = <<"ClearRequest", FirstState>>
      /\ Names(t, {"OnStateLeave", "OnStateEnter", "ClearRequest"})
    BY <1>5, TransitionChain
<1> HIDE DEF t
<1>8. /\ Chain(f \o t) /\ f \o t # <<>> /\ (f \o t)[1] = f[1] /\ Head(f \o t) = f[1] /\ Last(f \o t) = Last(t)
      /\ \A y : Has(f \o t, y) <=> Has(f, y) \/ Has(t, y)
    BY <1>2, <1>5, <1>6, <1>7, ChainConcat
<1>9. Names(f \o t, {"AttachGameFeature", "OnStateLeave", "OnStateEnter", "ClearRequest"})
    BY <1>6, <1>7, <1>8 DEF Names
<1> QED
    BY <1>6, <1>7, <1>8, <1>9 DEF a, f, t

LEMMA LeaveGameChain ==
    /\ Chain(LeaveGame) /\ LeaveGame # <<>>
    /\ LeaveGame[1] = <<"ClearJobs", 0>> /\ LeaveGame[Len(LeaveGame)] = <<"Stop", 0>>
    /\ Names(LeaveGame, {"ClearJobs", "Cleanup", "RemoveGameFeature", "Stop"})
<1> DEFINE a == <<"ClearJobs", 0>>
           b == <<"Cleanup", 0>>
           c == <<"RemoveGameFeature", "basegame">>
           d == <<"Stop", 0>>
<1>1. a \in Steps /\ b \in Steps /\ c \in Steps /\ d \in Steps
    BY FeatureNames DEF Steps
<1>2. b \in Follows(a) /\ c \in Follows(b) /\ d \in Follows(c)
    BY DEF Follows, FollowsRemove
<1>3. a[1] = "ClearJobs" /\ b[1] = "Cleanup" /\ c[1] = "RemoveGameFeature" /\ d[1] = "Stop"
    OBVIOUS
<1>4. LeaveGame = <<a, b>> \o <<c, d>>
    BY DEF LeaveGame, CleanUp
<1> HIDE DEF a, b, c, d
<1>5. /\ Chain(<<a, b>>) /\ <<a, b>> # <<>> /\ <<a, b>>[1] = a /\ <<a, b>>[Len(<<a, b>>)] = b
      /\ Names(<<a, b>>, {"ClearJobs", "Cleanup"})
    BY <1>1, <1>2, <1>3, ChainOfTwo DEF Names
<1>6. /\ Chain(<<c, d>>) /\ <<c, d>> # <<>> /\ <<c, d>>[1] = c /\ <<c, d>>[Len(<<c, d>>)] = d
      /\ Names(<<c, d>>, {"RemoveGameFeature", "Stop"})
    BY <1>1, <1>2, <1>3, ChainOfTwo DEF Names
<1> DEFINE u == <<a, b>>
           v == <<c, d>>
<1>7. /\ Chain(u \o v) /\ u \o v # <<>> /\ (u \o v)[1] = u[1] /\ (u \o v)[Len(u \o v)] = v[Len(v)]
      /\ \A y : Has(u \o v, y) <=> Has(u, y) \/ Has(v, y)
    BY <1>2, <1>5, <1>6, ChainConcat
<1>8. Names(u \o v, {"ClearJobs", "Cleanup", "RemoveGameFeature", "Stop"})
    BY <1>5, <1>6, <1>7 DEF Names
<1> QED
    BY <1>4, <1>5, <1>6, <1>7, <1>8 DEF a, d

\* Setting up the world, by the steps it begins and ends with and those it may have.
LEMMA LoadWorldChain ==
    /\ Chain(LoadWorld) /\ LoadWorld # <<>>
    /\ LoadWorld[1] = <<"AssertEmpty", 0>> /\ LoadWorld[Len(LoadWorld)] = <<"NotifyGameLoad", 0>>
    /\ \A y : Has(LoadWorld, y) => y \in SetupNames
<1> DEFINE a == <<"AssertEmpty", 0>>
           e == [i \in DOMAIN Level |-> <<"AttachEntity", Level[i]>>]
           z == <<"NotifyGameLoad", 0>>
           n == Len(Level)
<1>1. n \in Nat /\ DOMAIN Level = 1..n /\ \A i \in 1..n : Level[i] \in Range(Level)
    BY GameApplicationAssumption, ElementOfSeq
<1>2. a \in Steps /\ z \in Steps /\ a[1] = "AssertEmpty" /\ z[1] = "NotifyGameLoad"
    BY DEF Steps
<1>3. \A i \in 1..n : Loading(i) = e[i]
    BY <1>1 DEF Loading
<1>4. Loading(n + 1) = z
    BY <1>1 DEF Loading
<1>5. Loading(1) \in Follows(a)
    BY DEF Follows
<1>6. \A i \in 1..n : Loading(i + 1) \in Follows(e[i]) /\ e[i] \in Steps /\ e[i][1] = "AttachEntity"
    BY <1>1 DEF Follows, Steps
<1>7. e \in Seq(Steps) /\ Len(e) = n /\ DOMAIN e = 1..n
    BY <1>1, <1>6
<1> HIDE DEF a, e, z, n
<1>8. Chain(<<a>>) /\ <<a>> # <<>> /\ <<a>>[1] = a /\ <<a>>[Len(<<a>>)] = a /\ Names(<<a>>, {"AssertEmpty"})
    BY <1>2, ChainOfOne DEF Names
<1>9. Chain(<<z>>) /\ <<z>> # <<>> /\ <<z>>[1] = z /\ <<z>>[Len(<<z>>)] = z /\ Names(<<z>>, {"NotifyGameLoad"})
    BY <1>2, ChainOfOne DEF Names
<1>10. LoadWorld = <<a>> \o e \o <<z>>
    BY DEF LoadWorld, a, e, z
<1>11. CASE n = 0
    <2>1. e = <<>>
        BY <1>7, <1>11, EmptySeq
    <2>2. LoadWorld = <<a>> \o <<z>>
        BY <1>10, <2>1
    <2>3. z \in Follows(a)
        BY <1>1, <1>4, <1>5, <1>11
    <2>4. /\ Chain(<<a>> \o <<z>>) /\ <<a>> \o <<z>> # <<>> /\ (<<a>> \o <<z>>)[1] = a
          /\ (<<a>> \o <<z>>)[Len(<<a>> \o <<z>>)] = z
          /\ \A y : Has(<<a>> \o <<z>>, y) <=> Has(<<a>>, y) \/ Has(<<z>>, y)
        BY <1>8, <1>9, <2>3, ChainConcat
    <2> QED
        BY <1>8, <1>9, <2>2, <2>4 DEF Names, SetupNames, a, z
<1>12. CASE n # 0
    <2>1. e # <<>> /\ 1 \in 1..n /\ n \in 1..n /\ e[Len(e)] = e[n]
        BY <1>1, <1>7, <1>12, EmptySeq
    <2>2. Chain(e)
        <3>1. ASSUME NEW i \in 1..n, i + 1 <= n PROVE e[i + 1] \in Follows(e[i])
            <4>1. i + 1 \in 1..n
                BY <1>1, <3>1
            <4> QED
                BY <1>3, <1>6, <4>1
        <3> QED
            BY <1>7, <3>1 DEF Chain
    <2>3. \A y : Has(e, y) => y = "AttachEntity"
        BY <1>6, <1>7 DEF Has
    <2>4. e[1] \in Follows(a) /\ z \in Follows(e[n])
        BY <1>3, <1>4, <1>5, <1>6, <2>1
    <2> DEFINE u == <<a>> \o e
    <2>5. /\ Chain(u) /\ u # <<>> /\ u[1] = a /\ u[Len(u)] = e[n]
          /\ \A y : Has(u, y) <=> Has(<<a>>, y) \/ Has(e, y)
        BY <1>7, <1>8, <2>1, <2>2, <2>4, ChainConcat
    <2> HIDE DEF u
    <2>6. /\ Chain(u \o <<z>>) /\ u \o <<z>> # <<>> /\ (u \o <<z>>)[1] = u[1]
          /\ (u \o <<z>>)[Len(u \o <<z>>)] = z
          /\ \A y : Has(u \o <<z>>, y) <=> Has(u, y) \/ Has(<<z>>, y)
        BY <1>9, <2>4, <2>5, ChainConcat
    <2>7. LoadWorld = u \o <<z>>
        BY <1>10 DEF u
    <2> QED
        BY <1>8, <1>9, <2>3, <2>5, <2>6, <2>7 DEF Names, SetupNames, a, z
<1> QED
    BY <1>11, <1>12

LEMMA LoadGameChain ==
    LET s == CleanUp \o LoadWorld
    IN  /\ Chain(s) /\ s # <<>> /\ s[1] = <<"ClearJobs", 0>> /\ s[Len(s)] = <<"NotifyGameLoad", 0>>
        /\ \A y : Has(s, y) => y \in SetupNames
<1> DEFINE a == <<"ClearJobs", 0>>
           b == <<"Cleanup", 0>>
           c == <<"AssertEmpty", 0>>
<1>1. a \in Steps /\ b \in Steps /\ b \in Follows(a) /\ c \in Follows(b)
    BY DEF Steps, Follows
<1>2. a[1] = "ClearJobs" /\ b[1] = "Cleanup"
    OBVIOUS
<1>3. CleanUp = <<a, b>>
    BY DEF CleanUp
<1> HIDE DEF a, b, c
<1>4. /\ Chain(CleanUp) /\ CleanUp # <<>> /\ CleanUp[1] = a /\ CleanUp[Len(CleanUp)] = b
      /\ Names(CleanUp, {"ClearJobs", "Cleanup"})
    BY <1>1, <1>2, <1>3, ChainOfTwo DEF Names
<1>5. LoadWorld[1] \in Follows(CleanUp[Len(CleanUp)])
    BY <1>1, <1>4, LoadWorldChain DEF c
<1> DEFINE u == CleanUp \o LoadWorld
<1>6. /\ Chain(u) /\ u # <<>> /\ u[1] = CleanUp[1] /\ u[Len(u)] = LoadWorld[Len(LoadWorld)]
      /\ \A y : Has(u, y) <=> Has(CleanUp, y) \/ Has(LoadWorld, y)
    BY <1>4, <1>5, LoadWorldChain, ChainConcat
<1>7. \A y : Has(u, y) => y \in SetupNames
    BY <1>4, <1>6, LoadWorldChain DEF Names, SetupNames
<1> QED
    BY <1>4, <1>6, <1>7, LoadWorldChain DEF a, u

LEMMA SetupChain ==
    ASSUME NEW w \in Setups
    PROVE  /\ Chain(w) /\ w # <<>>
           /\ w[1] \in {<<"AssertEmpty", 0>>, <<"ClearJobs", 0>>}
           /\ w[Len(w)] \in {<<"AssertEmpty", 0>>, <<"NotifyGameLoad", 0>>}
           /\ \A y : Has(w, y) => y \in SetupNames
<1>1. CASE w = <<<<"AssertEmpty", 0>>>>
    <2> DEFINE a == <<"AssertEmpty", 0>>
    <2>1. a \in Steps /\ a[1] = "AssertEmpty"
        BY DEF Steps
    <2> HIDE DEF a
    <2>2. Chain(<<a>>) /\ <<a>> # <<>> /\ <<a>>[1] = a /\ <<a>>[Len(<<a>>)] = a /\ Names(<<a>>, {"AssertEmpty"})
        BY <2>1, ChainOfOne DEF Names
    <2>3. w = <<a>>
        BY <1>1 DEF a
    <2> QED
        BY <2>2, <2>3 DEF Names, SetupNames, a
<1>2. CASE w = LoadWorld
    BY <1>2, LoadWorldChain
<1>3. CASE w = CleanUp \o LoadWorld
    BY <1>3, LoadGameChain
<1> QED
    BY <1>1, <1>2, <1>3 DEF Setups

\* Entering a game, up to the step that sets the flag.
LEMMA EnterChain ==
    ASSUME NEW w \in Setups
    PROVE  LET s == <<<<"AttachGameFeature", "basegame">>>> \o w \o StartWorld
           IN  /\ Chain(s) /\ s # <<>>
               /\ s[1] = <<"AttachGameFeature", "basegame">> /\ s[Len(s)] = <<"SetStarted", 0>>
               /\ Has(s, "SetStarted")
               /\ \A y : Has(s, y) =>
                    y \in SetupNames \cup {"AttachGameFeature", "AssertStopped", "StartEntities", "SetStarted"}
<1> DEFINE a == <<"AttachGameFeature", "basegame">>
           b == <<"AssertStopped", 0>>
           c == <<"StartEntities", 1>>
           d == <<"SetStarted", 0>>
           e == <<"AssertEmpty", 0>>
           g == <<"ClearJobs", 0>>
           h == <<"NotifyGameLoad", 0>>
<1>1. a \in Steps /\ b \in Steps /\ c \in Steps /\ d \in Steps
    BY FeatureNames DEF Steps
<1>2. c \in Follows(b) /\ d \in Follows(c) /\ b \in Follows(h) /\ b \in Follows(e)
    BY DEF Follows
<1>3. e \in Follows(a) /\ g \in Follows(a)
    BY DEF Follows, FollowsAttach
<1>4. a[1] = "AttachGameFeature" /\ b[1] = "AssertStopped" /\ c[1] = "StartEntities" /\ d[1] = "SetStarted"
    OBVIOUS
<1>5. StartWorld = <<b, c, d>>
    BY DEF StartWorld
<1>6. /\ Chain(w) /\ w # <<>> /\ w[1] \in {e, g} /\ w[Len(w)] \in {e, h}
      /\ \A y : Has(w, y) => y \in SetupNames
    BY SetupChain
<1> HIDE DEF a, b, c, d, e, g, h
<1>7. /\ Chain(StartWorld) /\ StartWorld # <<>> /\ StartWorld[1] = b /\ StartWorld[Len(StartWorld)] = d
      /\ Names(StartWorld, {"AssertStopped", "StartEntities", "SetStarted"})
    BY <1>1, <1>2, <1>4, <1>5, ChainOfThree DEF Names
<1>8. Chain(<<a>>) /\ <<a>> # <<>> /\ <<a>>[1] = a /\ <<a>>[Len(<<a>>)] = a /\ Names(<<a>>, {"AttachGameFeature"})
    BY <1>1, <1>4, ChainOfOne DEF Names
<1> DEFINE u == <<a>> \o w
           v == u \o StartWorld
<1>9. /\ Chain(u) /\ u # <<>> /\ u[1] = a /\ u[Len(u)] = w[Len(w)]
      /\ \A y : Has(u, y) <=> Has(<<a>>, y) \/ Has(w, y)
    BY <1>3, <1>6, <1>8, ChainConcat
<1> HIDE DEF u
<1>10. /\ Chain(v) /\ v # <<>> /\ v[1] = u[1] /\ v[Len(v)] = d
       /\ \A y : Has(v, y) <=> Has(u, y) \/ Has(StartWorld, y)
    BY <1>2, <1>6, <1>7, <1>9, ChainConcat
<1>11. /\ Has(v, "SetStarted")
       /\ \A y : Has(v, y) =>
            y \in SetupNames \cup {"AttachGameFeature", "AssertStopped", "StartEntities", "SetStarted"}
    BY <1>6, <1>7, <1>8, <1>9, <1>10 DEF Names
<1> QED
    BY <1>9, <1>10, <1>11 DEF a, d, u, v

\* Steps put in front of what is left of a call.
LEMMA PutInFront ==
    ASSUME NEW s, EndOfCall(s), s # <<>>, Tail(s) # <<>>,
           NEW t, Chain(t), t # <<>>, Head(Tail(s)) \in Follows(t[Len(t)])
    PROVE  /\ EndOfCall(t \o Tail(s)) /\ t \o Tail(s) # <<>>
           /\ Head(t \o Tail(s)) = t[1] /\ Last(t \o Tail(s)) = Last(s)
           /\ \A y : Has(t \o Tail(s), y) <=> Has(t, y) \/ Has(Tail(s), y)
<1>1. EndOfCall(Tail(s)) /\ Last(Tail(s)) = Last(s)
    BY TailOfCall
<1>2. Chain(Tail(s)) /\ Final(Last(s)) /\ Tail(s)[1] = Head(Tail(s))
    BY <1>1, EmptySeq DEF EndOfCall, Chain
<1> HIDE DEF EndOfCall
<1>3. /\ Chain(t \o Tail(s)) /\ t \o Tail(s) # <<>> /\ Head(t \o Tail(s)) = t[1]
      /\ Last(t \o Tail(s)) = Last(Tail(s))
      /\ \A y : Has(t \o Tail(s), y) <=> Has(t, y) \/ Has(Tail(s), y)
    BY <1>2, ChainConcat
<1> QED
    BY <1>1, <1>2, <1>3 DEF EndOfCall

-----------------------------------------------------------------------------
(* The invariant is kept.                                                  *)

LEMMA InvInit == ASSUME Init PROVE IInv
<1>1. todo = <<>> /\ ~broken /\ ~isOpen
    BY DEF Init
<1>2. EndOfCall(todo)
    BY <1>1 DEF EndOfCall, Chain
<1>3. \A y : ~Has(todo, y)
    BY <1>1 DEF Has
<1>4. TypeOK
    <2>1. NewLife \in [loads : 0..1, starts : 0..2, early : BOOLEAN]
        BY DEF NewLife
    <2>2. IsInjective(<<>>) /\ <<>> \in Seq(Entities)
        BY InjectiveEmpty
    <2>3. life = [e \in Entities |-> NewLife] /\ activeEntities = <<>>
        BY DEF Init
    <2>4. life \in [Entities -> [loads : 0..1, starts : 0..2, early : BOOLEAN]]
        BY <2>1, <2>3
    <2>5. activeEntities \in Seq(Entities) /\ IsInjective(activeEntities)
        BY <2>2, <2>3
    <2>6. spawns \in 0..MaxSpawns
        BY GameApplicationAssumption DEF Init
    <2> QED
        BY <2>4, <2>5, <2>6 DEF Init, TypeOK
<1>5. StateInv
    BY <1>1, <1>3 DEF Init, StateInv, Pending, At, States
<1>6. ServerInv
    BY <1>1, <1>3, GameApplicationAssumption DEF Init, ServerInv, Pending, At, InGame, States
<1>7. WorldInv /\ ClosedInv
    BY <1>1 DEF Init, WorldInv, ClosedInv, At
<1>8. LifeInv
    BY <1>1, <1>3 DEF Init, LifeInv, At, NewLife
<1>9. RequestInv
    BY <1>1, <1>3 DEF Init, RequestInv, InTransition, Has
<1> QED
    BY <1>1, <1>2, <1>4, <1>5, <1>6, <1>7, <1>8, <1>9 DEF IInv

\* The steps that mark where a transition or the closing is.
Marks == {"Stop", "SetStarted", "CloseServer", "OnStateEnter", "OnStateLeave", "ClearRequest"}

\* The entities of the level that are still to be attached are not there yet.
StillToCome(e) ==
    \A i \in DOMAIN Level : Level[i] = e =>
        \A j \in DOMAIN Level : j >= i => Level[j] \notin Range(activeEntities)

\* A step that changes neither the states nor the server, away from the marks.
LEMMA QuietControl ==
    ASSUME IInv, isOpen,
           UNCHANGED <<isOpen, broken, server, states>>,
           \A y \in Marks : Has(todo', y) <=> Has(todo, y),
           Has(todo, "ClearRequest") => Last(todo') = Last(todo),
           todo # <<>> => Head(todo)[1] \notin {"AttachGameFeature", "OnStateEnter", "Stop"},
           todo' # <<>> =>
                /\ Head(todo')[1] \notin {"AttachGameFeature", "OnStateEnter", "Stop", "CloseServer"}
                /\ Head(todo')[1] = "RemoveGameFeature" => ~Has(todo', "CloseServer")
                /\ Head(todo')[1] \in SetupNames => InGame
    PROVE  ~broken' /\ StateInv' /\ ServerInv' /\ RequestInv' /\ ClosedInv'
<1>1. /\ isOpen' = isOpen /\ broken' = broken /\ gameFeatures' = gameFeatures /\ active' = active
      /\ isStarted' = isStarted
      /\ curState' = curState /\ requestedState' = requestedState /\ quitRequested' = quitRequested
      /\ entered' = entered /\ owed' = owed /\ ~broken /\ ~broken' /\ isOpen /\ isOpen'
    BY DEF server, states, IInv
<1>2. StateInv'
    BY <1>1 DEF IInv, StateInv, Pending, At, InGame, Marks, SetupNames
<1>3. ServerInv'
    BY <1>1 DEF IInv, ServerInv, Pending, At, Arg, InGame, Marks
<1>4. RequestInv'
    BY <1>1 DEF IInv, RequestInv, Pending, InTransition, Has, Marks
<1>5. ClosedInv'
    BY <1>1 DEF ClosedInv
<1> QED
    BY <1>1, <1>2, <1>3, <1>4, <1>5

\* One that does not change the world either.
LEMMA QuietStep ==
    ASSUME IInv, isOpen,
           UNCHANGED <<isOpen, broken, server, entities, states>>,
           EndOfCall(todo'),
           \A y \in Marks : Has(todo', y) <=> Has(todo, y),
           Has(todo, "ClearRequest") => Last(todo') = Last(todo),
           todo # <<>> => Head(todo)[1] \notin
                {"AttachGameFeature", "OnStateEnter", "Stop", "SetStarted", "StartEntities"},
           todo' # <<>> =>
                /\ Head(todo')[1] \notin {"AttachGameFeature", "OnStateEnter", "Stop", "SetStarted", "CloseServer"}
                /\ Head(todo')[1] = "StartEntities" => Head(todo')[2] = 1
                /\ Head(todo')[1] = "RemoveGameFeature" => activeEntities = <<>> /\ ~Has(todo', "CloseServer")
                /\ Head(todo')[1] \in SetupNames => InGame
                /\ Head(todo')[1] = "AssertEmpty" => activeEntities = <<>>
                /\ Head(todo')[1] = "AttachEntity" => StillToCome(Head(todo')[2])
    PROVE  IInv'
<1>1. /\ active' = active /\ isStarted' = isStarted /\ activeEntities' = activeEntities /\ life' = life
      /\ spawns' = spawns /\ UNCHANGED <<isOpen, broken, server, states>>
    BY DEF server, entities
<1>2. ~broken' /\ StateInv' /\ ServerInv' /\ RequestInv' /\ ClosedInv'
    BY <1>1, QuietControl
<1>3. TypeOK'
    BY DEF IInv, TypeOK, server, entities, states
<1>4. WorldInv'
    BY <1>1 DEF IInv, WorldInv, At, Arg, StillToCome
<1>5. LifeInv'
    BY <1>1 DEF IInv, LifeInv, TypeOK, At, Arg
<1> QED
    BY <1>2, <1>3, <1>4, <1>5 DEF IInv

\* What is known at a step.
LEMMA AtStep ==
    ASSUME IInv, todo # <<>>
    PROVE  /\ isOpen /\ ~broken /\ EndOfCall(todo) /\ Head(todo) \in Steps /\ <<>> \o Tail(todo) = Tail(todo)
           /\ EndOfCall(Tail(todo)) /\ (Tail(todo) = <<>> <=> Final(Head(todo)))
           /\ Tail(todo) # <<>> => Head(Tail(todo)) \in Follows(Head(todo)) /\ Last(Tail(todo)) = Last(todo)
           /\ Tail(todo) = <<>> => Last(todo) = Head(todo)
           /\ \A y : Has(todo, y) <=> Head(todo)[1] = y \/ Has(Tail(todo), y)
           /\ Has(todo, Head(todo)[1])
<1>1. isOpen /\ ~broken /\ EndOfCall(todo)
    BY DEF IInv, ClosedInv
<1>2. Tail(todo) \in Seq(Steps)
    BY <1>1 DEF EndOfCall, Chain
<1> QED
    BY <1>1, <1>2, TailOfCall, ConcatEmptySeq

\* The steps that check an assertion about the server, and those of a frame.
LEMMA InvAssertStopped == ASSUME IInv, AssertStopped PROVE IInv'
<1>1. todo # <<>> /\ Head(todo)[1] = "AssertStopped" /\ UNCHANGED <<server, entities, states>>
    BY DEF AssertStopped, At
<1>2. ~isStarted
    BY <1>1, AtStep, RestOfCall DEF IInv, ServerInv, Pending, Names
<1>3. todo' = Tail(todo) /\ UNCHANGED <<isOpen, broken>>
    BY <1>1, <1>2, AtStep DEF AssertStopped, Asserted, Done, Do
<1>4. ~Final(Head(todo))
    BY <1>1 DEF Final
<1>5. Head(todo')[1] = "StartEntities" /\ Head(todo')[2] = 1
    BY <1>1, <1>3, <1>4, AtStep, NextStep
<1> QED
    BY <1>1, <1>3, <1>4, <1>5, AtStep, QuietStep DEF Marks, SetupNames

LEMMA InvFrame == ASSUME IInv, Frame PROVE IInv'
<1> DEFINE s == <<<<"OnFrame", 0>>, <<"OnEndFrame", 0>>, <<"HandlerFrame", 0>>>>
<1>1. todo = <<>> /\ isOpen /\ ~broken /\ todo' = s /\ UNCHANGED <<isOpen, broken, server, entities, states>>
    BY DEF Frame, Idle
<1>2. /\ Chain(s) /\ s # <<>> /\ s[1] = <<"OnFrame", 0>> /\ Last(s) = <<"HandlerFrame", 0>>
      /\ Names(s, {"OnFrame", "OnEndFrame", "HandlerFrame"})
    BY FrameChain
<1> HIDE DEF s
<1>3. EndOfCall(s) /\ Head(s) = <<"OnFrame", 0>>
    BY <1>2, EmptySeq DEF EndOfCall, Final, Chain
<1>4. \A y : ~Has(todo, y)
    BY <1>1 DEF Has
<1>5. \A y \in Marks : ~Has(todo', y)
    BY <1>1, <1>2 DEF Names, Marks
<1>6. Head(todo')[1] = "OnFrame"
    BY <1>1, <1>3
<1> QED
    BY <1>1, <1>3, <1>4, <1>5, <1>6, QuietStep DEF Marks, SetupNames

LEMMA InvOnFrame == ASSUME IInv, OnFrame PROVE IInv'
<1>1. todo # <<>> /\ Head(todo)[1] = "OnFrame" /\ UNCHANGED <<server, entities, states>>
    BY DEF OnFrame, At
<1>2. gameFeatures \subseteq active
    BY DEF IInv, ServerInv
<1>3. todo' = Tail(todo) /\ UNCHANGED <<isOpen, broken>>
    BY <1>1, <1>2, AtStep DEF OnFrame, Asserted, Done, Do
<1>4. ~Final(Head(todo))
    BY <1>1 DEF Final
<1>5. Head(todo')[1] = "OnEndFrame"
    BY <1>1, <1>3, <1>4, AtStep, NextStep
<1> QED
    BY <1>1, <1>3, <1>4, <1>5, AtStep, QuietStep DEF Marks, SetupNames

\* A save game may be loaded at the end of a frame.
LEMMA InvOnEndFrame == ASSUME IInv, OnEndFrame PROVE IInv'
<1>1. todo # <<>> /\ Head(todo)[1] = "OnEndFrame" /\ UNCHANGED <<server, entities, states>>
    BY DEF OnEndFrame, At
<1>2. ~Final(Head(todo))
    BY <1>1 DEF Final
<1>3. Tail(todo) # <<>> /\ Head(Tail(todo))[1] = "HandlerFrame"
    BY <1>1, <1>2, AtStep, NextStep
<1>4. CASE Done
    <2>1. todo' = Tail(todo) /\ UNCHANGED <<isOpen, broken>>
        BY <1>1, <1>4, AtStep DEF Done, Do
    <2>2. Head(todo')[1] = "HandlerFrame"
        BY <1>3, <2>1
    <2> QED
        BY <1>1, <1>3, <2>1, <2>2, AtStep, QuietStep DEF Marks, SetupNames
<1>5. CASE "basegame" \in gameFeatures /\ Do(CleanUp \o LoadWorld)
    <2> DEFINE s == CleanUp \o LoadWorld
    <2>1. /\ Chain(s) /\ s # <<>> /\ s[1] = <<"ClearJobs", 0>> /\ s[Len(s)] = <<"NotifyGameLoad", 0>>
          /\ \A y : Has(s, y) => y \in SetupNames
        BY LoadGameChain
    <2>2. todo' = s \o Tail(todo) /\ UNCHANGED <<isOpen, broken>>
        BY <1>5 DEF Do
    <2> HIDE DEF s
    <2>3. Head(Tail(todo)) \in Follows(s[Len(s)])
        <3>1. Head(Tail(todo)) = <<"HandlerFrame", 0>>
            BY <1>1, <1>2, <1>3, AtStep DEF Follows
        <3>2. <<"HandlerFrame", 0>> \in Follows(<<"NotifyGameLoad", 0>>)
            BY DEF Follows
        <3> QED
            BY <2>1, <3>1, <3>2
    <2>4. /\ EndOfCall(todo') /\ todo' # <<>> /\ Head(todo') = s[1] /\ Last(todo') = Last(todo)
          /\ \A y : Has(todo', y) <=> Has(s, y) \/ Has(Tail(todo), y)
        BY <1>1, <1>3, <2>1, <2>2, <2>3, AtStep, PutInFront
    <2>5. \A y \in Marks : Has(todo', y) <=> Has(todo, y)
        BY <1>1, <2>1, <2>4, AtStep DEF Marks, SetupNames
    <2>6. Head(todo')[1] = "ClearJobs"
        BY <2>1, <2>4
    <2>7. InGame
        BY <1>5 DEF IInv, ServerInv
    <2> QED
        BY <1>1, <2>2, <2>4, <2>5, <2>6, <2>7, AtStep, QuietStep
<1> QED
    BY <1>4, <1>5 DEF OnEndFrame

\* The steps of setting up the world that leave it as it is.
LEMMA InvAssertEmpty == ASSUME IInv, AssertEmpty PROVE IInv'
<1>1. todo # <<>> /\ Head(todo)[1] = "AssertEmpty" /\ InGame /\ UNCHANGED <<server, entities, states>>
    BY DEF AssertEmpty, At, IInv, StateInv, SetupNames
<1>2. activeEntities = <<>>
    BY <1>1, AtStep DEF IInv, WorldInv, At
<1>3. todo' = Tail(todo) /\ UNCHANGED <<isOpen, broken>>
    BY <1>1, <1>2, AtStep DEF AssertEmpty, Asserted, Done, Do
<1>4. ~Final(Head(todo))
    BY <1>1 DEF Final
<1>5. Head(todo') = Loading(1) \/ Head(todo')[1] = "AssertStopped"
    BY <1>1, <1>3, <1>4, AtStep, NextStep
<1>6. Head(todo')[1] \in {"AttachEntity", "NotifyGameLoad", "AssertStopped"}
    BY <1>5 DEF Loading
<1>7. \A e : StillToCome(e)
    BY <1>2, InjectiveEmpty DEF StillToCome
<1> QED
    BY <1>1, <1>3, <1>4, <1>6, <1>7, AtStep, QuietStep DEF Marks

LEMMA InvNotifyGameLoad == ASSUME IInv, NotifyGameLoad PROVE IInv'
<1>1. todo # <<>> /\ Head(todo)[1] = "NotifyGameLoad" /\ UNCHANGED <<server, entities, states>>
    BY DEF NotifyGameLoad, At
<1>2. todo' = Tail(todo) /\ UNCHANGED <<isOpen, broken>>
    BY <1>1, AtStep DEF NotifyGameLoad, Done, Do
<1>3. ~Final(Head(todo))
    BY <1>1 DEF Final
<1>4. Head(todo')[1] \in {"AssertStopped", "HandlerFrame"}
    BY <1>1, <1>2, <1>3, AtStep, NextStep
<1> QED
    BY <1>1, <1>2, <1>3, <1>4, AtStep, QuietStep DEF Marks, SetupNames

LEMMA InvClearJobs == ASSUME IInv, ClearJobs PROVE IInv'
<1>1. todo # <<>> /\ Head(todo)[1] = "ClearJobs" /\ InGame /\ UNCHANGED <<server, entities, states>>
    BY DEF ClearJobs, At, IInv, StateInv, SetupNames
<1>2. todo' = Tail(todo) /\ UNCHANGED <<isOpen, broken>>
    BY <1>1, AtStep DEF ClearJobs, Done, Do
<1>3. ~Final(Head(todo))
    BY <1>1 DEF Final
<1>4. Head(todo')[1] = "Cleanup"
    BY <1>1, <1>2, <1>3, AtStep, NextStep
<1> QED
    BY <1>1, <1>2, <1>3, <1>4, AtStep, QuietStep DEF Marks

\* The clean-up: removing an entity, and the end.
LEMMA InvCleanup == ASSUME IInv, Cleanup PROVE IInv'
<1>1. todo # <<>> /\ Head(todo)[1] = "Cleanup" /\ InGame /\ UNCHANGED <<life, spawns, server, states>>
    BY DEF Cleanup, At, IInv, StateInv, SetupNames
<1>2. CASE activeEntities = <<>>
    <2>1. todo' = Tail(todo) /\ UNCHANGED <<isOpen, broken, server, entities, states>>
        BY <1>1, <1>2, AtStep DEF Cleanup, Done, Do, entities
    <2>2. ~Final(Head(todo))
        BY <1>1 DEF Final
    <2>3. (Head(todo')[1] = "RemoveGameFeature" /\ Head(todo')[2] = "basegame") \/ Head(todo')[1] = "AssertEmpty"
        BY <1>1, <2>1, <2>2, AtStep, NextStep
    <2>4. Head(todo')[1] = "RemoveGameFeature" => ~Has(todo', "CloseServer")
        <3>1. todo' # <<>> /\ EndOfCall(todo')
            BY <1>1, <2>1, <2>2, AtStep
        <3>2. \A y : Has(todo', y) <=> Head(todo')[1] = y \/ Has(Tail(todo'), y)
            BY <3>1, TailOfCall
        <3> QED
            BY <2>3, <3>1, <3>2, RestOfCall DEF Names
    <2> QED
        BY <1>1, <1>2, <2>1, <2>2, <2>3, <2>4, AtStep, QuietStep DEF Marks
<1>3. CASE activeEntities # <<>>
    <2>1. /\ activeEntities' = Tail(activeEntities) /\ UNCHANGED <<isOpen, broken, todo>>
          /\ gameFeatures' = gameFeatures /\ active' = active /\ isStarted' = isStarted
          /\ life' = life /\ spawns' = spawns
          /\ curState' = curState /\ requestedState' = requestedState /\ quitRequested' = quitRequested
          /\ entered' = entered /\ owed' = owed
        BY <1>1, <1>3 DEF Cleanup, server, states
    <2>2. activeEntities \in Seq(Entities) /\ IsInjective(activeEntities)
        BY DEF IInv, TypeOK
    <2>3. /\ Tail(activeEntities) \in Seq(Entities) /\ IsInjective(Tail(activeEntities))
          /\ DOMAIN Tail(activeEntities) = 1..Len(activeEntities) - 1 /\ DOMAIN activeEntities = 1..Len(activeEntities)
          /\ Len(activeEntities) \in Nat /\ \A k \in 1..Len(activeEntities) - 1 :
                k + 1 \in 1..Len(activeEntities) /\ Tail(activeEntities)[k] = activeEntities[k + 1]
        BY <1>3, <2>2, InjectiveTail, HeadTailProperties
    <2>4. TypeOK'
        BY <2>1, <2>3 DEF IInv, TypeOK
    <2>5. StateInv' /\ ServerInv' /\ RequestInv' /\ ClosedInv'
        BY <2>1 DEF IInv, StateInv, ServerInv, RequestInv, ClosedInv, InTransition, Pending, At, Arg, InGame
    <2>6. WorldInv'
        BY <1>1, <1>3, <2>1, AtStep DEF IInv, WorldInv, At, Arg
    <2>7. LifeInv'
        BY <1>1, <2>1, <2>3 DEF IInv, LifeInv, At, Arg
    <2> QED
        BY <2>1, <2>4, <2>5, <2>6, <2>7 DEF IInv
<1> QED
    BY <1>2, <1>3

\* Entities are attached when a level is loaded and by the game.
LEMMA AttachedOnce ==
    ASSUME IInv, NEW e \in Entities, e \notin Range(activeEntities), NEW early \in BOOLEAN,
           activeEntities' = Append(activeEntities, e),
           life' = [life EXCEPT ![e] = Attached(e, early)]
    PROVE  /\ activeEntities' \in Seq(Entities) /\ IsInjective(activeEntities')
           /\ Range(activeEntities') = Range(activeEntities) \cup {e}
           /\ Len(activeEntities) \in Nat /\ Len(activeEntities') = Len(activeEntities) + 1
           /\ life' \in [Entities -> [loads : 0..1, starts : 0..2, early : BOOLEAN]]
           /\ \A x \in Entities : life'[x].starts \in 0..1
           /\ DOMAIN activeEntities' = 1..Len(activeEntities) + 1
           /\ \A k \in 1..Len(activeEntities) : k \in DOMAIN activeEntities /\ activeEntities'[k] = activeEntities[k]
                /\ life'[activeEntities'[k]].starts = life[activeEntities[k]].starts
           /\ life'[activeEntities'[Len(activeEntities) + 1]].starts = IF isStarted THEN 1 ELSE 0
<1> DEFINE n == Len(activeEntities)
<1>1. activeEntities \in Seq(Entities) /\ IsInjective(activeEntities) /\ n \in Nat
    BY DEF IInv, TypeOK
<1>2. /\ activeEntities' \in Seq(Entities) /\ Len(activeEntities') = n + 1
      /\ DOMAIN activeEntities' = 1..n + 1 /\ DOMAIN activeEntities = 1..n
      /\ activeEntities'[n + 1] = e /\ \A k \in 1..n : activeEntities'[k] = activeEntities[k]
    BY <1>1, AppendProperties
<1>3. /\ Range(activeEntities') = Range(activeEntities) \cup {e} /\ IsInjective(activeEntities')
    BY <1>1, RangeOfAppend, InjectiveAppend
<1>4. /\ Attached(e, early) \in [loads : 0..1, starts : 0..2, early : BOOLEAN]
      /\ Attached(e, early).starts = IF isStarted THEN 1 ELSE 0
    BY DEF Attached, NewLife
<1>5. /\ life \in [Entities -> [loads : 0..1, starts : 0..2, early : BOOLEAN]]
      /\ \A x \in Entities : life[x].starts \in 0..1
    BY DEF IInv, TypeOK, LifeInv
<1>6. /\ life' \in [Entities -> [loads : 0..1, starts : 0..2, early : BOOLEAN]]
      /\ life'[e] = Attached(e, early) /\ \A x \in Entities : x # e => life'[x] = life[x]
    BY <1>4, <1>5
<1>7. \A k \in 1..n : activeEntities[k] \in Entities /\ activeEntities[k] # e
    BY <1>1, <1>2, ElementOfSeq DEF Range
<1> HIDE DEF n
<1>8. \A x \in Entities : life'[x].starts \in 0..1
    BY <1>4, <1>5, <1>6
<1> QED
    BY <1>1, <1>2, <1>3, <1>4, <1>6, <1>7, <1>8 DEF n

LEMMA InvAttachEntity == ASSUME IInv, AttachEntity PROVE IInv'
<1>1. /\ todo # <<>> /\ Head(todo)[1] = "AttachEntity" /\ InGame /\ UNCHANGED <<spawns, server, states>>
      /\ At("AttachEntity")
    BY DEF AttachEntity, At, IInv, StateInv, SetupNames
<1>2. todo' = Tail(todo) /\ UNCHANGED <<isOpen, broken>>
    BY <1>1, AtStep DEF AttachEntity, Done, Do
<1>3. ~Final(Head(todo))
    BY <1>1 DEF Final
<1>4. PICK i \in DOMAIN Level : Level[i] = Arg /\ Head(todo') = Loading(i + 1)
    BY <1>1, <1>2, <1>3, AtStep, NextStep DEF Arg
<1>5. i \in Nat /\ Arg \in Range(Level) /\ Arg \in Entities /\ StillToCome(Arg)
    <2>1. i \in Nat /\ Arg \in Range(Level)
        BY <1>4, GameApplicationAssumption DEF Range
    <2> QED
        BY <1>1, <2>1 DEF Entities, StillToCome, IInv, WorldInv
<1>6. Arg \notin Range(activeEntities)
    BY <1>4, <1>5 DEF StillToCome
<1> DEFINE early == \E j \in DOMAIN Tail(todo) : Tail(todo)[j][1] = "AttachEntity"
<1>7. /\ activeEntities' = Append(activeEntities, Arg) /\ early \in BOOLEAN
      /\ life' = [life EXCEPT ![Arg] = Attached(Arg, early)]
    BY DEF AttachEntity
<1> HIDE DEF early
<1>8. /\ activeEntities' \in Seq(Entities) /\ IsInjective(activeEntities')
      /\ Range(activeEntities') = Range(activeEntities) \cup {Arg}
      /\ Len(activeEntities) \in Nat
      /\ life' \in [Entities -> [loads : 0..1, starts : 0..2, early : BOOLEAN]]
      /\ \A x \in Entities : life'[x].starts \in 0..1
      /\ DOMAIN activeEntities' = 1..Len(activeEntities) + 1
      /\ \A k \in 1..Len(activeEntities) : k \in DOMAIN activeEntities
            /\ life'[activeEntities'[k]].starts = life[activeEntities[k]].starts
      /\ life'[activeEntities'[Len(activeEntities) + 1]].starts = IF isStarted THEN 1 ELSE 0
    BY <1>5, <1>6, <1>7, AttachedOnce
<1>9. Head(todo')[1] \in {"AttachEntity", "NotifyGameLoad"}
    BY <1>4 DEF Loading
<1>10. ~broken' /\ StateInv' /\ ServerInv' /\ RequestInv' /\ ClosedInv'
    <2>1. UNCHANGED <<isOpen, broken, server, states>>
        BY <1>1, <1>2
    <2> QED
        BY <1>1, <1>2, <1>3, <1>9, <2>1, AtStep, QuietControl DEF Marks, SetupNames
<1>11. TypeOK'
    BY <1>1, <1>2, <1>8 DEF IInv, TypeOK, server, states
<1>12. WorldInv'
    <2>1. "basegame" \in active'
        BY <1>1 DEF IInv, ServerInv, At, server
    <2>2. ASSUME Head(todo')[1] = "AttachEntity",
                 NEW k \in DOMAIN Level, Level[k] = Head(todo')[2], NEW j \in DOMAIN Level, j >= k
          PROVE  Level[j] \notin Range(activeEntities')
        <3>1. i + 1 \in DOMAIN Level /\ Level[i + 1] = Head(todo')[2]
            BY <1>4, <2>2 DEF Loading
        <3>2. k = i + 1 /\ j >= i /\ j # i
            BY <1>5, <2>2, <3>1, GameApplicationAssumption DEF IsInjective
        <3>3. Level[j] # Arg
            BY <1>4, <3>2, GameApplicationAssumption DEF IsInjective
        <3> QED
            BY <1>4, <1>5, <1>8, <3>2, <3>3 DEF StillToCome
    <2> QED
        BY <1>9, <2>1, <2>2 DEF WorldInv, At, Arg
<1>13. LifeInv'
    <2>1. /\ ~At("StartEntities")' /\ ~At("SetStarted")' /\ ~At("StartEntities") /\ ~At("SetStarted")
          /\ isStarted' = isStarted
        BY <1>1, <1>9 DEF At, server
    <2>2. \A k \in DOMAIN activeEntities' : life'[activeEntities'[k]].starts = IF isStarted THEN 1 ELSE 0
        <3>1. \A k \in DOMAIN activeEntities' : k \in 1..Len(activeEntities) \/ k = Len(activeEntities) + 1
            BY <1>8
        <3> QED
            BY <1>8, <2>1, <3>1 DEF IInv, LifeInv
    <2> QED
        BY <1>8, <2>1, <2>2 DEF LifeInv
<1> QED
    BY <1>2, <1>10, <1>11, <1>12, <1>13, AtStep, <1>1 DEF IInv

LEMMA InvSpawn == ASSUME IInv, NEW e \in Spawned, Spawn(e) PROVE IInv'
<1>1. /\ todo # <<>> /\ "basegame" \in active /\ e \notin Range(activeEntities) /\ e \in Entities
      /\ Head(todo)[1] \in {"OnFrame", "OnEndFrame", "HandlerFrame", "StartEntities", "Cleanup", "AttachEntity"}
      /\ spawns < MaxSpawns /\ spawns' = spawns + 1
      /\ activeEntities' = Append(activeEntities, e) /\ life' = [life EXCEPT ![e] = Attached(e, FALSE)]
    BY DEF Spawn, InCallback, At, Entities
<1>2. /\ isOpen' = isOpen /\ broken' = broken /\ todo' = todo /\ gameFeatures' = gameFeatures
      /\ active' = active /\ isStarted' = isStarted
      /\ curState' = curState /\ requestedState' = requestedState /\ quitRequested' = quitRequested
      /\ entered' = entered /\ owed' = owed
    BY DEF Spawn, server, states
<1>3. /\ activeEntities' \in Seq(Entities) /\ IsInjective(activeEntities')
      /\ Range(activeEntities') = Range(activeEntities) \cup {e}
      /\ Len(activeEntities) \in Nat /\ Len(activeEntities') = Len(activeEntities) + 1
      /\ life' \in [Entities -> [loads : 0..1, starts : 0..2, early : BOOLEAN]]
      /\ \A x \in Entities : life'[x].starts \in 0..1
      /\ DOMAIN activeEntities' = 1..Len(activeEntities) + 1
      /\ \A k \in 1..Len(activeEntities) : k \in DOMAIN activeEntities
            /\ life'[activeEntities'[k]].starts = life[activeEntities[k]].starts
      /\ life'[activeEntities'[Len(activeEntities) + 1]].starts = IF isStarted THEN 1 ELSE 0
    BY <1>1, AttachedOnce
<1>4. StateInv' /\ ServerInv' /\ RequestInv' /\ ClosedInv' /\ EndOfCall(todo')
    BY <1>2 DEF IInv, StateInv, ServerInv, RequestInv, ClosedInv, InTransition, Pending, At, Arg, InGame
<1>5. TypeOK'
    <2>1. spawns' \in 0..MaxSpawns
        BY <1>1, GameApplicationAssumption DEF IInv, TypeOK
    <2> QED
        BY <1>2, <1>3, <2>1 DEF IInv, TypeOK
<1>6. WorldInv'
    <2>1. \A j \in DOMAIN Level : Level[j] # e
        BY GameApplicationAssumption DEF Range
    <2> QED
        BY <1>1, <1>2, <1>3, <2>1 DEF IInv, WorldInv, At, Arg
<1>7. LifeInv'
    <2>1. /\ ~At("SetStarted") /\ (At("SetStarted")' <=> At("SetStarted")) /\ Arg' = Arg
          /\ At("StartEntities")' <=> At("StartEntities")
        BY <1>1, <1>2 DEF At, Arg
    <2>2. At("StartEntities") => Arg \in 1..Len(activeEntities) + 1 /\ ~isStarted
        BY <1>1, AtStep, RestOfCall DEF IInv, LifeInv, ServerInv, Pending, At, Names
    <2>3. \A k \in DOMAIN activeEntities' : k \in 1..Len(activeEntities) \/ k = Len(activeEntities) + 1
        BY <1>3
    <2>4. \A k \in DOMAIN activeEntities' :
            life'[activeEntities'[k]].starts =
                IF isStarted \/ At("SetStarted") \/ (At("StartEntities") /\ k < Arg) THEN 1 ELSE 0
        BY <1>3, <2>1, <2>2, <2>3 DEF IInv, LifeInv
    <2>5. At("StartEntities") => Arg \in 1..Len(activeEntities') + 1
        BY <1>3, <2>2
    <2> QED
        BY <1>2, <1>3, <2>1, <2>4, <2>5 DEF LifeInv
<1> QED
    BY <1>2, <1>4, <1>5, <1>6, <1>7 DEF IInv

\* Requests.
LEMMA InvRequestState == ASSUME IInv, NEW s \in States, RequestState(s) PROVE IInv'
<1>1. /\ todo # <<>> /\ isOpen' = isOpen /\ broken' = broken /\ todo' = todo /\ gameFeatures' = gameFeatures
      /\ active' = active /\ isStarted' = isStarted /\ activeEntities' = activeEntities /\ life' = life
      /\ spawns' = spawns /\ curState' = curState /\ quitRequested' = quitRequested /\ entered' = entered
      /\ requestedState' = s /\ owed' = IF InTransition THEN owed ELSE s
    BY DEF RequestState, InCallback, At, server, entities
<1>2. TypeOK' /\ ServerInv' /\ WorldInv' /\ LifeInv' /\ EndOfCall(todo')
    BY <1>1 DEF IInv, TypeOK, ServerInv, WorldInv, LifeInv, Pending, At, Arg, InGame
<1>3. StateInv'
    <2>1. ~At("CloseServer")
        BY DEF RequestState, InCallback, At
    <2> QED
        BY <1>1, <2>1 DEF IInv, StateInv, Pending, At, Arg, InGame
<1>4. RequestInv' /\ ClosedInv'
    BY <1>1, AtStep DEF IInv, RequestInv, ClosedInv, InTransition, Pending
<1> QED
    BY <1>1, <1>2, <1>3, <1>4 DEF IInv

LEMMA InvRequestQuit == ASSUME IInv, RequestQuit PROVE IInv'
<1>1. /\ isOpen' = isOpen /\ broken' = broken /\ todo' = todo /\ gameFeatures' = gameFeatures
      /\ active' = active /\ isStarted' = isStarted /\ activeEntities' = activeEntities /\ life' = life
      /\ spawns' = spawns /\ curState' = curState /\ requestedState' = requestedState /\ entered' = entered
      /\ owed' = owed /\ quitRequested' = TRUE
    BY DEF RequestQuit, server, entities
<1>2. TypeOK'
    BY <1>1 DEF IInv, TypeOK
<1>3. StateInv' /\ ServerInv'
    BY <1>1 DEF IInv, StateInv, ServerInv, Pending, At, Arg, InGame
<1>4. WorldInv' /\ LifeInv'
    BY <1>1 DEF IInv, WorldInv, LifeInv, At, Arg
<1>5. RequestInv' /\ ClosedInv'
    BY <1>1 DEF IInv, RequestInv, ClosedInv, InTransition, Pending
<1> QED
    BY <1>1, <1>2, <1>3, <1>4, <1>5 DEF IInv

\* The start of the game and its end.
LEMMA InvStartEntities == ASSUME IInv, StartEntities PROVE IInv'
<1>1. /\ todo # <<>> /\ Head(todo)[1] = "StartEntities" /\ At("StartEntities")
      /\ UNCHANGED <<spawns, server, states>> /\ activeEntities' = activeEntities
    BY DEF StartEntities, At
<1>2. ~Final(Head(todo))
    BY <1>1 DEF Final
<1>3. Tail(todo) # <<>> /\ Head(Tail(todo))[1] = "SetStarted"
    BY <1>1, <1>2, AtStep, NextStep
<1>4. ~isStarted /\ "basegame" \in active /\ Arg \in 1..Len(activeEntities) + 1
    BY <1>1, AtStep, RestOfCall DEF IInv, StateInv, ServerInv, LifeInv, Pending, At, Names
<1>5. /\ activeEntities \in Seq(Entities) /\ IsInjective(activeEntities) /\ Len(activeEntities) \in Nat
      /\ DOMAIN activeEntities = 1..Len(activeEntities)
      /\ \A k \in 1..Len(activeEntities) : activeEntities[k] \in Entities
      /\ life \in [Entities -> [loads : 0..1, starts : 0..2, early : BOOLEAN]]
    BY ElementOfSeq DEF IInv, TypeOK
<1>6. CASE Arg \in DOMAIN activeEntities
    <2> DEFINE a == <<"StartEntities", Arg + 1>>
               e == activeEntities[Arg]
    <2>1. /\ life' = [life EXCEPT ![e].starts = @ + 1]
          /\ todo' = <<a>> \o Tail(todo) /\ UNCHANGED <<isOpen, broken>>
        BY <1>6 DEF StartEntities, Do
    <2>2. a \in Steps /\ a[1] = "StartEntities" /\ a[2] = Arg + 1
        BY <1>4 DEF Steps
    <2>3. Head(Tail(todo)) \in Follows(a)
        <3>1. Head(Tail(todo)) \in Follows(Head(todo))
            BY <1>1, <1>3, AtStep
        <3>2. Follows(Head(todo)) = {<<"SetStarted", 0>>} /\ Follows(a) = {<<"SetStarted", 0>>}
            BY <1>1, <2>2 DEF Follows
        <3> QED
            BY <3>1, <3>2
    <2> HIDE DEF a
    <2>4. /\ Chain(<<a>>) /\ <<a>> # <<>> /\ <<a>>[1] = a /\ <<a>>[Len(<<a>>)] = a
          /\ \A y : Has(<<a>>, y) <=> y = "StartEntities"
        BY <2>2, ChainOfOne
    <2>5. /\ EndOfCall(todo') /\ todo' # <<>> /\ Head(todo') = a /\ Last(todo') = Last(todo)
          /\ \A y : Has(todo', y) <=> Has(<<a>>, y) \/ Has(Tail(todo), y)
        BY <1>1, <1>3, <2>1, <2>3, <2>4, AtStep, PutInFront
    <2>6. ~broken' /\ StateInv' /\ ServerInv' /\ RequestInv' /\ ClosedInv'
        <3>1. UNCHANGED <<isOpen, broken, server, states>>
            BY <1>1, <2>1
        <3>2. \A y \in Marks : Has(todo', y) <=> Has(todo, y)
            BY <1>1, <2>4, <2>5, AtStep DEF Marks
        <3> QED
            BY <1>1, <2>2, <2>5, <3>1, <3>2, AtStep, QuietControl DEF SetupNames
    <2>7. e \in Entities /\ life[e].starts = 0
        <3>1. ~At("SetStarted") /\ ~(Arg < Arg)
            BY <1>1, <1>4 DEF At
        <3> QED
            BY <1>4, <1>5, <1>6, <3>1 DEF IInv, LifeInv
    <2>8. /\ life' \in [Entities -> [loads : 0..1, starts : 0..2, early : BOOLEAN]]
          /\ life'[e].starts = 1 /\ \A x \in Entities : x # e => life'[x] = life[x]
        BY <1>5, <2>1, <2>7
    <2>9. TypeOK'
        BY <1>1, <2>1, <2>8 DEF IInv, TypeOK, server, states
    <2>10. WorldInv'
        BY <1>1, <1>4, <2>2, <2>5 DEF WorldInv, At, server
    <2>11. LifeInv'
        <3>1. /\ At("StartEntities")' /\ ~At("SetStarted")' /\ ~At("SetStarted") /\ Arg' = Arg + 1 /\ ~isStarted'
            BY <1>1, <1>4, <2>2, <2>5, <2>6 DEF At, Arg, server
        <3>2. Arg' \in 1..Len(activeEntities') + 1
            BY <1>1, <1>4, <1>5, <1>6, <3>1
        <3>3. \A k \in 1..Len(activeEntities) :
                life'[activeEntities[k]].starts = IF k < Arg + 1 THEN 1 ELSE 0
            <4> SUFFICES ASSUME NEW k \in 1..Len(activeEntities)
                         PROVE  life'[activeEntities[k]].starts = IF k < Arg + 1 THEN 1 ELSE 0
                OBVIOUS
            <4>1. life[activeEntities[k]].starts = IF k < Arg THEN 1 ELSE 0
                BY <1>1, <1>4, <1>5, <3>1 DEF IInv, LifeInv
            <4>2. CASE k = Arg
                BY <1>4, <2>8, <4>2
            <4>3. CASE k # Arg
                <5>1. activeEntities[k] # e /\ activeEntities[k] \in Entities
                    BY <1>5, <1>6, <4>3 DEF IsInjective
                <5>2. (k < Arg + 1) <=> (k < Arg)
                    BY <1>4, <1>5, <4>3
                <5> QED
                    BY <2>8, <4>1, <5>1, <5>2
            <4> QED
                BY <4>2, <4>3
        <3>4. \A x \in Entities : life'[x].starts \in 0..1
            BY <2>8 DEF IInv, LifeInv
        <3> QED
            BY <1>1, <1>5, <3>1, <3>2, <3>3, <3>4 DEF LifeInv
    <2> QED
        BY <2>5, <2>6, <2>9, <2>10, <2>11 DEF IInv
<1>7. CASE Arg \notin DOMAIN activeEntities
    <2>1. todo' = Tail(todo) /\ life' = life /\ UNCHANGED <<isOpen, broken>>
        BY <1>1, <1>7, AtStep DEF StartEntities, Done, Do
    <2>2. ~broken' /\ StateInv' /\ ServerInv' /\ RequestInv' /\ ClosedInv'
        <3>1. UNCHANGED <<isOpen, broken, server, states>>
            BY <1>1, <2>1
        <3> QED
            BY <1>1, <1>3, <2>1, <3>1, AtStep, QuietControl DEF Marks, SetupNames
    <2>3. TypeOK'
        BY <1>1, <2>1 DEF IInv, TypeOK, server, states
    <2>4. WorldInv'
        BY <1>1, <1>3, <1>4, <2>1 DEF WorldInv, At, server
    <2>5. LifeInv'
        <3>1. At("SetStarted")' /\ ~At("StartEntities")'
            BY <1>3, <2>1, <2>2 DEF At
        <3>2. Arg = Len(activeEntities) + 1
            BY <1>4, <1>5, <1>7
        <3>3. \A k \in 1..Len(activeEntities) : k < Arg
            BY <1>5, <3>2
        <3> QED
            BY <1>1, <1>5, <2>1, <3>1, <3>3 DEF IInv, LifeInv
    <2> QED
        BY <1>1, <2>1, <2>2, <2>3, <2>4, <2>5, AtStep DEF IInv
<1> QED
    BY <1>6, <1>7

LEMMA InvSetStarted == ASSUME IInv, SetStarted PROVE IInv'
<1>1. /\ todo # <<>> /\ Head(todo)[1] = "SetStarted" /\ At("SetStarted") /\ isStarted' = TRUE
      /\ UNCHANGED <<gameFeatures, active, activeEntities, life, spawns>>
      /\ UNCHANGED <<curState, requestedState, quitRequested, entered, owed>>
    BY DEF SetStarted, At, entities, states
<1>2. todo' = Tail(todo) /\ UNCHANGED <<isOpen, broken>> /\ isOpen /\ ~broken /\ EndOfCall(todo')
    BY <1>1, AtStep DEF SetStarted, Done, Do
<1>3. ~Final(Head(todo))
    BY <1>1 DEF Final
<1>4. todo' # <<>> /\ Head(todo')[1] = "ClearRequest" /\ Last(todo') = Last(todo)
    BY <1>1, <1>2, <1>3, AtStep, NextStep
<1>5. /\ \A y : Has(todo', y) <=> y = "ClearRequest"
      /\ \A y : Has(todo, y) <=> y \in {"SetStarted", "ClearRequest"}
    BY <1>1, <1>2, AtStep, RestOfCall DEF Names
<1>6. InGame
    BY <1>5 DEF IInv, StateInv, Pending
<1>7. TypeOK'
    BY <1>1, <1>2 DEF IInv, TypeOK
<1>8. StateInv'
    BY <1>1, <1>2, <1>4, <1>5, <1>6 DEF IInv, StateInv, Pending, At, InGame, SetupNames
<1>9. RequestInv' /\ ClosedInv'
    <2>1. InTransition /\ InTransition' /\ ~Pending("OnStateEnter") /\ ~Pending("OnStateEnter")'
        BY <1>5 DEF InTransition, Has, Pending
    <2> QED
        BY <1>1, <1>2, <1>4, <2>1 DEF IInv, RequestInv, ClosedInv
<1>10. ServerInv'
    BY <1>1, <1>2, <1>4, <1>5, <1>6 DEF IInv, ServerInv, Pending, At, Arg, InGame
<1>11. WorldInv' /\ LifeInv'
    BY <1>1, <1>2, <1>4 DEF IInv, WorldInv, LifeInv, At, Arg
<1> QED
    BY <1>2, <1>7, <1>8, <1>10, <1>11, <1>9 DEF IInv

LEMMA InvStop == ASSUME IInv, Stop PROVE IInv'
<1>1. /\ todo # <<>> /\ Head(todo)[1] = "Stop" /\ At("Stop") /\ isStarted' = FALSE
      /\ UNCHANGED <<gameFeatures, active, activeEntities, life, spawns>>
      /\ UNCHANGED <<curState, requestedState, quitRequested, entered, owed>>
    BY DEF Stop, At, entities, states
<1>2. \A y : Has(todo, y) <=> y \in {"Stop", "OnStateEnter", "ClearRequest"}
    BY <1>1, AtStep, RestOfCall DEF Names
<1>3. InGame /\ isStarted /\ "basegame" \notin active
    <2>1. Pending("Stop") /\ ~Pending("SetStarted") /\ ~At("OnStateEnter")
        BY <1>1, <1>2 DEF Pending, At
    <2>2. InGame
        BY <2>1 DEF IInv, StateInv
    <2> QED
        BY <1>1, <2>1, <2>2 DEF IInv, ServerInv
<1>4. todo' = Tail(todo) /\ UNCHANGED <<isOpen, broken>> /\ isOpen /\ ~broken /\ EndOfCall(todo')
    BY <1>1, <1>3, AtStep DEF Stop, Asserted, Done, Do
<1>5. ~Final(Head(todo))
    BY <1>1 DEF Final
<1>6. todo' # <<>> /\ Head(todo')[1] = "OnStateEnter" /\ Last(todo') = Last(todo)
    BY <1>1, <1>4, <1>5, AtStep, NextStep
<1>7. \A y : Has(todo', y) <=> y \in {"OnStateEnter", "ClearRequest"}
    BY <1>1, <1>4, AtStep, RestOfCall DEF Names
<1>8. TypeOK'
    BY <1>1, <1>4 DEF IInv, TypeOK
<1>9. StateInv'
    BY <1>1, <1>2, <1>4, <1>6, <1>7 DEF IInv, StateInv, Pending, At, InGame, SetupNames
<1>10. RequestInv' /\ ClosedInv'
    <2>1. InTransition /\ InTransition' /\ Pending("OnStateEnter")'
        BY <1>2, <1>7 DEF InTransition, Has, Pending
    <2> QED
        BY <1>1, <1>4, <1>6, <2>1 DEF IInv, RequestInv, ClosedInv
<1>11. ServerInv'
    BY <1>1, <1>2, <1>3, <1>4, <1>6, <1>7 DEF IInv, ServerInv, Pending, At, Arg, InGame
<1>12. WorldInv' /\ LifeInv'
    BY <1>1, <1>3, <1>4, <1>6 DEF IInv, WorldInv, LifeInv, At, Arg
<1> QED
    BY <1>4, <1>8, <1>9, <1>11, <1>12, <1>10 DEF IInv

\* Transitions: chosen at the end of a frame, left, entered and done.
LEMMA InvHandlerFrame == ASSUME IInv, HandlerFrame PROVE IInv'
<1>1. /\ todo # <<>> /\ Head(todo)[1] = "HandlerFrame" /\ UNCHANGED <<server, entities, states>>
      /\ gameFeatures' = gameFeatures /\ active' = active /\ isStarted' = isStarted
      /\ activeEntities' = activeEntities /\ life' = life /\ spawns' = spawns
      /\ curState' = curState /\ requestedState' = requestedState /\ quitRequested' = quitRequested
      /\ entered' = entered /\ owed' = owed
    BY DEF HandlerFrame, At, server, entities, states
<1>2. PICK new \in NewStates :
        Do(IF Successor(new) = NoState THEN <<>> ELSE Transition(Successor(new)))
    BY DEF HandlerFrame
<1>3. Tail(todo) = <<>> /\ Final(Head(todo)) /\ \A y : Has(todo, y) <=> y = "HandlerFrame"
    <2>1. Final(Head(todo))
        BY <1>1 DEF Final
    <2> QED
        BY <1>1, <2>1, AtStep, RestOfCall DEF Names
<1>4. CASE Successor(new) = NoState
    <2>1. todo' = <<>> /\ UNCHANGED <<isOpen, broken>>
        BY <1>1, <1>2, <1>3, <1>4, AtStep DEF Do
    <2>2. \A y : ~Has(todo', y)
        BY <2>1 DEF Has
    <2>3. EndOfCall(todo')
        BY <1>1, <1>3, <2>1, AtStep
    <2> QED
        BY <1>1, <1>3, <2>1, <2>2, <2>3, AtStep, QuietStep DEF Marks
<1>5. CASE Successor(new) # NoState
    <2> DEFINE s == Successor(new)
               t == Transition(s)
    <2>1. s \in States /\ (requestedState # NoState => s = requestedState)
        BY <1>2, <1>5, GameApplicationAssumption DEF Successor, NewStates, States, IInv, TypeOK
    <2> HIDE DEF s
    <2>2. /\ Chain(t) /\ t # <<>> /\ t[1] = <<"OnStateLeave", s>> /\ Last(t) = <<"ClearRequest", s>>
          /\ Names(t, {"OnStateLeave", "OnStateEnter", "ClearRequest"})
        BY <2>1, TransitionChain
    <2> HIDE DEF t
    <2>3. todo' = t /\ UNCHANGED <<isOpen, broken>> /\ isOpen /\ ~broken
        <3>1. t \o <<>> = t
            BY <2>2, ConcatEmptySeq DEF Chain
        <3> QED
            BY <1>1, <1>2, <1>3, <1>5, <3>1, AtStep DEF Do, s, t
    <2>4. EndOfCall(t) /\ Head(t) = t[1]
        BY <2>2, EmptySeq DEF EndOfCall, Final, Chain
    <2>5. todo' # <<>> /\ Head(todo')[1] = "OnStateLeave" /\ Last(todo')[2] = s
        BY <2>2, <2>3, <2>4
    <2>6. /\ \A y : Has(todo', y) <=> y \in {"OnStateLeave", "OnStateEnter", "ClearRequest"}
          /\ ~InTransition /\ Pending("OnStateEnter")'
        BY <1>3, <2>2, <2>3 DEF Names, InTransition, Has, Pending
    <2>7. TypeOK'
        BY <1>1, <2>3 DEF IInv, TypeOK
    <2>8. StateInv'
        BY <1>1, <1>3, <2>3, <2>5, <2>6 DEF IInv, StateInv, Pending, At, InGame, SetupNames
    <2>9. ServerInv'
        BY <1>1, <1>3, <2>3, <2>5, <2>6 DEF IInv, ServerInv, Pending, At, Arg, InGame
    <2>10. WorldInv' /\ LifeInv'
        BY <1>1, <2>3, <2>5 DEF IInv, WorldInv, LifeInv, At, Arg
    <2>11. RequestInv' /\ ClosedInv'
        BY <1>1, <2>1, <2>3, <2>5, <2>6 DEF IInv, RequestInv, ClosedInv, InTransition, Has
    <2> QED
        BY <2>3, <2>4, <2>7, <2>8, <2>9, <2>10, <2>11 DEF IInv
<1> QED
    BY <1>4, <1>5

LEMMA InvOnStateLeave == ASSUME IInv, OnStateLeave PROVE IInv'
<1>1. /\ todo # <<>> /\ Head(todo)[1] = "OnStateLeave" /\ At("OnStateLeave")
      /\ gameFeatures' = gameFeatures /\ active' = active /\ isStarted' = isStarted
      /\ activeEntities' = activeEntities /\ life' = life /\ spawns' = spawns
      /\ curState' = curState /\ requestedState' = requestedState /\ quitRequested' = quitRequested
      /\ entered' = entered \ {curState} /\ owed' = owed /\ UNCHANGED <<isOpen, broken>>
    BY DEF OnStateLeave, At, server, entities, Do
<1>2. /\ isOpen /\ ~broken /\ isOpen' /\ ~broken'
      /\ \A y : Has(Tail(todo), y) <=> y \in {"OnStateEnter", "ClearRequest"}
      /\ \A y : Has(todo, y) <=> y \in {"OnStateLeave", "OnStateEnter", "ClearRequest"}
    BY <1>1, AtStep, RestOfCall DEF Names
<1>3. ~Final(Head(todo))
    BY <1>1 DEF Final
<1>4. Tail(todo) # <<>> /\ Head(Tail(todo))[1] = "OnStateEnter" /\ Last(Tail(todo)) = Last(todo)
    BY <1>1, <1>3, AtStep, NextStep
<1>5. /\ EndOfCall(todo') /\ todo' # <<>> /\ Last(todo') = Last(todo)
      /\ ~Has(todo', "OnStateLeave") /\ ~Has(todo', "SetStarted") /\ ~Has(todo', "CloseServer")
      /\ Has(todo', "OnStateEnter") /\ Has(todo', "ClearRequest")
      /\ IF InGame THEN Head(todo')[1] = "ClearJobs" ELSE Head(todo')[1] = "OnStateEnter" /\ ~Has(todo', "Stop")
    <2>1. CASE InGame
        <3>1. todo' = LeaveGame \o Tail(todo)
            BY <2>1 DEF OnStateLeave, Do, InGame
        <3>2. Head(Tail(todo)) \in Follows(LeaveGame[Len(LeaveGame)])
            <4>1. Head(Tail(todo)) \in {"OnStateEnter"} \X States
                <5>1. Head(todo)[2] \in States /\ Head(Tail(todo)) \in Follows(Head(todo))
                    BY <1>1, <1>4, AtStep, StepTypes
                <5>2. Follows(Head(todo)) = {<<"OnStateEnter", Head(todo)[2]>>}
                    BY <1>1 DEF Follows
                <5>3. <<"OnStateEnter", Head(todo)[2]>> \in {"OnStateEnter"} \X States
                    BY <5>1
                <5> QED
                    BY <5>1, <5>2, <5>3
            <4>2. Follows(<<"Stop", 0>>) = {"OnStateEnter"} \X States
                BY DEF Follows
            <4> QED
                BY <4>1, <4>2, LeaveGameChain
        <3>3. /\ EndOfCall(todo') /\ todo' # <<>> /\ Head(todo') = LeaveGame[1] /\ Last(todo') = Last(todo)
              /\ \A y : Has(todo', y) <=> Has(LeaveGame, y) \/ Has(Tail(todo), y)
            BY <1>1, <1>4, <3>1, <3>2, AtStep, LeaveGameChain, PutInFront
        <3>4. Head(todo')[1] = "ClearJobs"
            BY <3>3, LeaveGameChain
        <3> QED
            BY <1>2, <2>1, <3>3, <3>4, LeaveGameChain DEF Names
    <2>2. CASE ~InGame
        <3>1. todo' = Tail(todo)
            BY <1>1, <2>2, AtStep DEF OnStateLeave, Do, InGame
        <3> QED
            BY <1>1, <1>2, <1>4, <2>2, <3>1, AtStep
    <2> QED
        BY <2>1, <2>2
<1>6. TypeOK'
    BY <1>1 DEF IInv, TypeOK
<1>7. StateInv'
    <2>1. entered' = {}
        BY <1>1, <1>2 DEF IInv, StateInv, Pending
    <2> QED
        BY <1>1, <1>2, <1>5, <2>1 DEF IInv, StateInv, Pending, At, InGame, SetupNames
<1>8. ServerInv'
    BY <1>1, <1>2, <1>5 DEF IInv, ServerInv, Pending, At, Arg, InGame
<1>9. WorldInv' /\ LifeInv'
    BY <1>1, <1>5 DEF IInv, WorldInv, LifeInv, At, Arg, InGame
<1>10. RequestInv' /\ ClosedInv'
    <2>1. InTransition /\ InTransition' /\ Pending("OnStateEnter")'
        BY <1>2, <1>5 DEF InTransition, Has, Pending
    <2> QED
        BY <1>1, <1>2, <1>5, <2>1 DEF IInv, RequestInv, ClosedInv
<1> QED
    BY <1>2, <1>5, <1>6, <1>7, <1>8, <1>9, <1>10 DEF IInv

LEMMA InvClearRequest == ASSUME IInv, ClearRequest PROVE IInv'
<1>1. /\ todo # <<>> /\ Head(todo)[1] = "ClearRequest"
      /\ gameFeatures' = gameFeatures /\ active' = active /\ isStarted' = isStarted
      /\ activeEntities' = activeEntities /\ life' = life /\ spawns' = spawns
      /\ curState' = curState /\ requestedState' = NoState /\ quitRequested' = quitRequested
      /\ entered' = entered /\ owed' = NoState
    BY DEF ClearRequest, At, server, entities
<1>2. Final(Head(todo))
    BY <1>1 DEF Final
<1>3. /\ todo' = <<>> /\ isOpen' = isOpen /\ broken' = broken /\ EndOfCall(todo') /\ isOpen /\ ~broken
      /\ \A y : Has(todo, y) <=> y = "ClearRequest"
    BY <1>1, <1>2, AtStep, RestOfCall DEF ClearRequest, Done, Do, Names
<1>4. \A y : ~Has(todo', y)
    BY <1>3 DEF Has
<1>5. TypeOK'
    BY <1>1, <1>3 DEF IInv, TypeOK
<1>6. StateInv'
    BY <1>1, <1>3, <1>4 DEF IInv, StateInv, Pending, At, InGame
<1>7. ServerInv'
    BY <1>1, <1>3, <1>4 DEF IInv, ServerInv, Pending, At, Arg, InGame
<1>8. WorldInv' /\ LifeInv'
    BY <1>1, <1>3 DEF IInv, WorldInv, LifeInv, At, Arg
<1>9. RequestInv' /\ ClosedInv'
    BY <1>1, <1>3, <1>4 DEF RequestInv, ClosedInv, InTransition, Has
<1> QED
    BY <1>3, <1>5, <1>6, <1>7, <1>8, <1>9 DEF IInv

LEMMA InvOnStateEnter == ASSUME IInv, OnStateEnter PROVE IInv'
<1> DEFINE s == Head(todo)[2]
<1>1. /\ todo # <<>> /\ Head(todo)[1] = "OnStateEnter" /\ At("OnStateEnter")
      /\ gameFeatures' = gameFeatures /\ active' = active /\ isStarted' = isStarted
      /\ activeEntities' = activeEntities /\ life' = life /\ spawns' = spawns
      /\ curState' = s /\ requestedState' = requestedState /\ quitRequested' = quitRequested
      /\ entered' = entered \cup ({s} \ {Exit}) /\ owed' = owed
    BY DEF OnStateEnter, At, Arg, server, entities
<1>2. /\ isOpen /\ ~broken /\ s \in States
      /\ \A y : Has(Tail(todo), y) <=> y = "ClearRequest"
      /\ \A y : Has(todo, y) <=> y \in {"OnStateEnter", "ClearRequest"}
      /\ Last(todo)[2] = s
    BY <1>1, AtStep, StepTypes, RestOfCall DEF Names
<1>3. ~Final(Head(todo))
    BY <1>1 DEF Final
<1>4. Tail(todo) # <<>> /\ Head(Tail(todo))[1] = "ClearRequest" /\ Last(Tail(todo)) = Last(todo)
    BY <1>1, <1>3, AtStep, NextStep
<1>5. ~isStarted /\ "basegame" \notin active /\ activeEntities = <<>> /\ entered = {} /\ Range(AppFeatures) \subseteq active
    <2>1. /\ Pending("OnStateEnter") /\ ~Pending("OnStateLeave") /\ ~Pending("CloseServer")
          /\ ~At("AttachGameFeature")
        BY <1>1, <1>2 DEF Pending, At
    <2>2. entered = {}
        BY <2>1 DEF IInv, StateInv
    <2>3. ~isStarted /\ "basegame" \notin active /\ Range(AppFeatures) \subseteq active
        BY <1>1, <1>2, <2>1 DEF IInv, ServerInv
    <2> QED
        BY <2>2, <2>3 DEF IInv, WorldInv
<1>6. /\ EndOfCall(todo') /\ todo' # <<>> /\ Last(todo') = Last(todo) /\ UNCHANGED <<isOpen, broken>>
      /\ ~Has(todo', "OnStateLeave") /\ ~Has(todo', "OnStateEnter") /\ ~Has(todo', "CloseServer")
      /\ ~Has(todo', "Stop") /\ Has(todo', "ClearRequest")
      /\ IF s \in GameStates
         THEN Head(todo')[1] = "AttachGameFeature" /\ Head(todo')[2] = "basegame" /\ Has(todo', "SetStarted")
         ELSE Head(todo')[1] = "ClearRequest" /\ ~Has(todo', "SetStarted")
    <2>1. CASE s \in GameStates
        <3>1. PICK w \in Setups :
                Do(<<<<"AttachGameFeature", "basegame">>>> \o w \o StartWorld)
            BY <2>1 DEF OnStateEnter, Arg
        <3> DEFINE u == <<<<"AttachGameFeature", "basegame">>>> \o w \o StartWorld
        <3>2. /\ Chain(u) /\ u # <<>> /\ u[1] = <<"AttachGameFeature", "basegame">>
              /\ u[Len(u)] = <<"SetStarted", 0>> /\ Has(u, "SetStarted")
              /\ \A y : Has(u, y) =>
                    y \in SetupNames \cup {"AttachGameFeature", "AssertStopped", "StartEntities", "SetStarted"}
            BY EnterChain
        <3>3. todo' = u \o Tail(todo) /\ UNCHANGED <<isOpen, broken>>
            BY <3>1 DEF Do
        <3> HIDE DEF u
        <3>4. Head(Tail(todo)) \in Follows(u[Len(u)])
            <4>1. Head(Tail(todo)) \in Follows(Head(todo)) /\ Follows(Head(todo)) = {<<"ClearRequest", s>>}
                BY <1>1, <1>4, AtStep DEF Follows
            <4>2. <<"ClearRequest", s>> \in Follows(<<"SetStarted", 0>>)
                BY <1>2 DEF Follows
            <4> QED
                BY <3>2, <4>1, <4>2
        <3>5. /\ EndOfCall(todo') /\ todo' # <<>> /\ Head(todo') = u[1] /\ Last(todo') = Last(todo)
              /\ \A y : Has(todo', y) <=> Has(u, y) \/ Has(Tail(todo), y)
            BY <1>1, <1>4, <3>2, <3>3, <3>4, AtStep, PutInFront
        <3>6. Head(todo')[1] = "AttachGameFeature" /\ Head(todo')[2] = "basegame"
            BY <3>2, <3>5
        <3>7. /\ ~Has(u, "OnStateLeave") /\ ~Has(u, "OnStateEnter") /\ ~Has(u, "CloseServer") /\ ~Has(u, "Stop")
            BY <3>2 DEF SetupNames
        <3>8. /\ ~Has(todo', "OnStateLeave") /\ ~Has(todo', "OnStateEnter") /\ ~Has(todo', "CloseServer")
              /\ ~Has(todo', "Stop") /\ Has(todo', "ClearRequest") /\ Has(todo', "SetStarted")
            BY <1>2, <3>2, <3>5, <3>7
        <3> QED
            BY <2>1, <3>3, <3>5, <3>6, <3>8
    <2>2. CASE s \notin GameStates
        <3>1. todo' = Tail(todo) /\ UNCHANGED <<isOpen, broken>>
            BY <1>1, <2>2, AtStep DEF OnStateEnter, Done, Do, Arg
        <3> QED
            BY <1>1, <1>2, <1>4, <2>2, <3>1, AtStep
    <2> QED
        BY <2>1, <2>2
<1> HIDE DEF s
<1>7. s # NoState
    BY <1>2, GameApplicationAssumption
<1>8. TypeOK'
    BY <1>1, <1>2, <1>6 DEF IInv, TypeOK
<1>9. StateInv'
    BY <1>1, <1>2, <1>5, <1>6, <1>7, GameApplicationAssumption DEF StateInv, Pending, At, Arg, InGame, SetupNames
<1>10. ServerInv'
    BY <1>1, <1>2, <1>5, <1>6 DEF IInv, ServerInv, TypeOK, Pending, At, Arg, InGame
<1>11. WorldInv' /\ LifeInv'
    BY <1>1, <1>5, <1>6 DEF IInv, WorldInv, LifeInv, At, Arg
<1>12. RequestInv' /\ ClosedInv'
    <2>1. InTransition /\ InTransition'
        BY <1>2, <1>6 DEF InTransition, Has
    <2> QED
        BY <1>1, <1>2, <1>6, <2>1 DEF IInv, RequestInv, ClosedInv
<1> QED
    BY <1>2, <1>6, <1>8, <1>9, <1>10, <1>11, <1>12 DEF IInv

\* Closing.
LEMMA InvClose == ASSUME IInv, Close PROVE IInv'
<1> DEFINE t == <<<<"RemoveGameFeature", "graphics">>, <<"RemoveGameFeature", "core">>,
                  <<"CleanupStateHandlers", 0>>, <<"CloseServer", 0>>>>
<1>1. /\ todo = <<>> /\ isOpen /\ ~broken /\ curState = Exit /\ todo' = t
      /\ isOpen' = isOpen /\ broken' = broken
      /\ gameFeatures' = gameFeatures /\ active' = active /\ isStarted' = isStarted
      /\ activeEntities' = activeEntities /\ life' = life /\ spawns' = spawns
      /\ curState' = curState /\ requestedState' = requestedState /\ quitRequested' = quitRequested
      /\ entered' = entered /\ owed' = owed
    BY DEF Close, Idle, server, entities, states
<1>2. /\ Chain(t) /\ t # <<>> /\ t[1] = <<"RemoveGameFeature", "graphics">> /\ Last(t) = <<"CloseServer", 0>>
      /\ Names(t, {"RemoveGameFeature", "CleanupStateHandlers", "CloseServer"})
    BY CloseChain
<1> HIDE DEF t
<1>3. /\ EndOfCall(t) /\ Head(t) = <<"RemoveGameFeature", "graphics">>
    BY <1>2, EmptySeq DEF EndOfCall, Final, Chain
<1>4. todo' # <<>> /\ Head(todo')[1] = "RemoveGameFeature" /\ Head(todo')[2] = "graphics"
    BY <1>1, <1>2, <1>3
<1>5. /\ \A y : ~Has(todo, y)
      /\ \A y : Has(todo', y) <=> y \in {"RemoveGameFeature", "CleanupStateHandlers", "CloseServer"}
    BY <1>1, <1>2 DEF Has, Names
<1>6. curState \notin GameStates
    BY <1>1, GameApplicationAssumption
<1>7. TypeOK'
    BY <1>1 DEF IInv, TypeOK
<1>8. StateInv'
    BY <1>1, <1>4, <1>5, <1>6 DEF IInv, StateInv, Pending, At, InGame, SetupNames
<1>9. ServerInv'
    BY <1>1, <1>4, <1>5, <1>6, FeatureNames DEF IInv, ServerInv, Pending, At, Arg, InGame
<1>10. WorldInv' /\ LifeInv'
    BY <1>1, <1>4, <1>6 DEF IInv, ServerInv, WorldInv, LifeInv, At, Arg, InGame
<1>11. RequestInv' /\ ClosedInv'
    BY <1>1, <1>5 DEF IInv, RequestInv, ClosedInv, InTransition, Has
<1> QED
    BY <1>1, <1>3, <1>7, <1>8, <1>9, <1>10, <1>11 DEF IInv

LEMMA InvCleanupStateHandlers == ASSUME IInv, CleanupStateHandlers PROVE IInv'
<1>1. /\ todo # <<>> /\ Head(todo)[1] = "CleanupStateHandlers" /\ At("CleanupStateHandlers")
      /\ gameFeatures' = gameFeatures /\ active' = active /\ isStarted' = isStarted
      /\ activeEntities' = activeEntities /\ life' = life /\ spawns' = spawns
      /\ curState' = NoState /\ requestedState' = NoState /\ quitRequested' = quitRequested
      /\ entered' = entered /\ owed' = NoState
    BY DEF CleanupStateHandlers, At, server, entities
<1>2. ~Final(Head(todo))
    BY <1>1 DEF Final
<1>3. /\ todo' = Tail(todo) /\ isOpen' = isOpen /\ broken' = broken /\ EndOfCall(todo') /\ isOpen /\ ~broken
      /\ todo' # <<>> /\ Head(todo')[1] = "CloseServer"
    BY <1>1, <1>2, AtStep, NextStep DEF CleanupStateHandlers, Done, Do
<1>4. /\ \A y : Has(todo', y) <=> y = "CloseServer"
      /\ \A y : Has(todo, y) <=> y \in {"CleanupStateHandlers", "CloseServer"}
    BY <1>1, <1>3, AtStep, RestOfCall DEF Names
<1>5. curState \in {Exit, NoState} /\ entered = {} /\ Exit \notin GameStates /\ NoState \notin GameStates
    BY <1>4, GameApplicationAssumption DEF IInv, StateInv, Pending, States
<1>6. TypeOK'
    BY <1>1, <1>3 DEF IInv, TypeOK
<1>7. StateInv'
    BY <1>1, <1>3, <1>4, <1>5 DEF StateInv, Pending, At, InGame, SetupNames
<1>8. ServerInv'
    BY <1>1, <1>3, <1>4, <1>5 DEF IInv, ServerInv, Pending, At, Arg, InGame
<1>9. WorldInv' /\ LifeInv'
    BY <1>1, <1>3 DEF IInv, WorldInv, LifeInv, At, Arg
<1>10. RequestInv' /\ ClosedInv'
    BY <1>1, <1>3, <1>4 DEF RequestInv, ClosedInv, InTransition, Has
<1> QED
    BY <1>3, <1>6, <1>7, <1>8, <1>9, <1>10 DEF IInv

LEMMA InvCloseServer == ASSUME IInv, CloseServer PROVE IInv'
<1>1. todo # <<>> /\ Head(todo)[1] = "CloseServer" /\ At("CloseServer")
    BY DEF CloseServer, At
<1>2. Final(Head(todo))
    BY <1>1 DEF Final
<1>3. Tail(todo) = <<>> /\ ~broken /\ EndOfCall(Tail(todo)) /\ \A y : Has(todo, y) <=> y = "CloseServer"
    BY <1>1, <1>2, AtStep, RestOfCall DEF Names
<1>4. curState = NoState /\ requestedState = NoState /\ owed = NoState /\ NoState \notin GameStates
    BY <1>1, <1>3, GameApplicationAssumption DEF IInv, StateInv, RequestInv, InTransition, Has, States
<1>5. ~isStarted /\ "basegame" \notin active /\ activeEntities = <<>> /\ gameFeatures = active /\ entered = {}
    BY <1>1, <1>3, <1>4 DEF IInv, StateInv, ServerInv, WorldInv, InGame, Pending
<1>6. /\ isOpen' = FALSE /\ todo' = <<>> /\ quitRequested' = FALSE /\ spawns' = 0 /\ active' = {} /\ gameFeatures' = {}
      /\ broken' = broken /\ isStarted' = isStarted /\ activeEntities' = activeEntities /\ life' = life
      /\ curState' = curState /\ requestedState' = requestedState /\ entered' = entered /\ owed' = owed
    BY <1>3, <1>5 DEF CloseServer
<1>7. \A y : ~Has(todo', y)
    BY <1>6 DEF Has
<1>8. TypeOK'
    <2>1. 0 \in 0..MaxSpawns
        BY GameApplicationAssumption
    <2> QED
        BY <1>6, <2>1 DEF IInv, TypeOK
<1>9. StateInv'
    BY <1>4, <1>5, <1>6, <1>7 DEF StateInv, Pending, At, InGame
<1>10. ServerInv'
    BY <1>4, <1>5, <1>6, <1>7 DEF IInv, TypeOK, ServerInv, Pending, At, InGame
<1>11. WorldInv' /\ LifeInv'
    BY <1>5, <1>6 DEF IInv, WorldInv, LifeInv, At
<1>12. RequestInv' /\ ClosedInv'
    BY <1>4, <1>6, <1>7 DEF RequestInv, ClosedInv, InTransition, Has
<1> QED
    BY <1>3, <1>6, <1>8, <1>9, <1>11, <1>12, <1>10 DEF IInv

LEMMA InvOpen == ASSUME IInv, Open PROVE IInv'
<1> DEFINE t == [i \in DOMAIN AppFeatures |-> <<"AttachGameFeature", AppFeatures[i]>>] \o Transition(FirstState)
<1>1. /\ ~isOpen /\ ~broken /\ isOpen' = TRUE /\ todo' = t /\ broken' = broken
      /\ gameFeatures' = gameFeatures /\ active' = active /\ isStarted' = isStarted
      /\ activeEntities' = activeEntities /\ life' = life /\ spawns' = spawns
      /\ curState' = curState /\ requestedState' = requestedState /\ quitRequested' = quitRequested
      /\ entered' = entered /\ owed' = owed
    BY DEF Open, server, entities, states
<1>2. /\ Chain(t) /\ t # <<>> /\ t[1] = <<"AttachGameFeature", "core">> /\ Head(t) = t[1]
      /\ Last(t) = <<"ClearRequest", FirstState>>
      /\ Names(t, {"AttachGameFeature", "OnStateLeave", "OnStateEnter", "ClearRequest"})
    BY OpenChain
<1> HIDE DEF t
<1>3. EndOfCall(t)
    BY <1>2 DEF EndOfCall, Final
<1>4. todo' # <<>> /\ Head(todo')[1] = "AttachGameFeature" /\ Head(todo')[2] = "core"
    BY <1>1, <1>2
<1>5. \A y : Has(todo', y) <=> y \in {"AttachGameFeature", "OnStateLeave", "OnStateEnter", "ClearRequest"}
    BY <1>1, <1>2 DEF Names
<1>6. todo = <<>> /\ curState = NoState /\ active = {} /\ owed = NoState /\ requestedState = NoState
      /\ NoState \notin GameStates
    BY <1>1, GameApplicationAssumption DEF IInv, ClosedInv, States
<1>7. \A y : ~Has(todo, y)
    BY <1>6 DEF Has
<1>8. TypeOK'
    BY <1>1 DEF IInv, TypeOK
<1>9. StateInv'
    BY <1>1, <1>4, <1>5, <1>6, <1>7 DEF IInv, StateInv, Pending, At, Arg, InGame, SetupNames
<1>10. ServerInv'
    BY <1>1, <1>4, <1>5, <1>6, <1>7 DEF IInv, ServerInv, Pending, At, Arg, InGame
<1>11. WorldInv' /\ LifeInv'
    BY <1>1, <1>4, <1>6 DEF IInv, WorldInv, LifeInv, At, Arg
<1>12. RequestInv' /\ ClosedInv'
    <2>1. InTransition' /\ Pending("OnStateEnter")'
        BY <1>5 DEF InTransition, Has, Pending
    <2> QED
        BY <1>1, <1>6, <2>1 DEF RequestInv, ClosedInv
<1> QED
    BY <1>1, <1>3, <1>8, <1>9, <1>10, <1>11, <1>12 DEF IInv

\* Features.
LEMMA InvAttachGameFeature == ASSUME IInv, AttachGameFeature PROVE IInv'
<1> DEFINE f == Head(todo)[2]
<1>1. /\ todo # <<>> /\ Head(todo)[1] = "AttachGameFeature" /\ At("AttachGameFeature") /\ Arg = f
      /\ active' = active \cup {f} /\ gameFeatures' = gameFeatures \cup {f} /\ isStarted' = isStarted
      /\ activeEntities' = activeEntities /\ life' = life /\ spawns' = spawns
      /\ curState' = curState /\ requestedState' = requestedState /\ quitRequested' = quitRequested
      /\ entered' = entered /\ owed' = owed
    BY DEF AttachGameFeature, At, Arg, entities, states
<1>2. f \in {"core", "graphics", "fighting", "basegame"} /\ isOpen /\ ~broken
    BY <1>1, AtStep, StepTypes, FeatureNames
<1>3. ~Final(Head(todo))
    BY <1>1 DEF Final
<1>4. /\ EndOfCall(Tail(todo)) /\ Tail(todo) # <<>> /\ Last(Tail(todo)) = Last(todo)
      /\ Head(Tail(todo)) \in Follows(Head(todo)) /\ Head(Tail(todo)) \in Steps
      /\ \A y : y # "AttachGameFeature" => (Has(Tail(todo), y) <=> Has(todo, y))
    BY <1>1, <1>3, AtStep, TailOfCall
<1>5. curState = NoState => ~InGame
    BY GameApplicationAssumption DEF InGame, States
<1>6. /\ f \notin active /\ (f = "basegame" => InGame /\ {"core", "graphics", "fighting"} \subseteq active)
      /\ f # "basegame" => curState = NoState
      /\ ~Has(todo, "CloseServer")
      /\ f = "core" => active = {}
      /\ f = "graphics" => active = {"core"}
      /\ f = "fighting" => active = {"core", "graphics"}
    <2>1. IF f = "basegame" THEN InGame ELSE curState = NoState
        BY <1>1 DEF IInv, StateInv
    <2>2. ~Has(todo, "CloseServer")
        <3>1. CASE f = "basegame"
            BY <2>1, <3>1, GameApplicationAssumption DEF IInv, StateInv, Pending, InGame, States
        <3>2. CASE f \in {"core", "graphics", "fighting"}
            BY <1>1, <1>4, <3>2, AtStep, RestOfCall DEF Names
        <3> QED
            BY <1>2, <3>1, <3>2
    <2>3. "basegame" \notin active
        BY <1>1 DEF IInv, ServerInv
    <2>4. IF f # "basegame"
          THEN active = CASE f = "core" -> {}
                          [] f = "graphics" -> {"core"}
                          [] f = "fighting" -> {"core", "graphics"}
          ELSE Range(AppFeatures) \subseteq active
        BY <1>1, <1>2, <2>2 DEF IInv, ServerInv, Pending
    <2> QED
        BY <1>2, <2>1, <2>2, <2>3, <2>4, FeatureNames
<1>7. todo' = Tail(todo) /\ UNCHANGED <<isOpen, broken>>
    <2>1. f \notin gameFeatures \cup active /\ (f = "basegame" => "graphics" \in active)
        BY <1>6 DEF IInv, ServerInv
    <2> QED
        BY <1>1, <2>1, AtStep DEF AttachGameFeature, Asserted, Done, Do
<1>8. /\ f = "basegame" => Head(todo')[1] \in {"AssertEmpty", "ClearJobs"}
      /\ f = "fighting" => Head(todo')[1] = "OnStateLeave"
      /\ f = "graphics" => Head(todo')[1] = "AttachGameFeature" /\ Head(todo')[2] = "fighting"
      /\ f = "core" => Head(todo')[1] = "AttachGameFeature" /\ Head(todo')[2] = "graphics"
    BY <1>1, <1>4, <1>7, NextStep
<1> HIDE DEF f
<1>9. \A y : y # "AttachGameFeature" => (Has(todo', y) <=> Has(todo, y))
    BY <1>4, <1>7
<1>10. TypeOK'
    BY <1>1, <1>2, <1>7, FeatureNames DEF IInv, TypeOK
<1>11. StateInv'
    BY <1>1, <1>2, <1>5, <1>6, <1>7, <1>8, <1>9 DEF IInv, StateInv, Pending, At, Arg, InGame, SetupNames
<1>12. ServerInv'
    <2>1. isStarted' = (InGame /\ ~Pending("SetStarted") /\ ~At("OnStateEnter"))'
        BY <1>1, <1>2, <1>7, <1>8, <1>9 DEF IInv, ServerInv, Pending, At, InGame
    <2>2. "basegame" \in active' <=> (InGame /\ ~At("Stop") /\ ~At("OnStateEnter") /\ ~At("AttachGameFeature"))'
        BY <1>1, <1>2, <1>5, <1>6, <1>7, <1>8 DEF At, InGame
    <2>3. gameFeatures' = active' /\ ~Pending("CloseServer")'
        BY <1>1, <1>6, <1>9 DEF IInv, ServerInv, Pending
    <2>4. IF At("AttachGameFeature")' /\ Arg' # "basegame"
          THEN active' = CASE Arg' = "core" -> {}
                           [] Arg' = "graphics" -> {"core"}
                           [] Arg' = "fighting" -> {"core", "graphics"}
          ELSE Range(AppFeatures) \subseteq active'
        <3>1. CASE f = "basegame"
            BY <1>1, <1>6, <1>8, <3>1, FeatureNames DEF At
        <3>2. CASE f = "fighting"
            BY <1>1, <1>6, <1>8, <3>2, FeatureNames DEF At
        <3>3. CASE f = "graphics"
            <4>1. Arg' = "fighting" /\ At("AttachGameFeature")' /\ active' = {"core", "graphics"}
                BY <1>1, <1>2, <1>4, <1>6, <1>7, <1>8, <3>3 DEF At, Arg
            <4> QED
                BY <4>1
        <3>4. CASE f = "core"
            <4>1. Arg' = "graphics" /\ At("AttachGameFeature")' /\ active' = {"core"}
                BY <1>1, <1>2, <1>4, <1>6, <1>7, <1>8, <3>4 DEF At, Arg
            <4> QED
                BY <4>1
        <3> QED
            BY <1>2, <3>1, <3>2, <3>3, <3>4
    <2> QED
        BY <2>1, <2>2, <2>3, <2>4 DEF ServerInv
<1>13. activeEntities = <<>>
    BY <1>1 DEF IInv, ServerInv, WorldInv
<1>14. WorldInv' /\ LifeInv'
    BY <1>1, <1>2, <1>8, <1>13 DEF IInv, WorldInv, LifeInv, At, Arg
<1>15. RequestInv' /\ ClosedInv'
    <2>1. (InTransition' <=> InTransition) /\ (Pending("OnStateEnter")' <=> Pending("OnStateEnter"))
        BY <1>9 DEF InTransition, Has, Pending
    <2> QED
        BY <1>1, <1>2, <1>4, <1>7, <2>1 DEF IInv, RequestInv, ClosedInv
<1> QED
    BY <1>2, <1>4, <1>7, <1>10, <1>11, <1>12, <1>14, <1>15 DEF IInv

LEMMA InvRemoveGameFeature == ASSUME IInv, RemoveGameFeature PROVE IInv'
<1> DEFINE f == Head(todo)[2]
<1>1. /\ todo # <<>> /\ Head(todo)[1] = "RemoveGameFeature" /\ At("RemoveGameFeature") /\ Arg = f
      /\ active' = active \ {f} /\ gameFeatures' = gameFeatures \ {f} /\ isStarted' = isStarted
      /\ activeEntities' = activeEntities /\ life' = life /\ spawns' = spawns
      /\ curState' = curState /\ requestedState' = requestedState /\ quitRequested' = quitRequested
      /\ entered' = entered /\ owed' = owed
    BY DEF RemoveGameFeature, At, Arg, entities, states
<1>2. f \in {"basegame", "graphics", "core"} /\ isOpen /\ ~broken
    BY <1>1, AtStep, StepTypes
<1>3. ~Final(Head(todo))
    BY <1>1 DEF Final
<1>4. /\ EndOfCall(Tail(todo)) /\ Tail(todo) # <<>> /\ Last(Tail(todo)) = Last(todo)
      /\ Head(Tail(todo)) \in Follows(Head(todo))
      /\ \A y : y # "RemoveGameFeature" => (Has(Tail(todo), y) <=> Has(todo, y))
    BY <1>1, <1>3, AtStep, TailOfCall
<1>5. /\ f = "basegame" => Has(todo, "Stop") /\ ~Has(todo, "CloseServer")
      /\ f # "basegame" => Has(todo, "CloseServer")
    BY <1>1, <1>2, <1>4, AtStep, RestOfCall DEF Names
<1>6. /\ f \in active /\ f \in gameFeatures /\ activeEntities = <<>>
      /\ f = "basegame" => InGame /\ Range(AppFeatures) \subseteq active
      /\ f # "basegame" => ~InGame /\ {"core", f} \subseteq active /\ "basegame" \notin active
    <2>1. f = "basegame" => InGame
        BY <1>5 DEF IInv, StateInv, Pending
    <2>2. f # "basegame" => ~InGame
        BY <1>5, GameApplicationAssumption DEF IInv, StateInv, Pending, InGame, States
    <2>3. /\ "basegame" \in active <=> InGame
          /\ gameFeatures = active
          /\ IF Pending("CloseServer") THEN Arg \in {"graphics", "core"} /\ {"core", Arg} \subseteq active
             ELSE Range(AppFeatures) \subseteq active
        BY <1>1, <1>2 DEF IInv, ServerInv, At
    <2> QED
        BY <1>1, <1>2, <1>5, <2>1, <2>2, <2>3 DEF IInv, WorldInv, Pending
<1>7. todo' = Tail(todo) /\ UNCHANGED <<isOpen, broken>>
    BY <1>1, <1>6, AtStep DEF RemoveGameFeature, Asserted, Done, Do
<1>8. /\ f = "basegame" => Head(todo')[1] = "Stop"
      /\ f = "graphics" => Head(todo')[1] = "RemoveGameFeature" /\ Head(todo')[2] = "core"
      /\ f = "core" => Head(todo')[1] = "CleanupStateHandlers"
    BY <1>1, <1>4, <1>7, NextStep
<1> HIDE DEF f
<1>9. \A y : y # "RemoveGameFeature" => (Has(todo', y) <=> Has(todo, y))
    BY <1>4, <1>7
<1>10. TypeOK'
    BY <1>1, <1>7 DEF IInv, TypeOK
<1>11. StateInv'
    BY <1>1, <1>2, <1>6, <1>7, <1>8, <1>9 DEF IInv, StateInv, Pending, At, InGame, SetupNames
<1>12. ServerInv'
    <2>1. isStarted' = (InGame /\ ~Pending("SetStarted") /\ ~At("OnStateEnter"))'
        BY <1>1, <1>2, <1>7, <1>8, <1>9 DEF IInv, ServerInv, Pending, At, InGame
    <2>2. "basegame" \in active' <=> (InGame /\ ~At("Stop") /\ ~At("OnStateEnter") /\ ~At("AttachGameFeature"))'
        BY <1>1, <1>2, <1>4, <1>6, <1>7, <1>8 DEF At, InGame
    <2>3. gameFeatures' = active' /\ (Pending("CloseServer")' <=> f # "basegame")
        BY <1>1, <1>5, <1>9 DEF IInv, ServerInv, Pending
    <2>4. f # "basegame" /\ At("RemoveGameFeature")' => Arg' = "core" /\ "core" \in active'
        BY <1>1, <1>2, <1>6, <1>8 DEF At, Arg
    <2>5. f = "basegame" => ~At("AttachGameFeature")' /\ Range(AppFeatures) \subseteq active'
        BY <1>1, <1>6, <1>8, FeatureNames DEF At
    <2> QED
        BY <2>1, <2>2, <2>3, <2>4, <2>5 DEF ServerInv
<1>13. WorldInv' /\ LifeInv'
    BY <1>1, <1>2, <1>6, <1>8 DEF IInv, WorldInv, LifeInv, At, Arg
<1>14. RequestInv' /\ ClosedInv'
    <2>1. (InTransition' <=> InTransition) /\ (Pending("OnStateEnter")' <=> Pending("OnStateEnter"))
        BY <1>9 DEF InTransition, Has, Pending
    <2> QED
        BY <1>1, <1>2, <1>4, <1>7, <2>1 DEF IInv, RequestInv, ClosedInv
<1> QED
    BY <1>2, <1>4, <1>7, <1>10, <1>11, <1>12, <1>13, <1>14 DEF IInv

LEMMA InvNext == ASSUME IInv, [Next]_vars PROVE IInv'
<1>1. CASE Advance
    <2>1. CASE Open \/ Frame \/ HandlerFrame \/ OnStateLeave \/ OnStateEnter \/ ClearRequest
        BY <2>1, InvOpen, InvFrame, InvHandlerFrame, InvOnStateLeave, InvOnStateEnter, InvClearRequest
    <2>2. CASE Close \/ CleanupStateHandlers \/ CloseServer
        BY <2>2, InvClose, InvCleanupStateHandlers, InvCloseServer
    <2>3. CASE \/ AttachGameFeature \/ RemoveGameFeature \/ AssertStopped \/ SetStarted \/ Stop
               \/ OnFrame \/ OnEndFrame
        BY <2>3, InvAttachGameFeature, InvRemoveGameFeature, InvAssertStopped, InvSetStarted, InvStop,
           InvOnFrame, InvOnEndFrame
    <2>4. CASE AttachEntity \/ AssertEmpty \/ NotifyGameLoad \/ StartEntities \/ ClearJobs \/ Cleanup
        BY <2>4, InvAttachEntity, InvAssertEmpty, InvNotifyGameLoad, InvStartEntities, InvClearJobs, InvCleanup
    <2> QED
        BY <1>1, <2>1, <2>2, <2>3, <2>4 DEF Advance
<1>2. CASE Callback
    BY <1>2, InvRequestQuit, InvRequestState, InvSpawn DEF Callback
<1>3. CASE UNCHANGED vars
    <2>1. /\ isOpen' = isOpen /\ broken' = broken /\ todo' = todo /\ gameFeatures' = gameFeatures
          /\ active' = active /\ isStarted' = isStarted
          /\ activeEntities' = activeEntities /\ life' = life /\ spawns' = spawns
          /\ curState' = curState /\ requestedState' = requestedState /\ quitRequested' = quitRequested
          /\ entered' = entered /\ owed' = owed
        BY <1>3 DEF vars, server, entities, states
    <2>2. TypeOK' /\ StateInv' /\ ServerInv'
        BY <2>1 DEF IInv, TypeOK, StateInv, ServerInv, Pending, At, Arg, InGame
    <2>3. WorldInv' /\ LifeInv' /\ RequestInv' /\ ClosedInv'
        BY <2>1 DEF IInv, WorldInv, LifeInv, RequestInv, ClosedInv, InTransition, Pending, At, Arg
    <2> QED
        BY <2>1, <2>2, <2>3 DEF IInv
<1> QED
    BY <1>1, <1>2, <1>3 DEF Next

-----------------------------------------------------------------------------
(* What follows from it.                                                   *)

THEOREM Invariance == Spec => []IInv
<1> QED
    BY InvInit, InvNext, PTL DEF Spec

\* No assertion of the program fails: features are attached and removed once,
\* the game is started when it is stopped and stopped when it is started, and
\* the world is empty when it is set up, whatever the callbacks do.
THEOREM NoAssertionFails == Spec => []AssertionsHold
<1>1. IInv => AssertionsHold
    BY DEF IInv, AssertionsHold
<1> QED
    BY <1>1, Invariance, PTL

\* Between two transitions exactly the current state is entered and the game is
\* started exactly in a state with a game; closing leaves nothing.
THEOREM StatesConsistent == Spec => []Consistent
<1>1. ASSUME IInv PROVE OneStateEntered
    <2>1. ASSUME todo = <<>>, isOpen PROVE entered = {curState} \ {Exit} /\ isStarted = (curState \in GameStates)
        <3>1. \A y : ~Has(todo, y)
            BY <2>1 DEF Has
        <3>2. curState # NoState
            BY <1>1, <2>1, <3>1 DEF IInv, StateInv, Pending
        <3>3. ~At("OnStateEnter")
            BY <2>1 DEF At
        <3> QED
            BY <1>1, <3>1, <3>2, <3>3 DEF IInv, StateInv, ServerInv, Pending, InGame
    <2>2. ASSUME At("OnFrame") \/ At("HandlerFrame")
          PROVE  entered = {curState} \ {Exit} /\ isStarted = (curState \in GameStates)
        <3>1. todo # <<>> /\ Head(todo)[1] \in {"OnFrame", "HandlerFrame"} /\ isOpen
            BY <1>1, <2>2, AtStep DEF At
        <3>2. Head(todo)[1] = "HandlerFrame" => Final(Head(todo))
            BY DEF Final
        <3>3. \A y \in Marks : ~Has(todo, y)
            BY <1>1, <3>1, <3>2, AtStep, RestOfCall DEF Names, Marks
        <3>4. curState # NoState
            BY <1>1, <3>1, <3>3 DEF IInv, StateInv, Pending, Marks
        <3>5. ~At("OnStateEnter")
            BY <3>1 DEF At
        <3> QED
            BY <1>1, <3>3, <3>4, <3>5 DEF IInv, StateInv, ServerInv, Pending, InGame, Marks
    <2> QED
        BY <2>1, <2>2 DEF OneStateEntered, Idle
<1>2. ASSUME IInv PROVE NothingLeft
    <2> SUFFICES ASSUME ~isOpen PROVE active = {} /\ activeEntities = <<>> /\ ~isStarted
        BY DEF NothingLeft
    <2>1. active = {} /\ curState \notin GameStates
        BY <1>2, GameApplicationAssumption DEF IInv, ClosedInv, States
    <2> QED
        BY <1>2, <2>1 DEF IInv, ServerInv, WorldInv, InGame
<1>3. IInv => Consistent
    BY <1>1, <1>2 DEF IInv, Consistent
<1> QED
    BY <1>3, Invariance, PTL

\* When a frame begins OnStart has been called exactly once on every entity,
\* whether it came with a level, a save game or a callback.
THEOREM EntitiesStartedOnce == Spec => []StartedOnce
<1>1. ASSUME IInv, At("OnFrame"), NEW e \in Range(activeEntities) PROVE life[e].starts = 1
    <2>1. todo # <<>> /\ Head(todo)[1] = "OnFrame"
        BY <1>1 DEF At
    <2>2. ~Has(todo, "SetStarted")
        BY <1>1, <2>1, AtStep, RestOfCall DEF Names
    <2>3. InGame
        BY <1>1, <2>1, InjectiveEmpty DEF IInv, ServerInv, WorldInv
    <2>4. isStarted
        BY <1>1, <2>1, <2>2, <2>3 DEF IInv, ServerInv, Pending, At
    <2> QED
        BY <1>1, <2>4 DEF IInv, LifeInv, Range
<1>2. IInv => StartedOnce
    BY <1>1 DEF StartedOnce
<1> QED
    BY <1>2, Invariance, PTL

\* The state entered is the one requested last outside of a transition, if one
\* was.
THEOREM LastRequestHonoured == Spec => []RequestHonoured
<1>1. ASSUME IInv, At("ClearRequest"), owed # NoState PROVE curState = owed
    <2>1. todo # <<>> /\ Head(todo)[1] = "ClearRequest"
        BY <1>1 DEF At
    <2>2. Final(Head(todo))
        BY <2>1 DEF Final
    <2>3. Has(todo, "ClearRequest") /\ ~Has(todo, "OnStateEnter")
        BY <1>1, <2>1, <2>2, AtStep, RestOfCall DEF Names
    <2> QED
        BY <1>1, <2>3 DEF IInv, RequestInv, InTransition, Has, Pending
<1>2. IInv => RequestHonoured
    BY <1>1 DEF RequestHonoured
<1> QED
    BY <1>2, Invariance, PTL
=============================================================================
