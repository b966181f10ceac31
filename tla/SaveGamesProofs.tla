--------------------------- MODULE SaveGamesProofs ---------------------------
(***************************************************************************)
(* The files of SaveGames hold what was saved, for every set of slots and  *)
(* every number of moments of play: whatever is saved, loaded, played or   *)
(* interrupted by a crash.                                                 *)
(***************************************************************************)
EXTENDS SaveGames, SequenceTheorems, TLAPS

(***************************************************************************)
(* The operation in progress.                                              *)
(***************************************************************************)
Operations == {BackUp, Replace, Load, <<"DeleteRows">>}

\* What is left to do is the end of one of the operations, which is about a
\* slot or about the shipped database.
TodoInv ==
    \/ todo = <<>>
    \/ \E ops \in Operations : \E k \in 1..Len(ops) :
          /\ todo = SubSeq(ops, k, Len(ops))
          /\ ops \in {BackUp, Load} => slot \in Slots
          /\ ops = Replace => slot = Shipped

\* The steps from the deletion of world.db4 until it is there again.
Opening == {"BeginCopyWorld", "EndCopyWorld", "OpenDb"}

\* What the file to be loaded is to hold.
Target == IF slot = Shipped THEN ShippedContent ELSE kept[slot]
WorldIsTarget == world = Target \/ (slot # Shipped /\ kept[slot] = NoGame)

\* What has been done by the time of each step.
StepInv ==
    /\ Pc # "none" => running = "playing"
    /\ Pc \in Saving \cup {"DeleteRows", "LoadWorld"} => open
    /\ Pc \in {"FindSave", "DeleteWorld"} \cup Opening => ~open
    /\ Pc \in Saving => slot \in Slots /\ writing[slot] = Snapshot
    /\ Pc \in Saving \ {"NotifyGameSave"} => memory.attrs = memory.own
    /\ Pc \in {"DeleteWorld", "BeginCopyWorld", "EndCopyWorld"} /\ slot # Shipped =>
          slot \in Slots /\ saves[slot] # NoFile
    /\ open /\ Pc \notin {"DeleteRows", "LoadWorld"} => world.deletes = memory.deletes
    /\ Pc \in {"CommitChanges", "DeleteSave", "BeginCopySave", "EndCopySave"} =>
          world.globals = memory.globals
    /\ Pc \in {"DeleteSave", "BeginCopySave", "EndCopySave"} => world.attrs = memory.attrs
    /\ Pc = "OpenDb" => world # NoFile

\* A save game not completed is one being written, or one a crash interrupted
\* before the next game began; until its copy begins the old one is there.
SaveInv ==
    /\ \A s \in Slots : open /\ writing[s] # NoGame => s = slot /\ Pc \in Saving
    /\ Pc \in Opening => \A s \in Slots : writing[s] = NoGame
    /\ Pc \in {"NotifyGameSave", "DropGlobals", "WriteGlobals", "CommitChanges"} =>
          saves[slot] = kept[slot] \/ kept[slot] = NoGame
    /\ OneCompleteCopy
    /\ SavedIsKept

\* What is going to be loaded.
LoadInv ==
    /\ Pc = "OpenDb" => WorldIsTarget
    /\ Pc = "LoadWorld" /\ ~rolledBack => WorldIsTarget
    /\ LoadedAsKept

IInv == TypeOK /\ TodoInv /\ StepInv /\ SaveInv /\ LoadInv

-----------------------------------------------------------------------------
(* The order of the steps.                                                 *)

Names == Saving \cup Opening \cup
         {"DeleteRows", "CleanupWorld", "CloseDb", "FindSave", "DeleteWorld", "LoadWorld"}

LEMMA OperationsAreSequences ==
    ASSUME NEW ops \in Operations
    PROVE  ops \in Seq(Names) /\ Len(ops) \in Nat \ {0} /\ DOMAIN ops = 1..Len(ops)
<1>1. BackUp \in Seq(Names) /\ Len(BackUp) \in Nat \ {0} /\ DOMAIN BackUp = 1..Len(BackUp)
    BY DEF BackUp, Names, Saving
<1>2. Replace \in Seq(Names) /\ Len(Replace) \in Nat \ {0} /\ DOMAIN Replace = 1..Len(Replace)
    BY DEF Replace, Names, Opening
<1>3. Load \in Seq(Names) /\ Len(Load) \in Nat \ {0} /\ DOMAIN Load = 1..Len(Load)
    BY DEF Load, Names, Opening
<1>4. <<"DeleteRows">> \in Seq(Names) /\ Len(<<"DeleteRows">>) = 1 /\ DOMAIN <<"DeleteRows">> = 1..1
    BY DEF Names
<1>5. CASE ops = BackUp
    BY <1>1, <1>5
<1>6. CASE ops = Replace
    BY <1>2, <1>6
<1>7. CASE ops = Load
    BY <1>3, <1>7
<1>8. CASE ops = <<"DeleteRows">>
    BY <1>4, <1>8
<1> QED
    BY <1>5, <1>6, <1>7, <1>8 DEF Operations

\* Taking a step leaves the rest of the same operation.
LEMMA RestOfOperation ==
    ASSUME NEW ops \in Operations, NEW k \in 1..Len(ops), NEW rest,
           rest = SubSeq(ops, k, Len(ops))
    PROVE  /\ rest # <<>> /\ Head(rest) = ops[k]
           /\ k = Len(ops) => Tail(rest) = <<>>
           /\ k < Len(ops) =>
                /\ Tail(rest) = SubSeq(ops, k + 1, Len(ops))
                /\ Tail(rest) # <<>> /\ Head(Tail(rest)) = ops[k + 1]
<1>1. ops \in Seq(Names) /\ Len(ops) \in Nat \ {0}
    BY OperationsAreSequences
<1>2. ASSUME NEW i \in 1..Len(ops)
      PROVE  /\ SubSeq(ops, i, Len(ops)) # <<>> /\ Head(SubSeq(ops, i, Len(ops))) = ops[i]
             /\ Tail(SubSeq(ops, i, Len(ops))) = SubSeq(ops, i + 1, Len(ops))
    <2>1. Len(ops) \in i..Len(ops)
        BY <1>1
    <2>2. /\ Head(SubSeq(ops, i, Len(ops))) = ops[i]
          /\ Tail(SubSeq(ops, i, Len(ops))) = SubSeq(ops, i + 1, Len(ops))
        BY <1>1, <2>1, HeadTailOfSubSeq
    <2>3. SubSeq(ops, i, Len(ops)) # <<>>
        <3>1. \A j \in i..Len(ops) : ops[j] \in Names
            BY <1>1, <2>1, ElementOfSeq
        <3>2. /\ SubSeq(ops, i, Len(ops)) \in Seq(Names)
              /\ Len(SubSeq(ops, i, Len(ops))) = IF i <= Len(ops) THEN Len(ops) - i + 1 ELSE 0
            BY <1>1, <2>1, <3>1, SubSeqProperties
        <3>3. i \in Int /\ i <= Len(ops) /\ Len(ops) \in Int
            BY <1>1
        <3>4. Len(SubSeq(ops, i, Len(ops))) # 0
            BY <3>2, <3>3
        <3> QED
            BY <3>2, <3>4, EmptySeq
    <2> QED
        BY <2>2, <2>3
<1>3. k = Len(ops) => SubSeq(ops, k + 1, Len(ops)) = <<>>
    BY <1>1, SubSeqEmpty
<1>4. k < Len(ops) => k + 1 \in 1..Len(ops)
    BY <1>1
<1> QED
    BY <1>2, <1>3, <1>4

\* The step after each step.
LEMMA StepOrder ==
    ASSUME TodoInv, NEW s, Step(s)
    PROVE  /\ TodoInv' /\ Pc = s /\ slot' = slot
           /\ s = "NotifyGameSave" => Pc' = "DropGlobals"
           /\ s = "DropGlobals" => Pc' = "WriteGlobals"
           /\ s = "WriteGlobals" => Pc' = "CommitChanges"
           /\ s = "CommitChanges" => Pc' = "DeleteSave"
           /\ s = "DeleteSave" => Pc' = "BeginCopySave"
           /\ s = "BeginCopySave" => Pc' = "EndCopySave"
           /\ s \in {"EndCopySave", "DeleteRows", "LoadWorld"} => Pc' = "none"
           /\ s = "CleanupWorld" => Pc' = "CloseDb"
           /\ s = "CloseDb" => Pc' = (IF slot = Shipped THEN "DeleteWorld" ELSE "FindSave")
           /\ s = "FindSave" => Pc' = "DeleteWorld" /\ slot \in Slots
           /\ s = "DeleteWorld" => Pc' = "BeginCopyWorld"
           /\ s = "BeginCopyWorld" => Pc' = "EndCopyWorld"
           /\ s = "EndCopyWorld" => Pc' = "OpenDb"
           /\ s = "OpenDb" => Pc' = "LoadWorld"
<1>1. todo # <<>> /\ Head(todo) = s /\ todo' = Tail(todo) /\ slot' = slot
    BY DEF Step, At
<1>2. PICK ops \in Operations : \E k \in 1..Len(ops) :
          /\ todo = SubSeq(ops, k, Len(ops))
          /\ ops \in {BackUp, Load} => slot \in Slots
          /\ ops = Replace => slot = Shipped
    BY <1>1 DEF TodoInv
<1>3. PICK k \in 1..Len(ops) : todo = SubSeq(ops, k, Len(ops))
    BY <1>2
<1>4. /\ ops[k] = s
      /\ k = Len(ops) => todo' = <<>>
      /\ k < Len(ops) => todo' = SubSeq(ops, k + 1, Len(ops)) /\ todo' # <<>> /\ Head(todo') = ops[k + 1]
    BY <1>1, <1>3, RestOfOperation
<1>5. Pc' = (IF k = Len(ops) THEN "none" ELSE ops[k + 1])
    BY <1>4, OperationsAreSequences DEF Pc
<1>6. TodoInv' /\ Pc = s
    <2>1. CASE k = Len(ops)
        BY <1>1, <1>4, <2>1 DEF TodoInv, Pc
    <2>2. CASE k < Len(ops)
        <3>1. k + 1 \in 1..Len(ops)
            BY <2>2, OperationsAreSequences
        <3> QED
            BY <1>1, <1>2, <1>4, <2>2, <3>1 DEF TodoInv, Pc
    <2> QED
        BY <2>1, <2>2, OperationsAreSequences
<1>7. CASE ops = BackUp
    <2>1. Len(ops) = 7 /\ (k = 1 \/ k = 2 \/ k = 3 \/ k = 4 \/ k = 5 \/ k = 6 \/ k = 7)
        BY <1>7 DEF BackUp
    <2>2. s = BackUp[k] /\ Pc' = (IF k = 7 THEN "none" ELSE BackUp[k + 1])
        BY <1>4, <1>5, <1>7, <2>1
    <2> QED
        BY <1>1, <1>6, <2>1, <2>2 DEF BackUp
<1>8. CASE ops = Replace
    <2>1. Len(ops) = 6 /\ (k = 1 \/ k = 2 \/ k = 3 \/ k = 4 \/ k = 5 \/ k = 6)
        BY <1>8 DEF Replace
    <2>2. slot = Shipped
        BY <1>2, <1>8
    <2>3. s = Replace[k] /\ Pc' = (IF k = 6 THEN "none" ELSE Replace[k + 1])
        BY <1>4, <1>5, <1>8, <2>1
    <2> QED
        BY <1>1, <1>6, <2>1, <2>2, <2>3 DEF Replace
<1>9. CASE ops = Load
    <2>1. Len(ops) = 8 /\ (k = 1 \/ k = 2 \/ k = 3 \/ k = 4 \/ k = 5 \/ k = 6 \/ k = 7 \/ k = 8)
        BY <1>9 DEF Load
    <2>2. slot # Shipped /\ slot \in Slots
        BY <1>2, <1>9, SaveGamesAssumption
    <2>3. s = Load[k] /\ Pc' = (IF k = 8 THEN "none" ELSE Load[k + 1])
        BY <1>4, <1>5, <1>9, <2>1
    <2> QED
        BY <1>1, <1>6, <2>1, <2>2, <2>3 DEF Load
<1>10. CASE ops = <<"DeleteRows">>
    BY <1>1, <1>4, <1>5, <1>6, <1>10
<1> QED
    BY <1>7, <1>8, <1>9, <1>10 DEF Operations

\* Beginning an operation.
LEMMA FirstStep ==
    ASSUME NEW ops \in Operations, todo' = ops,
           ops \in {BackUp, Load} => slot' \in Slots, ops = Replace => slot' = Shipped
    PROVE  TodoInv' /\ Pc' = ops[1]
<1>1. 1 \in 1..Len(ops) /\ SubSeq(ops, 1, Len(ops)) = ops
    BY OperationsAreSequences, SubSeqFull
<1>2. ops # <<>> /\ Head(ops) = ops[1]
    BY <1>1, RestOfOperation
<1> QED
    BY <1>1, <1>2 DEF TodoInv, Pc

LEMMA Records ==
    /\ Damaged \in Contents /\ ShippedContent \in Contents
    /\ \A c \in Contents : c # NoFile /\ c # NoGame /\ InMemory(c) \in Games /\ InMemory(c) # NoGame
    /\ NoGame \notin Games
<1>1. 0 \in Moments /\ Unknown \in Moments
    BY SaveGamesAssumption DEF Moments
<1> QED
    BY <1>1, SaveGamesAssumption DEF Damaged, ShippedContent, Contents, InMemory, Games

-----------------------------------------------------------------------------
(* Every step keeps the invariant.                                         *)

LEMMA InvDie ==
    ASSUME IInv, Die, journal' \in BOOLEAN, loaded' = FALSE
    PROVE  IInv'
<1> USE SaveGamesAssumption, Records DEF IInv, files, history
<1>1. TodoInv' /\ Pc' = "none"
    BY DEF Die, TodoInv, Pc
<1>2. TypeOK'
    BY DEF TypeOK, Die
<1>3. StepInv'
    BY <1>1 DEF StepInv, Die, Saving, Opening
<1>4. SaveInv'
    BY <1>1 DEF SaveInv, OneCompleteCopy, SavedIsKept, Die, Opening
<1>5. LoadInv'
    BY <1>1 DEF LoadInv, LoadedAsKept
<1> QED
    BY <1>1, <1>2, <1>3, <1>4, <1>5

LEMMA InvSteps ==
    ASSUME IInv, Steps, loaded' = FALSE
    PROVE  IInv'
<1> USE SaveGamesAssumption, Records DEF IInv, files, history, Saving, Opening
<1>1. CASE NotifyGameSave
    <2>1. Step("NotifyGameSave")
        BY <1>1 DEF NotifyGameSave
    <2>2. /\ TodoInv' /\ Pc = "NotifyGameSave" /\ Pc' = "DropGlobals"
          /\ UNCHANGED <<running, slot, now>>
        BY <2>1, StepOrder DEF Step
    <2>3. TypeOK'
        BY <1>1, <2>2
        DEF TypeOK, StepInv, Contents, Games, NotifyGameSave
    <2>4. StepInv'
        BY <1>1, <2>2
        DEF TypeOK, StepInv, SaveInv, Snapshot, Contents, Games, NotifyGameSave
    <2>5. SaveInv'
        BY <1>1, <2>2
        DEF TypeOK, StepInv, SaveInv, OneCompleteCopy, SavedIsKept, Snapshot, Contents, Games, NotifyGameSave
    <2>6. LoadInv'
        BY <1>1, <2>2
        DEF TypeOK, StepInv, SaveInv, LoadInv, LoadedAsKept, SavedIsKept, WorldIsTarget, Target, NotifyGameSave
    <2> QED
        BY <2>2, <2>3, <2>4, <2>5, <2>6
<1>2. CASE DropGlobals
    <2>1. Step("DropGlobals")
        BY <1>2 DEF DropGlobals, Write
    <2>2. /\ TodoInv' /\ Pc = "DropGlobals" /\ Pc' = "WriteGlobals"
          /\ UNCHANGED <<running, slot, now>>
        BY <2>1, StepOrder DEF Step
    <2>3. TypeOK'
        BY <1>2, <2>2
        DEF TypeOK, StepInv, Contents, Games, DropGlobals, Write
    <2>4. StepInv'
        BY <1>2, <2>2
        DEF TypeOK, StepInv, SaveInv, Snapshot, Contents, Games, DropGlobals, Write
    <2>5. SaveInv'
        BY <1>2, <2>2
        DEF TypeOK, StepInv, SaveInv, OneCompleteCopy, SavedIsKept, Snapshot, Contents, Games, DropGlobals, Write
    <2>6. LoadInv'
        BY <1>2, <2>2
        DEF TypeOK, StepInv, SaveInv, LoadInv, LoadedAsKept, SavedIsKept, WorldIsTarget, Target, DropGlobals, Write
    <2> QED
        BY <2>2, <2>3, <2>4, <2>5, <2>6
<1>3. CASE WriteGlobals
    <2>1. Step("WriteGlobals")
        BY <1>3 DEF WriteGlobals, Write
    <2>2. /\ TodoInv' /\ Pc = "WriteGlobals" /\ Pc' = "CommitChanges"
          /\ UNCHANGED <<running, slot, now>>
        BY <2>1, StepOrder DEF Step
    <2>3. TypeOK'
        BY <1>3, <2>2
        DEF TypeOK, StepInv, Contents, Games, WriteGlobals, Write
    <2>4. StepInv'
        BY <1>3, <2>2
        DEF TypeOK, StepInv, SaveInv, Snapshot, Contents, Games, WriteGlobals, Write
    <2>5. SaveInv'
        BY <1>3, <2>2
        DEF TypeOK, StepInv, SaveInv, OneCompleteCopy, SavedIsKept, Snapshot, Contents, Games, WriteGlobals, Write
    <2>6. LoadInv'
        BY <1>3, <2>2
        DEF TypeOK, StepInv, SaveInv, LoadInv, LoadedAsKept, SavedIsKept, WorldIsTarget, Target, WriteGlobals, Write
    <2> QED
        BY <2>2, <2>3, <2>4, <2>5, <2>6
<1>4. CASE CommitChanges
    <2>1. Step("CommitChanges")
        BY <1>4 DEF CommitChanges, Write
    <2>2. /\ TodoInv' /\ Pc = "CommitChanges" /\ Pc' = "DeleteSave"
          /\ UNCHANGED <<running, slot, now>>
        BY <2>1, StepOrder DEF Step
    <2>3. TypeOK'
        BY <1>4, <2>2
        DEF TypeOK, StepInv, Contents, Games, CommitChanges, Write
    <2>4. StepInv'
        BY <1>4, <2>2
        DEF TypeOK, StepInv, SaveInv, Snapshot, Contents, Games, CommitChanges, Write
    <2>5. SaveInv'
        BY <1>4, <2>2
        DEF TypeOK, StepInv, SaveInv, OneCompleteCopy, SavedIsKept, Snapshot, Contents, Games, CommitChanges, Write
    <2>6. LoadInv'
        BY <1>4, <2>2
        DEF TypeOK, StepInv, SaveInv, LoadInv, LoadedAsKept, SavedIsKept, WorldIsTarget, Target, CommitChanges, Write
    <2> QED
        BY <2>2, <2>3, <2>4, <2>5, <2>6
<1>5. CASE DeleteRows
    <2>1. Step("DeleteRows")
        BY <1>5 DEF DeleteRows, Write
    <2>2. /\ TodoInv' /\ Pc = "DeleteRows" /\ Pc' = "none"
          /\ UNCHANGED <<running, slot, now>>
        BY <2>1, StepOrder DEF Step
    <2>3. TypeOK'
        BY <1>5, <2>2
        DEF TypeOK, StepInv, Contents, Games, DeleteRows, Write
    <2>4. StepInv'
        BY <1>5, <2>2
        DEF TypeOK, StepInv, SaveInv, Snapshot, Contents, Games, DeleteRows, Write
    <2>5. SaveInv'
        BY <1>5, <2>2
        DEF TypeOK, StepInv, SaveInv, OneCompleteCopy, SavedIsKept, Snapshot, Contents, Games, DeleteRows, Write
    <2>6. LoadInv'
        BY <1>5, <2>2
        DEF TypeOK, StepInv, SaveInv, LoadInv, LoadedAsKept, SavedIsKept, WorldIsTarget, Target, DeleteRows, Write
    <2> QED
        BY <2>2, <2>3, <2>4, <2>5, <2>6
<1>6. CASE DeleteSave
    <2>1. Step("DeleteSave")
        BY <1>6 DEF DeleteSave
    <2>2. /\ TodoInv' /\ Pc = "DeleteSave" /\ Pc' = "BeginCopySave"
          /\ UNCHANGED <<running, slot, now>>
        BY <2>1, StepOrder DEF Step
    <2>3. TypeOK'
        BY <1>6, <2>2
        DEF TypeOK, StepInv, Contents, Games, DeleteSave
    <2>4. StepInv'
        BY <1>6, <2>2
        DEF TypeOK, StepInv, SaveInv, Snapshot, Contents, Games, DeleteSave
    <2>5. SaveInv'
        BY <1>6, <2>2
        DEF TypeOK, StepInv, SaveInv, OneCompleteCopy, SavedIsKept, Snapshot, Contents, Games, DeleteSave
    <2>6. LoadInv'
        BY <1>6, <2>2
        DEF TypeOK, StepInv, SaveInv, LoadInv, LoadedAsKept, SavedIsKept, WorldIsTarget, Target, DeleteSave
    <2> QED
        BY <2>2, <2>3, <2>4, <2>5, <2>6
<1>7. CASE BeginCopySave
    <2>1. Step("BeginCopySave")
        BY <1>7 DEF BeginCopySave
    <2>2. /\ TodoInv' /\ Pc = "BeginCopySave" /\ Pc' = "EndCopySave"
          /\ UNCHANGED <<running, slot, now>>
        BY <2>1, StepOrder DEF Step
    <2>3. TypeOK'
        BY <1>7, <2>2
        DEF TypeOK, StepInv, Contents, Games, BeginCopySave
    <2>4. StepInv'
        BY <1>7, <2>2
        DEF TypeOK, StepInv, SaveInv, Snapshot, Contents, Games, BeginCopySave
    <2>5. SaveInv'
        BY <1>7, <2>2
        DEF TypeOK, StepInv, SaveInv, OneCompleteCopy, SavedIsKept, Snapshot, Contents, Games, BeginCopySave
    <2>6. LoadInv'
        BY <1>7, <2>2
        DEF TypeOK, StepInv, SaveInv, LoadInv, LoadedAsKept, SavedIsKept, WorldIsTarget, Target, BeginCopySave
    <2> QED
        BY <2>2, <2>3, <2>4, <2>5, <2>6
<1>8. CASE EndCopySave
    <2>1. Step("EndCopySave")
        BY <1>8 DEF EndCopySave
    <2>2. /\ TodoInv' /\ Pc = "EndCopySave" /\ Pc' = "none"
          /\ UNCHANGED <<running, slot, now>>
        BY <2>1, StepOrder DEF Step
    <2>3. TypeOK'
        BY <1>8, <2>2
        DEF TypeOK, StepInv, Contents, Games, EndCopySave
    <2>4. StepInv'
        BY <1>8, <2>2
        DEF TypeOK, StepInv, SaveInv, Snapshot, Contents, Games, EndCopySave
    <2>5. SaveInv'
        BY <1>8, <2>2
        DEF TypeOK, StepInv, SaveInv, OneCompleteCopy, SavedIsKept, Snapshot, Contents, Games, EndCopySave
    <2>6. LoadInv'
        BY <1>8, <2>2
        DEF TypeOK, StepInv, SaveInv, LoadInv, LoadedAsKept, SavedIsKept, WorldIsTarget, Target, EndCopySave
    <2> QED
        BY <2>2, <2>3, <2>4, <2>5, <2>6
<1>9. CASE CleanupWorld
    <2>1. Step("CleanupWorld")
        BY <1>9 DEF CleanupWorld
    <2>2. /\ TodoInv' /\ Pc = "CleanupWorld" /\ Pc' = "CloseDb"
          /\ UNCHANGED <<running, slot, now>>
        BY <2>1, StepOrder DEF Step
    <2>3. TypeOK'
        BY <1>9, <2>2
        DEF TypeOK, StepInv, Contents, Games, CleanupWorld
    <2>4. StepInv'
        BY <1>9, <2>2
        DEF TypeOK, StepInv, SaveInv, Snapshot, Contents, Games, CleanupWorld
    <2>5. SaveInv'
        BY <1>9, <2>2
        DEF TypeOK, StepInv, SaveInv, OneCompleteCopy, SavedIsKept, Snapshot, Contents, Games, CleanupWorld
    <2>6. LoadInv'
        BY <1>9, <2>2
        DEF TypeOK, StepInv, SaveInv, LoadInv, LoadedAsKept, SavedIsKept, WorldIsTarget, Target, CleanupWorld
    <2> QED
        BY <2>2, <2>3, <2>4, <2>5, <2>6
<1>10. CASE CloseDb
    <2>1. Step("CloseDb")
        BY <1>10 DEF CloseDb
    <2>2. /\ TodoInv' /\ Pc = "CloseDb" /\ Pc' = (IF slot = Shipped THEN "DeleteWorld" ELSE "FindSave")
          /\ UNCHANGED <<running, slot, now>>
        BY <2>1, StepOrder DEF Step
    <2>3. TypeOK'
        BY <1>10, <2>2
        DEF TypeOK, StepInv, Contents, Games, CloseDb
    <2>4. StepInv'
        BY <1>10, <2>2
        DEF TypeOK, StepInv, SaveInv, Snapshot, Contents, Games, CloseDb
    <2>5. SaveInv'
        BY <1>10, <2>2
        DEF TypeOK, StepInv, SaveInv, OneCompleteCopy, SavedIsKept, Snapshot, Contents, Games, CloseDb
    <2>6. LoadInv'
        BY <1>10, <2>2
        DEF TypeOK, StepInv, SaveInv, LoadInv, LoadedAsKept, SavedIsKept, WorldIsTarget, Target, CloseDb
    <2> QED
        BY <2>2, <2>3, <2>4, <2>5, <2>6
<1>11. CASE DeleteWorld
    <2>1. Step("DeleteWorld")
        BY <1>11 DEF DeleteWorld
    <2>2. /\ TodoInv' /\ Pc = "DeleteWorld" /\ Pc' = "BeginCopyWorld"
          /\ UNCHANGED <<running, slot, now>>
        BY <2>1, StepOrder DEF Step
    <2>3. TypeOK'
        BY <1>11, <2>2
        DEF TypeOK, StepInv, Contents, Games, DeleteWorld
    <2>4. StepInv'
        BY <1>11, <2>2
        DEF TypeOK, StepInv, SaveInv, Snapshot, Contents, Games, DeleteWorld
    <2>5. SaveInv'
        BY <1>11, <2>2
        DEF TypeOK, StepInv, SaveInv, OneCompleteCopy, SavedIsKept, Snapshot, Contents, Games, DeleteWorld
    <2>6. LoadInv'
        BY <1>11, <2>2
        DEF TypeOK, StepInv, SaveInv, LoadInv, LoadedAsKept, SavedIsKept, WorldIsTarget, Target, DeleteWorld
    <2> QED
        BY <2>2, <2>3, <2>4, <2>5, <2>6
<1>12. CASE BeginCopyWorld
    <2>1. Step("BeginCopyWorld")
        BY <1>12 DEF BeginCopyWorld, Write
    <2>2. /\ TodoInv' /\ Pc = "BeginCopyWorld" /\ Pc' = "EndCopyWorld"
          /\ UNCHANGED <<running, slot, now>>
        BY <2>1, StepOrder DEF Step
    <2>3. TypeOK'
        BY <1>12, <2>2
        DEF TypeOK, StepInv, Contents, Games, BeginCopyWorld, Write
    <2>4. StepInv'
        BY <1>12, <2>2
        DEF TypeOK, StepInv, SaveInv, Snapshot, Contents, Games, BeginCopyWorld, Write
    <2>5. SaveInv'
        BY <1>12, <2>2
        DEF TypeOK, StepInv, SaveInv, OneCompleteCopy, SavedIsKept, Snapshot, Contents, Games, BeginCopyWorld, Write
    <2>6. LoadInv'
        BY <1>12, <2>2
        DEF TypeOK, StepInv, SaveInv, LoadInv, LoadedAsKept, SavedIsKept, WorldIsTarget, Target, BeginCopyWorld, Write
    <2> QED
        BY <2>2, <2>3, <2>4, <2>5, <2>6
<1>13. CASE EndCopyWorld
    <2>1. Step("EndCopyWorld")
        BY <1>13 DEF EndCopyWorld, Write, Source
    <2>2. /\ TodoInv' /\ Pc = "EndCopyWorld" /\ Pc' = "OpenDb"
          /\ UNCHANGED <<running, slot, now>>
        BY <2>1, StepOrder DEF Step
    <2>3. TypeOK'
        BY <1>13, <2>2
        DEF TypeOK, StepInv, Contents, Games, EndCopyWorld, Write, Source
    <2>4. StepInv'
        BY <1>13, <2>2
        DEF TypeOK, StepInv, SaveInv, Snapshot, Contents, Games, EndCopyWorld, Write, Source
    <2>5. SaveInv'
        BY <1>13, <2>2
        DEF TypeOK, StepInv, SaveInv, OneCompleteCopy, SavedIsKept, Snapshot, Contents, Games, EndCopyWorld, Write, Source
    <2>6. LoadInv'
        BY <1>13, <2>2
        DEF TypeOK, StepInv, SaveInv, LoadInv, LoadedAsKept, SavedIsKept, WorldIsTarget, Target, EndCopyWorld, Write, Source
    <2> QED
        BY <2>2, <2>3, <2>4, <2>5, <2>6
<1>14. CASE OpenDb
    <2>1. Step("OpenDb")
        BY <1>14 DEF OpenDb
    <2>2. /\ TodoInv' /\ Pc = "OpenDb" /\ Pc' = "LoadWorld"
          /\ UNCHANGED <<running, slot, now>>
        BY <2>1, StepOrder DEF Step
    <2>3. TypeOK'
        BY <1>14, <2>2
        DEF TypeOK, StepInv, Contents, Games, OpenDb
    <2>4. StepInv'
        BY <1>14, <2>2
        DEF TypeOK, StepInv, SaveInv, Snapshot, Contents, Games, OpenDb
    <2>5. SaveInv'
        BY <1>14, <2>2
        DEF TypeOK, StepInv, SaveInv, OneCompleteCopy, SavedIsKept, Snapshot, Contents, Games, OpenDb
    <2>6. LoadInv'
        BY <1>14, <2>2
        DEF TypeOK, StepInv, SaveInv, LoadInv, LoadedAsKept, SavedIsKept, WorldIsTarget, Target, OpenDb
    <2> QED
        BY <2>2, <2>3, <2>4, <2>5, <2>6
<1>15. CASE FindSave /\ Step("FindSave")
    <2>1. /\ Pc = "FindSave" /\ slot \in Slots /\ saves[slot] # NoFile
          /\ UNCHANGED <<open, memory, files, history>>
        BY <1>15, StepOrder DEF FindSave, Step, At, Die, Pc, TypeOK, StepInv
    <2>2. /\ TodoInv' /\ Pc' = "DeleteWorld"
          /\ UNCHANGED <<running, slot, now>>
        BY <1>15, StepOrder DEF Step
    <2>3. TypeOK'
        BY <2>1, <2>2
        DEF TypeOK, StepInv, Contents, Games
    <2>4. StepInv'
        BY <2>1, <2>2
        DEF TypeOK, StepInv, SaveInv, Snapshot, Contents, Games
    <2>5. SaveInv'
        BY <2>1, <2>2
        DEF TypeOK, StepInv, SaveInv, OneCompleteCopy, SavedIsKept, Snapshot, Contents, Games
    <2>6. LoadInv'
        BY <2>1, <2>2
        DEF TypeOK, StepInv, SaveInv, LoadInv, LoadedAsKept, SavedIsKept, WorldIsTarget, Target
    <2> QED
        BY <2>2, <2>3, <2>4, <2>5, <2>6
<1>16. CASE Die /\ UNCHANGED journal
    BY <1>16, InvDie DEF TypeOK
<1> QED
    BY <1>1, <1>2, <1>3, <1>4, <1>5, <1>6, <1>7, <1>8, <1>9, <1>10, <1>11, <1>12, <1>13, <1>14,
        <1>15, <1>16 DEF Steps, FindSave

LEMMA InvLoadWorld ==
    ASSUME IInv, LoadWorld, loaded' = (running' = "playing")
    PROVE  IInv'
<1> USE SaveGamesAssumption, Records DEF IInv, files, history, Saving, Opening
<1>1. CASE Step("LoadWorld") /\ memory' = InMemory(world) /\ UNCHANGED <<open, files, history>>
    <2>1. /\ TodoInv' /\ Pc = "LoadWorld" /\ Pc' = "none"
          /\ UNCHANGED <<running, slot, now>>
        BY <1>1, StepOrder DEF Step
    <2>2. open /\ world \in Contents /\ running = "playing"
        BY <2>1 DEF StepInv, TypeOK
    <2>3. TypeOK'
        BY <1>1, <2>1, <2>2 DEF TypeOK
    <2>4. StepInv'
        BY <1>1, <2>1, <2>2 DEF StepInv, InMemory
    <2>5. SaveInv'
        BY <1>1, <2>1, <2>2 DEF SaveInv, OneCompleteCopy, SavedIsKept
    <2>6. LoadInv'
        <3>1. Snapshot' = world
            BY <1>1, <2>2 DEF Snapshot, InMemory, Contents
        <3>2. ~rolledBack => WorldIsTarget
            BY <2>1 DEF LoadInv
        <3> QED
            BY <1>1, <2>1, <3>1, <3>2 DEF LoadInv, LoadedAsKept, WorldIsTarget, Target
    <2> QED
        BY <2>1, <2>3, <2>4, <2>5, <2>6
<1>2. CASE Die /\ UNCHANGED journal
    BY <1>2, InvDie DEF TypeOK, Die
<1> QED
    BY <1>1, <1>2 DEF LoadWorld

LEMMA InvCalls ==
    ASSUME IInv, Calls, loaded' = FALSE
    PROVE  IInv'
<1> USE SaveGamesAssumption, Records DEF IInv, files, history, Saving, Opening
<1>1. CASE Start
    <2>1. TodoInv' /\ Pc' = Pc
        BY <1>1 DEF Start, TodoInv, Pc
    <2>2. Pc = "none" /\ ~open
        BY <1>1 DEF Start, StepInv, TypeOK
    <2> QED
        BY <1>1, <2>1, <2>2
        DEF Start, TypeOK, StepInv, SaveInv, OneCompleteCopy, SavedIsKept, LoadInv, LoadedAsKept
<1>2. CASE Die /\ journal' \in BOOLEAN
    BY <1>2, InvDie
<1>3. CASE Leave
    <2>1. todo = <<>> /\ TodoInv' /\ Pc = "none" /\ Pc' = "none"
        BY <1>3 DEF Leave, Idle, TodoInv, Pc
    <2> QED
        BY <1>3, <2>1
        DEF Leave, Idle, TypeOK, StepInv, SaveInv, OneCompleteCopy, SavedIsKept, LoadInv, LoadedAsKept
<1>4. CASE Play
    <2>1. /\ todo = <<>> /\ Pc = "none" /\ running = "playing" /\ open
          /\ now' = now + 1 /\ now' \in 0..MaxMoment /\ now' \in Moments
          /\ UNCHANGED <<running, open, slot, files, history>>
        BY <1>4 DEF Play, Idle, Pc, TypeOK, Moments
    <2>2. memory \in Games /\ memory' \in Games /\ memory' # NoGame
        BY <1>4, <2>1 DEF Play, Games, TypeOK
    <2>3. TodoInv' /\ Pc' \in {"none", "DeleteRows"}
        BY <1>4, <2>1, FirstStep DEF Play, Operations, TodoInv, Pc, BackUp, Load, Replace
    <2>4. Pc' # "DeleteRows" => memory'.deletes = memory.deletes
        BY <1>4, <2>1, <2>2, FirstStep DEF Play, Pc, Games
    <2>5. TypeOK'
        BY <2>1, <2>2 DEF TypeOK
    <2> QED
        BY <2>1, <2>2, <2>3, <2>4, <2>5
        DEF StepInv, SaveInv, OneCompleteCopy, SavedIsKept, LoadInv, LoadedAsKept
<1>5. ASSUME NEW ops, NEW s, Enter(ops, s),
             \/ ops \in {<<>>, Replace} /\ s = Shipped
             \/ ops = Load /\ s \in Slots
      PROVE  IInv'
    <2>1. /\ running = "menu" /\ running' = "playing" /\ todo' = ops /\ slot' = s /\ ~open
          /\ UNCHANGED <<open, files, now, history>>
        BY <1>5 DEF Enter, TypeOK
    <2>2. TodoInv' /\ Pc' \in {"none", "CloseDb", "CleanupWorld"}
        <3>1. CASE ops = <<>>
            BY <2>1, <3>1 DEF TodoInv, Pc
        <3>2. CASE ops = Replace
            <4>1. Replace \in Operations /\ Replace \notin {BackUp, Load} /\ Replace[1] = "CloseDb"
                BY DEF Operations, BackUp, Load, Replace
            <4>2. slot' = Shipped
                BY <1>5, <2>1, <3>2, <4>1
            <4> QED
                BY <2>1, <3>2, <4>1, <4>2, FirstStep
        <3>3. CASE ops = Load
            <4>1. Load \in Operations /\ Load # Replace /\ Load # <<>> /\ Load[1] = "CleanupWorld"
                BY DEF Operations, Load, Replace
            <4>2. slot' \in Slots
                BY <1>5, <2>1, <3>3, <4>1
            <4> QED
                BY <2>1, <3>3, <4>1, <4>2, FirstStep
        <3> QED
            BY <1>5, <3>1, <3>2, <3>3
    <2>3. TypeOK'
        <3>1. memory' \in Games /\ memory' # NoGame
            BY <1>5 DEF Enter
        <3> QED
            BY <1>5, <2>1, <3>1 DEF TypeOK
    <2> QED
        BY <2>1, <2>2, <2>3
        DEF StepInv, SaveInv, OneCompleteCopy, SavedIsKept, LoadInv, LoadedAsKept
<1>6. ASSUME NEW s \in Slots, SaveGame(s), open
      PROVE  IInv'
    <2>1. /\ todo = <<>> /\ Pc = "none" /\ running = "playing"
          /\ todo' = BackUp /\ slot' = s /\ writing' = [writing EXCEPT ![s] = Snapshot]
          /\ UNCHANGED <<running, open, memory, files, now, kept, rolledBack>>
        BY <1>6 DEF SaveGame, Idle, Pc
    <2>2. TodoInv' /\ Pc' = "NotifyGameSave"
        <3>1. BackUp \in Operations /\ BackUp # Replace /\ BackUp[1] = "NotifyGameSave"
            BY DEF Operations, BackUp, Replace
        <3> QED
            BY <2>1, <3>1, FirstStep
    <2>3. Snapshot \in Contents /\ Snapshot' = Snapshot
        BY <2>1 DEF TypeOK, Snapshot, Games, Contents
    <2>4. TypeOK'
        BY <2>1, <2>3 DEF TypeOK
    <2>5. StepInv'
        BY <1>6, <2>1, <2>2, <2>3 DEF StepInv, TypeOK
    <2>6. SaveInv'
        BY <1>6, <2>1, <2>2, <2>3 DEF SaveInv, OneCompleteCopy, SavedIsKept, TypeOK
    <2>7. LoadInv'
        BY <2>2 DEF LoadInv, LoadedAsKept
    <2> QED
        BY <2>2, <2>4, <2>5, <2>6, <2>7
<1>7. ASSUME NEW s \in Slots, LoadGame(s)
      PROVE  IInv'
    <2>1. /\ todo = <<>> /\ Pc = "none" /\ running = "playing"
          /\ todo' = Load /\ slot' = s
          /\ UNCHANGED <<running, open, memory, files, now, history>>
        BY <1>7 DEF LoadGame, Idle, Pc
    <2>2. TodoInv' /\ Pc' = "CleanupWorld"
        <3>1. Load \in Operations /\ Load # Replace /\ Load[1] = "CleanupWorld"
            BY DEF Operations, Load, Replace
        <3> QED
            BY <2>1, <3>1, FirstStep
    <2> QED
        BY <2>1, <2>2
        DEF TypeOK, StepInv, SaveInv, OneCompleteCopy, SavedIsKept, LoadInv, LoadedAsKept
<1>8. ASSUME NEW s \in Slots, SaveGame(s), ~open
      PROVE  IInv'
    BY <1>2, <1>8 DEF SaveGame, TypeOK
<1>9. CASE ContinueGame
    BY <1>2, <1>9 DEF ContinueGame, TypeOK
<1>10. CASE Crash
    BY <1>2, <1>10 DEF Crash, TypeOK
<1>11. CASE Enter(<<>>, Shipped)
    BY <1>5, <1>11
<1>12. CASE Enter(Replace, Shipped)
    BY <1>5, <1>12
<1>13. ASSUME NEW s \in Slots, Enter(Load, s)
       PROVE  IInv'
    BY <1>5, <1>13
<1> QED
    BY <1>1, <1>3, <1>4, <1>6, <1>7, <1>8, <1>9, <1>10, <1>11, <1>12, <1>13 DEF Calls

-----------------------------------------------------------------------------
(* The theorems.                                                           *)

LEMMA Inductive == Spec => []IInv
<1>1. Init => IInv
    <2> SUFFICES ASSUME Init PROVE IInv
        OBVIOUS
    <2>1. TodoInv /\ Pc = "none"
        BY DEF Init, TodoInv, Pc
    <2>2. /\ now \in 0..MaxMoment /\ open = FALSE /\ memory = NoGame /\ running # "playing"
          /\ saves \in [Slots -> Contents \cup {NoFile}]
          /\ kept \in [Slots -> Contents \cup {NoGame}] /\ writing \in [Slots -> Contents \cup {NoGame}]
        BY SaveGamesAssumption DEF Init
    <2>3. TypeOK
        BY <2>2 DEF Init, TypeOK
    <2> QED
        BY <2>1, <2>3 DEF Init, IInv, StepInv, SaveInv, OneCompleteCopy,
            SavedIsKept, LoadInv, LoadedAsKept, Saving, Opening
<1>2. IInv /\ [Next]_vars => IInv'
    <2> SUFFICES ASSUME IInv, [Next]_vars PROVE IInv'
        OBVIOUS
    <2>1. CASE UNCHANGED vars
        BY <2>1 DEF IInv, vars, files, history, TypeOK, TodoInv, Pc, StepInv, SaveInv, OneCompleteCopy,
            SavedIsKept, LoadInv, LoadedAsKept, WorldIsTarget, Target, Snapshot
    <2>2. CASE Next
        BY <2>2, InvCalls, InvSteps, InvLoadWorld DEF Next
    <2> QED
        BY <2>1, <2>2
<1> QED
    BY <1>1, <1>2, PTL DEF Spec

\* A completed save game holds the game of the moment SaveGame was called in,
\* and nothing that happens later, crashes included, changes it, until the slot
\* is saved to again.
THEOREM SaveGamesLast == Spec => []SavedIsKept
<1>1. IInv => SavedIsKept
    BY DEF IInv, SaveInv
<1> QED
    BY <1>1, Inductive, PTL

\* A load brings back exactly the moment that was saved, and a new game the
\* shipped one, unless SQLite rolled an old journal back into the copy.
THEOREM LoadsBringBack == Spec => []LoadedAsKept
<1>1. IInv => LoadedAsKept
    BY DEF IInv, LoadInv
<1> QED
    BY <1>1, Inductive, PTL

\* CreateSaveGame deletes the old save game first, yet at no time, and after no
\* crash, is neither the old nor the new moment on the disk in one piece; and
\* files, journal and the game in memory keep their types.
THEOREM NeverWithoutCopy == Spec => []Consistent
<1>1. IInv => Consistent
    BY DEF IInv, SaveInv, Consistent
<1> QED
    BY <1>1, Inductive, PTL

-----------------------------------------------------------------------------
(* The refinement: what the file that is opened and loaded really holds.   *)

ArchiveInv ==
    /\ open => ~journal
    /\ Pc \in {"OpenDb", "LoadWorld"} /\ slot # Shipped => slot \in Slots /\ saves[slot] # NoFile
    /\ Pc = "OpenDb" => world = Source
    /\ Pc = "LoadWorld" => world = Source \/ (rolledBack /\ world = Damaged)

\* The steps before OpenDb and LoadWorld.
LEMMA ToOpening ==
    ASSUME IInv, Next, Pc' \in {"OpenDb", "LoadWorld"}
    PROVE  EndCopyWorld \/ OpenDb
<1> USE DEF IInv
<1>1. ASSUME Die PROVE FALSE
    BY <1>1 DEF Die, Pc
<1>2. ASSUME todo' = <<>> PROVE FALSE
    BY <1>2 DEF Pc
<1>3. ASSUME NEW ops \in {BackUp, Replace, Load, <<"DeleteRows">>}, todo' = ops PROVE FALSE
    BY <1>3 DEF Pc, BackUp, Replace, Load
<1>4. CASE Calls
    <2>1. CASE Start \/ Leave
        BY <1>2, <2>1 DEF Start, Leave, Idle, StepInv, Pc
    <2>2. CASE ContinueGame \/ Crash
        BY <1>1, <2>2 DEF ContinueGame, Crash
    <2>3. CASE Play
        BY <1>2, <1>3, <2>3 DEF Play, Idle
    <2>4. ASSUME NEW s, Enter(<<>>, s) \/ Enter(Replace, s) \/ Enter(Load, s) PROVE FALSE
        BY <1>2, <1>3, <2>4 DEF Enter
    <2>5. ASSUME NEW s, SaveGame(s) \/ LoadGame(s) PROVE FALSE
        BY <1>1, <1>3, <2>5 DEF SaveGame, LoadGame
    <2> QED
        BY <1>4, <2>1, <2>2, <2>3, <2>4, <2>5 DEF Calls
<1>5. CASE Steps
    <2>1. ASSUME NEW s \in {"NotifyGameSave", "DropGlobals", "WriteGlobals", "CommitChanges", "DeleteRows",
                            "DeleteSave", "BeginCopySave", "EndCopySave", "CleanupWorld", "CloseDb",
                            "FindSave", "DeleteWorld", "BeginCopyWorld"},
                 Step(s)
          PROVE  FALSE
        BY <2>1, StepOrder
    <2> QED
        BY <1>1, <1>5, <2>1 DEF Steps, NotifyGameSave, DropGlobals, WriteGlobals, CommitChanges, DeleteRows,
            DeleteSave, BeginCopySave, EndCopySave, CleanupWorld, CloseDb, FindSave, DeleteWorld,
            BeginCopyWorld, Write
<1>6. CASE LoadWorld
    <2>1. CASE Step("LoadWorld")
        BY <2>1, StepOrder
    <2> QED
        BY <1>1, <1>6, <2>1 DEF LoadWorld
<1> QED
    BY <1>4, <1>5, <1>6 DEF Next

LEMMA ArchiveInvNext ==
    ASSUME IInv, ArchiveInv, [Next]_vars
    PROVE  ArchiveInv'
<1>1. CASE UNCHANGED vars
    BY <1>1 DEF ArchiveInv, vars, files, history, Pc, Source
<1>2. CASE Next
    <2>1. open' => ~journal'
        BY <1>2 DEF ArchiveInv, files, Next, Calls, Start, ContinueGame, Leave, Play, Crash, Die, Enter, SaveGame,
            LoadGame, Steps, NotifyGameSave, DropGlobals, WriteGlobals, CommitChanges, DeleteRows, DeleteSave,
            BeginCopySave, EndCopySave, CleanupWorld, CloseDb, FindSave, DeleteWorld, BeginCopyWorld,
            EndCopyWorld, Write, OpenDb, LoadWorld
    <2>2. CASE EndCopyWorld
        <3>1. Pc = "EndCopyWorld" /\ Pc' = "OpenDb" /\ slot' = slot
            BY <2>2, StepOrder DEF EndCopyWorld, Write, IInv
        <3>2. world' = Source /\ saves' = saves
            BY <2>2 DEF EndCopyWorld, Write
        <3> QED
            BY <2>1, <3>1, <3>2 DEF ArchiveInv, IInv, StepInv, Source
    <2>3. CASE OpenDb
        <3>1. Pc = "OpenDb" /\ Pc' = "LoadWorld" /\ slot' = slot
            BY <2>3, StepOrder DEF OpenDb, IInv
        <3>2. saves' = saves /\ rolledBack' = journal /\ (world' = world \/ (journal /\ world' = Damaged))
            BY <2>3 DEF OpenDb, IInv, TypeOK
        <3> QED
            BY <2>1, <3>1, <3>2 DEF ArchiveInv, Source
    <2>4. CASE Pc' \notin {"OpenDb", "LoadWorld"}
        BY <2>1, <2>4 DEF ArchiveInv
    <2> QED
        BY <1>2, <2>2, <2>3, <2>4, ToOpening
<1> QED
    BY <1>1, <1>2

\* What GameArchive sees of a state.
Mapping ==
    /\ running = "playing" => Game = Snapshot /\ Game \in Contents /\ Game # NoGame
    /\ running # "playing" => Game = NoGame /\ Pc = "none"
    /\ Pc \in Saving => SavingSlot = slot /\ slot \in Slots
    /\ Pc \notin Saving => SavingSlot = Shipped
    /\ Shipped \notin Slots /\ journal \in BOOLEAN

LEMMA MappedStates ==
    ASSUME IInv, IInv'
    PROVE  Mapping /\ Mapping'
<1>1. Mapping
    BY Records, SaveGamesAssumption
    DEF Mapping, IInv, TypeOK, StepInv, Game, Snapshot, SavingSlot, Games, Contents
<1>2. Mapping'
    BY Records, SaveGamesAssumption
    DEF Mapping, IInv, TypeOK, StepInv, Game, Snapshot, SavingSlot, Games, Contents
<1> QED
    BY <1>1, <1>2

\* The end of the process is the crash of a game, and nothing in the menu.
LEMMA RefinesDie ==
    ASSUME IInv, IInv', Die, running = "playing" \/ UNCHANGED journal
    PROVE  Archive!Crash \/ UNCHANGED Archive!vars
<1>1. Mapping /\ Mapping' /\ running' # "playing" /\ saves' = saves /\ Pc' = "none"
    BY MappedStates DEF Die, Pc
<1>2. Game' = NoGame /\ SavingSlot' = Shipped /\ Tainted' = journal'
    BY <1>1 DEF Mapping, Tainted, Saving
<1>3. CASE running = "playing"
    BY <1>1, <1>2, <1>3 DEF Mapping, Archive!Crash
<1>4. CASE running # "playing"
    <2>1. Game = NoGame /\ SavingSlot = Shipped /\ Tainted = journal
        BY <1>1, <1>4 DEF Mapping, Tainted, Saving
    <2> QED
        BY <1>1, <1>2, <1>4, <2>1 DEF Archive!vars
<1> QED
    BY <1>3, <1>4

\* Of an operation, GameArchive sees how it begins and its effect on the save
\* games.
LEMMA RefinesCalls ==
    ASSUME IInv, IInv', Calls
    PROVE  [Archive!Next]_Archive!vars
<1> USE DEF files, history
<1>1. Mapping /\ Mapping'
    BY MappedStates
<1>2. CASE Start
    <2>1. Pc = "none" /\ Pc' = "none" /\ running # "playing" /\ running' # "playing"
        BY <1>1, <1>2 DEF Start, Mapping
    <2> QED
        BY <1>1, <1>2, <2>1 DEF Start, Mapping, Tainted, Saving, Archive!vars
<1>3. CASE ContinueGame \/ Crash
    BY <1>3, RefinesDie DEF ContinueGame, Crash, IInv, TypeOK, Archive!Next
<1>4. CASE Leave
    <2>1. Pc = "none" /\ Pc' = "none" /\ running = "playing" /\ running' # "playing"
        BY <1>4 DEF Leave, Idle, Pc
    <2> QED
        BY <1>1, <1>4, <2>1 DEF Leave, Mapping, Tainted, Saving, Archive!Leave, Archive!Playing, Archive!Next
<1>5. CASE Play
    <2>1. Pc = "none" /\ Pc' \in {"none", "DeleteRows"} /\ running = "playing" /\ running' = "playing"
        BY <1>5 DEF Play, Idle, Pc
    <2> QED
        BY <1>1, <1>5, <2>1 DEF Play, Mapping, Tainted, Saving, Archive!Play, Archive!Playing, Archive!Next
<1>6. ASSUME NEW ops, NEW s, Enter(ops, s), ops \in {<<>>, Replace, Load}
      PROVE  Archive!New
    <2>1. Pc' \in {"none", "CloseDb", "CleanupWorld"} /\ running = "menu" /\ running' = "playing"
        BY <1>6 DEF Enter, Pc, Replace, Load
    <2>2. Pc = "none" /\ Game' = ShippedContent
        BY <1>1, <1>6, <2>1 DEF Mapping, Enter, Snapshot, InMemory, ShippedContent
    <2> QED
        BY <1>1, <1>6, <2>1, <2>2 DEF Enter, Mapping, Tainted, Saving, Archive!New
<1>7. ASSUME NEW s \in Slots, SaveGame(s), open
      PROVE  Archive!Save(s)
    <2>1. Pc = "none" /\ Pc' = "NotifyGameSave" /\ running = "playing" /\ running' = "playing"
        BY <1>7 DEF SaveGame, Idle, Pc, BackUp
    <2>2. Game' = Game
        BY <1>7 DEF SaveGame, Game, Snapshot
    <2> QED
        BY <1>1, <1>7, <2>1, <2>2
        DEF SaveGame, Mapping, Tainted, Saving, Archive!Save, Archive!Playing
<1>8. ASSUME NEW s \in Slots, LoadGame(s)
      PROVE  UNCHANGED Archive!vars
    <2>1. Pc = "none" /\ Pc' = "CleanupWorld"
        BY <1>8 DEF LoadGame, Idle, Pc, Load
    <2>2. Game' = Game
        BY <1>8 DEF LoadGame, Game, Snapshot
    <2> QED
        BY <1>1, <1>8, <2>1, <2>2 DEF LoadGame, Mapping, Tainted, Saving, Archive!vars
<1>9. ASSUME NEW s \in Slots, SaveGame(s), ~open
      PROVE  [Archive!Next]_Archive!vars
    BY <1>9, RefinesDie DEF SaveGame, Archive!Next
<1> QED
    BY <1>2, <1>3, <1>4, <1>5, <1>6, <1>7, <1>8, <1>9 DEF Calls, Archive!Next

\* Saving changes the save game of its slot and, till it is done, nothing else;
\* the steps that bring a file to world.db4 cannot be seen.
LEMMA RefinesSteps ==
    ASSUME IInv, IInv', ArchiveInv, Steps
    PROVE  [Archive!Next]_Archive!vars
<1> USE DEF files, history
<1>1. Mapping /\ Mapping' /\ TodoInv
    BY MappedStates DEF IInv
<1>2. CASE NotifyGameSave \/ CleanupWorld
    <2>1. /\ Pc \in Saving \/ Pc = "CleanupWorld"
          /\ Pc' \in Saving <=> Pc \in Saving
          /\ Pc # "LoadWorld" /\ Pc' # "LoadWorld" /\ slot' = slot
        BY <1>1, <1>2, StepOrder DEF NotifyGameSave, CleanupWorld, Saving
    <2>2. Pc # "none"
        BY <2>1 DEF Saving
    <2>3. memory \in Games
        BY <1>1, <2>2, Records DEF IInv, StepInv, TypeOK
    <2>4. memory' # NoGame /\ memory # NoGame /\ Snapshot' = Snapshot
        BY <1>2, <2>3, Records DEF NotifyGameSave, CleanupWorld, Snapshot, Games
    <2> QED
        BY <1>1, <1>2, <2>1, <2>4
        DEF NotifyGameSave, CleanupWorld, Mapping, Game, Tainted, Archive!vars
<1>3. CASE DropGlobals \/ WriteGlobals \/ CommitChanges \/ DeleteRows
    <2>1. /\ Pc' \in Saving <=> Pc \in Saving
          /\ Pc # "LoadWorld" /\ Pc' # "LoadWorld" /\ slot' = slot
        BY <1>1, <1>3, StepOrder DEF DropGlobals, WriteGlobals, CommitChanges, DeleteRows, Write, Saving
    <2> QED
        BY <1>1, <1>3, <2>1
        DEF DropGlobals, WriteGlobals, CommitChanges, DeleteRows, Write, Mapping, Game, Snapshot, Tainted, Archive!vars
<1>4. CASE DeleteSave \/ BeginCopySave
    <2>1. Pc \in Saving /\ Pc' \in Saving /\ Pc # "LoadWorld" /\ Pc' # "LoadWorld" /\ slot' = slot
        BY <1>1, <1>4, StepOrder DEF DeleteSave, BeginCopySave, Saving
    <2>2. /\ SavingSlot = slot /\ SavingSlot' = slot /\ slot # Shipped
          /\ Game' = Game /\ Tainted' = Tainted
        BY <1>1, <1>4, <2>1 DEF DeleteSave, BeginCopySave, Mapping, Game, Snapshot, Tainted
    <2>3. \E rest \in {NoFile, Damaged} : saves' = [saves EXCEPT ![slot] = rest]
        BY <1>4 DEF DeleteSave, BeginCopySave
    <2> QED
        BY <2>2, <2>3 DEF Archive!Overwrite, Archive!Next
<1>5. CASE EndCopySave
    <2>1. Pc = "EndCopySave" /\ Pc' = "none" /\ slot' = slot
        BY <1>1, <1>5, StepOrder DEF EndCopySave
    <2>2. SavingSlot = slot /\ SavingSlot' = Shipped /\ slot # Shipped
        BY <1>1, <2>1 DEF Mapping, Saving
    <2>3. world = Game
        <3>1. /\ open /\ running = "playing" /\ memory \in Games
              /\ world \in Contents /\ world.attrs = memory.own
              /\ world.globals = memory.globals /\ world.deletes = memory.deletes
            BY <2>1, Records, SaveGamesAssumption DEF IInv, StepInv, TypeOK, Saving
        <3>2. Snapshot = world
            BY <3>1 DEF Snapshot, Contents
        <3> QED
            BY <1>1, <3>1, <3>2 DEF Mapping
    <2>4. Game' = Game /\ Tainted' = Tainted
        BY <1>5, <2>1 DEF EndCopySave, Game, Snapshot, Tainted
    <2> QED
        BY <1>5, <2>2, <2>3, <2>4 DEF EndCopySave, Archive!Finish, Archive!Next
<1>6. CASE \/ CloseDb \/ DeleteWorld \/ BeginCopyWorld \/ EndCopyWorld
           \/ Step("FindSave") /\ UNCHANGED <<open, memory, files, history>>
    <2>1. Pc \notin Saving \cup {"LoadWorld"} /\ Pc' \notin Saving \cup {"LoadWorld"} /\ slot' = slot
        BY <1>1, <1>6, StepOrder DEF CloseDb, DeleteWorld, BeginCopyWorld, EndCopyWorld, Write, Saving
    <2>2. UNCHANGED <<memory, saves, journal>>
        BY <1>6 DEF CloseDb, DeleteWorld, BeginCopyWorld, EndCopyWorld, Write
    <2> QED
        BY <1>1, <2>1, <2>2 DEF Mapping, Game, Snapshot, Tainted, Archive!vars
<1>7. CASE OpenDb
    <2>1. Pc = "OpenDb" /\ Pc' = "LoadWorld" /\ slot' = slot
        BY <1>1, <1>7, StepOrder DEF OpenDb
    <2> QED
        BY <1>1, <1>7, <2>1 DEF OpenDb, Mapping, Saving, Game, Snapshot, Tainted, Archive!vars
<1>8. CASE At("FindSave") /\ Die /\ UNCHANGED journal
    BY <1>8, RefinesDie DEF Archive!Next
<1> QED
    BY <1>2, <1>3, <1>4, <1>5, <1>6, <1>7, <1>8 DEF Steps, FindSave

\* What is loaded is the save game or the shipped game, or what a rollback has
\* left of it.
LEMMA RefinesLoadWorld ==
    ASSUME IInv, IInv', ArchiveInv, LoadWorld
    PROVE  [Archive!Next]_Archive!vars
<1> USE DEF files, history
<1>1. Mapping /\ Mapping' /\ TodoInv
    BY MappedStates DEF IInv
<1>2. CASE Step("LoadWorld") /\ memory' = InMemory(world) /\ UNCHANGED <<open, files, history>>
    <2>1. Pc = "LoadWorld" /\ Pc' = "none" /\ running = "playing" /\ running' = "playing"
        BY <1>1, <1>2, StepOrder DEF Step, IInv, StepInv
    <2>2. open /\ world \in Contents /\ ~journal
        BY <2>1 DEF IInv, StepInv, TypeOK, ArchiveInv
    <2>3. Game' = world
        BY <1>1, <1>2, <2>1, <2>2 DEF Mapping, Snapshot, InMemory, Contents
    <2>4. (Tainted <=> rolledBack) /\ Tainted' = FALSE
        BY <1>2, <2>1, <2>2 DEF Tainted
    <2>5. Archive!Open(Source)
        BY <1>1, <1>2, <2>1, <2>3, <2>4 DEF ArchiveInv, Mapping, Saving, Archive!Open, Archive!Playing
    <2>6. CASE slot = Shipped
        BY <2>5, <2>6 DEF Source, Archive!Restart, Archive!Next
    <2>7. CASE slot # Shipped
        <3>1. slot \in Slots /\ saves[slot] # NoFile
            BY <2>1, <2>7 DEF ArchiveInv
        <3>2. Archive!Load(slot)
            BY <2>5, <2>7, <3>1 DEF Source, Archive!Load
        <3> QED
            BY <3>1, <3>2 DEF Archive!Next
    <2> QED
        BY <2>6, <2>7
<1>3. CASE Die /\ UNCHANGED journal
    BY <1>3, RefinesDie DEF Archive!Next
<1> QED
    BY <1>2, <1>3 DEF LoadWorld

\* SaveGames implements GameArchive: whatever slots there are, however long the
\* game is played and wherever the process dies, a save is the game it was
\* asked for, nothing but a save of its slot can cost it, and a load returns it.
THEOREM Implementation == Spec => ImplementsGameArchive
<1>1. Init => Archive!Init /\ ArchiveInv
    BY DEF Init, Archive!Init, ArchiveInv, Game, SavingSlot, Tainted, Pc, Saving
<1>2. IInv /\ IInv' /\ ArchiveInv /\ [Next]_vars => [Archive!Next]_Archive!vars
    <2>1. ASSUME UNCHANGED vars PROVE UNCHANGED Archive!vars
        BY <2>1 DEF vars, files, history, Archive!vars, Game, Snapshot, SavingSlot, Tainted, Pc
    <2> QED
        BY <2>1, RefinesCalls, RefinesSteps, RefinesLoadWorld DEF Next
<1> QED
    BY <1>1, <1>2, ArchiveInvNext, Inductive, PTL DEF Spec, ImplementsGameArchive, Archive!Spec
=============================================================================
