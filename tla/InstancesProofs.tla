--------------------------- MODULE InstancesProofs ---------------------------
(***************************************************************************)
(* Proofs of what Instances states of the rows in memory and the instances *)
(* in the database, for any sets of Guids, levels and attribute values.    *)
(***************************************************************************)
EXTENDS Instances, SequenceTheorems, FiniteSetTheorems, TLAPS

-----------------------------------------------------------------------------
(* Sequences and finite sets.                                              *)

\* A set of naturals that is not empty has a least element.
LEMMA MinProperties ==
    ASSUME NEW S \in SUBSET Nat, S # {}
    PROVE  Min(S) \in S /\ \A y \in S : Min(S) <= y
<1>1. \E x \in S : \A y \in S : ~ (<<y, x>> \in OpToRel(<, Nat))
    BY NatLessThanWellFounded, WFMin
<1>2. PICK x \in S : \A y \in S : ~ (y < x)
    BY <1>1 DEF OpToRel
<1>3. \A y \in S : x <= y
    BY <1>2
<1> QED
    BY <1>3 DEF Min

\* So has one with an upper bound a greatest: the least distance to the bound.
LEMMA MaxProperties ==
    ASSUME NEW n \in Nat, NEW S \in SUBSET (0..n), S # {}
    PROVE  Max(S) \in S /\ \A y \in S : y <= Max(S)
<1> DEFINE T == {d \in 0..n : n - d \in S}
<1>1. T \in SUBSET Nat /\ T # {}
    <2>1. PICK x \in S : TRUE
        OBVIOUS
    <2>2. n - x \in 0..n /\ n - (n - x) = x
        OBVIOUS
    <2>3. n - x \in T
        BY <2>2
    <2>4. T \in SUBSET Nat
        OBVIOUS
    <2> HIDE DEF T
    <2> QED
        BY <2>3, <2>4
<1>2. \E d \in T : \A e \in T : ~ (<<e, d>> \in OpToRel(<, Nat))
    BY ONLY <1>1, NatLessThanWellFounded, WFMin
<1>3. PICK d \in T : \A e \in T : ~ (e < d)
    BY <1>1, <1>2 DEF OpToRel
<1>4. ASSUME NEW y \in S PROVE n - d >= y
    <2>1. n - y \in T
        <3>1. n - (n - y) = y /\ n - y \in 0..n
            OBVIOUS
        <3> QED
            BY <3>1
    <2> QED
        BY <1>3, <2>1
<1>5. n - d \in S
    OBVIOUS
<1> QED
    BY <1>4, <1>5 DEF Max

\* SetToSeq lists every element of a finite set once.
LEMMA SetToSeqProperties ==
    ASSUME NEW S, IsFiniteSet(S)
    PROVE  /\ Cardinality(S) \in Nat
           /\ SetToSeq(S) \in [1..Cardinality(S) -> S]
           /\ \A i, j \in 1..Cardinality(S) : SetToSeq(S)[i] = SetToSeq(S)[j] => i = j
           /\ \A x \in S : \E i \in 1..Cardinality(S) : SetToSeq(S)[i] = x
<1>1. Cardinality(S) \in Nat /\ ExistsBijection(1..Cardinality(S), S)
    BY FS_CardinalityType
<1>2. PICK f \in [1..Cardinality(S) -> S] : IsInjective(f)
    BY <1>1 DEF ExistsBijection, Bijection, Injection
<1>3. SetToSeq(S) \in [1..Cardinality(S) -> S] /\ IsInjective(SetToSeq(S))
    BY <1>2 DEF SetToSeq
<1>4. SetToSeq(S) \in Injection(1..Cardinality(S), S)
    BY <1>3 DEF Injection
<1>5. /\ IsFiniteSet(1..Cardinality(S))
      /\ Cardinality(1..Cardinality(S)) = Cardinality(S)
    BY <1>1, FS_Interval
<1>6. SetToSeq(S) \in Surjection(1..Cardinality(S), S)
    BY <1>4, <1>5, FS_Injection
<1> QED
    BY <1>1, <1>3, <1>6 DEF IsInjective, Surjection

-----------------------------------------------------------------------------
(* What a query is turned into rows with.                                  *)

\* The rows read for a set of stored instances: one row of each, with the
\* values of the database, neither new nor deleted.
LEMMA ReadRowsProperties ==
    ASSUME TypeOK, NEW guids \in SUBSET Guids, NEW entities, \A g \in guids : Stored(g)
    PROVE  /\ ReadRows(guids, entities) \in Seq(Rows)
           /\ Len(ReadRows(guids, entities)) = Cardinality(guids)
           /\ Cardinality(guids) \in Nat
           /\ \A k \in 1..Cardinality(guids) :
                /\ ReadRows(guids, entities)[k].guid \in guids
                /\ ReadRows(guids, entities)[k].level = db[ReadRows(guids, entities)[k].guid].level
                /\ ReadRows(guids, entities)[k].new = FALSE
                /\ ReadRows(guids, entities)[k].deleted = FALSE
           /\ \A j, k \in 1..Cardinality(guids) :
                ReadRows(guids, entities)[j].guid = ReadRows(guids, entities)[k].guid => j = k
<1> DEFINE N == Cardinality(guids)
           list == SetToSeq(guids)
<1>1. /\ N \in Nat /\ list \in [1..N -> guids]
      /\ \A i, j \in 1..N : list[i] = list[j] => i = j
    BY InstancesAssumption, FS_Subset, SetToSeqProperties
<1>2. \A g \in guids : db[g] \in Values
    BY DEF TypeOK, Stored
<1> HIDE DEF list, N
<1>3. ReadRows(guids, entities) = [k \in 1..N |-> Row(list[k], db[list[k]], FALSE, list[k] \in entities)]
    BY DEF ReadRows, list, N
<1>4. \A k \in 1..N : Row(list[k], db[list[k]], FALSE, list[k] \in entities) \in Rows
    BY <1>1, <1>2 DEF Row, Rows, Values
<1>5. ReadRows(guids, entities) \in [1..N -> Rows]
    BY <1>3, <1>4
<1>6. ReadRows(guids, entities) \in Seq(Rows) /\ Len(ReadRows(guids, entities)) = N
    BY <1>1, <1>5
<1>7. \A k \in 1..N :
        /\ ReadRows(guids, entities)[k].guid = list[k]
        /\ ReadRows(guids, entities)[k].level = db[list[k]].level
        /\ ReadRows(guids, entities)[k].new = FALSE
        /\ ReadRows(guids, entities)[k].deleted = FALSE
    BY <1>3 DEF Row
<1> QED
    BY <1>1, <1>6, <1>7 DEF N

-----------------------------------------------------------------------------
(* The inductive invariant.                                                *)

\* Without a level the dataset is empty, so no row stands for what an operation
\* on whole levels deletes.
LevelInv ==
    /\ level = NoLevel => rows = <<>>
    /\ level # NoLevel => halfway = <<>> /\ level \in listed \cup unlisted

\* What one row says of its instance: a deleted instance has deleted rows only,
\* a row is deleted with its instance unless it is one of two, and a row that
\* was read, not added, is still in the database.
RowOK(i) ==
    /\ rows[i].level \in listed \cup unlisted
    /\ rows[i].guid \in deleted => rows[i].deleted
    /\ rows[i].deleted => rows[i].guid \in deleted \cup TwiceIn(rows)
    /\ ~rows[i].deleted /\ ~rows[i].new => Stored(rows[i].guid) \/ rows[i].guid \in TwiceIn(rows)
    /\ rows[i].entity => ~rows[i].deleted

RowsInv == \A i \in DOMAIN rows : RowOK(i)

\* Between its two tables a level operation has put nothing but the new name
\* into the instances, and left nothing of a deleted level.
HalfwayInv ==
    halfway # <<>> =>
        /\ halfway[1] = "delete" => halfway[2] = halfway[3]
        /\ \A g \in Guids : Stored(g) =>
                /\ db[g].level \in listed \cup unlisted \cup {halfway[3]}
                /\ halfway[1] = "delete" => db[g].level # halfway[2]

IInv ==
    /\ TypeOK /\ InListedLevels /\ DeletedStaysDeleted
    /\ LevelInv /\ RowsInv /\ HalfwayInv

\* A step that keeps the database, and leaves rows that say what RowOK says of
\* them, keeps the invariant.
LEMMA InvRows ==
    ASSUME IInv, rows' \in Seq(Rows), level # NoLevel, RowsInv',
           UNCHANGED <<db, listed, halfway, level, deleted, unlisted>>,
           rowsModified' \in BOOLEAN, committed' \in BOOLEAN
    PROVE  IInv'
<1> QED
    BY DEF IInv, TypeOK, InListedLevels, DeletedStaysDeleted, LevelInv, HalfwayInv, Stored

\* A row that is added to the end.
LEMMA InvAddRow ==
    ASSUME IInv, NEW g \in Guids, NEW v \in Values, v.level \in listed \cup unlisted,
           level # NoLevel, AddRow(g, v), committed' = FALSE
    PROVE  IInv'
<1> USE DEF IInv
<1>1. /\ g \notin deleted /\ \A i \in DOMAIN rows : rows[i].guid # g
      /\ rows' = Append(rows, Row(g, v, TRUE, TRUE)) /\ rowsModified' = TRUE
      /\ UNCHANGED <<db, listed, halfway, level, deleted, unlisted>>
    BY DEF AddRow, Fresh
<1>2. Row(g, v, TRUE, TRUE) \in Rows /\ rows \in Seq(Rows)
    BY DEF Row, Rows, Values, TypeOK
<1>3. /\ rows' \in Seq(Rows) /\ Len(rows) \in Nat
      /\ DOMAIN rows = 1..Len(rows) /\ DOMAIN rows' = 1..(Len(rows) + 1)
      /\ \A i \in DOMAIN rows : rows'[i] = rows[i]
      /\ rows'[Len(rows) + 1] = Row(g, v, TRUE, TRUE)
    <2> DEFINE r == Row(g, v, TRUE, TRUE)
    <2>1. r \in Rows /\ rows' = Append(rows, r)
        BY <1>1, <1>2
    <2> HIDE DEF r
    <2>2. /\ rows' \in Seq(Rows) /\ Len(rows') = Len(rows) + 1
          /\ \A i \in 1..Len(rows) : rows'[i] = rows[i]
          /\ rows'[Len(rows) + 1] = r
        BY <1>2, <2>1, AppendProperties
    <2>3. Len(rows) \in Nat /\ DOMAIN rows = 1..Len(rows) /\ DOMAIN rows' = 1..Len(rows')
        BY <1>2, <2>2, LenProperties
    <2> QED
        BY <2>2, <2>3 DEF r
<1>4. TwiceIn(rows) \subseteq TwiceIn(rows')
    BY <1>3 DEF TwiceIn
<1>5. ASSUME NEW i \in DOMAIN rows' PROVE RowOK(i)'
    <2>1. CASE i \in DOMAIN rows
        BY <1>1, <1>3, <1>4, <2>1 DEF RowsInv, RowOK, Stored
    <2>2. CASE i = Len(rows) + 1
        BY <1>1, <1>3, <2>2 DEF RowOK, Row
    <2> QED
        BY <1>3, <2>1, <2>2
<1> QED
    BY <1>1, <1>3, <1>5, InvRows DEF RowsInv

\* Where the rows of a query go and what they are.
LEMMA AppendQueryProperties ==
    ASSUME IInv, NEW guids \in SUBSET Guids, \A g \in guids : Stored(g),
           NEW matching \in SUBSET DOMAIN rows, NEW entities,
           AppendQuery(guids, matching, entities)
    PROVE  /\ rows' \in Seq(Rows) /\ Len(rows) \in Nat /\ Len(rows') \in Nat
           /\ Len(rows) <= Len(rows')
           /\ DOMAIN rows = 1..Len(rows) /\ DOMAIN rows' = 1..Len(rows')
           /\ \A i \in DOMAIN rows : rows'[i] = rows[i]
           /\ \A i \in DOMAIN rows' \ DOMAIN rows :
                /\ rows'[i].guid \in guids \ {rows[j].guid : j \in matching}
                /\ rows'[i].level = db[rows'[i].guid].level
                /\ rows'[i].new = FALSE /\ rows'[i].deleted = FALSE
           /\ \A i, j \in DOMAIN rows' \ DOMAIN rows : rows'[i].guid = rows'[j].guid => i = j
           /\ TwiceIn(rows) \subseteq TwiceIn(rows')
<1> DEFINE found == guids \ {rows[j].guid : j \in matching}
           new == ReadRows(found, entities)
<1>1. rows' = rows \o new
    BY DEF AppendQuery
<1>2. rows \in Seq(Rows) /\ TypeOK /\ found \in SUBSET Guids /\ \A g \in found : Stored(g)
    BY DEF IInv, TypeOK
<1> HIDE DEF found
<1>3. /\ new \in Seq(Rows) /\ Len(new) \in Nat
      /\ \A k \in 1..Len(new) :
            /\ new[k].guid \in found
            /\ new[k].level = db[new[k].guid].level
            /\ new[k].new = FALSE /\ new[k].deleted = FALSE
      /\ \A j, k \in 1..Len(new) : new[j].guid = new[k].guid => j = k
    <2>1. /\ new \in Seq(Rows) /\ Len(new) = Cardinality(found)
          /\ Cardinality(found) \in Nat
          /\ \A k \in 1..Cardinality(found) :
                /\ new[k].guid \in found
                /\ new[k].level = db[new[k].guid].level
                /\ new[k].new = FALSE
                /\ new[k].deleted = FALSE
          /\ \A j, k \in 1..Cardinality(found) : new[j].guid = new[k].guid => j = k
        BY ONLY <1>2, ReadRowsProperties
    <2> HIDE DEF new
    <2> QED
        BY <2>1
<1> HIDE DEF new
<1>4. /\ rows \o new \in Seq(Rows) /\ Len(rows) \in Nat
      /\ Len(rows \o new) = Len(rows) + Len(new)
      /\ \A i \in 1..(Len(rows) + Len(new)) :
            (rows \o new)[i] = IF i <= Len(rows) THEN rows[i] ELSE new[i - Len(rows)]
    BY <1>2, <1>3, ConcatProperties
<1>5. /\ rows' \in Seq(Rows) /\ Len(rows') \in Nat /\ Len(rows) <= Len(rows')
      /\ DOMAIN rows = 1..Len(rows) /\ DOMAIN rows' = 1..Len(rows')
      /\ \A i \in DOMAIN rows : rows'[i] = rows[i]
    BY <1>1, <1>2, <1>3, <1>4
<1>6. \A i \in DOMAIN rows' \ DOMAIN rows :
        i - Len(rows) \in 1..Len(new) /\ rows'[i] = new[i - Len(rows)]
    BY <1>1, <1>3, <1>4, <1>5
<1>7. \A i, j \in DOMAIN rows' \ DOMAIN rows : rows'[i].guid = rows'[j].guid => i = j
    BY <1>3, <1>4, <1>5, <1>6
<1>8. \A i \in DOMAIN rows' \ DOMAIN rows :
        /\ rows'[i].guid \in found
        /\ rows'[i].level = db[rows'[i].guid].level
        /\ rows'[i].new = FALSE /\ rows'[i].deleted = FALSE
    BY <1>3, <1>6
<1>9. TwiceIn(rows) \subseteq TwiceIn(rows')
    BY <1>5 DEF TwiceIn
<1> QED
    BY <1>4, <1>5, <1>7, <1>8, <1>9 DEF found

\* The rows a query adds keep the invariant.
LEMMA InvAppendQuery ==
    ASSUME IInv, NEW guids \in SUBSET Guids, \A g \in guids : Stored(g),
           NEW matching \in SUBSET DOMAIN rows, NEW entities, level # NoLevel,
           AppendQuery(guids, matching, entities), committed' = FALSE,
           UNCHANGED <<db, listed, halfway, level, rowsModified, deleted, unlisted>>
    PROVE  IInv'
<1> USE DEF IInv
<1> DEFINE Added == DOMAIN rows' \ DOMAIN rows
<1>1. /\ rows' \in Seq(Rows)
      /\ \A i \in DOMAIN rows : rows'[i] = rows[i]
      /\ \A i \in Added :
            /\ rows'[i].guid \in guids
            /\ rows'[i].level = db[rows'[i].guid].level
            /\ rows'[i].new = FALSE /\ rows'[i].deleted = FALSE
      /\ TwiceIn(rows) \subseteq TwiceIn(rows')
    BY AppendQueryProperties
<1>2. \A g \in guids : Stored(g) /\ g \notin deleted /\ db[g].level \in listed \cup unlisted
    BY DEF DeletedStaysDeleted, InListedLevels, LevelInv
<1>3. ASSUME NEW i \in DOMAIN rows' PROVE RowOK(i)'
    <2>1. CASE i \in DOMAIN rows
        BY <1>1, <2>1 DEF RowsInv, RowOK, Stored
    <2>2. CASE i \in Added
        BY <1>1, <1>2, <2>2 DEF RowOK, Stored
    <2> QED
        BY <2>1, <2>2
<1> QED
    BY <1>1, <1>3, InvRows DEF RowsInv, TypeOK

-----------------------------------------------------------------------------
(* The game at play.                                                       *)

LEMMA InvLoadLevel ==
    ASSUME IInv, NEW l \in Levels, LoadLevel(l), committed' = FALSE
    PROVE  IInv'
<1> USE DEF IInv
<1> DEFINE found == InLevel(l)
<1>1. /\ found \in SUBSET Guids
      /\ \A g \in found : Stored(g)
      /\ \E entities \in SUBSET found : rows' = ReadRows(found, entities)
    BY DEF LoadLevel, InLevel, Query
<1>2. /\ level' = l /\ l \in listed /\ l # NoLevel /\ halfway = <<>> /\ rowsModified' = FALSE
      /\ UNCHANGED <<db, listed, halfway, deleted, unlisted>>
    BY InstancesAssumption DEF LoadLevel
<1> HIDE DEF found
<1>3. \A g \in found : Stored(g) /\ g \notin deleted /\ db[g].level \in listed \cup unlisted
    BY <1>1, <1>2 DEF DeletedStaysDeleted, InListedLevels
<1>4. PICK entities : rows' = ReadRows(found, entities)
    BY <1>1
<1>5. /\ rows' \in Seq(Rows)
      /\ \A k \in DOMAIN rows' :
            /\ rows'[k].guid \in found
            /\ rows'[k].level = db[rows'[k].guid].level
            /\ rows'[k].new = FALSE /\ rows'[k].deleted = FALSE
    <2> DEFINE read == ReadRows(found, entities)
    <2>1. TypeOK /\ rows' = read
        BY <1>4
    <2>2. /\ read \in Seq(Rows) /\ Len(read) = Cardinality(found)
          /\ Cardinality(found) \in Nat
          /\ \A k \in 1..Cardinality(found) :
                /\ read[k].guid \in found
                /\ read[k].level = db[read[k].guid].level
                /\ read[k].new = FALSE
                /\ read[k].deleted = FALSE
        BY ONLY <1>1, <2>1, ReadRowsProperties
    <2> HIDE DEF read
    <2> QED
        BY <2>1, <2>2
<1>6. ASSUME NEW i \in DOMAIN rows' PROVE RowOK(i)'
    <2>1. /\ rows'[i] \in Rows /\ rows'[i].guid \in found
          /\ rows'[i].level = db[rows'[i].guid].level
          /\ ~rows'[i].new /\ ~rows'[i].deleted
        BY <1>5
    <2>2. /\ db'[rows'[i].guid] # Absent /\ rows'[i].guid \notin deleted'
          /\ rows'[i].level \in listed' \cup unlisted'
        BY <1>2, <1>3, <2>1 DEF Stored
    <2> QED
        BY <2>1, <2>2 DEF RowOK, Stored
<1>7. TypeOK'
    BY <1>2, <1>5 DEF TypeOK
<1> QED
    BY <1>2, <1>6, <1>7
    DEF RowsInv, InListedLevels, DeletedStaysDeleted, LevelInv, HalfwayInv, Stored

LEMMA InvLeave ==
    ASSUME IInv, Leave, committed' = FALSE
    PROVE  IInv'
<1>1. DOMAIN rows' = {} /\ rows' \in Seq(Rows)
    BY DEF Leave
<1> QED
    BY <1>1
    DEF Leave, IInv, TypeOK, RowsInv, InListedLevels, DeletedStaysDeleted, LevelInv, HalfwayInv, Stored

\* A row whose Guid and flags stay.
LEMMA InvSetters ==
    ASSUME IInv, NEW i \in DOMAIN rows, committed' = FALSE,
           \/ \E n \in Numbers : SetInt(i, n)
           \/ \E l \in Levels : SetString(i, l)
           \/ RemoveEntity(i)
    PROVE  IInv'
<1> USE DEF IInv
<1>1. /\ rows \in Seq(Rows) /\ Len(rows) \in Nat /\ DOMAIN rows = 1..Len(rows)
      /\ rows[i] \in Rows /\ rows[i].entity
    BY DEF TypeOK, SetInt, SetString, RemoveEntity
<1>2. /\ level # NoLevel /\ rowsModified' \in BOOLEAN
      /\ UNCHANGED <<db, listed, halfway, level, deleted, unlisted>>
    <2>1. rows # <<>>
        BY <1>1, EmptySeq
    <2>2. level # NoLevel
        BY <2>1 DEF LevelInv
    <2>3. /\ rowsModified' \in {rowsModified, TRUE}
          /\ UNCHANGED <<db, listed, halfway, level, deleted, unlisted>>
        BY DEF SetInt, SetString, RemoveEntity
    <2> QED
        BY <2>2, <2>3 DEF TypeOK
<1>3. PICK r \in Rows :
        /\ rows' = [rows EXCEPT ![i] = r]
        /\ r.guid = rows[i].guid /\ r.new = rows[i].new /\ r.deleted = rows[i].deleted
        /\ r.level = rows[i].level \/ r.level \in listed
        /\ r.entity => rows[i].entity
    <2>1. ASSUME NEW n \in Numbers, SetInt(i, n)
          PROVE  /\ [rows[i] EXCEPT !.num = n] \in Rows
                 /\ rows' = [rows EXCEPT ![i] = [rows[i] EXCEPT !.num = n]]
        BY <1>1, <2>1 DEF SetInt, Rows
    <2>2. ASSUME NEW l \in Levels, SetString(i, l)
          PROVE  /\ [rows[i] EXCEPT !.level = l] \in Rows /\ l \in listed
                 /\ rows' = [rows EXCEPT ![i] = [rows[i] EXCEPT !.level = l]]
        BY <1>1, <2>2 DEF SetString, Rows
    <2>3. ASSUME RemoveEntity(i)
          PROVE  /\ [rows[i] EXCEPT !.entity = FALSE] \in Rows
                 /\ rows' = [rows EXCEPT ![i] = [rows[i] EXCEPT !.entity = FALSE]]
        BY <1>1, <2>3 DEF RemoveEntity, Rows
    <2> QED
        BY <1>1, <2>1, <2>2, <2>3 DEF Rows
<1>4. /\ rows' \in Seq(Rows) /\ DOMAIN rows' = DOMAIN rows
      /\ \A j \in DOMAIN rows : rows'[j] = IF j = i THEN r ELSE rows[j]
    BY <1>1, <1>3
<1>5. TwiceIn(rows') = TwiceIn(rows)
    BY <1>3, <1>4 DEF TwiceIn
<1>6. ASSUME NEW j \in DOMAIN rows' PROVE RowOK(j)'
    BY <1>1, <1>2, <1>3, <1>4, <1>5 DEF RowsInv, RowOK, Stored
<1> QED
    BY <1>2, <1>4, <1>6, InvRows DEF RowsInv

\* The row goes out of use and the instance out of the database at once.
LEMMA InvDeleteInstance ==
    ASSUME IInv, NEW i \in DOMAIN rows, DeleteInstance(i), committed' = FALSE
    PROVE  IInv'
<1> USE DEF IInv
<1> DEFINE g == rows[i].guid
           r == [rows[i] EXCEPT !.entity = FALSE, !.deleted = TRUE]
<1>1. /\ rows \in Seq(Rows) /\ Len(rows) \in Nat /\ DOMAIN rows = 1..Len(rows) /\ rows[i] \in Rows
      /\ rows[i].entity /\ ~rows[i].deleted
    BY DEF TypeOK, DeleteInstance, RowsInv, RowOK
<1>2. level # NoLevel /\ halfway = <<>>
    <2>1. rows # <<>>
        BY <1>1, EmptySeq
    <2> QED
        BY <2>1 DEF LevelInv
<1>3. /\ db' = [db EXCEPT ![g] = Absent] /\ deleted' = deleted \cup ({g} \ TwiceIn(rows))
      /\ UNCHANGED <<listed, halfway, level, rowsModified, unlisted>>
    BY DEF DeleteInstance
<1>4. /\ r \in Rows /\ rows' = [rows EXCEPT ![i] = r] /\ g \in Guids
      /\ r.guid = g /\ r.deleted = TRUE /\ r.entity = FALSE /\ r.level = rows[i].level
    BY <1>1 DEF DeleteInstance, Rows
<1> HIDE DEF r
<1>5. /\ rows' \in Seq(Rows) /\ DOMAIN rows' = DOMAIN rows
      /\ \A j \in DOMAIN rows : rows'[j] = IF j = i THEN r ELSE rows[j]
    BY <1>1, <1>4
<1>6. TwiceIn(rows') = TwiceIn(rows)
    BY <1>4, <1>5 DEF TwiceIn
<1>7. \A h \in Guids : db'[h] = IF h = g THEN Absent ELSE db[h]
    BY <1>3 DEF TypeOK
<1>8. \A j \in DOMAIN rows : j # i /\ rows[j].guid = g => g \in TwiceIn(rows)
    BY <1>4 DEF TwiceIn
<1>9. \A j \in DOMAIN rows : rows[j].guid \in Guids
    <2>1. \A j \in DOMAIN rows : rows[j] \in Rows
        BY <1>1
    <2> QED
        BY <2>1 DEF Rows
<1>10. ASSUME NEW j \in DOMAIN rows' PROVE RowOK(j)'
    <2>1. CASE j = i
        BY <1>1, <1>3, <1>4, <1>5, <1>6, <2>1 DEF RowsInv, RowOK
    <2>2. CASE j # i /\ rows[j].guid = g
        BY <1>3, <1>5, <1>6, <1>8, <2>2 DEF RowsInv, RowOK
    <2>3. CASE j # i /\ rows[j].guid # g
        BY <1>3, <1>5, <1>6, <1>7, <1>9, <2>3 DEF RowsInv, RowOK, Stored
    <2> QED
        BY <2>1, <2>2, <2>3
<1>11. TypeOK'
    BY <1>3, <1>4, <1>5 DEF TypeOK
<1>12. DeletedStaysDeleted' /\ InListedLevels'
    BY <1>3, <1>4, <1>7 DEF DeletedStaysDeleted, InListedLevels, Stored, TypeOK
<1> QED
    BY <1>2, <1>3, <1>10, <1>11, <1>12 DEF RowsInv, LevelInv, HalfwayInv

\* A lookup by an attribute, and one by a Guid.
LEMMA InvLookups ==
    ASSUME IInv, committed' = FALSE,
           \/ \E n \in Numbers : GetInstancesByAttr("num", n)
           \/ \E l \in Levels : GetInstancesByAttr("level", l)
           \/ \E g \in Guids : CreateEntityByGuid(g)
    PROVE  IInv'
<1>1. ASSUME NEW a, NEW v, GetInstancesByAttr(a, v)
      PROVE  IInv'
    <2> DEFINE guids == Query(a, v)
               matching == {i \in Live : rows[i][a] = v}
    <2>1. /\ guids \in SUBSET Guids /\ \A g \in guids : Stored(g)
          /\ matching \in SUBSET DOMAIN rows
          /\ level # NoLevel /\ AppendQuery(guids, matching, {})
          /\ UNCHANGED <<db, listed, halfway, level, rowsModified, deleted, unlisted>>
        BY <1>1 DEF GetInstancesByAttr, Query, Live
    <2> HIDE DEF guids, matching
    <2> QED
        BY <2>1, InvAppendQuery
<1>2. ASSUME NEW g \in Guids, CreateEntityByGuid(g)
      PROVE  IInv'
    <2> DEFINE matching == {i \in Live : rows[i].guid = g}
    <2>1. /\ level # NoLevel
          /\ UNCHANGED <<db, listed, halfway, level, rowsModified, deleted, unlisted>>
        BY <1>2 DEF CreateEntityByGuid
    <2>2. CASE matching = {}
        <3>1. {g} \in SUBSET Guids /\ (\A h \in {g} : Stored(h)) /\ {} \in SUBSET DOMAIN rows
            BY <1>2, <2>2 DEF CreateEntityByGuid
        <3>2. AppendQuery({g}, {}, {g})
            BY <1>2, <2>2 DEF CreateEntityByGuid
        <3> QED
            BY <2>1, <3>1, <3>2, InvAppendQuery
    <2>3. CASE matching # {}
        <3> DEFINE i == Min(matching)
                   r == [rows[i] EXCEPT !.entity = TRUE]
        <3>1. /\ rows \in Seq(Rows) /\ Len(rows) \in Nat /\ DOMAIN rows = 1..Len(rows)
              /\ matching \in SUBSET Nat
            BY DEF IInv, TypeOK, Live
        <3>2. i \in DOMAIN rows /\ ~rows[i].deleted /\ rows[i] \in Rows
            <4>1. i \in matching
                BY ONLY <2>3, <3>1, MinProperties
            <4> QED
                BY <3>1, <4>1 DEF Live
        <3>3. rows' = [rows EXCEPT ![i].entity = TRUE]
            BY <1>2, <2>3 DEF CreateEntityByGuid
        <3> HIDE DEF i
        <3>4. /\ r \in Rows /\ rows' = [rows EXCEPT ![i] = r]
              /\ r.guid = rows[i].guid /\ r.new = rows[i].new /\ r.deleted = rows[i].deleted
              /\ r.level = rows[i].level
            BY <3>1, <3>2, <3>3 DEF Rows
        <3> HIDE DEF r
        <3>5. /\ rows' \in Seq(Rows) /\ DOMAIN rows' = DOMAIN rows
              /\ \A j \in DOMAIN rows : rows'[j] = IF j = i THEN r ELSE rows[j]
            BY <3>1, <3>2, <3>4
        <3>6. TwiceIn(rows') = TwiceIn(rows)
            BY <3>4, <3>5 DEF TwiceIn
        <3>7. ASSUME NEW j \in DOMAIN rows' PROVE RowOK(j)'
            BY <2>1, <3>2, <3>4, <3>5, <3>6 DEF IInv, RowsInv, RowOK, Stored
        <3> QED
            BY <2>1, <3>5, <3>7, InvRows DEF IInv, TypeOK, RowsInv
    <2> QED
        BY <2>2, <2>3
<1> QED
    BY <1>1, <1>2

-----------------------------------------------------------------------------
(* CommitChanges: what is written for an instance is the value of one of its *)
(* rows, or nothing.                                                       *)

LEMMA WrittenValues ==
    ASSUME IInv, NEW g \in Guids, Writers(g) # {}
    PROVE  LET i == Max(Writers(g))
           IN  i \in DOMAIN rows /\ ~rows[i].deleted /\ rows[i].guid = g
<1>1. rows \in Seq(Rows) /\ Len(rows) \in Nat /\ DOMAIN rows = 1..Len(rows)
    BY DEF IInv, TypeOK
<1>2. /\ Writers(g) \in SUBSET (0..Len(rows))
      /\ \A i \in Writers(g) : i \in DOMAIN rows /\ ~rows[i].deleted /\ rows[i].guid = g
    BY <1>1 DEF Writers, Inserted, Updated, Live
<1>3. Max(Writers(g)) \in Writers(g)
    BY <1>1, <1>2, MaxProperties
<1> QED
    BY <1>2, <1>3

LEMMA InvCommitChanges ==
    ASSUME IInv, CommitChanges, committed' = TRUE
    PROVE  IInv'
<1> USE DEF IInv
<1>1. /\ level # NoLevel /\ halfway = <<>>
      /\ UNCHANGED <<listed, halfway, level, rows, rowsModified, deleted, unlisted>>
      /\ db' = [g \in Guids |-> IF Writers(g) = {} THEN db[g] ELSE Value(rows[Max(Writers(g))])]
    BY DEF CommitChanges, LevelInv
<1>2. ASSUME NEW g \in Guids
      PROVE  \/ db'[g] = db[g]
             \/ \E i \in DOMAIN rows :
                    ~rows[i].deleted /\ rows[i].guid = g /\ db'[g] = Value(rows[i])
    <2>1. CASE Writers(g) = {}
        BY <1>1, <2>1
    <2>2. CASE Writers(g) # {}
        BY <1>1, <2>2, WrittenValues
    <2> QED
        BY <2>1, <2>2
<1>3. \A i \in DOMAIN rows : /\ Value(rows[i]) \in Values /\ Value(rows[i]) # Absent
                             /\ Value(rows[i]).level = rows[i].level
    <2>1. \A i \in DOMAIN rows : rows[i] \in Rows
        BY DEF TypeOK
    <2>2. \A r \in Rows : Value(r) \in Values /\ Value(r).level = r.level
        BY DEF Value, Rows, Values
    <2> QED
        BY <2>1, <2>2, InstancesAssumption
<1>4. \A g \in Guids : Stored(g) => Stored(g)'
    BY <1>2, <1>3 DEF Stored
<1>5. DeletedStaysDeleted'
    BY <1>1, <1>2 DEF DeletedStaysDeleted, RowsInv, RowOK, Stored, TypeOK
<1>6. InListedLevels'
    BY <1>1, <1>2, <1>3 DEF InListedLevels, RowsInv, RowOK, Stored
<1>7. RowsInv'
    <2> SUFFICES ASSUME NEW i \in DOMAIN rows PROVE RowOK(i)'
        BY <1>1 DEF RowsInv
    <2>1. TwiceIn(rows)' = TwiceIn(rows)
        BY <1>1 DEF TwiceIn
    <2>2. rows[i].guid \in Guids
        <3>1. rows[i] \in Rows
            BY DEF TypeOK
        <3> QED
            BY <3>1 DEF Rows
    <2> QED
        BY <1>1, <1>4, <2>1, <2>2 DEF RowsInv, RowOK
<1>8. TypeOK'
    <2>1. db' \in [Guids -> Values \cup {Absent}]
        <3>1. \A g \in Guids : db'[g] \in Values \cup {Absent}
            BY <1>2, <1>3 DEF TypeOK
        <3> QED
            BY <1>1, <3>1
    <2> QED
        BY <1>1, <2>1 DEF TypeOK
<1> QED
    BY <1>1, <1>5, <1>6, <1>7, <1>8 DEF LevelInv, HalfwayInv

-----------------------------------------------------------------------------
(* Whole levels.                                                           *)

LEMMA InvRenameLevel ==
    ASSUME IInv, NEW l \in Levels, NEW to \in Levels, RenameLevel(l, to), committed' = FALSE
    PROVE  IInv'
<1> USE DEF IInv
<1>1. /\ level = NoLevel /\ halfway = <<>> /\ halfway' = <<"rename", l, to>>
      /\ UNCHANGED <<listed, level, rows, rowsModified, deleted, unlisted>>
      /\ db' = [g \in Guids |-> IF g \in InLevel(l) THEN [db[g] EXCEPT !.level = to] ELSE db[g]]
      /\ rows = <<>>
    BY DEF RenameLevel, EditInstances, LevelInv
<1>2. \A g \in InLevel(l) : g \in Guids /\ Stored(g) /\ db[g] \in Values
    BY DEF InLevel, Query, Stored, TypeOK
<1>3. \A v \in Values : /\ [v EXCEPT !.level = to] \in Values
                        /\ [v EXCEPT !.level = to].level = to
    BY DEF Values
<1>4. \A g \in Guids : /\ db'[g] \in Values \cup {Absent}
                       /\ Stored(g)' <=> Stored(g)
                       /\ Stored(g) => db'[g].level \in {to, db[g].level}
    BY <1>1, <1>2, <1>3, InstancesAssumption DEF Stored, TypeOK
<1>5. TypeOK'
    BY <1>1, <1>4 DEF TypeOK
<1>6. RowsInv' /\ LevelInv'
    BY <1>1 DEF RowsInv, LevelInv
<1>7. halfway'[1] = "rename" /\ halfway'[3] = to /\ halfway' # <<>>
    BY <1>1
<1>8. HalfwayInv'
    BY <1>1, <1>4, <1>7 DEF HalfwayInv, InListedLevels
<1> QED
    BY <1>1, <1>4, <1>5, <1>6, <1>7, <1>8 DEF InListedLevels, DeletedStaysDeleted, TypeOK

LEMMA InvDeleteLevel ==
    ASSUME IInv, NEW l \in Levels, DeleteLevel(l), committed' = FALSE
    PROVE  IInv'
<1> USE DEF IInv
<1>1. /\ level = NoLevel /\ halfway = <<>> /\ halfway' = <<"delete", l, l>>
      /\ UNCHANGED <<listed, level, rows, rowsModified, deleted, unlisted>>
      /\ db' = [g \in Guids |-> IF g \in InLevel(l) THEN Absent ELSE db[g]]
      /\ rows = <<>>
    BY DEF DeleteLevel, EditInstances, LevelInv
<1>2. \A g \in Guids : /\ db'[g] \in Values \cup {Absent}
                       /\ Stored(g)' => db'[g] = db[g] /\ Stored(g) /\ db'[g].level # l
    BY <1>1 DEF Stored, TypeOK, InLevel, Query
<1>3. TypeOK'
    BY <1>1, <1>2 DEF TypeOK
<1>4. RowsInv' /\ LevelInv'
    BY <1>1 DEF RowsInv, LevelInv
<1>5. halfway'[1] = "delete" /\ halfway'[2] = l /\ halfway'[3] = l /\ halfway' # <<>>
    BY <1>1
<1>6. HalfwayInv'
    BY <1>1, <1>2, <1>5 DEF HalfwayInv, InListedLevels
<1> QED
    BY <1>1, <1>2, <1>3, <1>4, <1>5, <1>6 DEF InListedLevels, DeletedStaysDeleted, TypeOK

LEMMA InvDuplicateLevel ==
    ASSUME IInv, NEW l \in Levels, NEW to \in Levels, DuplicateLevel(l, to), committed' = FALSE
    PROVE  IInv'
<1> USE DEF IInv
<1> DEFINE orig == InLevel(l)
<1>1. /\ level = NoLevel /\ halfway = <<>> /\ halfway' = <<"duplicate", l, to>>
      /\ UNCHANGED <<listed, level, rows, rowsModified, deleted, unlisted>>
      /\ rows = <<>>
    BY DEF DuplicateLevel, EditInstances, LevelInv
<1>2. PICK fresh \in SUBSET Fresh :
        /\ Cardinality(fresh) = Cardinality(orig)
        /\ db' = [g \in Guids |->
                    IF g \in fresh
                    THEN LET k == CHOOSE k \in DOMAIN SetToSeq(fresh) : SetToSeq(fresh)[k] = g
                         IN  [db[SetToSeq(orig)[k]] EXCEPT !.level = to]
                    ELSE db[g]]
    BY DEF DuplicateLevel
<1>3. /\ orig \in SUBSET Guids /\ fresh \in SUBSET Guids
      /\ \A g \in orig : db[g] \in Values
      /\ \A g \in fresh : ~Stored(g) /\ g \notin deleted
    BY DEF InLevel, Query, Stored, TypeOK, Fresh
<1>4. IsFiniteSet(orig) /\ IsFiniteSet(fresh)
    BY <1>3, InstancesAssumption, FS_Subset
<1> HIDE DEF orig
<1>5. /\ SetToSeq(orig) \in [1..Cardinality(orig) -> orig]
      /\ SetToSeq(fresh) \in [1..Cardinality(orig) -> fresh]
      /\ \A x \in fresh : \E i \in 1..Cardinality(orig) : SetToSeq(fresh)[i] = x
    BY ONLY <1>2, <1>4, SetToSeqProperties
<1>6. ASSUME NEW g \in fresh
      PROVE  db'[g] \in Values /\ db'[g].level = to
    <2> DEFINE k == CHOOSE k \in DOMAIN SetToSeq(fresh) : SetToSeq(fresh)[k] = g
    <2>1. k \in 1..Cardinality(orig)
        BY <1>5
    <2>2. db'[g] = [db[SetToSeq(orig)[k]] EXCEPT !.level = to]
        BY <1>2, <1>3
    <2> HIDE DEF k
    <2>3. db[SetToSeq(orig)[k]] \in Values
        BY <1>3, <1>5, <2>1
    <2> QED
        BY <2>2, <2>3 DEF Values
<1>7. \A g \in Guids \ fresh : db'[g] = db[g]
    BY <1>2
<1>8. db' \in [Guids -> Values \cup {Absent}]
    <2>1. \A g \in Guids : db'[g] \in Values \cup {Absent}
        BY <1>6, <1>7 DEF TypeOK
    <2> QED
        BY <1>2, <2>1
<1>9. TypeOK'
    BY <1>1, <1>8 DEF TypeOK
<1>10. RowsInv' /\ LevelInv'
    BY <1>1 DEF RowsInv, LevelInv
<1>11. halfway'[1] = "duplicate" /\ halfway'[3] = to /\ halfway' # <<>>
    BY <1>1
<1>12. ASSUME NEW g \in Guids, Stored(g)'
       PROVE  db'[g].level = to \/ (Stored(g) /\ db'[g].level = db[g].level)
    <2>1. CASE g \in fresh
        BY <1>6, <2>1
    <2>2. CASE g \notin fresh
        BY <1>7, <1>12, <2>2 DEF Stored
    <2> QED
        BY <2>1, <2>2
<1>13. HalfwayInv'
    BY <1>1, <1>11, <1>12 DEF HalfwayInv, InListedLevels
<1>14. DeletedStaysDeleted'
    BY <1>1, <1>3, <1>7 DEF DeletedStaysDeleted, Stored, TypeOK
<1> QED
    BY <1>1, <1>9, <1>10, <1>11, <1>13, <1>14 DEF InListedLevels

\* The second half, and what is left when it never comes.
LEMMA InvSecondHalf ==
    ASSUME IInv, EditEntry \/ Crash, committed' = FALSE
    PROVE  IInv'
<1> USE DEF IInv
<1>1. /\ halfway # <<>> /\ halfway' = <<>> /\ level = NoLevel /\ rows = <<>>
      /\ UNCHANGED <<db, level, rows, rowsModified, deleted>>
    BY DEF EditEntry, Crash, LevelInv
<1>2. /\ halfway[1] \in {"rename", "duplicate", "delete"}
      /\ halfway[2] \in Levels /\ halfway[3] \in Levels
    BY <1>1 DEF TypeOK
<1>3. /\ listed' \subseteq Levels /\ unlisted' \subseteq Levels
      /\ \A g \in Guids : Stored(g) => db[g].level \in listed' \cup unlisted'
    <2>1. CASE EditEntry
        <3>1. CASE halfway[1] = "delete"
            <4>1. listed' = listed \ {halfway[2]}
                BY <2>1, <3>1 DEF EditEntry
            <4>2. unlisted' = unlisted
                BY <2>1, <3>1 DEF EditEntry
            <4>3. halfway[2] = halfway[3]
                BY <1>1, <3>1 DEF HalfwayInv
            <4> QED
                BY <1>1, <3>1, <4>1, <4>2, <4>3 DEF TypeOK, HalfwayInv
        <3>2. CASE halfway[1] = "rename"
            BY <1>1, <1>2, <2>1, <3>2 DEF EditEntry, TypeOK, HalfwayInv
        <3>3. CASE halfway[1] = "duplicate"
            BY <1>1, <1>2, <2>1, <3>3 DEF EditEntry, TypeOK, HalfwayInv
        <3> QED
            BY <1>2, <3>1, <3>2, <3>3
    <2>2. CASE Crash
        BY <1>1, <1>2, <2>2 DEF Crash, TypeOK, HalfwayInv
    <2> QED
        BY <2>1, <2>2
<1>4. TypeOK' /\ InListedLevels'
    BY <1>1, <1>3 DEF TypeOK, InListedLevels, Stored
<1> QED
    BY <1>1, <1>4 DEF RowsInv, LevelInv, HalfwayInv, DeletedStaysDeleted, Stored

-----------------------------------------------------------------------------
(* The theorems.                                                           *)

LEMMA InvCreate ==
    ASSUME IInv, committed' = FALSE,
           \/ \E g \in Guids, n \in Numbers : CreateInstance(g, n)
           \/ \E i \in DOMAIN rows, g \in Guids : CloneInstance(i, g)
    PROVE  IInv'
<1> USE DEF IInv
<1>1. ASSUME NEW g \in Guids, NEW n \in Numbers, CreateInstance(g, n)
      PROVE  IInv'
    <2> DEFINE v == [level |-> level, num |-> n]
    <2>1. /\ level # NoLevel /\ AddRow(g, v) /\ v \in Values
          /\ v.level \in listed \cup unlisted
        BY <1>1 DEF CreateInstance, TypeOK, LevelInv, Values
    <2> HIDE DEF v
    <2> QED
        BY <2>1, InvAddRow
<1>2. ASSUME NEW i \in DOMAIN rows, NEW g \in Guids, CloneInstance(i, g)
      PROVE  IInv'
    <2> DEFINE v == Value(rows[i])
    <2>1. rows \in Seq(Rows) /\ rows[i] \in Rows
        BY DEF TypeOK
    <2>2. level # NoLevel
        <3>1. rows # <<>>
            BY <2>1, EmptySeq
        <3> QED
            BY <3>1 DEF LevelInv
    <2>3. /\ AddRow(g, v) /\ v \in Values /\ v.level \in listed \cup unlisted
        BY <1>2, <2>1 DEF CloneInstance, RowsInv, RowOK, Value, Values, Rows
    <2> HIDE DEF v
    <2> QED
        BY <2>2, <2>3, InvAddRow
<1> QED
    BY <1>1, <1>2

LEMMA Initially == Init => IInv
<1> SUFFICES ASSUME Init PROVE IInv
    OBVIOUS
<1>1. DOMAIN rows = {} /\ rows \in Seq(Rows)
    BY DEF Init
<1>2. \A g \in Guids : Stored(g) => db[g].level \in listed
    BY InstancesAssumption DEF Init, Stored, Values
<1> QED
    BY <1>1, <1>2, InstancesAssumption
    DEF Init, IInv, TypeOK, InListedLevels, DeletedStaysDeleted, LevelInv, RowsInv, HalfwayInv

LEMMA NextKeepsIInv == IInv /\ [Next]_vars => IInv'
<1> SUFFICES ASSUME IInv, [Next]_vars PROVE IInv'
    OBVIOUS
<1>1. CASE UNCHANGED vars
    BY <1>1 DEF vars, IInv, TypeOK, InListedLevels, DeletedStaysDeleted, LevelInv, RowsInv,
        HalfwayInv, RowOK, Stored, TwiceIn
<1>2. CASE CommitChanges /\ committed' = TRUE
    BY <1>2, InvCommitChanges
<1>3. CASE Step /\ committed' = FALSE
    BY <1>3, InvLoadLevel, InvDeleteLevel, InvRenameLevel, InvDuplicateLevel, InvSecondHalf,
        InvLeave, InvCreate, InvSetters, InvDeleteInstance, InvLookups DEF Step
<1> QED
    BY <1>1, <1>2, <1>3 DEF Next

LEMMA Inductive == Spec => []IInv
    BY Initially, NextKeepsIInv, PTL DEF Spec

\* Rows, levels and the database stay in their domains, and what no rename and
\* no operation cut short has moved is in a level that can be loaded.
THEOREM EveryInstanceLoadable == Spec => []Consistent
<1>1. IInv => Consistent
    BY DEF IInv, Consistent
<1> QED
    BY <1>1, Inductive, PTL

\* A deleted instance never comes back into the database.
THEOREM DeletedForGood == Spec => []DeletedStaysDeleted
<1>1. IInv => DeletedStaysDeleted
    BY DEF IInv
<1> QED
    BY <1>1, Inductive, PTL

\* A commit leaves the database as the rows say, once a row was added or a
\* string set.
THEOREM CommitBringsUpToDate == Spec => []CommitWritesRows
<1>1. Init => CommitWritesRows
    BY DEF Init, CommitWritesRows
<1>2. IInv /\ CommitWritesRows /\ [Next]_vars => CommitWritesRows'
    <2> SUFFICES ASSUME IInv, CommitWritesRows, [Next]_vars PROVE CommitWritesRows'
        OBVIOUS
    <2>1. CASE UNCHANGED vars
        BY <2>1 DEF vars, CommitWritesRows, Live, TwiceIn, Current, Value
    <2>2. CASE Step /\ committed' = FALSE
        BY <2>2 DEF CommitWritesRows
    <2>3. CASE CommitChanges /\ committed' = TRUE
        <3> SUFFICES ASSUME rowsModified', NEW i \in Live', rows'[i].guid \notin TwiceIn(rows')
                     PROVE  Current(i)'
            BY DEF CommitWritesRows
        <3>1. /\ UNCHANGED <<rows, rowsModified>>
              /\ db' = [g \in Guids |-> IF Writers(g) = {} THEN db[g] ELSE Value(rows[Max(Writers(g))])]
            BY <2>3 DEF CommitChanges
        <3>2. /\ i \in Live /\ i \in DOMAIN rows /\ ~rows[i].deleted /\ rowsModified
              /\ rows[i].guid \notin TwiceIn(rows)
            BY <3>1 DEF Live
        <3> DEFINE g == rows[i].guid
        <3>3. g \in Guids /\ rows[i] \in Rows
            <4>1. rows[i] \in Rows
                BY <3>2 DEF IInv, TypeOK
            <4> QED
                BY <4>1 DEF Rows
        <3>4. \A j \in DOMAIN rows : rows[j].guid = g => j = i
            BY <3>2, <3>3 DEF TwiceIn
        <3>5. i \in Inserted \cup Updated
            <4>1. CASE rows[i].new
                BY <3>2, <4>1 DEF Inserted
            <4>2. CASE ~rows[i].new
                BY <3>2, <4>2 DEF Updated, IInv, RowsInv, RowOK
            <4> QED
                BY <4>1, <4>2
        <3>6. Writers(g) = {i}
            BY <3>4, <3>5 DEF Writers, Inserted, Updated, Live
        <3>7. i \in Nat
            <4>1. rows \in Seq(Rows)
                BY DEF IInv, TypeOK
            <4> QED
                BY <3>2, <4>1
        <3>8. Max(Writers(g)) = i
            BY <3>6, <3>7 DEF Max
        <3> HIDE DEF g
        <3>9. db'[g] = Value(rows[i])
            BY <3>1, <3>3, <3>6, <3>8
        <3> QED
            BY <3>1, <3>9 DEF Current, Value, g
    <2> QED
        BY <2>1, <2>2, <2>3 DEF Next
<1> QED
    BY <1>1, <1>2, Inductive, PTL DEF Spec

\* Rows whose Guids stay are no second rows.
LEMMA SameGuids ==
    ASSUME IInv, NEW i \in DOMAIN rows, NEW r, rows' = [rows EXCEPT ![i] = r],
           r.guid = rows[i].guid
    PROVE  TwiceIn(rows') = TwiceIn(rows)
<1>1. DOMAIN rows' = DOMAIN rows /\ \A j \in DOMAIN rows : rows'[j].guid = rows[j].guid
    BY DEF IInv, TypeOK
<1> QED
    BY <1>1 DEF TwiceIn

\* Where a lookup may give an instance a second row: the query finds it because
\* its row, that no longer has the value, was not committed.
LEMMA SecondRow ==
    ASSUME IInv, NEW guids \in SUBSET Guids, \A g \in guids : Stored(g),
           NEW matching \in SUBSET DOMAIN rows, NEW entities,
           AppendQuery(guids, matching, entities),
           NEW g \in TwiceIn(rows') \ TwiceIn(rows)
    PROVE  \E i \in Live \ matching : rows[i].guid = g /\ g \in guids
<1>1. /\ \A i \in DOMAIN rows : rows'[i] = rows[i]
      /\ \A i \in DOMAIN rows' \ DOMAIN rows :
            rows'[i].guid \in guids \ {rows[j].guid : j \in matching}
      /\ \A i, j \in DOMAIN rows' \ DOMAIN rows : rows'[i].guid = rows'[j].guid => i = j
    BY AppendQueryProperties
<1>2. PICK i \in DOMAIN rows', j \in DOMAIN rows' : i # j /\ rows'[i].guid = g /\ rows'[j].guid = g
    BY DEF TwiceIn
<1>3. PICK old \in DOMAIN rows, new \in DOMAIN rows' \ DOMAIN rows :
        rows[old].guid = g /\ rows'[new].guid = g
    <2>1. ~(i \in DOMAIN rows /\ j \in DOMAIN rows)
        BY <1>1, <1>2 DEF TwiceIn
    <2>2. i \in DOMAIN rows \/ j \in DOMAIN rows
        BY <1>1, <1>2
    <2> QED
        BY <1>1, <1>2, <2>1, <2>2
<1>4. g \in guids /\ old \notin matching
    BY <1>1, <1>3
<1>5. ~rows[old].deleted
    BY <1>3, <1>4 DEF IInv, RowsInv, RowOK, DeletedStaysDeleted
<1> QED
    BY <1>3, <1>4, <1>5 DEF Live

\* A lookup gives an instance a second row only where the game has changed the
\* attribute it looks for and not committed it.
THEOREM NoSecondLoad == Spec => LoadedOnce
<1> DEFINE Once == \A g \in TwiceIn(rows') \ TwiceIn(rows) :
                        \E i \in Live : rows[i].guid = g /\ Value(rows[i]) # db[g]
<1>1. IInv /\ [Next]_vars => [Once]_vars
    <2> SUFFICES ASSUME IInv, Next PROVE Once
        BY DEF vars
    <2>1. CASE \E a, v : GetInstancesByAttr(a, v) /\ (a = "num" \/ a = "level")
        <3>1. PICK a, v : GetInstancesByAttr(a, v) /\ (a = "num" \/ a = "level")
            BY <2>1
        <3> DEFINE guids == Query(a, v)
                   matching == {i \in Live : rows[i][a] = v}
        <3>2. /\ guids \in SUBSET Guids /\ \A g \in guids : Stored(g) /\ db[g][a] = v
              /\ matching \in SUBSET DOMAIN rows /\ AppendQuery(guids, matching, {})
            BY <3>1 DEF GetInstancesByAttr, Query, Live
        <3>3. \A i \in Live : i \notin matching => rows[i][a] # v
            OBVIOUS
        <3> HIDE DEF guids, matching
        <3>4. ASSUME NEW g \in TwiceIn(rows') \ TwiceIn(rows)
              PROVE  \E i \in Live : rows[i].guid = g /\ Value(rows[i]) # db[g]
            <4>1. PICK i \in Live : i \notin matching /\ rows[i].guid = g /\ g \in guids
                BY <3>2, SecondRow
            <4>2. rows[i][a] # db[g][a]
                BY <3>2, <3>3, <4>1
            <4>3. Value(rows[i]).num = rows[i].num /\ Value(rows[i]).level = rows[i].level
                BY DEF Value
            <4> QED
                BY <3>1, <4>1, <4>2, <4>3
        <3> QED
            BY <3>4
    <2>2. CASE \E g \in Guids : CreateEntityByGuid(g)
        <3>1. PICK h \in Guids : CreateEntityByGuid(h)
            BY <2>2
        <3> DEFINE matching == {i \in Live : rows[i].guid = h}
        <3>2. CASE matching = {}
            <4>1. AppendQuery({h}, {}, {h}) /\ {h} \in SUBSET Guids /\ \A g \in {h} : Stored(g)
                BY <3>1, <3>2 DEF CreateEntityByGuid
            <4>2. ASSUME NEW g \in TwiceIn(rows') \ TwiceIn(rows) PROVE FALSE
                <5>1. {} \in SUBSET DOMAIN rows
                    OBVIOUS
                <5>2. PICK i \in Live : rows[i].guid = g /\ g \in {h}
                    BY <4>1, <5>1, SecondRow
                <5> QED
                    BY <3>2, <5>2
            <4> QED
                BY <4>2
        <3>3. CASE matching # {}
            <4> DEFINE i == Min(matching)
            <4>1. matching \in SUBSET Nat /\ matching \subseteq DOMAIN rows /\ rows \in Seq(Rows)
                BY DEF IInv, TypeOK, Live
            <4>2. i \in matching
                BY ONLY <3>3, <4>1, MinProperties
            <4>3. i \in DOMAIN rows /\ rows[i] \in Rows /\ rows' = [rows EXCEPT ![i].entity = TRUE]
                BY <3>1, <3>3, <4>1, <4>2 DEF CreateEntityByGuid
            <4> HIDE DEF i
            <4> DEFINE r == [rows[i] EXCEPT !.entity = TRUE]
            <4>4. rows' = [rows EXCEPT ![i] = r] /\ r.guid = rows[i].guid
                BY <4>3 DEF Rows
            <4> HIDE DEF r
            <4> QED
                BY <4>3, <4>4, SameGuids
        <3> QED
            BY <3>2, <3>3
    <2>3. ASSUME NEW i \in DOMAIN rows,
                 \/ \E n \in Numbers : SetInt(i, n)
                 \/ \E l \in Levels : SetString(i, l)
                 \/ RemoveEntity(i) \/ DeleteInstance(i)
          PROVE  Once
        <3>1. rows[i] \in Rows
            BY DEF IInv, TypeOK
        <3>2. ASSUME NEW n, SetInt(i, n) PROVE Once
            <4> DEFINE r == [rows[i] EXCEPT !.num = n]
            <4>1. rows' = [rows EXCEPT ![i] = r] /\ r.guid = rows[i].guid
                BY <3>1, <3>2 DEF SetInt, Rows
            <4> HIDE DEF r
            <4> QED
                BY <4>1, SameGuids
        <3>3. ASSUME NEW l, SetString(i, l) PROVE Once
            <4> DEFINE r == [rows[i] EXCEPT !.level = l]
            <4>1. rows' = [rows EXCEPT ![i] = r] /\ r.guid = rows[i].guid
                BY <3>1, <3>3 DEF SetString, Rows
            <4> HIDE DEF r
            <4> QED
                BY <4>1, SameGuids
        <3>4. CASE RemoveEntity(i)
            <4> DEFINE r == [rows[i] EXCEPT !.entity = FALSE]
            <4>1. rows' = [rows EXCEPT ![i] = r] /\ r.guid = rows[i].guid
                BY <3>1, <3>4 DEF RemoveEntity, Rows
            <4> HIDE DEF r
            <4> QED
                BY <4>1, SameGuids
        <3>5. CASE DeleteInstance(i)
            <4> DEFINE r == [rows[i] EXCEPT !.entity = FALSE, !.deleted = TRUE]
            <4>1. rows' = [rows EXCEPT ![i] = r] /\ r.guid = rows[i].guid
                BY <3>1, <3>5 DEF DeleteInstance, Rows
            <4> HIDE DEF r
            <4> QED
                BY <4>1, SameGuids
        <3> QED
            BY <2>3, <3>2, <3>3, <3>4, <3>5
    <2>4. ASSUME NEW g, NEW v, AddRow(g, v) PROVE Once
        <3> DEFINE r == Row(g, v, TRUE, TRUE)
        <3>1. /\ rows' = Append(rows, r) /\ \A j \in DOMAIN rows : rows[j].guid # g
              /\ rows \in Seq(Rows) /\ r.guid = g
            BY <2>4 DEF AddRow, Fresh, IInv, TypeOK, Row
        <3> HIDE DEF r
        <3>2. /\ Len(rows) \in Nat /\ DOMAIN rows = 1..Len(rows) /\ DOMAIN rows' = 1..(Len(rows) + 1)
              /\ \A j \in DOMAIN rows : rows'[j] = rows[j]
              /\ rows'[Len(rows) + 1] = r
            BY <3>1
        <3>3. TwiceIn(rows') \subseteq TwiceIn(rows)
            BY <3>1, <3>2 DEF TwiceIn
        <3> QED
            BY <3>3
    <2>5. ASSUME NEW l, LoadLevel(l) PROVE Once
        <3> DEFINE found == InLevel(l)
        <3>1. /\ found \in SUBSET Guids /\ \A g \in found : Stored(g)
              /\ \E entities \in SUBSET found : rows' = ReadRows(found, entities)
            BY <2>5 DEF LoadLevel, InLevel, Query
        <3> HIDE DEF found
        <3>2. PICK entities : rows' = ReadRows(found, entities)
            BY <3>1
        <3> DEFINE read == ReadRows(found, entities)
        <3>3. TypeOK /\ rows' = read
            BY <3>2 DEF IInv
        <3>4. /\ read \in Seq(Rows) /\ Len(read) = Cardinality(found)
              /\ \A j, k \in 1..Cardinality(found) : read[j].guid = read[k].guid => j = k
            BY ONLY <3>1, <3>3, ReadRowsProperties
        <3> HIDE DEF read
        <3>5. TwiceIn(rows') = {}
            BY <3>3, <3>4 DEF TwiceIn
        <3> QED
            BY <3>5
    <2>6. CASE UNCHANGED rows \/ rows' = <<>>
        BY <2>6 DEF TwiceIn
    <2> QED
        BY <2>1, <2>2, <2>3, <2>4, <2>5, <2>6
        DEF Next, Step, CommitChanges, CreateInstance, CloneInstance, Leave, EditEntry, Crash,
            RenameLevel, DuplicateLevel, DeleteLevel, EditInstances
<1> QED
    BY <1>1, Inductive, PTL DEF Spec, LoadedOnce
=============================================================================
