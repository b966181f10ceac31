------------------------------ MODULE Instances ------------------------------
(***************************************************************************)
(* The instances of the game world between memory and database:            *)
(* CategoryManager, the value table (Attr::AttributeTable) of an instance  *)
(* dataset, and Db::Sqlite3Table, which writes the table back.             *)
(*                                                                         *)
(* One category stands for all of them.  An instance has a Guid, its       *)
(* primary key, a _Level (a string) and an integer attribute.  Setters of  *)
(* strings, float4s, matrices, guids and blobs behave like the one of      *)
(* _Level, setters of bools and floats like the one of the integer.        *)
(*                                                                         *)
(* A row is flagged as new while its index is in newRowIndices.  Its       *)
(* modified flag is not modelled: reading a row from the database sets it  *)
(* too, because SetInt flags the row although tracking is off, and nothing *)
(* the game calls resets it, so every row has it.                          *)
(***************************************************************************)
EXTENDS Naturals, SequencesExt

CONSTANTS
    Guids,              \* the Guids of instances, stored or still to be generated
    Levels,             \* the level names
    Numbers,            \* the values of the integer attribute
    Absent,             \* no instance with that Guid in the table
    NoLevel,            \* no level is loaded
    GameDb,             \* the instance table the game is shipped with
    MaxRows             \* bound: rows of the value table

Values == [level : Levels, num : Numbers]

ASSUME InstancesAssumption ==
    /\ IsFiniteSet(Guids) /\ NoLevel \notin Levels /\ Absent \notin Values
    /\ GameDb \in [Guids -> Values \cup {Absent}]
    /\ MaxRows \in Nat

VARIABLES
    db,                 \* the instance table of the game database
    listed,             \* the levels in its table _Instance_Levels
    halfway,            \* a level operation between its two tables, or <<>>
    level,              \* the loaded level
    rows,               \* the rows of the instance dataset's value table
    rowsModified,       \* AttributeTable::rowsModified
    deleted,            \* history: the instances deleted while they had one row
    unlisted,           \* history: names given by a rename or an operation cut short
    committed           \* history: the last step was a commit

vars == <<db, listed, halfway, level, rows, rowsModified, deleted, unlisted, committed>>

Stored(g) == db[g] # Absent
Value(r) == [level |-> r.level, num |-> r.num]
Current(i) == db[rows[i].guid] = Value(rows[i])

\* A row of instance g with value v; entity says whether its user data points
\* to an active entity.
Row(g, v, new, entity) ==
    [guid |-> g, level |-> v.level, num |-> v.num, new |-> new,
     deleted |-> FALSE, entity |-> entity]
Rows == [guid : Guids, level : Levels, num : Numbers, new : BOOLEAN,
         deleted : BOOLEAN, entity : BOOLEAN]

Live == {i \in DOMAIN rows : ~rows[i].deleted}
TwiceIn(rs) == {g \in Guids : \E i, j \in DOMAIN rs : i # j /\ rs[i].guid = g /\ rs[j].guid = g}

\* What Guid::Generate may return.
Fresh == {g \in Guids : ~Stored(g) /\ g \notin deleted /\ \A i \in DOMAIN rows : rows[i].guid # g}

\* The stored instances whose attribute a is v.
Query(a, v) == {g \in Guids : Stored(g) /\ db[g][a] = v}
InLevel(l) == Query("level", l)

\* The instances in guids as rows read from the database.
ReadRows(guids, entities) ==
    [k \in 1..Cardinality(guids) |->
        LET g == SetToSeq(guids)[k] IN Row(g, db[g], FALSE, g \in entities)]

Init ==
    /\ db = GameDb
    /\ listed = {l \in Levels : \E g \in Guids : Stored(g) /\ db[g].level = l}
    /\ halfway = <<>> /\ level = NoLevel /\ rows = <<>> /\ rowsModified = FALSE
    /\ deleted = {} /\ unlisted = {} /\ committed = FALSE

-----------------------------------------------------------------------------
(* The game at play.                                                       *)

\* LoadInstances and EntityLoader::Load: every instance of the level gets a
\* row, those of an active layer an entity.
LoadLevel(l) ==
    /\ level = NoLevel /\ halfway = <<>> /\ l \in listed
    /\ level' = l
    /\ \E entities \in SUBSET InLevel(l) : rows' = ReadRows(InLevel(l), entities)
    /\ rowsModified' = FALSE
    /\ UNCHANGED <<db, listed, halfway, deleted, unlisted>>

\* The world is cleaned up without a commit, or the process dies.
Leave ==
    /\ level # NoLevel
    /\ level' = NoLevel /\ rows' = <<>> /\ rowsModified' = FALSE
    /\ UNCHANGED <<db, listed, halfway, deleted, unlisted>>

AddRow(g, v) ==
    /\ Len(rows) < MaxRows
    /\ g \in Fresh
    /\ rows' = Append(rows, Row(g, v, TRUE, TRUE))
    /\ rowsModified' = TRUE
    /\ UNCHANGED <<db, listed, halfway, level, deleted, unlisted>>

\* CreateEntityByTemplate and CreateEntityByAttrs: the current level.
CreateInstance(g, n) == level # NoLevel /\ AddRow(g, [level |-> level, num |-> n])

\* CreateEntityByEntity: the level of the original.
CloneInstance(i, g) == rows[i].entity /\ AddRow(g, Value(rows[i]))

\* Entity::SetInt: the row is flagged but rowsModified is not set.
SetInt(i, n) ==
    /\ rows[i].entity /\ n # rows[i].num
    /\ rows' = [rows EXCEPT ![i].num = n]
    /\ UNCHANGED <<db, listed, halfway, level, rowsModified, deleted, unlisted>>

\* Entity::SetString, here of _Level.
SetString(i, l) ==
    /\ rows[i].entity /\ l \in listed \ {rows[i].level}
    /\ rows' = [rows EXCEPT ![i].level = l]
    /\ rowsModified' = TRUE
    /\ UNCHANGED <<db, listed, halfway, level, deleted, unlisted>>

\* RemoveEntity: the row stays.
RemoveEntity(i) ==
    /\ rows[i].entity
    /\ rows' = [rows EXCEPT ![i].entity = FALSE]
    /\ UNCHANGED <<db, listed, halfway, level, rowsModified, deleted, unlisted>>

\* DeleteEntity: DeleteInstance flags the row and CommitDeletedRows executes
\* the DELETE at once.
DeleteInstance(i) ==
    /\ rows[i].entity
    /\ rows' = [rows EXCEPT ![i].entity = FALSE, ![i].deleted = TRUE]
    /\ db' = [db EXCEPT ![rows[i].guid] = Absent]
    /\ deleted' = deleted \cup ({rows[i].guid} \ TwiceIn(rows))
    /\ UNCHANGED <<listed, halfway, level, rowsModified, unlisted>>

-----------------------------------------------------------------------------
(* Looking for instances, in memory first and then in the database.        *)

\* Rows for the instances the query finds and the table has no match for.
AppendQuery(guids, matching, entities) ==
    LET found == guids \ {rows[i].guid : i \in matching}
    IN  /\ Len(rows) + Cardinality(found) <= MaxRows
        /\ rows' = rows \o ReadRows(found, entities)

\* Mutant: what is loaded already is not taken out of the query.
GetInstancesByAttr_NoFilter(a, v) ==
    /\ level # NoLevel
    /\ AppendQuery(Query(a, v), {}, {})
    /\ UNCHANGED <<db, listed, halfway, level, rowsModified, deleted, unlisted>>

\* GetEntitiesByAttr: all instances whose attribute a is v.  What the database
\* has in other levels gets a row but no entity.
GetInstancesByAttr(a, v) ==
    /\ level # NoLevel
    /\ AppendQuery(Query(a, v), {i \in Live : rows[i][a] = v}, {})
    /\ UNCHANGED <<db, listed, halfway, level, rowsModified, deleted, unlisted>>

\* CreateEntityByGuid, for an instance that has no entity.
CreateEntityByGuid(g) ==
    LET matching == {i \in Live : rows[i].guid = g}
    IN  /\ level # NoLevel
        /\ \A i \in matching : ~rows[i].entity
        /\ IF matching = {} THEN Stored(g) /\ AppendQuery({g}, {}, {g})
           ELSE rows' = [rows EXCEPT ![Min(matching)].entity = TRUE]
        /\ UNCHANGED <<db, listed, halfway, level, rowsModified, deleted, unlisted>>

-----------------------------------------------------------------------------
(* CommitChanges: an INSERT (OR REPLACE) for each new row, which stays new, *)
(* then an UPDATE for each other row if the table has modified rows.        *)

\* Mutant: deleted rows are inserted as well.
Inserted_Deleted == {i \in DOMAIN rows : rows[i].new}
Inserted == {i \in Live : rows[i].new}

\* Mutant: only new rows are updated.
Updated_NewOnly ==
    IF rowsModified THEN {i \in Live : rows[i].new} ELSE {}
Updated ==
    IF ~rowsModified THEN {}
    ELSE {i \in Live : ~rows[i].new /\ (Stored(rows[i].guid) \/
                                        \E j \in Inserted : rows[j].guid = rows[i].guid)}

\* The last row written for instance g wins; the INSERTs come first, and a row
\* read later than a new one has a higher index.
Writers(g) == {i \in Inserted \cup Updated : rows[i].guid = g}

CommitChanges ==
    /\ level # NoLevel
    /\ db' = [g \in Guids |-> IF Writers(g) = {} THEN db[g] ELSE Value(rows[Max(Writers(g))])]
    /\ UNCHANGED <<listed, halfway, level, rows, rowsModified, deleted, unlisted>>

-----------------------------------------------------------------------------
(* Whole levels, as a tool edits them while no level is loaded.  Each works *)
(* on a dataset of its own and commits the instances in one transaction;    *)
(* the entry in _Instance_Levels follows in another.                        *)

EditInstances(op, l, to) ==
    /\ level = NoLevel /\ halfway = <<>>
    /\ halfway' = <<op, l, to>>
    /\ UNCHANGED <<listed, level, rows, rowsModified, deleted, unlisted>>

RenameLevel(l, to) ==
    /\ l \in listed /\ to \notin listed
    /\ db' = [g \in Guids |-> IF g \in InLevel(l) THEN [db[g] EXCEPT !.level = to] ELSE db[g]]
    /\ EditInstances("rename", l, to)

\* Every copy gets a new Guid.
DuplicateLevel(l, to) ==
    /\ l \in listed /\ to \notin listed
    /\ \E fresh \in SUBSET Fresh :
        /\ Cardinality(fresh) = Cardinality(InLevel(l))
        /\ db' = [g \in Guids |->
                    IF g \in fresh
                    THEN LET k == CHOOSE k \in DOMAIN SetToSeq(fresh) : SetToSeq(fresh)[k] = g
                         IN  [db[SetToSeq(InLevel(l))[k]] EXCEPT !.level = to]
                    ELSE db[g]]
    /\ EditInstances("duplicate", l, to)

DeleteLevel(l) ==
    /\ l \in listed
    /\ db' = [g \in Guids |-> IF g \in InLevel(l) THEN Absent ELSE db[g]]
    /\ EditInstances("delete", l, l)

\* Mutant: the copied entry keeps the name of the original.
EditEntry_SameName ==
    /\ halfway # <<>>
    /\ listed' = IF halfway[1] = "delete" THEN listed \ {halfway[2]} ELSE listed
    /\ unlisted' = unlisted \cup (IF halfway[1] = "rename" THEN {halfway[3]} ELSE {})
    /\ halfway' = <<>>
    /\ UNCHANGED <<db, level, rows, rowsModified, deleted>>

\* The second half of each: the entry of the level.  Its Id is the primary key,
\* so the UPDATE of a renamed entry looks for the new name and finds no row.
EditEntry ==
    /\ halfway # <<>>
    /\ listed' = CASE halfway[1] = "delete" -> listed \ {halfway[2]}
                   [] halfway[1] = "rename" -> listed
                   [] OTHER -> listed \cup {halfway[3]}
    /\ unlisted' = unlisted \cup (IF halfway[1] = "rename" THEN {halfway[3]} ELSE {})
    /\ halfway' = <<>>
    /\ UNCHANGED <<db, level, rows, rowsModified, deleted>>

\* The tool dies between the two tables.
Crash ==
    /\ halfway # <<>>
    /\ halfway' = <<>> /\ unlisted' = unlisted \cup ({halfway[3]} \ listed)
    /\ UNCHANGED <<db, listed, level, rows, rowsModified, deleted>>

Step ==
    \/ \E l \in Levels : LoadLevel(l) \/ DeleteLevel(l)
    \/ \E l, to \in Levels : RenameLevel(l, to) \/ DuplicateLevel(l, to)
    \/ EditEntry \/ Crash \/ Leave
    \/ \E g \in Guids, n \in Numbers : CreateInstance(g, n)
    \/ \E i \in DOMAIN rows :
        \/ \E g \in Guids : CloneInstance(i, g)
        \/ \E n \in Numbers : SetInt(i, n)
        \/ \E l \in Levels : SetString(i, l)
        \/ RemoveEntity(i) \/ DeleteInstance(i)
    \/ \E n \in Numbers : GetInstancesByAttr("num", n)
    \/ \E l \in Levels : GetInstancesByAttr("level", l)
    \/ \E g \in Guids : CreateEntityByGuid(g)

Next ==
    \/ CommitChanges /\ committed' = TRUE
    \/ Step /\ committed' = FALSE

Spec == Init /\ [][Next]_vars

-----------------------------------------------------------------------------
(* Properties.                                                             *)

\* Every variable stays in its domain.
TypeOK ==
    /\ db \in [Guids -> Values \cup {Absent}]
    /\ listed \subseteq Levels
    /\ halfway \in {<<>>} \cup ({"rename", "duplicate", "delete"} \X Levels \X Levels)
    /\ level \in Levels \cup {NoLevel}
    /\ rows \in Seq(Rows)
    /\ rowsModified \in BOOLEAN /\ committed \in BOOLEAN
    /\ deleted \subseteq Guids /\ unlisted \subseteq Levels

\* "For each new row ... ignores deleted rows" (sqlite3table.cc:780): although
\* a new row is inserted again by every commit, an instance that was deleted
\* with its entity never comes back, over any sequence of commits, clones,
\* lookups and loads, unless it had two rows when it was deleted.
DeletedStaysDeleted == \A g \in deleted : ~Stored(g)

\* A commit brings the database up to date with memory: every row that was not
\* deleted and whose instance has no second row is in the database as it is in
\* memory, if a string-like attribute of some row was set or a row was added
\* since the level was loaded.
CommitWritesRows ==
    committed /\ rowsModified => \A i \in Live : rows[i].guid \notin TwiceIn(rows) => Current(i)

\* A lookup never loads an instance a second time (categorymanager.cc:559)
\* except when the game has changed, and not yet committed, the attribute it
\* looks for.
LoadedOnce ==
    [][\A g \in TwiceIn(rows') \ TwiceIn(rows) :
        \E i \in Live : rows[i].guid = g /\ Value(rows[i]) # db[g]]_vars

\* Every stored instance is in a level that can be loaded: between the two
\* halves of a level operation no other one runs, and only a rename, whose second half
\* changes nothing, or an operation cut short between its two tables leaves
\* instances in a level that _Instance_Levels does not list.
InListedLevels ==
    halfway = <<>> => \A g \in Guids : Stored(g) => db[g].level \in listed \cup unlisted

\* Rows, levels and the database stay in their domains and in loadable levels.
Consistent == TypeOK /\ InListedLevels

\* "This will write back any changes in the ValueTable back into the database.
\* This includes new columns, new rows and modified existing values"
\* (dataset.cc:115): whatever was changed.
CommitWritesChanges ==
    committed => \A i \in Live : rows[i].guid \notin TwiceIn(rows) => Current(i)
=============================================================================
