---------------------------- MODULE RecorderProofs ---------------------------
(***************************************************************************)
(* Theorems about Migration and the recorder as a whole.  However often    *)
(* the recorder dies while it opens a database of any earlier version, no  *)
(* row leaves the file and no later open is blocked; and what comes out of *)
(* the probe tells the calls that went in.                                 *)
(***************************************************************************)
EXTENDS Recorder, WellFoundedInduction, TLAPS

Events == tables["events"]
Old == tables["events_old"]
AllOnEvents == \A i \in IndexNames : indexOn[i] = "events"

\* What a rebuild relies on from one statement to the next, also if another
\* start of the recorder comes between them.
RebuildInv ==
    /\ Exists("events_old") => Events.eventType # "TEXT"
    /\ pc = "rename" => Events.eventType = "TEXT"
    /\ pc \in {"recreate", "copy", "drop", "pragmas", "open"} => Events.eventType # "TEXT"
    /\ pc = "copy" => Exists("events")
    /\ pc = "drop" => Old.rows \subseteq Events.rows

\* A database with execution_id never loses the column.
ColumnInv ==
    legacy = Absent \/ legacy.executionId => (Exists("events") => Events.executionId)

\* Where the rows are as long as nothing is interrupted.
WholeInv ==
    crashes = 0 =>
        /\ pc = "recreate" => ~Exists("events")
        /\ pc \notin {"recreate", "copy", "drop"} => ~Exists("events_old")
        /\ pc \in {"recreate", "copy"} => legacy.rows \subseteq Old.rows
        /\ pc \notin {"recreate", "copy"} => legacy.rows \subseteq Events.rows

\* Where the indexes are as long as nothing is interrupted: an open after the
\* first one that succeeded has nothing to rebuild.
IndexInv ==
    crashes = 0 =>
        /\ opens = 0 => pc = "closed"
        /\ opens > 1 \/ (opens = 1 /\ pc \in {"closed", "failed", "open"}) =>
             SchemaFails(tables, indexOn) \/ Events.eventType # "TEXT"
        /\ pc = "compat" => AllOnEvents
        /\ opens > 1 => /\ pc \in {"compat", "pragmas", "open"} => AllOnEvents
                        /\ pc \notin {"rename", "recreate", "copy", "drop"}

OpenInv ==
    /\ TypeOK /\ RebuildInv /\ ColumnInv /\ WholeInv /\ IndexInv
    /\ RowsSurvive /\ ReopenSucceeds

-----------------------------------------------------------------------------
(* Opening the database. *)

LEMMA AbsentFields ==
    /\ Absent \in Tables /\ Absent.rows = {} /\ Absent.eventType = "none"
    /\ NewTable \in Tables /\ NewTable.rows = {} /\ NewTable.eventType = "INTEGER"
    /\ NewTable.executionId = TRUE /\ NewTable # Absent
BY DEF Absent, NewTable, Tables

LEMMA InitStep == Init => OpenInv
<1> SUFFICES ASSUME Init PROVE OpenInv
    OBVIOUS
<1>1. /\ legacy \in Tables /\ Events = legacy /\ Old = Absent /\ pc = "closed" /\ crashes = 0
      /\ opens = 0 /\ tables \in [{"events", "events_old"} -> Tables]
    BY LegacyAssumption, AbsentFields DEF Init, Events, Old
<1>2. /\ indexOn \in [IndexNames -> {"events", "events_old", "none"}]
      /\ \A i \in IndexNames : indexOn[i] = "none" \/ (indexOn[i] = "events" /\ legacy # Absent)
    <2>1. PICK found \in 0..Len(Indexes) :
             /\ legacy = Absent => found = 0
             /\ indexOn = SchemaIndexes([i \in IndexNames |-> "none"], found)
        BY DEF Init
    <2>2. \A i \in IndexNames : indexOn[i] \in {"events", "none"}
        BY <2>1 DEF SchemaIndexes
    <2>3. legacy = Absent => \A i \in IndexNames : indexOn[i] = "none"
        BY <2>1 DEF SchemaIndexes
    <2> QED
        BY <2>1, <2>2, <2>3 DEF SchemaIndexes
<1>3. TypeOK
    BY <1>1, <1>2, BoundsAssumption DEF TypeOK, Exists, Events
<1>4. RebuildInv /\ ColumnInv /\ WholeInv /\ IndexInv
    BY <1>1 DEF RebuildInv, ColumnInv, WholeInv, IndexInv, Exists, Events, Old
<1> QED
    BY <1>1, <1>3, <1>4 DEF OpenInv, RowsSurvive, ReopenSucceeds, Events
\* The two tables after a step that makes them e and o.
LEMMA TwoTables ==
    ASSUME TypeOK, NEW e, NEW o, tables' = [events |-> e, events_old |-> o],
           e \in Tables, o \in Tables
    PROVE  /\ Events' = e /\ Old' = o /\ tables' \in [{"events", "events_old"} -> Tables]
           /\ Exists("events")' <=> e # Absent
           /\ Exists("events_old")' <=> o # Absent
BY DEF Events, Old, Exists

LEMMA Types ==
    ASSUME TypeOK
    PROVE  /\ Events \in Tables /\ Old \in Tables
           /\ tables = [events |-> Events, events_old |-> Old]
           /\ Exists("events") <=> Events # Absent
           /\ Exists("events_old") <=> Old # Absent
BY DEF TypeOK, Events, Old, Exists

\* What the schema script makes of the tables and the indexes.
LEMMA Schema ==
    ASSUME TypeOK, NEW count \in 0..Len(Indexes)
    PROVE  /\ SchemaTables(tables) =
                [events |-> IF Events = Absent THEN NewTable ELSE Events, events_old |-> Old]
           /\ SchemaIndexes(indexOn, count) \in [IndexNames -> {"events", "events_old", "none"}]
           /\ \A i \in IndexNames :
                /\ indexOn[i] # "none" => SchemaIndexes(indexOn, count)[i] = indexOn[i]
                /\ indexOn[i] = "none" => SchemaIndexes(indexOn, count)[i] \in {"events", "none"}
                /\ indexOn[i] = "none" /\ count = Len(Indexes)
                     => SchemaIndexes(indexOn, count)[i] = "events"
<1>1. SchemaTables(tables) =
        [events |-> IF Events = Absent THEN NewTable ELSE Events, events_old |-> Old]
    BY Types DEF SchemaTables, Events, Old
<1>2. \A i \in IndexNames : indexOn[i] \in {"events", "events_old", "none"}
    BY DEF TypeOK
<1>3. \A i \in IndexNames : \E n \in 1..Len(Indexes) : Indexes[n] = i
    BY DEF IndexNames, Indexes
<1>4. SchemaIndexes(indexOn, count) \in [IndexNames -> {"events", "events_old", "none"}]
    BY <1>2 DEF SchemaIndexes
<1> QED
    BY <1>1, <1>2, <1>3, <1>4 DEF SchemaIndexes

LEMMA SchemaStep ==
    ASSUME OpenInv, \/ RunSchema("schema", "compat")
                    \/ RunSchema("recreate", "copy")
    PROVE  OpenInv'
<1>0. TypeOK /\ Len(Indexes) = 4
    BY DEF OpenInv, Indexes
<1>1. CASE SchemaFails(tables, indexOn)
    <2>1. /\ UNCHANGED <<tables, legacy, crashes, opens>> /\ pc' = "failed"
          /\ indexOn' = SchemaIndexes(indexOn, 3) /\ pc \in {"schema", "recreate"}
        BY <1>0, <1>1 DEF RunSchema
    <2>2. /\ Exists("events") /\ ~Events.executionId /\ indexOn["execution"] = "none"
        BY <1>1 DEF SchemaFails, Exists, Events
    <2>3. indexOn'["execution"] = "none"
        BY <1>0, <2>1, <2>2 DEF SchemaIndexes, IndexNames, Indexes
    <2>4. TypeOK'
        BY <1>0, <2>1, <2>2, Schema DEF TypeOK, Exists
    <2>5. RebuildInv' /\ ColumnInv' /\ RowsSurvive'
        BY <2>1 DEF OpenInv, RebuildInv, ColumnInv, RowsSurvive, Exists, Events, Old
    <2>6. ReopenSucceeds'
        BY <2>1, <2>2 DEF OpenInv, ColumnInv, ReopenSucceeds
    <2>7. WholeInv'
        BY <2>1, <2>2 DEF OpenInv, WholeInv, Exists, Events
    <2>8. IndexInv'
        BY <1>0, <2>1, <2>2, <2>3
        DEF OpenInv, IndexInv, TypeOK, SchemaFails, Exists, Events
    <2> QED
        BY <2>4, <2>5, <2>6, <2>7, <2>8 DEF OpenInv
<1>2. CASE ~SchemaFails(tables, indexOn)
    <2> DEFINE e == IF Events = Absent THEN NewTable ELSE Events
    <2>1. /\ tables' = [events |-> e, events_old |-> Old]
          /\ indexOn' = SchemaIndexes(indexOn, 4)
          /\ UNCHANGED <<legacy, crashes, opens>>
          /\ \/ pc = "schema" /\ pc' = "compat"
             \/ pc = "recreate" /\ pc' = "copy"
        BY <1>0, <1>2, Schema DEF RunSchema
    <2>2. /\ e \in Tables /\ e # Absent /\ Events.rows \subseteq e.rows
          /\ Events # Absent => e = Events
          /\ Events = Absent => e.eventType = "INTEGER" /\ e.executionId
        BY <1>0, Types, AbsentFields
    <2>3. Old \in Tables
        BY <1>0, Types
    <2> HIDE DEF e
    <2>4. /\ Events' = e /\ Old' = Old /\ tables' \in [{"events", "events_old"} -> Tables]
          /\ Exists("events")' /\ (Exists("events_old")' <=> Exists("events_old"))
        BY <1>0, <2>1, <2>2, <2>3, TwoTables, Types
    <2>5. /\ indexOn' \in [IndexNames -> {"events", "events_old", "none"}]
          /\ \A i \in IndexNames : \/ indexOn'[i] = "events"
                                   \/ indexOn'[i] = indexOn[i] /\ Exists(indexOn[i])
        BY <1>0, <2>1, Schema DEF TypeOK
    <2>6. TypeOK'
        <3>1. ASSUME NEW i \in IndexNames, indexOn'[i] # "none"
              PROVE  tables'[indexOn'[i]] # Absent
            BY <1>0, <2>4, <2>5, <3>1 DEF TypeOK, Exists
        <3> QED
            BY <1>0, <2>1, <2>4, <2>5, <3>1 DEF TypeOK, Exists
    <2>7. RebuildInv' /\ ColumnInv' /\ RowsSurvive' /\ ReopenSucceeds'
        BY <1>0, <2>1, <2>2, <2>4, Types, AbsentFields
        DEF OpenInv, RebuildInv, ColumnInv, RowsSurvive, ReopenSucceeds, Events, Old
    <2>8. WholeInv'
        BY <1>0, <2>1, <2>2, <2>4, Types DEF OpenInv, WholeInv
    <2>9. IndexInv'
        <3>1. opens > 1 /\ crashes = 0 => e.eventType # "TEXT"
            BY <1>2, <2>2 DEF OpenInv, IndexInv
        <3>2. pc = "schema" /\ crashes = 0 => AllOnEvents'
            <4>1. ASSUME pc = "schema", crashes = 0, NEW i \in IndexNames PROVE indexOn[i] # "events_old"
                BY <1>0, <4>1 DEF OpenInv, WholeInv, TypeOK
            <4> QED
                BY <1>0, <2>1, <2>5, <4>1, Schema DEF AllOnEvents, TypeOK
        <3> QED
            BY <1>0, <2>1, <2>4, <3>1, <3>2 DEF OpenInv, IndexInv, TypeOK
    <2> QED
        BY <2>6, <2>7, <2>8, <2>9 DEF OpenInv
<1> QED
    BY <1>1, <1>2

LEMMA CompatStep == ASSUME OpenInv, EnsureSchemaCompat PROVE OpenInv'
<1>0. TypeOK
    BY DEF OpenInv
<1> DEFINE e == [Events EXCEPT !.executionId = TRUE]
<1>1. /\ pc = "compat" /\ UNCHANGED <<indexOn, legacy, crashes, opens>>
      /\ tables' = [events |-> e, events_old |-> Old]
      /\ pc' = IF Events.eventType = "TEXT" THEN "rename" ELSE "pragmas"
    <2>1. tables' = [tables EXCEPT !["events"].executionId = TRUE]
        BY DEF EnsureSchemaCompat
    <2>2. DOMAIN tables = {"events", "events_old"}
        BY <1>0 DEF TypeOK
    <2>3. tables' = [events |-> e, events_old |-> Old]
        BY <1>0, <2>1, <2>2, Types DEF Events, Old
    <2> QED
        BY <2>3 DEF EnsureSchemaCompat, Events
<1>2. /\ e \in Tables /\ e # Absent /\ e.executionId
      /\ e.rows = Events.rows /\ e.eventType = Events.eventType
    BY <1>0, Types DEF Tables, Absent
<1> HIDE DEF e
<1>3. /\ Events' = e /\ Old' = Old /\ tables' \in [{"events", "events_old"} -> Tables]
      /\ Exists("events")' /\ (Exists("events_old")' <=> Exists("events_old"))
    BY <1>0, <1>1, <1>2, TwoTables, Types
<1>4. TypeOK'
    BY <1>0, <1>1, <1>3 DEF TypeOK, Exists
<1>5. RebuildInv' /\ ColumnInv' /\ RowsSurvive' /\ ReopenSucceeds'
    BY <1>1, <1>2, <1>3
    DEF OpenInv, RebuildInv, ColumnInv, RowsSurvive, ReopenSucceeds, Events, Old
<1>6. WholeInv'
    BY <1>1, <1>2, <1>3 DEF OpenInv, WholeInv
<1>7. IndexInv'
    <2>1. crashes = 0 => AllOnEvents
        BY <1>1 DEF OpenInv, IndexInv
    <2>2. crashes = 0 /\ opens > 1 => e.eventType # "TEXT"
        BY <1>1, <1>2, <2>1 DEF OpenInv, IndexInv, AllOnEvents, SchemaFails, IndexNames, Indexes
    <2> QED
        BY <1>0, <1>1, <1>2, <1>3, <2>1, <2>2 DEF IndexInv, AllOnEvents, OpenInv, TypeOK
<1> QED
    BY <1>4, <1>5, <1>6, <1>7 DEF OpenInv

LEMMA RenameStep == ASSUME OpenInv, Rename PROVE OpenInv'
<1>0. TypeOK
    BY DEF OpenInv
<1>1. pc = "rename" /\ Events.eventType = "TEXT" /\ ~Exists("events_old")
    BY DEF OpenInv, RebuildInv, Rename
<1>2. /\ tables' = [events |-> Absent, events_old |-> Events]
      /\ indexOn' = [i \in IndexNames |-> IF indexOn[i] = "events" THEN "events_old" ELSE indexOn[i]]
      /\ pc' = "recreate" /\ UNCHANGED <<legacy, crashes, opens>>
    BY <1>1 DEF Rename, Events
<1>3. Events # Absent /\ Old.rows = {}
    BY <1>0, <1>1, Types, AbsentFields
<1>4. /\ Events' = Absent /\ Old' = Events /\ tables' \in [{"events", "events_old"} -> Tables]
      /\ ~Exists("events")' /\ Exists("events_old")'
    BY <1>0, <1>2, <1>3, TwoTables, Types, AbsentFields
<1>5. TypeOK'
    <2>1. ASSUME NEW i \in IndexNames, indexOn'[i] # "none" PROVE tables'[indexOn'[i]] # Absent
        BY <1>0, <1>1, <1>2, <1>4, <2>1 DEF TypeOK, Exists, Old
    <2>2. indexOn' \in [IndexNames -> {"events", "events_old", "none"}]
        BY <1>0, <1>2 DEF TypeOK
    <2> QED
        BY <1>0, <1>2, <1>4, <2>1, <2>2 DEF TypeOK, Exists
<1>6. RebuildInv' /\ ColumnInv' /\ RowsSurvive' /\ ReopenSucceeds'
    BY <1>1, <1>2, <1>3, <1>4, AbsentFields
    DEF OpenInv, RebuildInv, ColumnInv, RowsSurvive, ReopenSucceeds, Events, Old
<1>7. WholeInv'
    BY <1>1, <1>2, <1>3, <1>4 DEF OpenInv, WholeInv
<1>8. IndexInv'
    BY <1>0, <1>1, <1>2 DEF OpenInv, IndexInv, TypeOK
<1> QED
    BY <1>5, <1>6, <1>7, <1>8 DEF OpenInv

LEMMA CopyStep == ASSUME OpenInv, Copy PROVE OpenInv'
<1>0. TypeOK
    BY DEF OpenInv
<1> DEFINE e == [Events EXCEPT !.rows = @ \cup Old.rows]
<1>1. /\ pc = "copy" /\ pc' = "drop" /\ UNCHANGED <<indexOn, legacy, crashes, opens>>
      /\ tables' = [events |-> e, events_old |-> Old]
    BY <1>0, Types DEF Copy, Events, Old
<1>2. /\ e \in Tables /\ e.rows = Events.rows \cup Old.rows
      /\ e.executionId = Events.executionId /\ e.eventType = Events.eventType
      /\ Events # Absent => e # Absent
    BY <1>0, Types DEF Tables, Absent
<1>3. Events # Absent /\ e # Absent
    BY <1>0, <1>1, <1>2, Types DEF OpenInv, RebuildInv
<1> HIDE DEF e
<1>4. /\ Events' = e /\ Old' = Old /\ tables' \in [{"events", "events_old"} -> Tables]
      /\ Exists("events") /\ Exists("events")'
      /\ (Exists("events_old")' <=> Exists("events_old"))
    BY <1>0, <1>1, <1>2, <1>3, TwoTables, Types
<1>5. TypeOK'
    BY <1>0, <1>1, <1>4 DEF TypeOK, Exists
<1>6. RebuildInv' /\ RowsSurvive' /\ ReopenSucceeds'
    BY <1>1, <1>2, <1>4
    DEF OpenInv, RebuildInv, RowsSurvive, ReopenSucceeds, Events, Old
<1>7. ColumnInv'
    BY <1>0, <1>1, <1>2, <1>4, Types DEF OpenInv, ColumnInv
<1>8. WholeInv'
    BY <1>1, <1>2, <1>4 DEF OpenInv, WholeInv
<1>9. IndexInv'
    BY <1>0, <1>1 DEF OpenInv, IndexInv, TypeOK
<1> QED
    BY <1>5, <1>6, <1>7, <1>8, <1>9 DEF OpenInv
LEMMA DropStep == ASSUME OpenInv, Drop PROVE OpenInv'
<1>0. TypeOK
    BY DEF OpenInv
<1>1. /\ pc = "drop" /\ pc' = "pragmas" /\ UNCHANGED <<legacy, crashes, opens>>
      /\ tables' = [events |-> Events, events_old |-> Absent]
      /\ indexOn' = [i \in IndexNames |-> IF indexOn[i] = "events_old" THEN "none" ELSE indexOn[i]]
    BY <1>0, Types DEF Drop, Events, Old
<1>2. /\ Events' = Events /\ Old' = Absent /\ tables' \in [{"events", "events_old"} -> Tables]
      /\ (Exists("events")' <=> Exists("events")) /\ ~Exists("events_old")'
    BY <1>0, <1>1, TwoTables, Types, AbsentFields
<1>3. TypeOK'
    <2>1. ASSUME NEW i \in IndexNames, indexOn'[i] # "none" PROVE tables'[indexOn'[i]] # Absent
        BY <1>0, <1>1, <1>2, <2>1 DEF TypeOK, Exists, Events
    <2>2. indexOn' \in [IndexNames -> {"events", "events_old", "none"}]
        BY <1>0, <1>1 DEF TypeOK
    <2> QED
        BY <1>0, <1>1, <1>2, <2>1, <2>2 DEF TypeOK, Exists
<1>4. RebuildInv' /\ ColumnInv' /\ RowsSurvive' /\ ReopenSucceeds'
    BY <1>1, <1>2, AbsentFields
    DEF OpenInv, RebuildInv, ColumnInv, RowsSurvive, ReopenSucceeds, Events, Old
<1>5. WholeInv'
    BY <1>1, <1>2 DEF OpenInv, WholeInv
<1>6. IndexInv'
    BY <1>0, <1>1 DEF OpenInv, IndexInv, TypeOK
<1> QED
    BY <1>3, <1>4, <1>5, <1>6 DEF OpenInv

LEMMA CrashStep == ASSUME OpenInv, Crash \/ CrashInSchema PROVE OpenInv'
<1>0. TypeOK
    BY DEF OpenInv
<1>1. /\ crashes' = crashes + 1 /\ crashes < MaxCrashes /\ pc' = "closed"
      /\ UNCHANGED <<legacy, opens>>
    BY DEF Crash, CrashInSchema
<1>2. crashes' # 0 /\ crashes' \in 0..MaxCrashes
    BY <1>0, <1>1, BoundsAssumption DEF TypeOK
<1>3. WholeInv' /\ IndexInv' /\ ReopenSucceeds'
    BY <1>1, <1>2 DEF WholeInv, IndexInv, ReopenSucceeds
<1>4. CASE Crash
    <2>1. UNCHANGED <<tables, indexOn>>
        BY <1>4 DEF Crash
    <2>2. TypeOK'
        BY <1>0, <1>1, <1>2, <2>1 DEF TypeOK, Exists
    <2>3. RebuildInv' /\ ColumnInv' /\ RowsSurvive'
        BY <1>1, <2>1 DEF OpenInv, RebuildInv, ColumnInv, RowsSurvive, Exists, Events, Old
    <2> QED
        BY <1>3, <2>2, <2>3 DEF OpenInv
<1>5. CASE CrashInSchema
    <2> DEFINE e == IF Events = Absent THEN NewTable ELSE Events
    <2>1. /\ tables' = [events |-> e, events_old |-> Old]
          /\ \E done \in 0..Len(Indexes) : indexOn' = SchemaIndexes(indexOn, done)
        <3>1. PICK done \in 0..(Len(Indexes) - 1) : indexOn' = SchemaIndexes(indexOn, done)
            BY <1>5 DEF CrashInSchema
        <3>2. done \in 0..Len(Indexes)
            BY DEF Indexes
        <3>3. SchemaTables(tables) = [events |-> e, events_old |-> Old]
            BY <1>0, <3>2, Schema
        <3> QED
            BY <1>5, <3>1, <3>2, <3>3 DEF CrashInSchema
    <2>2. /\ e \in Tables /\ e # Absent /\ Events.rows \subseteq e.rows /\ Old \in Tables
          /\ Events # Absent => e = Events
          /\ Events = Absent => e.eventType = "INTEGER" /\ e.executionId
        BY <1>0, Types, AbsentFields
    <2> HIDE DEF e
    <2>3. /\ Events' = e /\ Old' = Old /\ tables' \in [{"events", "events_old"} -> Tables]
          /\ Exists("events")' /\ (Exists("events_old")' <=> Exists("events_old"))
        BY <1>0, <2>1, <2>2, TwoTables, Types
    <2>4. /\ indexOn' \in [IndexNames -> {"events", "events_old", "none"}]
          /\ \A i \in IndexNames : \/ indexOn'[i] \in {"none", "events"}
                                   \/ indexOn'[i] = indexOn[i] /\ Exists(indexOn[i])
        BY <1>0, <2>1, Schema DEF TypeOK
    <2>5. TypeOK'
        <3>1. ASSUME NEW i \in IndexNames, indexOn'[i] # "none" PROVE tables'[indexOn'[i]] # Absent
            BY <1>0, <2>3, <2>4, <3>1 DEF TypeOK, Exists
        <3> QED
            BY <1>0, <1>1, <1>2, <2>3, <2>4, <3>1 DEF TypeOK, Exists
    <2>6. RebuildInv' /\ ColumnInv' /\ RowsSurvive'
        BY <1>0, <1>1, <2>2, <2>3, Types
        DEF OpenInv, RebuildInv, ColumnInv, RowsSurvive, Events, Old
    <2> QED
        BY <1>3, <2>5, <2>6 DEF OpenInv
<1> QED
    BY <1>4, <1>5

LEMMA OtherStep == ASSUME OpenInv, Open \/ Close \/ SetPragmas \/ UNCHANGED vars PROVE OpenInv'
<1>0. TypeOK
    BY DEF OpenInv
<1>1. UNCHANGED <<tables, indexOn, legacy, crashes>>
    BY DEF Open, Close, SetPragmas, vars
<1>2. \/ /\ pc \in {"closed", "failed"} /\ pc' = "schema" /\ opens < MaxOpens /\ opens' = opens + 1
      \/ /\ \/ pc = "open" /\ pc' = "closed"
            \/ pc = "pragmas" /\ pc' = "open"
            \/ pc' = pc
         /\ opens' = opens
    BY DEF Open, Close, SetPragmas, vars
<1>3. TypeOK'
    BY <1>0, <1>1, <1>2, BoundsAssumption DEF TypeOK, Exists
<1>4. RebuildInv' /\ ColumnInv' /\ RowsSurvive' /\ ReopenSucceeds'
    BY <1>1, <1>2
    DEF OpenInv, RebuildInv, ColumnInv, RowsSurvive, ReopenSucceeds, Exists, Events, Old
<1>5. WholeInv'
    BY <1>1, <1>2 DEF OpenInv, WholeInv, Exists, Events, Old
<1>6. IndexInv'
    <2>1. CASE pc \in {"closed", "failed"} /\ pc' = "schema" /\ opens' = opens + 1
        BY <1>0, <1>1, <2>1 DEF OpenInv, IndexInv, AllOnEvents, Events, TypeOK, SchemaFails
    <2>2. CASE pc = "open" /\ pc' = "closed" /\ opens' = opens
        BY <1>0, <1>1, <2>2 DEF OpenInv, IndexInv, AllOnEvents, Events, TypeOK, SchemaFails
    <2>3. CASE pc = "pragmas" /\ pc' = "open" /\ opens' = opens
        BY <1>0, <1>1, <2>3
        DEF OpenInv, RebuildInv, IndexInv, AllOnEvents, Events, TypeOK, SchemaFails
    <2>4. CASE pc' = pc /\ opens' = opens
        BY <1>0, <1>1, <2>4 DEF OpenInv, IndexInv, AllOnEvents, Events, TypeOK, SchemaFails
    <2> QED
        BY <1>2, <2>1, <2>2, <2>3, <2>4
<1> QED
    BY <1>3, <1>4, <1>5, <1>6 DEF OpenInv

-----------------------------------------------------------------------------
\* The rebuild can be left and taken up again anywhere.
THEOREM OpenInvHolds == Spec => []OpenInv
<1>1. OpenInv /\ [Next]_vars => OpenInv'
    BY SchemaStep, CompatStep, RenameStep, CopyStep, DropStep, CrashStep, OtherStep
    DEF Next, Statement
<1> QED
    BY InitStep, <1>1, PTL DEF Spec

\* Wherever open is interrupted, and however often, no row leaves the file.
THEOREM MigrationRowsSurvive == Spec => []RowsSurvive
<1>1. OpenInv => RowsSurvive
    BY DEF OpenInv
<1> QED
    BY OpenInvHolds, <1>1, PTL

\* Only a database without execution_id is refused, whatever interruptions
\* have left behind.
THEOREM MigrationReopenSucceeds == Spec => []ReopenSucceeds
<1>1. OpenInv => ReopenSucceeds
    BY DEF OpenInv
<1> QED
    BY OpenInvHolds, <1>1, PTL

\* An open without interruption leaves every row in the events table.
THEOREM MigrationHistoryIsMigrated == Spec => []HistoryIsMigrated
<1>1. OpenInv => HistoryIsMigrated
    BY DEF OpenInv, WholeInv, HistoryIsMigrated, Events
<1> QED
    BY OpenInvHolds, <1>1, PTL

\* From the second open on, without interruptions, every index is in place.
THEOREM MigrationIndexesAfterReopen == Spec => []IndexesAfterReopen
<1>1. OpenInv => IndexesAfterReopen
    BY DEF OpenInv, IndexInv, IndexesAfterReopen, AllOnEvents
<1> QED
    BY OpenInvHolds, <1>1, PTL

-----------------------------------------------------------------------------
\* What main does to the database is what Migration says: each step of the
\* recorder is a step of Migration or leaves the database alone.
LEMMA RecorderUsesMigration == RecorderSpec => Spec
<1>1. RecorderInit => Init
    BY DEF RecorderInit
<1>2. [RecorderNext]_recorderVars => [Next]_vars
    BY DEF RecorderNext, recorderVars, StartStdout, StartSqlite, OpenSink, Load, Resolve,
           Attach, Record, End, Next, vars
<1> QED
    BY <1>1, <1>2, PTL DEF RecorderSpec, Spec

\* So the four results hold of the file through every run of the recorder,
\* from main to its end, whatever stops it.
COROLLARY RecorderKeepsHistory ==
    RecorderSpec => [](RowsSurvive /\ ReopenSucceeds /\ HistoryIsMigrated /\ IndexesAfterReopen)
<1> QED
    BY RecorderUsesMigration, MigrationRowsSurvive, MigrationReopenSucceeds,
       MigrationHistoryIsMigrated, MigrationIndexesAfterReopen, PTL

-----------------------------------------------------------------------------
(* Numbers and sequences. *)

LEMMA MinIs ==
    ASSUME NEW S \in SUBSET Int, NEW m \in S, \A y \in S : m <= y
    PROVE  Min(S) = m
<1>1. \E x \in S : \A y \in S : x =< y
    OBVIOUS
<1>2. /\ Min(S) \in S
      /\ \A y \in S : Min(S) =< y
    BY <1>1, Zenon DEF Min
<1>3. Min(S) <= m /\ m <= Min(S) /\ Min(S) \in Int
    BY <1>2
<1> QED
    BY <1>3

LEMMA MinOfTwo ==
    ASSUME NEW a \in Int, NEW b \in Int
    PROVE  Min({a, b}) = IF a <= b THEN a ELSE b
<1>1. CASE a <= b
    BY <1>1, MinIs
<1>2. CASE ~(a <= b)
    BY <1>2, MinIs
<1> QED
    BY <1>1, <1>2

\* A set of numbers has a least one.
LEMMA LeastExists ==
    ASSUME NEW T \in SUBSET Nat, T # {}
    PROVE  \E n \in T : \A m \in T : n <= m
<1> DEFINE R == {ss \in Nat \X Nat : ss[1] < ss[2]}
<1>1. IsWellFoundedOn(R, Nat)
    BY NatLessThanWellFounded, Zenon DEF OpToRel
<1> HIDE DEF R
<1>2. PICK n \in T : \A m \in T : ~ (<<m, n>> \in R)
    BY <1>1, WFMin
<1>3. ASSUME NEW m \in T PROVE n <= m
  <2>1. m \in Nat /\ n \in Nat /\ (m < n => <<m, n>> \in R)
      BY DEF R
  <2> QED
      BY <1>2, <2>1
<1> QED
    BY <1>3

\* Induction, over a set in the place of a predicate.
LEMMA Induction ==
    ASSUME NEW S, 0 \in S, \A n \in Nat : n \in S => n + 1 \in S
    PROVE  Nat \subseteq S
<1> SUFFICES ASSUME Nat \ S # {} PROVE FALSE
    OBVIOUS
<1>1. PICK n \in Nat \ S : \A m \in Nat \ S : n <= m
    BY LeastExists
<1>2. n # 0 /\ n - 1 \in Nat /\ n - 1 \in S
    BY <1>1
<1> QED
    BY <1>1, <1>2

\* What is where in a concatenation.
LEMMA ConcatParts ==
    ASSUME NEW X, NEW s \in Seq(X), NEW t \in Seq(X)
    PROVE  /\ s \o t \in Seq(X) /\ Len(s \o t) = Len(s) + Len(t)
           /\ \A j \in 1..Len(s) : j \in 1..Len(s \o t) /\ (s \o t)[j] = s[j]
           /\ \A j \in 1..Len(t) : Len(s) + j \in 1..Len(s \o t) /\ (s \o t)[Len(s) + j] = t[j]
OBVIOUS

\* The recursion in FlattenSeq has a solution.
LEMMA FlattenExists ==
    ASSUME NEW X, NEW seqs \in Seq(Seq(X))
    PROVE  \E f \in [1..Len(seqs) -> Seq(X)] :
             f = [i \in 1..Len(seqs) |-> IF i = 1 THEN seqs[i] ELSE f[i - 1] \o seqs[i]]
<1> DEFINE N == Len(seqs)
           Good(g, n) == /\ g \in [1..n -> Seq(X)]
                         /\ \A i \in 1..n : g[i] = IF i = 1 THEN seqs[i] ELSE g[i - 1] \o seqs[i]
           S == {n \in Nat : n <= N => \E g \in [1..n -> Seq(X)] : Good(g, n)}
<1>1. N \in Nat
    OBVIOUS
<1>2. 0 \in S
  <2>1. Good([i \in 1..0 |-> << >>], 0)
      OBVIOUS
  <2> QED
      BY <2>1
<1>3. ASSUME NEW n \in Nat, n \in S PROVE n + 1 \in S
  <2> HIDE DEF Good
  <2> SUFFICES ASSUME n + 1 <= N PROVE \E g \in [1..n + 1 -> Seq(X)] : Good(g, n + 1)
      BY <1>3
  <2>1. PICK g \in [1..n -> Seq(X)] : Good(g, n)
      BY <1>1, <1>3
  <2> USE DEF Good
  <2> DEFINE new == IF n = 0 THEN seqs[n + 1] ELSE g[n] \o seqs[n + 1]
             h == [i \in 1..n + 1 |-> IF i = n + 1 THEN new ELSE g[i]]
  <2>2. new \in Seq(X)
      BY <2>1
  <2>3. h \in [1..n + 1 -> Seq(X)]
      BY <2>2
  <2>4. ASSUME NEW i \in 1..n + 1
        PROVE  h[i] = IF i = 1 THEN seqs[i] ELSE h[i - 1] \o seqs[i]
    <3>1. CASE i = n + 1
        BY <2>1, <3>1
    <3>2. CASE i # n + 1
      <4>1. i \in 1..n /\ h[i] = g[i] /\ (i # 1 => h[i - 1] = g[i - 1])
          BY <3>2
      <4> QED
          BY <2>1, <4>1
    <3> QED
        BY <3>1, <3>2
  <2> QED
      BY <2>3, <2>4
<1>4. N \in S
    BY ONLY <1>1, <1>2, <1>3, Induction
<1>5. PICK g \in [1..N -> Seq(X)] : Good(g, N)
    BY <1>4
<1>6. g = [i \in 1..N |-> IF i = 1 THEN seqs[i] ELSE g[i - 1] \o seqs[i]]
    BY <1>5
<1> QED
    BY <1>6

\* FlattenSeq puts one sequence after the other.
LEMMA FlattenSteps ==
    ASSUME NEW X, NEW seqs \in Seq(Seq(X)), seqs # << >>
    PROVE  \E f \in [1..Len(seqs) -> Seq(X)] :
             /\ f[1] = seqs[1]
             /\ \A i \in 2..Len(seqs) : f[i] = f[i - 1] \o seqs[i]
             /\ Lists!FlattenSeq(seqs) = f[Len(seqs)]
<1> DEFINE N == Len(seqs)
           F == CHOOSE f : f = [i \in 1..N |-> IF i = 1 THEN seqs[i] ELSE f[i - 1] \o seqs[i]]
<1>1. N \in Nat /\ N # 0
    OBVIOUS
<1>2. PICK g \in [1..N -> Seq(X)] : g = [i \in 1..N |-> IF i = 1 THEN seqs[i] ELSE g[i - 1] \o seqs[i]]
    BY FlattenExists
<1>3. F = [i \in 1..N |-> IF i = 1 THEN seqs[i] ELSE F[i - 1] \o seqs[i]]
    BY <1>2, Zenon
<1>4. Lists!FlattenSeq(seqs) = F[N]
    BY <1>1, Zenon DEF Lists!FlattenSeq
<1> HIDE DEF F
<1>5. \A i \in 1..N : F[i] = IF i = 1 THEN seqs[i] ELSE F[i - 1] \o seqs[i]
    BY <1>3, Zenon
<1>6. F \in [1..N -> Seq(X)]
  <2> DEFINE S == {n \in Nat : n + 1 \in 1..N => F[n + 1] \in Seq(X)}
  <2>1. 0 \in S
      BY <1>1, <1>5
  <2>2. ASSUME NEW n \in Nat, n \in S PROVE n + 1 \in S
    <3> SUFFICES ASSUME n + 2 \in 1..N PROVE F[n + 2] \in Seq(X)
        OBVIOUS
    <3>1. F[n + 2] = F[n + 1] \o seqs[n + 2]
      <4>1. n + 2 # 1 /\ (n + 2) - 1 = n + 1
          OBVIOUS
      <4> QED
          BY <1>5, <4>1
    <3>2. F[n + 1] \in Seq(X) /\ seqs[n + 2] \in Seq(X)
        BY <1>1, <2>2
    <3> QED
        BY <3>1, <3>2
  <2>3. Nat \subseteq S
      BY ONLY <2>1, <2>2, Induction
  <2>4. ASSUME NEW i \in 1..N PROVE F[i] \in Seq(X)
    <3>1. i - 1 \in Nat /\ (i - 1) + 1 = i
        BY <1>1
    <3>2. i - 1 \in S
        BY <2>3, <3>1
    <3> QED
        BY <3>1, <3>2
  <2> QED
      BY <1>3, <2>4
<1>7. 1 \in 1..N /\ \A i \in 2..N : i \in 1..N /\ i # 1
    BY <1>1
<1>8. F[1] = seqs[1] /\ \A i \in 2..N : F[i] = F[i - 1] \o seqs[i]
    BY <1>5, <1>7, Zenon
<1> QED
    BY <1>4, <1>6, <1>8

\* The sequences in seqs, of elements of X, make up whole one after the other,
\* and start says where each of them begins.
MakeUp(X, seqs, whole, start) ==
    /\ start \in [1..Len(seqs) + 1 -> Nat] /\ start[1] = 0
    /\ \A i \in 1..Len(seqs) : start[i + 1] = start[i] + Len(seqs[i])
    /\ whole \in Seq(X) /\ Len(whole) = start[Len(seqs) + 1]
    /\ \A i \in 1..Len(seqs) : \A j \in 1..Len(seqs[i]) :
         start[i] + j \in 1..Len(whole) /\ whole[start[i] + j] = seqs[i][j]

LEMMA FlattenParts ==
    ASSUME NEW X, NEW seqs \in Seq(Seq(X))
    PROVE  \E start : MakeUp(X, seqs, Lists!FlattenSeq(seqs), start)
<1> DEFINE N == Len(seqs)
           flat == Lists!FlattenSeq(seqs)
<1>1. N \in Nat /\ \A i \in 1..N : seqs[i] \in Seq(X)
    OBVIOUS
<1>2. CASE N = 0
  <2>1. flat = << >>
      BY <1>2 DEF Lists!FlattenSeq
  <2> DEFINE start == [i \in 1..1 |-> 0]
  <2>2. start \in [1..N + 1 -> Nat]
      BY <1>2
  <2>3. MakeUp(X, seqs, << >>, start)
      BY <1>2, <2>2 DEF MakeUp
  <2> QED
      BY <2>1, <2>3
<1>3. CASE N # 0
  <2>1. PICK f \in [1..N -> Seq(X)] : /\ f[1] = seqs[1]
                                      /\ \A i \in 2..N : f[i] = f[i - 1] \o seqs[i]
                                      /\ flat = f[N]
    <3>1. seqs # << >>
        BY <1>3
    <3> QED
        BY <3>1, FlattenSteps
  <2> HIDE DEF flat, N
  <2> DEFINE start == [i \in 1..N + 1 |-> IF i = 1 THEN 0 ELSE Len(f[i - 1])]
  <2>2. start \in [1..N + 1 -> Nat]
    <3> SUFFICES ASSUME NEW i \in 1..N + 1, i # 1 PROVE Len(f[i - 1]) \in Nat
        OBVIOUS
    <3>1. f[i - 1] \in Seq(X)
        BY <1>1
    <3> QED
        BY <3>1
  <2>3. start[1] = 0 /\ \A i \in 1..N : start[i + 1] = Len(f[i])
      BY <1>1, <1>3
  <2> HIDE DEF start
  <2>4. ASSUME NEW i \in 1..N PROVE start[i + 1] = start[i] + Len(seqs[i])
    <3>1. CASE i = 1
        BY <1>1, <2>1, <2>3, <3>1
    <3>2. CASE i # 1
      <4>1. i - 1 \in 1..N /\ i \in 2..N /\ (i - 1) + 1 = i
          BY <1>1, <3>2
      <4>2. start[i] = Len(f[i - 1])
          BY <2>3, <4>1
      <4>3. f[i] = f[i - 1] \o seqs[i] /\ f[i - 1] \in Seq(X)
          BY <2>1, <4>1
      <4>4. Len(f[i]) = Len(f[i - 1]) + Len(seqs[i])
          BY <1>1, <4>3, ConcatParts
      <4> QED
          BY <2>3, <4>2, <4>4
    <3> QED
        BY <3>1, <3>2
  <2> DEFINE In(n, i, j) == start[i] + j \in 1..Len(f[n]) /\ f[n][start[i] + j] = seqs[i][j]
             Placed(n) == \A i \in 1..n : \A j \in 1..Len(seqs[i]) : In(n, i, j)
             S == {n \in Nat : n + 1 \in 1..N => Placed(n + 1)}
  <2>5. 0 \in S
    <3>1. \A j \in 1..Len(seqs[1]) : In(1, 1, j)
        BY <1>1, <1>3, <2>1, <2>3
    <3> QED
        BY <3>1
  <2>6. ASSUME NEW n \in Nat, n \in S PROVE n + 1 \in S
    <3> HIDE DEF In
    <3> SUFFICES ASSUME n + 2 \in 1..N,
                        NEW i \in 1..n + 2, NEW j \in 1..Len(seqs[i])
                 PROVE  In(n + 2, i, j)
        OBVIOUS
    <3> USE DEF In
    <3> DEFINE s == f[n + 1]
               t == seqs[n + 2]
    <3>1. n + 1 \in 1..N /\ n + 2 \in 2..N /\ (n + 2) - 1 = n + 1 /\ (n + 1) + 1 = n + 2
        BY <1>1
    <3>2. f[n + 2] = s \o t /\ s \in Seq(X) /\ t \in Seq(X) /\ start[n + 2] = Len(s)
        BY <1>1, <2>1, <2>3, <3>1
    <3> HIDE DEF s, t
    <3>3. CASE i = n + 2
      <4>1. start[i] = Len(s) /\ seqs[i] = t /\ f[n + 2] = s \o t
          BY <3>2, <3>3 DEF t
      <4> QED
          BY <3>2, <4>1, ConcatParts
    <3>4. CASE i # n + 2
      <4>1. start[i] + j \in 1..Len(s) /\ s[start[i] + j] = seqs[i][j]
          BY <2>6, <3>1, <3>4 DEF s
      <4>2. In(n + 2, i, j) <=> /\ start[i] + j \in 1..Len(s \o t)
                                /\ (s \o t)[start[i] + j] = seqs[i][j]
          BY <3>2
      <4> HIDE DEF In
      <4> QED
          BY <3>2, <4>1, <4>2, ConcatParts
    <3> QED
        BY <3>3, <3>4
  <2> HIDE DEF In
  <2>7. Nat \subseteq S
      BY ONLY <2>5, <2>6, Induction
  <2>8. Placed(N)
    <3>1. N - 1 \in Nat /\ (N - 1) + 1 = N /\ N \in 1..N
        BY <1>1, <1>3
    <3>2. N - 1 \in S
        BY <2>7, <3>1
    <3> QED
        BY <3>1, <3>2
  <2>9. start[N + 1] = Len(f[N]) /\ f[N] \in Seq(X)
      BY <1>1, <1>3, <2>3
  <2>10. MakeUp(X, seqs, f[N], start)
      BY <2>2, <2>3, <2>4, <2>8, <2>9 DEF N, In, MakeUp
  <2> QED
      BY <2>1, <2>10 DEF flat
<1> QED
    BY <1>2, <1>3

-----------------------------------------------------------------------------
(* What is where in the kernel's image of its types. *)

LEMMA NameIndexNames ==
    ASSUME NEW names, names \in Seq(Range(names)), NEW name \in Range(names)
    PROVE  NameIndex(names, name) \in 1..Len(names) /\ names[NameIndex(names, name)] = name
<1>1. \E i \in DOMAIN names : names[i] = name
    BY DEF Range
<1> QED
    BY <1>1 DEF NameIndex

LEMMA MaxVlenFits == MaxVlen \in Nat /\ MaxVlen < 65536
BY DEF MaxVlen

\* Kind and vlen come out of the info word as they went in.
LEMMA InfoWord ==
    ASSUME NEW kind \in 0..31, NEW vlen \in 0..MaxVlen
    PROVE  LET info == kind * KindUnit + vlen IN
           info \in Nat /\ KindOf(info) = kind /\ VlenOf(info) = vlen
<1> DEFINE info == kind * KindUnit + vlen
           q == 256 * kind
<1>1. vlen \in Nat /\ vlen < 65536
    BY MaxVlenFits
<1>2. info \in Nat /\ info = 16777216 * kind + vlen
    BY <1>1, SMT DEF KindUnit
<1>3. info = 65536 * (256 * kind) + vlen /\ 256 * kind \in Int
    BY <1>1, <1>2, SMT
<1> HIDE DEF info, q
<1>4. info \div 16777216 = kind
    BY <1>1, <1>2, SMT
<1>5. kind % 32 = kind
    BY SMT
<1>6. info = 65536 * q + vlen /\ q \in Int
    BY <1>3, SMT DEF q
<1>7. info % 65536 = vlen
    BY <1>1, <1>2, <1>6, SMTT(20)
<1> QED
    BY <1>2, <1>4, <1>5, <1>7, SMT DEF KindUnit, KindOf, VlenOf, info

\* The words of a structure's members.
LEMMA MemberWords ==
    ASSUME NEW names, names \in Seq(Range(names)), NEW members, HasMembers(names, members)
    PROVE  LET tail == Lists!FlattenSeq([i \in DOMAIN members |->
                          <<NameIndex(names, members[i].name) - 1, 0, 8 * members[i].at>>]) IN
           /\ tail \in Seq(Nat) /\ Len(tail) = 3 * Len(members)
           /\ \A i \in 0..Len(members) - 1 :
                /\ tail[3 * i + 1] = NameIndex(names, members[i + 1].name) - 1
                /\ tail[3 * i + 3] = 8 * members[i + 1].at
<1> DEFINE M == Len(members)
           Triple(m) == <<NameIndex(names, m.name) - 1, 0, 8 * m.at>>
           seqs == [i \in DOMAIN members |-> Triple(members[i])]
           tail == Lists!FlattenSeq(seqs)
<1>1. M \in Nat /\ DOMAIN members = 1..M
    BY DEF HasMembers
<1>2. ASSUME NEW m \in 1..M
      PROVE  Triple(members[m]) \in Seq(Nat) /\ Len(Triple(members[m])) = 3
  <2>1. members[m].name \in Range(names) /\ members[m].at \in Nat
      BY <1>1 DEF HasMembers
  <2>2. NameIndex(names, members[m].name) \in 1..Len(names) /\ Len(names) \in Nat
      BY <2>1, NameIndexNames
  <2>3. NameIndex(names, members[m].name) - 1 \in Nat /\ 8 * members[m].at \in Nat
      BY <2>1, <2>2
  <2> QED
      BY <2>3
<1> HIDE DEF Triple, M
<1>3. seqs \in Seq(Seq(Nat)) /\ Len(seqs) = M /\ \A i \in 1..M : seqs[i] = Triple(members[i])
    BY <1>1, <1>2
<1> HIDE DEF seqs
<1>4. PICK start : MakeUp(Nat, seqs, tail, start)
    BY <1>3, FlattenParts
<1>5. /\ start \in [1..M + 1 -> Nat] /\ start[1] = 0
      /\ \A i \in 1..M : start[i + 1] = start[i] + Len(seqs[i])
      /\ tail \in Seq(Nat) /\ Len(tail) = start[M + 1]
      /\ \A i \in 1..M : \A j \in 1..Len(seqs[i]) :
           start[i] + j \in 1..Len(tail) /\ tail[start[i] + j] = seqs[i][j]
    BY <1>3, <1>4 DEF MakeUp
<1> HIDE DEF tail
<1>6. ASSUME NEW i \in 1..M PROVE start[i + 1] = start[i] + 3
  <2>1. Len(seqs[i]) = 3
      BY <1>2, <1>3
  <2> QED
      BY <1>5, <2>1
<1>7. \A n \in Nat : n <= M => start[n + 1] = 3 * n
  <2> DEFINE S == {k \in Nat : k <= M => start[k + 1] = 3 * k}
  <2>1. 0 \in S
      BY <1>5
  <2>2. ASSUME NEW k \in Nat, k \in S PROVE k + 1 \in S
    <3> SUFFICES ASSUME k + 1 <= M PROVE start[(k + 1) + 1] = 3 * (k + 1)
        OBVIOUS
    <3>1. k + 1 \in 1..M /\ k <= M
        BY <1>1
    <3>2. start[(k + 1) + 1] = start[k + 1] + 3
        BY <1>6, <3>1
    <3> QED
        BY <2>2, <3>1, <3>2
  <2>3. Nat \subseteq S
      BY ONLY <2>1, <2>2, Induction
  <2> QED
      BY <2>3
<1>8. Len(tail) = 3 * M
    BY <1>1, <1>5, <1>7
<1>9. ASSUME NEW i \in 0..M - 1
      PROVE  /\ tail[3 * i + 1] = NameIndex(names, members[i + 1].name) - 1
             /\ tail[3 * i + 3] = 8 * members[i + 1].at
  <2>1. i + 1 \in 1..M /\ i \in Nat /\ i <= M
      BY <1>1
  <2>2. start[i + 1] = 3 * i
      BY <1>7, <2>1
  <2>3. seqs[i + 1] = Triple(members[i + 1]) /\ Len(seqs[i + 1]) = 3
      BY <1>2, <1>3, <2>1
  <2>4. \A j \in 1..3 : tail[3 * i + j] = Triple(members[i + 1])[j]
      BY <1>5, <2>1, <2>2, <2>3
  <2> QED
      BY <2>4 DEF Triple
<1> QED
    BY <1>5, <1>8, <1>9 DEF tail, seqs, Triple, M

\* The words of one type.
LEMMA HeaderWords ==
    ASSUME NEW index \in Nat, NEW info \in Nat, NEW tail \in Seq(Nat)
    PROVE  LET words == <<index, info, 0>> \o tail IN
           /\ words \in Seq(Nat) /\ Len(words) = 3 + Len(tail)
           /\ words[1] = index /\ words[2] = info
           /\ \A j \in 1..Len(tail) : words[3 + j] = tail[j]
<1> DEFINE head == <<index, info, 0>>
<1>1. head \in Seq(Nat) /\ Len(head) = 3 /\ head[1] = index /\ head[2] = info
    OBVIOUS
<1> HIDE DEF head
<1>2. /\ head \o tail \in Seq(Nat) /\ Len(head \o tail) = Len(head) + Len(tail)
      /\ \A j \in 1..Len(head) : (head \o tail)[j] = head[j]
      /\ \A j \in 1..Len(tail) : (head \o tail)[Len(head) + j] = tail[j]
  <2>1. head \in Seq(Nat) /\ tail \in Seq(Nat)
      BY <1>1
  <2> QED
      BY ONLY <2>1, ConcatParts
<1>3. 1 \in 1..Len(head) /\ 2 \in 1..Len(head)
    BY <1>1
<1>4. /\ head \o tail \in Seq(Nat) /\ Len(head \o tail) = 3 + Len(tail)
      /\ (head \o tail)[1] = index /\ (head \o tail)[2] = info
      /\ \A j \in 1..Len(tail) : (head \o tail)[3 + j] = tail[j]
    BY <1>1, <1>2, <1>3
<1> QED
    BY <1>4, Zenon DEF head

LEMMA NameWord ==
    ASSUME NEW names, names \in Seq(Range(names)), NEW name \in Range(names)
    PROVE  NameIndex(names, name) - 1 \in Nat
BY NameIndexNames

\* What the words of a structure say of it.
TellStruct(words, names, type) ==
    LET members == type.members IN
    /\ words \in Seq(Nat) /\ Len(words) = 3 + 3 * Len(members)
    /\ words[1] = NameIndex(names, type.name) - 1
    /\ KindOf(words[2]) = Struct /\ VlenOf(words[2]) = Len(members)
    /\ \A i \in 0..Len(members) - 1 :
         /\ words[3 + (3 * i + 1)] = NameIndex(names, members[i + 1].name) - 1
         /\ words[3 + (3 * i + 3)] = 8 * members[i + 1].at

LEMMA StructWords ==
    ASSUME NEW names, NEW types, WellFormed(names, types),
           NEW type \in Range(types), type.kind = Struct
    PROVE  TellStruct(TypeWords(names, type), names, type)
<1> DEFINE members == type.members
           tail == Lists!FlattenSeq([i \in DOMAIN members |->
                          <<NameIndex(names, members[i].name) - 1, 0, 8 * members[i].at>>])
           index == NameIndex(names, type.name) - 1
           info == type.kind * KindUnit + Len(members)
           words == <<index, info, 0>> \o tail
<1>1. names \in Seq(Range(names)) /\ type.name \in Range(names) /\ HasMembers(names, members)
    BY DEF WellFormed
<1>2. Len(members) \in 0..MaxVlen
  <2>1. members \in Seq(Range(members)) /\ Len(members) <= MaxVlen
      BY <1>1 DEF HasMembers
  <2> HIDE DEF members
  <2> QED
      BY <2>1
<1>3. TypeWords(names, type) = words
    BY DEF TypeWords
<1>4. type.kind = Struct /\ Struct \in 0..31
    BY DEF Struct
<1> HIDE DEF members
<1>5. /\ tail \in Seq(Nat) /\ Len(tail) = 3 * Len(members)
      /\ \A i \in 0..Len(members) - 1 :
           /\ tail[3 * i + 1] = NameIndex(names, members[i + 1].name) - 1
           /\ tail[3 * i + 3] = 8 * members[i + 1].at
    BY <1>1, MemberWords
<1>6. info \in Nat /\ KindOf(info) = Struct /\ VlenOf(info) = Len(members)
    BY <1>2, <1>4, InfoWord, Zenon
<1>7. index \in Nat
    BY <1>1, NameWord
<1> HIDE DEF tail, info, index
<1>8. /\ words \in Seq(Nat) /\ Len(words) = 3 + Len(tail)
      /\ words[1] = index /\ words[2] = info
      /\ \A j \in 1..Len(tail) : words[3 + j] = tail[j]
    BY <1>5, <1>6, <1>7, HeaderWords
<1> HIDE DEF words
<1>9. ASSUME NEW i \in 0..Len(members) - 1
      PROVE  3 * i + 1 \in 1..Len(tail) /\ 3 * i + 3 \in 1..Len(tail)
    BY <1>2, <1>5
<1> QED
    BY <1>3, <1>5, <1>6, <1>8, <1>9 DEF members, index, TellStruct

\* Of every type that is no structure the reader skips what there is.
LEMMA OtherWords ==
    ASSUME NEW names, NEW types, WellFormed(names, types),
           NEW type \in Range(types), type.kind # Struct
    PROVE  LET words == TypeWords(names, type) IN
           /\ words \in Seq(Nat)
           /\ KindOf(words[2]) # Struct
           /\ Len(words) = 3 + ExtraWords(KindOf(words[2]), VlenOf(words[2]))
<1> DEFINE kind == type.kind
           vlen == type.vlen
           tail == type.tail
           index == NameIndex(names, type.name) - 1
           info == kind * KindUnit + vlen
           words == <<index, info, 0>> \o tail
<1>1. names \in Seq(Range(names)) /\ type.name \in Range(names) /\ HasTail(type)
    BY DEF WellFormed
<1>2. TypeWords(names, type) = words
    BY DEF TypeWords
<1>3. kind \in 1..19 /\ kind \in 0..31 /\ kind # 4 /\ vlen \in 0..MaxVlen /\ tail \in Seq(Nat)
  <2>1. kind \in DOMAIN TailOfKind /\ vlen \in 0..MaxVlen /\ tail \in Seq(Nat)
      BY <1>1, Zenon DEF HasTail
  <2>2. DOMAIN TailOfKind = 1..19
      BY DEF TailOfKind
  <2> QED
      BY <2>1, <2>2 DEF Struct
<1>4. Len(tail) = TailOfKind[kind] + TailOfElement[kind] * vlen
    BY <1>1, Zenon DEF HasTail
<1> HIDE DEF kind, vlen, tail
<1>5. info \in Nat /\ KindOf(info) = kind /\ VlenOf(info) = vlen
    BY <1>3, InfoWord, Zenon
<1>6. index \in Nat
    BY <1>1, NameWord
<1>7. vlen \in Nat
    BY <1>3, MaxVlenFits
<1>8. TailOfKind[kind] + TailOfElement[kind] * vlen = ExtraWords(kind, vlen)
  <2>1. CASE kind \in {1, 14, 17}
    <3>1. TailOfKind[kind] = 1 /\ TailOfElement[kind] = 0
        BY <2>1 DEF TailOfKind, TailOfElement
    <3>2. ExtraWords(kind, vlen) = 1
        BY <2>1 DEF ExtraWords
    <3> QED
        BY <1>7, <3>1, <3>2
  <2>2. CASE kind \in {3}
    <3>1. TailOfKind[kind] = 3 /\ TailOfElement[kind] = 0
        BY <2>2 DEF TailOfKind, TailOfElement
    <3>2. ExtraWords(kind, vlen) = 3
        BY <2>2 DEF ExtraWords
    <3> QED
        BY <1>7, <3>1, <3>2
  <2>3. CASE kind \in {5, 15, 19}
    <3>1. TailOfKind[kind] = 0 /\ TailOfElement[kind] = 3
        BY <2>3 DEF TailOfKind, TailOfElement
    <3>2. ExtraWords(kind, vlen) = 3 * vlen
        BY <2>3 DEF ExtraWords
    <3> QED
        BY <1>7, <3>1, <3>2
  <2>4. CASE kind \in {6, 13}
    <3>1. TailOfKind[kind] = 0 /\ TailOfElement[kind] = 2
        BY <2>4 DEF TailOfKind, TailOfElement
    <3>2. ExtraWords(kind, vlen) = 2 * vlen
        BY <2>4 DEF ExtraWords
    <3> QED
        BY <1>7, <3>1, <3>2
  <2>5. CASE kind \in {2, 7, 8, 9, 10, 11, 12, 16, 18}
    <3>1. TailOfKind[kind] = 0 /\ TailOfElement[kind] = 0
        BY <2>5 DEF TailOfKind, TailOfElement
    <3>2. ExtraWords(kind, vlen) = 0
        BY <2>5 DEF ExtraWords
    <3> QED
        BY <1>7, <3>1, <3>2
  <2>6. kind \in {1, 14, 17} \cup {3} \cup {5, 15, 19} \cup {6, 13}
             \cup {2, 7, 8, 9, 10, 11, 12, 16, 18}
      BY <1>3
  <2> QED
      BY <2>1, <2>2, <2>3, <2>4, <2>5, <2>6
<1> HIDE DEF info, index
<1>9. words \in Seq(Nat) /\ Len(words) = 3 + Len(tail) /\ words[2] = info
    BY <1>3, <1>5, <1>6, HeaderWords
<1> HIDE DEF words
<1>10. kind # Struct
    BY <1>3 DEF Struct
<1> QED
    BY <1>2, <1>4, <1>5, <1>8, <1>9, <1>10

TypeSection(names, types) ==
    Lists!FlattenSeq([i \in DOMAIN types |-> TypeWords(names, types[i])])

LEMMA WordsOfTypes ==
    ASSUME NEW names, NEW types, WellFormed(names, types), NEW type \in Range(types)
    PROVE  LET words == TypeWords(names, type) IN
           words \in Seq(Nat) /\ Len(words) >= 3
<1>1. CASE type.kind = Struct
  <2>1. HasMembers(names, type.members)
      BY <1>1 DEF WellFormed
  <2>2. Len(type.members) \in Nat
      BY <2>1 DEF HasMembers
  <2> QED
      BY <1>1, <2>2, StructWords DEF TellStruct
<1>2. CASE type.kind # Struct
  <2> DEFINE words == TypeWords(names, type)
             tail == type.tail
  <2>1. words \in Seq(Nat) /\ Len(words) = 3 + ExtraWords(KindOf(words[2]), VlenOf(words[2]))
      BY <1>2, OtherWords
  <2>2. tail \in Seq(Nat)
      BY <1>2, Zenon DEF WellFormed, HasTail
  <2>3. words = <<NameIndex(names, type.name) - 1, type.kind * KindUnit + type.vlen, 0>> \o tail
      BY <1>2 DEF TypeWords
  <2> DEFINE head == <<NameIndex(names, type.name) - 1, type.kind * KindUnit + type.vlen, 0>>
  <2>4. head \in Seq({NameIndex(names, type.name) - 1, type.kind * KindUnit + type.vlen, 0}) /\ Len(head) = 3
      OBVIOUS
  <2>5. DOMAIN words = 1..Len(head) + Len(tail)
      BY <2>3
  <2> QED
      BY <2>1, <2>2, <2>4, <2>5
<1> QED
    BY <1>1, <1>2

\* Where the types of a section are.
TypesStart(names, types, section, start) ==
    /\ start \in [1..Len(types) + 1 -> Nat] /\ start[1] = 0
    /\ section \in Seq(Nat) /\ Len(section) = start[Len(types) + 1]
    /\ \A i \in 1..Len(types) :
         LET words == TypeWords(names, types[i]) IN
         /\ start[i + 1] = start[i] + Len(words)
         /\ \A j \in 1..Len(words) :
              start[i] + j \in 1..Len(section) /\ section[start[i] + j] = words[j]

LEMMA SectionParts ==
    ASSUME NEW names, NEW types, WellFormed(names, types)
    PROVE  \E start : TypesStart(names, types, TypeSection(names, types), start)
<1> DEFINE N == Len(types)
           seqs == [i \in DOMAIN types |-> TypeWords(names, types[i])]
           section == TypeSection(names, types)
<1>1. N \in Nat /\ DOMAIN types = 1..N
    BY DEF WellFormed
<1>2. \A i \in 1..N : types[i] \in Range(types)
    BY <1>1 DEF Range
<1>3. seqs \in Seq(Seq(Nat)) /\ Len(seqs) = N /\ \A i \in 1..N : seqs[i] = TypeWords(names, types[i])
    BY <1>1, <1>2, WordsOfTypes
<1>4. section = Lists!FlattenSeq(seqs)
    BY DEF TypeSection
<1> HIDE DEF seqs, section, N
<1>5. PICK start : MakeUp(Nat, seqs, section, start)
    BY <1>3, <1>4, FlattenParts
<1>6. /\ start \in [1..N + 1 -> Nat] /\ start[1] = 0
      /\ \A i \in 1..N : start[i + 1] = start[i] + Len(seqs[i])
      /\ section \in Seq(Nat) /\ Len(section) = start[N + 1]
      /\ \A i \in 1..N : \A j \in 1..Len(seqs[i]) :
           start[i] + j \in 1..Len(section) /\ section[start[i] + j] = seqs[i][j]
    BY <1>3, <1>5 DEF MakeUp
<1> QED
  <2>1. TypesStart(names, types, section, start)
      BY <1>3, <1>6 DEF N, TypesStart
  <2> QED
      BY <2>1 DEF section

\* What the reader can read in the image.
LEMMA ImageParts ==
    ASSUME NEW names, NEW types, WellFormed(names, types)
    PROVE  LET btf == Image(names, types)
               section == TypeSection(names, types)
               T == Len(section) IN
           /\ btf.hdrLen = 6 /\ btf.typeOff = 0 /\ btf.typeLen = T /\ T \in Nat
           /\ Loads(btf)
           /\ \A at \in 0..T + 5 : Word(btf, at) = IF at < 6 THEN 0 ELSE section[at - 5]
           /\ \A name \in Range(names) : Name(btf, NameIndex(names, name) - 1) = {name}
<1> DEFINE btf == Image(names, types)
           section == TypeSection(names, types)
           T == Len(section)
           zeros == [i \in 1..6 |-> 0]
           S == Len(names)
           X == Nat \cup Range(names)
<1>1. names \in Seq(X) /\ names \in Seq(Range(names)) /\ S \in Nat
  <2>1. names \in Seq(Range(names))
      BY DEF WellFormed
  <2> QED
      BY <2>1
<1>2. section \in Seq(Nat)
    BY SectionParts DEF TypesStart
<1>3. /\ btf.magic = Magic /\ btf.hdrLen = 6 /\ btf.typeOff = 0 /\ btf.typeLen = T
      /\ btf.strOff = T /\ btf.strLen = S
      /\ btf.words = zeros \o section \o names
    BY DEF Image, TypeSection
<1> HIDE DEF btf, section, S
<1>4. T \in Nat /\ section \in Seq(X)
    BY <1>2
<1>5. zeros \in Seq(X) /\ Len(zeros) = 6 /\ \A i \in 1..6 : zeros[i] = 0
    OBVIOUS
<1> HIDE DEF zeros, X, T
<1> DEFINE front == zeros \o section
<1>6. /\ front \in Seq(X) /\ Len(front) = 6 + T
      /\ \A j \in 1..6 : front[j] = 0
      /\ \A j \in 1..T : front[6 + j] = section[j]
  <2>1. /\ front \in Seq(X) /\ Len(front) = Len(zeros) + Len(section)
        /\ \A j \in 1..Len(zeros) : front[j] = zeros[j]
        /\ \A j \in 1..Len(section) : front[Len(zeros) + j] = section[j]
    <3>1. zeros \in Seq(X) /\ section \in Seq(X)
        BY <1>4, <1>5
    <3> QED
        BY ONLY <3>1, ConcatParts
  <2> HIDE DEF front
  <2> QED
      BY <1>5, <2>1 DEF T
<1>7. /\ btf.words = front \o names
    BY <1>3
<1> HIDE DEF front
<1>8. /\ Len(btf.words) = 6 + T + S
      /\ \A j \in 1..6 + T : btf.words[j] = front[j]
      /\ \A j \in 1..S : btf.words[6 + T + j] = names[j]
  <2>1. front \in Seq(X) /\ names \in Seq(X)
      BY <1>1, <1>6
  <2>2. /\ Len(front \o names) = Len(front) + Len(names)
        /\ \A j \in 1..Len(front) : (front \o names)[j] = front[j]
        /\ \A j \in 1..Len(names) : (front \o names)[Len(front) + j] = names[j]
      BY ONLY <2>1, ConcatParts
  <2> QED
      BY <1>6, <1>7, <2>2 DEF S
<1>9. Loads(btf)
    BY <1>1, <1>3, <1>4, <1>8 DEF Loads
<1>10. ASSUME NEW at \in 0..T + 5
       PROVE  Word(btf, at) = IF at < 6 THEN 0 ELSE section[at - 5]
  <2>1. at < Len(btf.words) /\ at + 1 \in 1..6 + T
      BY <1>1, <1>4, <1>8
  <2>2. Word(btf, at) = front[at + 1]
      BY <1>8, <2>1 DEF Word
  <2>3. CASE at < 6
      BY <1>6, <2>2, <2>3
  <2>4. CASE at >= 6
    <3>1. at - 5 \in 1..T /\ 6 + (at - 5) = at + 1
        BY <1>4, <2>4
    <3>2. front[6 + (at - 5)] = section[at - 5]
        BY <1>6, <3>1
    <3> QED
        BY <2>2, <2>4, <3>1, <3>2
  <2> QED
      BY <2>3, <2>4
<1>11. ASSUME NEW name \in Range(names)
       PROVE  Name(btf, NameIndex(names, name) - 1) = {name}
  <2> DEFINE i == NameIndex(names, name)
  <2>1. i \in 1..S /\ names[i] = name
      BY <1>1, NameIndexNames DEF S
  <2> HIDE DEF i
  <2>2. i - 1 < S /\ 6 + T + (i - 1) < Len(btf.words) /\ 6 + T + (i - 1) + 1 = 6 + T + i
      BY <1>1, <1>4, <1>8, <2>1
  <2>3. Word(btf, 6 + T + (i - 1)) = name
      BY <1>8, <2>1, <2>2 DEF Word
  <2>4. Name(btf, i - 1) = {name}
      BY <1>3, <2>2, <2>3 DEF Name
  <2> QED
      BY <2>4 DEF i
<1> QED
    BY <1>3, <1>4, <1>9, <1>10, <1>11 DEF T, btf, section

-----------------------------------------------------------------------------
(* The reader's walk over the image. *)

\* What the walk of FieldOffset does at pos, given the rest of it.
Turn(btf, struct, field, end, walk, pos) ==
    LET info == Word(btf, pos + 1)
        name == Name(btf, Word(btf, pos))
    IN  IF pos + 3 > end THEN {}
        ELSE IF KindOf(info) = Struct /\ name = {} THEN {}
        ELSE IF KindOf(info) = Struct /\ name = {struct}
        THEN MemberOffset(btf, pos, end, field)
        ELSE walk[pos + 3 + ExtraWords(KindOf(info), VlenOf(info))]

\* It moves on to this place, if it does.
Beyond(btf, pos) ==
    LET info == Word(btf, pos + 1) IN pos + 3 + ExtraWords(KindOf(info), VlenOf(info))

MovesOn(btf, end) ==
    \A pos \in Nat : pos + 3 <= end => Beyond(btf, pos) \in Nat /\ Beyond(btf, pos) > pos

IsWalk(btf, struct, field, end, walk) ==
    walk = [pos \in Nat |-> Turn(btf, struct, field, end, walk, pos)]

LEMMA TurnDependsOnBeyond ==
    ASSUME NEW btf, NEW struct, NEW field, NEW end, NEW pos, NEW v, NEW w,
           pos + 3 <= end => v[Beyond(btf, pos)] = w[Beyond(btf, pos)], pos \in Nat, end \in Nat
    PROVE  Turn(btf, struct, field, end, v, pos) = Turn(btf, struct, field, end, w, pos)
<1>1. CASE pos + 3 > end
    BY <1>1 DEF Turn
<1>2. CASE ~(pos + 3 > end)
  <2>1. v[Beyond(btf, pos)] = w[Beyond(btf, pos)]
      BY <1>2
  <2> QED
      BY <1>2, <2>1 DEF Turn, Beyond
<1> QED
    BY <1>1, <1>2

\* The walk comes to an end, whatever is in the image.
LEMMA WalkExists ==
    ASSUME NEW btf, NEW struct, NEW field, NEW end \in Nat, MovesOn(btf, end)
    PROVE  \E walk : IsWalk(btf, struct, field, end, walk)
<1> DEFINE T(w, pos) == Turn(btf, struct, field, end, w, pos)
           Good(w, n) == \A pos \in Nat : pos + n >= end => w[pos] = T(w, pos)
           S == {n \in Nat : \E w : Good(w, n)}
<1>1. 0 \in S
  <2> DEFINE w == [pos \in Nat |-> {}]
  <2>1. ASSUME NEW pos \in Nat, pos + 0 >= end PROVE w[pos] = T(w, pos)
    <3>1. pos + 3 > end
        BY <2>1
    <3> QED
        BY <3>1 DEF Turn
  <2> HIDE DEF w
  <2>2. Good(w, 0)
      BY <2>1
  <2> QED
      BY <2>2
<1>2. ASSUME NEW n \in Nat, n \in S PROVE n + 1 \in S
  <2>1. PICK v : Good(v, n)
      BY <1>2
  <2> DEFINE w == [pos \in Nat |-> IF pos + n >= end THEN v[pos] ELSE T(v, pos)]
  <2> HIDE DEF T
  <2>2. \A pos \in Nat : pos + n >= end => w[pos] = v[pos]
      OBVIOUS
  <2>3. \A pos \in Nat : ~(pos + n >= end) => w[pos] = T(v, pos)
      OBVIOUS
  <2> HIDE DEF w
  <2>4. ASSUME NEW pos \in Nat, pos + (n + 1) >= end PROVE w[pos] = T(w, pos)
    <3>1. pos + 3 <= end => v[Beyond(btf, pos)] = w[Beyond(btf, pos)]
      <4> SUFFICES ASSUME pos + 3 <= end PROVE v[Beyond(btf, pos)] = w[Beyond(btf, pos)]
          OBVIOUS
      <4> DEFINE q == Beyond(btf, pos)
      <4>1. q \in Nat /\ q > pos
          BY DEF MovesOn
      <4> HIDE DEF q
      <4>2. q + n >= end
          BY <2>4, <4>1
      <4> QED
          BY <2>2, <4>1, <4>2 DEF q
    <3>2. T(v, pos) = T(w, pos)
        BY <3>1, TurnDependsOnBeyond DEF T
    <3>3. w[pos] = T(v, pos)
      <4>1. CASE pos + n >= end
          BY <2>1, <2>2, <4>1
      <4>2. CASE ~(pos + n >= end)
          BY <2>3, <4>2
      <4> QED
          BY <4>1, <4>2
    <3> QED
        BY <3>2, <3>3
  <2>5. Good(w, n + 1)
      BY <2>4
  <2> HIDE DEF Good
  <2> QED
      BY <2>5
<1>3. end \in S
    BY ONLY <1>1, <1>2, end \in Nat, Induction
<1>4. PICK v : Good(v, end)
    BY <1>3
<1> DEFINE w == [pos \in Nat |-> v[pos]]
<1>5. ASSUME NEW pos \in Nat PROVE w[pos] = T(w, pos)
  <2>1. v[pos] = T(v, pos)
      BY <1>4
  <2>2. pos + 3 <= end => v[Beyond(btf, pos)] = w[Beyond(btf, pos)]
      BY DEF MovesOn
  <2>3. w[pos] = v[pos]
      OBVIOUS
  <2> HIDE DEF w
  <2>4. T(v, pos) = T(w, pos)
      BY <2>2, TurnDependsOnBeyond
  <2> QED
      BY <2>1, <2>3, <2>4
<1> HIDE DEF T
<1>6. w = [pos \in Nat |-> T(w, pos)]
    BY <1>5
<1> HIDE DEF w
<1> QED
    BY <1>6 DEF T, IsWalk

\* The steps of the walk.
LEMMA FieldOffsetWalks ==
    ASSUME NEW btf, NEW struct, NEW field, NEW base \in Nat, NEW end \in Nat,
           base = btf.hdrLen + btf.typeOff, end = base + btf.typeLen, MovesOn(btf, end)
    PROVE  \E walk : /\ FieldOffset(btf, struct, field) = walk[base]
                     /\ \A pos \in Nat : walk[pos] = Turn(btf, struct, field, end, walk, pos)
<1>1. \E walk : IsWalk(btf, struct, field, end, walk)
    BY WalkExists
<1> DEFINE w == CHOOSE walk : walk = [pos \in Nat |-> Turn(btf, struct, field, end, walk, pos)]
<1>2. w = [pos \in Nat |-> Turn(btf, struct, field, end, w, pos)]
    BY <1>1, Zenon DEF IsWalk
<1>3. FieldOffset(btf, struct, field) = w[base]
    BY Zenon DEF FieldOffset, Turn
<1> HIDE DEF w
<1>4. \A pos \in Nat : w[pos] = Turn(btf, struct, field, end, w, pos)
    BY <1>2, Zenon
<1> QED
    BY <1>3, <1>4

\* What the reader sees of the i-th type.
LEMMA TypeInImage ==
    ASSUME NEW names, NEW types, WellFormed(names, types), NEW start,
           TypesStart(names, types, TypeSection(names, types), start), NEW i \in 1..Len(types)
    PROVE  LET btf == Image(names, types)
               words == TypeWords(names, types[i])
               pos == 6 + start[i] IN
           /\ types[i] \in Range(types) /\ pos \in Nat
           /\ pos + Len(words) = 6 + start[i + 1]
           /\ pos + Len(words) <= 6 + Len(TypeSection(names, types))
           /\ \A j \in 1..Len(words) : Word(btf, pos + (j - 1)) = words[j]
<1> DEFINE btf == Image(names, types)
           words == TypeWords(names, types[i])
           pos == 6 + start[i]
           section == TypeSection(names, types)
           T == Len(section)
<1>1. Len(types) \in Nat /\ types[i] \in Range(types)
    BY DEF WellFormed, Range
<1>2. /\ start[i] \in Nat /\ start[i + 1] = start[i] + Len(words)
      /\ \A j \in 1..Len(words) : start[i] + j \in 1..T /\ section[start[i] + j] = words[j]
    BY <1>1 DEF TypesStart
<1>3. words \in Seq(Nat) /\ Len(words) >= 3
    BY <1>1, WordsOfTypes
<1>4. T \in Nat /\ \A at \in 0..T + 5 : Word(btf, at) = IF at < 6 THEN 0 ELSE section[at - 5]
    BY ImageParts
<1> HIDE DEF words, section, T, btf
<1>5. ASSUME NEW j \in 1..Len(words) PROVE Word(btf, pos + (j - 1)) = words[j]
  <2>1. start[i] + j \in 1..T /\ section[start[i] + j] = words[j]
      BY <1>2
  <2> DEFINE b == start[i]
  <2>2. b \in Nat /\ j \in Int /\ j >= 1 /\ b + j \in 1..T /\ T \in Nat
      BY <1>2, <1>3, <1>4, <2>1
  <2> HIDE DEF b
  <2> DEFINE p == 6 + b + (j - 1)
  <2>3. p \in 0..T + 5 /\ ~(p < 6) /\ p - 5 = b + j
      BY <2>2
  <2> HIDE DEF p
  <2>4. Word(btf, p) = section[b + j]
      BY <1>4, <2>3
  <2> QED
      BY <2>1, <2>4 DEF b, p
<1>6. Len(words) \in 1..Len(words)
    BY <1>3
<1>7. start[i] + Len(words) \in 1..T
    BY <1>2, <1>6
<1>8. pos + Len(words) <= 6 + T /\ pos + Len(words) = 6 + start[i + 1] /\ pos \in Nat
  <2>1. start[i] \in Nat /\ start[i + 1] = start[i] + Len(words) /\ Len(words) \in Nat
      BY <1>2, <1>3
  <2> QED
    <3>1. T \in Nat /\ start[i] + Len(words) <= T
        BY <1>4, <1>7, <2>1
    <3> DEFINE b == start[i]
               l == Len(words)
    <3>2. b \in Nat /\ l \in Nat /\ b + l <= T /\ start[i + 1] = b + l
        BY <2>1, <3>1, Zenon
    <3> HIDE DEF b, l
    <3>3. (6 + b) + l <= 6 + T /\ (6 + b) + l = 6 + (b + l) /\ 6 + b \in Nat
        BY <3>1, <3>2
    <3> QED
        BY <3>2, <3>3, Zenon DEF b, l
<1> QED
    BY <1>1, <1>5, <1>8 DEF words, section, T, btf

FieldsNamed(members, field) ==
    {members[m].at : m \in {j \in DOMAIN members : members[j].name = field}}

LEMMA TimesEight == \A n \in Nat : (8 * n) \div 8 = n
OBVIOUS

\* The i-th type is a structure, which is at pos of a section that ends at end.
StructAt(names, types, i, pos, end) ==
    /\ WellFormed(names, types) /\ i \in 1..Len(types) /\ types[i].kind = Struct
    /\ end = 6 + Len(TypeSection(names, types))
    /\ \E start : /\ TypesStart(names, types, TypeSection(names, types), start)
                  /\ pos = 6 + start[i]

Finds(btf, pos, end, members, field) ==
    MemberOffset(btf, pos, end, field) = FieldsNamed(members, field)

\* The reader finds the member of a structure that has the name.
LEMMA MemberFound ==
    ASSUME NEW names, NEW types, NEW i, NEW pos, NEW end, StructAt(names, types, i, pos, end),
           NEW field, field # Anonymous
    PROVE  Finds(Image(names, types), pos, end, types[i].members, field)
<1>0. /\ WellFormed(names, types) /\ i \in 1..Len(types) /\ types[i].kind = Struct
      /\ end = 6 + Len(TypeSection(names, types))
    BY DEF StructAt
<1>14. PICK start : /\ TypesStart(names, types, TypeSection(names, types), start)
                   /\ pos = 6 + start[i]
    BY DEF StructAt
<1> DEFINE btf == Image(names, types)
           words == TypeWords(names, types[i])
           ms == types[i].members
           M == Len(ms)
           at(k) == pos + 3 + 3 * k
<1>1. /\ types[i] \in Range(types) /\ pos \in Nat /\ pos + Len(words) <= end
      /\ \A j \in 1..Len(words) : Word(btf, pos + (j - 1)) = words[j]
    BY <1>0, <1>14, TypeInImage
<1>2. /\ words \in Seq(Nat) /\ Len(words) = 3 + 3 * M
      /\ KindOf(words[2]) = Struct /\ VlenOf(words[2]) = M
      /\ \A k \in 0..M - 1 :
           /\ words[3 + (3 * k + 1)] = NameIndex(names, ms[k + 1].name) - 1
           /\ words[3 + (3 * k + 3)] = 8 * ms[k + 1].at
  <2>1. TellStruct(words, names, types[i])
      BY <1>0, <1>1, StructWords
  <2> HIDE DEF words
  <2> QED
      BY <2>1 DEF TellStruct
<1>3. HasMembers(names, ms)
    BY <1>0, <1>1 DEF WellFormed
<1> HIDE DEF ms
<1>4. /\ M \in Nat /\ DOMAIN ms = 1..M
      /\ \A m \in 1..M : ms[m].name \in Range(names) /\ ms[m].at \in Nat
      /\ \A m, n \in 1..M : ms[m].name = ms[n].name /\ ms[m].name # Anonymous => m = n
  <2>1. M \in Nat /\ DOMAIN ms = 1..M
      BY <1>3 DEF HasMembers
  <2> QED
      BY <1>3, <2>1 DEF HasMembers
<1>5. end \in Nat
    BY <1>0, ImageParts
<1>6. \A name \in Range(names) : Name(btf, NameIndex(names, name) - 1) = {name}
    BY <1>0, ImageParts
<1> HIDE DEF btf, words, M
<1>7. VlenOf(Word(btf, pos + 1)) = M
  <2>1. 2 \in 1..Len(words) /\ pos + (2 - 1) = pos + 1
      BY <1>1, <1>2, <1>4
  <2> QED
      BY <1>1, <1>2, <2>1
<1>8. ASSUME NEW k \in 0..M - 1
      PROVE  /\ at(k) + 3 <= end
             /\ Name(btf, Word(btf, at(k))) = {ms[k + 1].name}
             /\ Word(btf, at(k) + 2) \div 8 = ms[k + 1].at
  <2>1. k + 1 \in 1..M /\ k \in Nat /\ k + 1 <= M
      BY <1>4
  <2>2. 3 + (3 * k + 1) \in 1..Len(words) /\ 3 + (3 * k + 3) \in 1..Len(words)
      BY <1>2, <1>4, <2>1
  <2> DEFINE L == Len(words)
  <2>10. pos \in Nat /\ L = 3 + 3 * M /\ L \in Nat /\ pos + L <= end
      BY <1>1, <1>2, <1>4
  <2> HIDE DEF L
  <2>3. /\ pos + ((3 + (3 * k + 1)) - 1) = at(k)
        /\ pos + ((3 + (3 * k + 3)) - 1) = at(k) + 2
        /\ at(k) + 3 <= pos + L
      BY <1>4, <2>1, <2>10
  <2>4. at(k) + 3 <= end
      BY ONLY <1>5, <2>1, <2>3, <2>10
  <2>5. Word(btf, at(k)) = words[3 + (3 * k + 1)] /\ Word(btf, at(k) + 2) = words[3 + (3 * k + 3)]
      BY <1>1, <2>2, <2>3
  <2>6. /\ words[3 + (3 * k + 1)] = NameIndex(names, ms[k + 1].name) - 1
        /\ words[3 + (3 * k + 3)] = 8 * ms[k + 1].at
      BY <1>2
  <2>7. ms[k + 1].name \in Range(names) /\ ms[k + 1].at \in Nat
      BY <1>4, <2>1
  <2>8. (8 * ms[k + 1].at) \div 8 = ms[k + 1].at
      BY <2>7, TimesEight
  <2>9. Name(btf, NameIndex(names, ms[k + 1].name) - 1) = {ms[k + 1].name}
      BY <1>6, <2>7
  <2> HIDE DEF at
  <2> QED
      BY <2>4, <2>5, <2>6, <2>8, <2>9
<1> DEFINE all == 0..M - 1
           ends == {k \in all : at(k) + 3 > end \/ Name(btf, Word(btf, at(k))) = {}}
           found == {k \in all : Name(btf, Word(btf, at(k))) = {field}} \ ends
<1>9. ends = {}
  <2> SUFFICES ASSUME NEW k \in all, at(k) + 3 > end \/ Name(btf, Word(btf, at(k))) = {} PROVE FALSE
      OBVIOUS
  <2>1. at(k) + 3 <= end /\ at(k) \in Int
      BY <1>1, <1>4, <1>8
  <2>2. Name(btf, Word(btf, at(k))) = {ms[k + 1].name}
      BY <1>8
  <2>3. Name(btf, Word(btf, at(k))) # {}
      BY <2>2, Zenon
  <2> HIDE DEF at
  <2> QED
      BY <1>5, <2>1, <2>3
<1>10. found = {k \in all : ms[k + 1].name = field}
  <2>1. \A k \in all : Name(btf, Word(btf, at(k))) = {field} <=> ms[k + 1].name = field
    <3> SUFFICES ASSUME NEW k \in all
                 PROVE  Name(btf, Word(btf, at(k))) = {field} <=> ms[k + 1].name = field
        OBVIOUS
    <3>1. Name(btf, Word(btf, at(k))) = {ms[k + 1].name}
        BY <1>8
    <3> HIDE DEF at
    <3> QED
        BY <3>1
  <2> HIDE DEF at, ends, all
  <2> QED
      BY <1>9, <2>1
<1>11. MemberOffset(btf, pos, end, field) =
         IF found = {} \/ \E k \in ends : k < Min(found) THEN {}
         ELSE {Word(btf, at(Min(found)) + 2) \div 8}
    BY <1>7, Zenon DEF MemberOffset
<1> HIDE DEF ends, found, at
<1>12. CASE found = {}
  <2>1. \A m \in 1..M : ms[m].name # field
    <3> SUFFICES ASSUME NEW m \in 1..M, ms[m].name = field PROVE FALSE
        OBVIOUS
    <3>1. m - 1 \in all /\ (m - 1) + 1 = m
        BY <1>4
    <3> QED
        BY <1>10, <1>12, <3>1
  <2>2. FieldsNamed(ms, field) = {}
      BY <1>4, <2>1 DEF FieldsNamed
  <2> QED
      BY <1>11, <1>12, <2>2 DEF btf, ms, Finds
<1>13. CASE found # {}
  <2>1. PICK k \in all : ms[k + 1].name = field
      BY <1>10, <1>13
  <2>2. k + 1 \in 1..M /\ k \in Int
      BY <1>4
  <2>3. \A m \in 1..M : ms[m].name = field => m = k + 1
      BY <1>4, <2>1, <2>2
  <2>4. found = {k}
    <3>1. ASSUME NEW n \in found PROVE n = k
      <4>1. n \in all /\ ms[n + 1].name = field
          BY <1>10
      <4>2. n + 1 \in 1..M /\ n \in Int
          BY <1>4, <4>1
      <4> QED
          BY <2>2, <2>3, <4>1, <4>2
    <3> QED
        BY <1>10, <2>1, <3>1
  <2>5. Min(found) = k
      BY <2>2, <2>4, MinIs
  <2>6. MemberOffset(btf, pos, end, field) = {ms[k + 1].at}
      BY <1>8, <1>9, <1>11, <1>13, <2>5
  <2>7. {j \in DOMAIN ms : ms[j].name = field} = {k + 1}
      BY <1>4, <2>1, <2>2, <2>3
  <2>8. FieldsNamed(ms, field) = {ms[k + 1].at}
      BY <2>7 DEF FieldsNamed
  <2> QED
      BY <2>6, <2>8 DEF btf, ms, Finds
<1> QED
    BY <1>12, <1>13

LEMMA ExtraIsNat ==
    ASSUME NEW word \in Nat
    PROVE  ExtraWords(KindOf(word), VlenOf(word)) \in Nat
<1>1. KindOf(word) \in Nat /\ VlenOf(word) \in Nat
  <2>1. word \div KindUnit \in Nat
      BY SMT DEF KindUnit
  <2> DEFINE q == word \div KindUnit
  <2> HIDE DEF q
  <2>2. q % 32 \in Nat
      BY <2>1, SMT DEF q
  <2>3. word % 65536 \in Nat
      BY SMT
  <2> QED
      BY <2>2, <2>3, SMT DEF KindOf, VlenOf, q
<1> DEFINE k == KindOf(word)
           v == VlenOf(word)
<1> HIDE DEF k, v
<1>2. ExtraWords(k, v) \in {1, 3, 3 * v, 2 * v, 0}
    BY DEF ExtraWords
<1>3. v \in Nat
    BY <1>1 DEF v
<1> QED
    BY <1>2, <1>3 DEF k, v

LEMMA ImageMovesOn ==
    ASSUME NEW names, NEW types, WellFormed(names, types)
    PROVE  MovesOn(Image(names, types), 6 + Len(TypeSection(names, types)))
<1> DEFINE btf == Image(names, types)
           section == TypeSection(names, types)
           T == Len(section)
<1>1. T \in Nat /\ \A at \in 0..T + 5 : Word(btf, at) = IF at < 6 THEN 0 ELSE section[at - 5]
    BY ImageParts
<1>2. section \in Seq(Nat)
    BY SectionParts DEF TypesStart
<1> HIDE DEF btf, section
<1>3. ASSUME NEW pos \in Nat, pos + 3 <= 6 + T
      PROVE  Beyond(btf, pos) \in Nat /\ Beyond(btf, pos) > pos
  <2>1. pos + 1 \in 0..T + 5
      BY <1>1, <1>3
  <2>2. Word(btf, pos + 1) \in Nat
    <3>1. CASE pos + 1 < 6
        BY <1>1, <2>1, <3>1
    <3>2. CASE ~(pos + 1 < 6)
      <4>1. (pos + 1) - 5 \in 1..T
          BY <2>1, <3>2
      <4> QED
          BY <1>1, <1>2, <2>1, <3>2, <4>1
    <3> QED
        BY <3>1, <3>2
  <2> DEFINE extra == ExtraWords(KindOf(Word(btf, pos + 1)), VlenOf(Word(btf, pos + 1)))
  <2>3. extra \in Nat
      BY <2>2, ExtraIsNat
  <2>4. Beyond(btf, pos) = pos + 3 + extra
      BY DEF Beyond
  <2> HIDE DEF extra
  <2> QED
      BY <2>3, <2>4
<1> QED
    BY <1>3 DEF MovesOn, btf, section

\* The reader finds a field where the types say it is, and nothing if they say
\* nothing: it passes by every type before the structure.
LEMMA FieldFound ==
    ASSUME NEW names, NEW types, WellFormed(names, types),
           NEW struct, NEW field, field # Anonymous
    PROVE  FieldOffset(Image(names, types), struct, field) = TrueOffset(types, struct, field)
<1> DEFINE btf == Image(names, types)
           section == TypeSection(names, types)
           end == 6 + Len(section)
           N == Len(types)
           isNamed(i) == types[i].kind = Struct /\ types[i].name = struct
           named == {i \in DOMAIN types : isNamed(i)}
           F == FieldOffset(btf, struct, field)
<1>1. N \in Nat /\ DOMAIN types = 1..N
    BY DEF WellFormed
<1>2. PICK start : TypesStart(names, types, section, start)
    BY SectionParts
<1>3. /\ btf.hdrLen = 6 /\ btf.typeOff = 0 /\ btf.typeLen = Len(section) /\ Len(section) \in Nat
      /\ \A name \in Range(names) : Name(btf, NameIndex(names, name) - 1) = {name}
    BY ImageParts
<1>4. PICK walk : /\ F = walk[6]
                  /\ \A pos \in Nat : walk[pos] = Turn(btf, struct, field, end, walk, pos)
  <2>1. MovesOn(btf, end) /\ 6 \in Nat /\ end \in Nat
        /\ 6 = btf.hdrLen + btf.typeOff /\ end = 6 + btf.typeLen
      BY <1>3, ImageMovesOn
  <2> HIDE DEF btf, end
  <2> QED
      BY <2>1, FieldOffsetWalks
\* At each type the walk goes on, or is at the structure.
<1>5. ASSUME NEW i \in 1..N
      PROVE  walk[6 + start[i]] = IF isNamed(i) THEN FieldsNamed(types[i].members, field)
                                  ELSE walk[6 + start[i + 1]]
  <2> DEFINE words == TypeWords(names, types[i])
             pos == 6 + start[i]
             info == Word(btf, pos + 1)
             name == Name(btf, Word(btf, pos))
  <2>1. /\ types[i] \in Range(types) /\ pos \in Nat
        /\ pos + Len(words) = 6 + start[i + 1] /\ pos + Len(words) <= end
        /\ \A j \in 1..Len(words) : Word(btf, pos + (j - 1)) = words[j]
      BY <1>2, TypeInImage
  <2>2. words \in Seq(Nat) /\ Len(words) >= 3
      BY <2>1, WordsOfTypes
  <2> HIDE DEF words
  <2>3. Word(btf, pos) = words[1] /\ info = words[2]
    <3>1. 1 \in 1..Len(words) /\ 2 \in 1..Len(words) /\ pos + (1 - 1) = pos /\ pos + (2 - 1) = pos + 1
        BY <2>1, <2>2
    <3> QED
        BY <2>1, <3>1
  <2>4. ~(pos + 3 > end)
      BY <1>3, <2>1, <2>2
  <2>5. walk[pos] = Turn(btf, struct, field, end, walk, pos)
      BY <1>4, <2>1
  <2> HIDE DEF pos, btf, end
  <2>6. CASE types[i].kind = Struct
    <3>1. TellStruct(words, names, types[i])
        BY <2>1, <2>6, StructWords DEF words
    <3>2. /\ words[1] = NameIndex(names, types[i].name) - 1 /\ KindOf(info) = Struct
          /\ Len(words) = 3 + 3 * Len(types[i].members) /\ VlenOf(info) = Len(types[i].members)
        BY <2>3, <3>1 DEF TellStruct
    <3>3. types[i].name \in Range(names)
        BY <2>1 DEF WellFormed
    <3>4. name = {types[i].name}
        BY <1>3, <2>3, <3>2, <3>3
    <3> HIDE DEF info, name
    <3>5. CASE types[i].name = struct
      <4>1. Turn(btf, struct, field, end, walk, pos) = MemberOffset(btf, pos, end, field)
          BY <2>4, <3>2, <3>4, <3>5 DEF Turn, info, name
      <4>2. MemberOffset(btf, pos, end, field) = FieldsNamed(types[i].members, field)
        <5>1. StructAt(names, types, i, pos, end)
            BY <1>2, <2>6 DEF StructAt, pos, end
        <5>2. Finds(Image(names, types), pos, end, types[i].members, field)
            BY <5>1, MemberFound
        <5> QED
            BY <5>2 DEF btf, Finds
      <4> QED
          BY <2>5, <2>6, <3>5, <4>1, <4>2 DEF btf, pos, end
    <3>6. CASE types[i].name # struct
      <4>1. name # {} /\ name # {struct}
          BY <3>4, <3>6
      <4>2. ExtraWords(Struct, VlenOf(info)) = 3 * VlenOf(info)
          BY DEF ExtraWords, Struct
      <4>3. Turn(btf, struct, field, end, walk, pos)
              = walk[pos + 3 + ExtraWords(KindOf(info), VlenOf(info))]
          BY <2>4, <3>2, <4>1 DEF Turn, info, name
      <4>4. pos + 3 + 3 * Len(types[i].members) = pos + (3 + 3 * Len(types[i].members))
        <5>1. HasMembers(names, types[i].members)
            BY <2>1, <2>6 DEF WellFormed
        <5>2. Len(types[i].members) \in Nat
            BY <5>1 DEF HasMembers
        <5> DEFINE L == Len(types[i].members)
        <5>3. pos \in Nat /\ L \in Nat
            BY <2>1, <5>2
        <5> HIDE DEF L
        <5>4. pos + 3 + 3 * L = pos + (3 + 3 * L)
            BY <5>3
        <5> QED
            BY <5>4 DEF L
      <4>5. pos + 3 + ExtraWords(KindOf(info), VlenOf(info)) = 6 + start[i + 1]
          BY <2>1, <3>2, <4>2, <4>4
      <4> QED
          BY <2>5, <3>6, <4>3, <4>5 DEF pos
    <3> QED
        BY <3>5, <3>6
  <2>7. CASE types[i].kind # Struct
    <3>1. KindOf(words[2]) # Struct /\ Len(words) = 3 + ExtraWords(KindOf(words[2]), VlenOf(words[2]))
        BY <2>1, <2>7, OtherWords DEF words
    <3>2. words[2] \in Nat
        BY <2>2
    <3>3. ExtraWords(KindOf(info), VlenOf(info)) \in Nat
        BY <2>3, <3>2, ExtraIsNat
    <3>4. Turn(btf, struct, field, end, walk, pos)
            = walk[pos + 3 + ExtraWords(KindOf(info), VlenOf(info))]
        BY <2>3, <2>4, <3>1 DEF Turn
    <3> DEFINE extra == ExtraWords(KindOf(info), VlenOf(info))
    <3>5. Len(words) = 3 + extra
        BY <2>3, <3>1
    <3> HIDE DEF extra, info
    <3>6. pos + 3 + extra = 6 + start[i + 1]
        BY <2>1, <3>3, <3>5 DEF extra
    <3> QED
        BY <2>5, <2>7, <3>4, <3>6 DEF pos, extra
  <2> QED
      BY <2>6, <2>7
<1> HIDE DEF F
\* So it comes to the first of that name.
<1>6. ASSUME NEW i \in Nat
      PROVE  i <= N /\ (\A k \in 1..i : ~isNamed(k)) => F = walk[6 + start[i + 1]]
  <2> DEFINE S == {n \in Nat : n <= N /\ (\A k \in 1..n : ~isNamed(k)) => F = walk[6 + start[n + 1]]}
  <2>1. 0 \in S
    <3>1. start[1] = 0
        BY <1>2 DEF TypesStart
    <3> QED
        BY <1>4, <3>1
  <2>2. ASSUME NEW n \in Nat, n \in S PROVE n + 1 \in S
    <3> HIDE DEF isNamed
    <3> SUFFICES ASSUME n + 1 <= N, \A k \in 1..n + 1 : ~isNamed(k)
                 PROVE  F = walk[6 + start[(n + 1) + 1]]
        OBVIOUS
    <3>1. n + 1 \in 1..N /\ n + 1 \in 1..n + 1 /\ n <= N
        BY <1>1
    <3>2. F = walk[6 + start[n + 1]]
        BY <2>2, <3>1
    <3> QED
        BY <1>5, <3>1, <3>2
  <2>3. Nat \subseteq S
      BY ONLY <2>1, <2>2, Induction
  <2> QED
      BY <2>3
<1> HIDE DEF isNamed
<1>7. CASE named = {}
  <2>1. F = walk[6 + start[N + 1]]
      BY <1>1, <1>6, <1>7
  <2>2. start[N + 1] = Len(section)
      BY <1>2 DEF TypesStart
  <2>3. walk[end] = Turn(btf, struct, field, end, walk, end) /\ end + 3 > end
      BY <1>3, <1>4
  <2>4. F = {}
      BY <2>1, <2>2, <2>3 DEF Turn
  <2>5. TrueOffset(types, struct, field) = {}
      BY <1>7 DEF TrueOffset, isNamed
  <2> QED
      BY <2>4, <2>5 DEF F
<1>8. CASE named # {}
  <2>1. PICK m \in named : \A n \in named : m <= n
    <3>1. named \in SUBSET Nat
        BY <1>1
    <3> QED
        BY <1>8, <3>1, LeastExists
  <2>2. m \in 1..N /\ isNamed(m) /\ \A k \in 1..m - 1 : ~isNamed(k)
      BY <1>1, <2>1
  <2>3. m - 1 \in Nat /\ m - 1 <= N /\ (m - 1) + 1 = m
      BY <1>1, <2>2
  <2>4. F = walk[6 + start[m]]
      BY <1>6, <2>2, <2>3
  <2>5. F = FieldsNamed(types[m].members, field)
      BY <1>5, <2>2, <2>4
  <2>6. Min(named) = m
    <3>1. \A n \in named : (\A k \in named : n <= k) => n = m
        BY <1>1, <2>1
    <3> HIDE DEF named
    <3> QED
        BY <2>1, <3>1 DEF Min
  <2>7. TrueOffset(types, struct, field) = FieldsNamed(types[m].members, field)
      BY <1>8, <2>6, Zenon DEF TrueOffset, FieldsNamed, isNamed
  <2> QED
      BY <2>5, <2>7 DEF F
<1> QED
    BY <1>7, <1>8

-----------------------------------------------------------------------------
(* What the reader makes of a kernel. *)

LEMMA FieldsHaveNames == \A n \in DOMAIN TaskFields : TaskFields[n].field # Anonymous
<1> DEFINE fields == {"real_parent", "tgid", "cred", "euid", "signal", "tty", "index", "files",
                      "fdt", "fd", "f_inode", "i_rdev"}
<1>1. \A n \in DOMAIN TaskFields : TaskFields[n].field \in fields
    BY DEF TaskFields
<1>2. Anonymous \notin fields
    BY DEF Anonymous
<1> QED
    BY <1>1, <1>2

\* A field is in one place.
LEMMA FieldIsOnce ==
    ASSUME NEW names, NEW types, WellFormed(names, types),
           NEW struct, NEW field, field # Anonymous,
           NEW x \in TrueOffset(types, struct, field), NEW y \in TrueOffset(types, struct, field)
    PROVE  x = y
<1> DEFINE named == {i \in DOMAIN types : types[i].kind = Struct /\ types[i].name = struct}
           members == types[Min(named)].members
<1>1. named # {} /\ TrueOffset(types, struct, field) = FieldsNamed(members, field)
  <2>1. TrueOffset(types, struct, field) = IF named = {} THEN {} ELSE FieldsNamed(members, field)
      BY Zenon DEF TrueOffset, FieldsNamed
  <2> HIDE DEF named, members
  <2> QED
      BY <2>1
<1>2. named \in SUBSET Nat
    BY DEF WellFormed
<1>3. Min(named) \in named
  <2>1. PICK m \in named : \A n \in named : m <= n
      BY <1>1, <1>2, LeastExists
  <2> HIDE DEF named
  <2>2. Min(named) = m
      BY <1>2, <2>1, MinIs
  <2> QED
      BY <2>1, <2>2
<1>4. HasMembers(names, members)
  <2> DEFINE m == Min(named)
  <2>1. m \in DOMAIN types /\ types[m].kind = Struct
      BY <1>3
  <2> HIDE DEF m
  <2>2. types[m] \in Range(types)
      BY <2>1 DEF Range
  <2>3. HasMembers(names, types[m].members)
      BY <2>1, <2>2 DEF WellFormed
  <2> QED
      BY <2>3 DEF m
<1> HIDE DEF members
<1>5. PICK i \in DOMAIN members : members[i].name = field /\ x = members[i].at
    BY <1>1 DEF FieldsNamed
<1>6. PICK j \in DOMAIN members : members[j].name = field /\ y = members[j].at
    BY <1>1 DEF FieldsNamed
<1>7. i = j
    BY <1>4, <1>5, <1>6 DEF HasMembers
<1> QED
    BY <1>5, <1>6, <1>7

\* What resolve_task_field_offsets makes of an image that is not damaged.
LEMMA ResolvesTheTypes ==
    ASSUME NEW k \in DOMAIN Kernels, Kernels[k].intact
    PROVE  /\ OffsetsOf[k] = {} =>
                \E n \in DOMAIN TaskFields :
                    TrueOffset(Kernels[k].types, TaskFields[n].of, TaskFields[n].field) = {}
           /\ OffsetsAreTrue(k)
<1> DEFINE names == Kernels[k].names
           types == Kernels[k].types
           image == Kernels[k].image
           true(n) == TrueOffset(types, TaskFields[n].of, TaskFields[n].field)
           found == [n \in DOMAIN TaskFields |->
                       FieldOffset(image, TaskFields[n].of, TaskFields[n].field)]
           all == [n \in DOMAIN TaskFields |-> CHOOSE at \in found[n] : TRUE]
<1>1. WellFormed(names, types) /\ image = Image(names, types)
    BY ImagesAssumption
<1> HIDE DEF names, types, image
<1>2. Loads(image)
    BY <1>1, ImageParts
<1>3. ASSUME NEW n \in DOMAIN TaskFields PROVE found[n] = true(n)
  <2>1. TaskFields[n].field # Anonymous
      BY FieldsHaveNames
  <2>2. FieldOffset(Image(names, types), TaskFields[n].of, TaskFields[n].field) = true(n)
      BY <1>1, <2>1, FieldFound
  <2> QED
      BY <1>1, <2>2
<1>4. ASSUME NEW n \in DOMAIN TaskFields, NEW x \in true(n), NEW y \in true(n) PROVE x = y
  <2>1. TaskFields[n].field # Anonymous
      BY FieldsHaveNames
  <2> QED
      BY <1>1, <1>4, <2>1, FieldIsOnce
<1>5. OffsetsOf[k] = IF ~Loads(image) \/ \E n \in DOMAIN found : found[n] = {} THEN {} ELSE {all}
    BY Zenon DEF OffsetsOf, Resolved, image
<1>6. DOMAIN found = DOMAIN TaskFields
    OBVIOUS
<1> HIDE DEF found, true
<1>7. OffsetsOf[k] = {} => \E n \in DOMAIN TaskFields : true(n) = {}
    BY <1>2, <1>3, <1>5, <1>6
<1>8. ASSUME NEW o \in OffsetsOf[k], NEW n \in DOMAIN TaskFields PROVE true(n) = {o[n]}
  <2>1. found[n] # {} /\ o = all
      BY <1>5, <1>6, <1>8
  <2>2. o[n] \in true(n)
      BY <1>3, <2>1
  <2> QED
      BY <1>4, <2>2
<1> QED
    BY <1>7, <1>8 DEF OffsetsAreTrue, true, types

\* Whatever types a kernel has, and wherever in its image they are: offsets
\* that the reader finds in an image that is not damaged are the right ones.
THEOREM IntactOffsetsAreTrue == \A k \in DOMAIN Kernels : Kernels[k].intact => OffsetsAreTrue(k)
BY ResolvesTheTypes

\* While the start is refused the kernel is still the one whose offsets were
\* not found.
RefusedInv == stage = "refused" => kernel \in DOMAIN Kernels /\ OffsetsOf[kernel] = {}

\* For all kernels: the recorder refuses to start only where the image is
\* damaged or a field is not in it.
THEOREM RecorderRefusesOnlyTheUnknown == RecorderSpec => []RefusesOnlyTheUnknown
<1>1. RecorderInit => RefusedInv
    BY DEF RecorderInit, RefusedInv
<1>2. RefusedInv /\ [RecorderNext]_recorderVars => RefusedInv'
  <2> SUFFICES ASSUME RefusedInv, [RecorderNext]_recorderVars PROVE RefusedInv'
      OBVIOUS
  <2>1. CASE Resolve
      BY <2>1 DEF Resolve, RefusedInv
  <2>2. CASE StartStdout \/ StartSqlite \/ OpenSink \/ Load \/ Attach \/ Record \/ End
      BY <2>2 DEF StartStdout, StartSqlite, OpenSink, Load, Attach, Record, End, RefusedInv,
                  probeVars
  <2>3. CASE UNCHANGED recorderVars
      BY <2>3 DEF recorderVars, probeVars, RefusedInv
  <2> QED
      BY <2>1, <2>2, <2>3 DEF RecorderNext
<1>3. RefusedInv => RefusesOnlyTheUnknown
    BY ResolvesTheTypes DEF RefusedInv, RefusesOnlyTheUnknown
<1> QED
    BY <1>1, <1>2, <1>3, PTL DEF RecorderSpec

-----------------------------------------------------------------------------
(* What a record holds. *)

\* The bytes before the first 0.
LEMMA BytesBeforeZero ==
    ASSUME NEW buffer, NEW k \in Nat, NEW n \in Nat, k < n,
           DOMAIN buffer = 1..n, Len(buffer) = n,
           \A i \in 1..n : buffer[i] = 0 <=> i > k
    PROVE  CStr(buffer) = SubSeq(buffer, 1, k)
<1> DEFINE ends == {Len(buffer) + 1} \cup {i \in DOMAIN buffer : buffer[i] = 0}
<1>1. CStr(buffer) = SubSeq(buffer, 1, Min(ends) - 1)
    BY Zenon DEF CStr
<1>2. ends \in SUBSET Int /\ k + 1 \in ends /\ \A y \in ends : k + 1 <= y
    OBVIOUS
<1> HIDE DEF ends
<1>3. Min(ends) = k + 1
    BY <1>2, MinIs
<1>4. Min(ends) - 1 = k
    BY <1>3
<1> QED
    BY <1>1, <1>4

\* A string goes through a buffer of n bytes as its first n - 1.
LEMMA StringsAreCut ==
    ASSUME NEW n \in Nat \ {0}, NEW source \in Strings
    PROVE  CStr(ReadUserStr(Zeros(n), source)) = Cut(source, n - 1)
<1> DEFINE buffer == ReadUserStr(Zeros(n), source)
<1>1. Zeros(n) \in Seq(Nat) /\ Len(Zeros(n)) = n
    BY DEF Zeros
<1>2. CASE source = Unreadable
  <2>1. buffer = Zeros(n)
      BY <1>1, <1>2 DEF ReadUserStr
  <2>2. DOMAIN buffer = 1..n /\ Len(buffer) = n /\ \A i \in 1..n : buffer[i] = 0
      BY <2>1 DEF Zeros
  <2> HIDE DEF buffer
  <2>3. CStr(buffer) = SubSeq(buffer, 1, 0)
      BY <2>2, BytesBeforeZero
  <2>4. SubSeq(buffer, 1, 0) = << >>
      BY <1>1, <2>1
  <2> QED
      BY <1>2, <2>3, <2>4 DEF Cut, buffer
<1>3. CASE source # Unreadable
  <2> DEFINE k == Min({Len(source), n - 1})
  <2>1. source \in Seq(1..255) /\ Len(source) \in Nat
      BY <1>3 DEF Strings
  <2>2. k \in 0..(n - 1) /\ k <= Len(source)
      BY <2>1, MinOfTwo
  <2> HIDE DEF k
  <2>3. buffer = [i \in 1..n |-> IF i <= k THEN source[i] ELSE 0]
      BY <1>1, <1>3, <2>2 DEF ReadUserStr, Zeros, k
  <2> HIDE DEF buffer
  <2>4. \A i \in 1..n : i <= k => source[i] \in 1..255
    <3>1. \A S : source \in Seq(S) => source \in [1..Len(source) -> S]
        OBVIOUS
    <3>2. \A i \in 1..n : i <= k => i \in 1..Len(source)
        BY <2>1, <2>2
    <3> QED
        BY <2>1, <3>1, <3>2
  <2>5. /\ DOMAIN buffer = 1..n /\ Len(buffer) = n /\ buffer \in Seq(0..255)
        /\ \A i \in 1..n : buffer[i] = 0 <=> i > k
    <3>1. ASSUME NEW i \in 1..n
          PROVE  buffer[i] \in 0..255 /\ (buffer[i] = 0 <=> i > k)
      <4>1. CASE i <= k
        <5>1. source[i] \in 1..255
            BY <2>4, <4>1
        <5>2. buffer[i] = source[i]
            BY <2>3, <4>1
        <5>3. ~(i > k)
            BY <2>2, <4>1
        <5> QED
            BY <5>1, <5>2, <5>3
      <4>2. CASE ~(i <= k)
          BY <2>2, <2>3, <4>2
      <4> QED
          BY <4>1, <4>2
    <3>2. buffer \in [1..n -> 0..255]
        BY <2>3, <3>1
    <3> QED
        BY <3>1, <3>2
  <2>6. SubSeq(buffer, 1, k) = SubSeq(source, 1, k)
      BY <2>1, <2>2, <2>3, <2>5
  <2>7. CStr(buffer) = SubSeq(buffer, 1, k)
      BY <2>2, <2>5, BytesBeforeZero
  <2> QED
      BY <1>3, <2>6, <2>7 DEF Cut, k, buffer
<1> QED
    BY <1>2, <1>3

-----------------------------------------------------------------------------
(* What the probe reads of a task. *)

\* The probe has been given what the reader found in the running kernel.
Resolves == kernel \in DOMAIN Kernels /\ offsets \in OffsetsOf[kernel]

AllOffsetsAreTrue == \A k \in DOMAIN Kernels : OffsetsAreTrue(k)

\* The n-th offset leads from an object to what its field holds.
LEMMA PeekIsField ==
    ASSUME AllOffsetsAreTrue, Resolves, NEW n \in DOMAIN TaskFields, NEW object,
           object.struct = TaskFields[n].of
    PROVE  Peek(object, offsets[n]) = {object[TaskFields[n].field]}
<1> DEFINE at(i) == TrueOffset(Kernels[kernel].types, TaskFields[i].of, TaskFields[i].field)
           entry(i) == [of |-> TaskFields[i].of, field |-> TaskFields[i].field, at |-> at(i)]
           there == {f \in Layout[kernel] : f.of = object.struct /\ f.at = {offsets[n]}}
<1>1. \A i \in DOMAIN TaskFields : at(i) = {offsets[i]}
    BY DEF AllOffsetsAreTrue, OffsetsAreTrue, Resolves
<1>2. \A i \in DOMAIN TaskFields : TaskFields[i].of = TaskFields[n].of /\ at(i) = at(n) => i = n
    BY <1>1, KernelsAssumption DEF Resolves
<1>3. object.struct \notin {"u32", "null"}
    BY DEF TaskFields
<1> HIDE DEF at
<1>4. Layout[kernel] = {entry(i) : i \in DOMAIN TaskFields}
    BY DEF Layout, Resolves, at
<1>5. there = {entry(n)}
  <2>1. entry(n) \in there
      BY <1>1, <1>4
  <2>2. ASSUME NEW f \in there PROVE f = entry(n)
    <3>1. PICK i \in DOMAIN TaskFields : f = entry(i)
        BY <1>4
    <3>2. TaskFields[i].of = TaskFields[n].of /\ at(i) = at(n)
        BY <1>1, <3>1
    <3> QED
        BY <1>2, <3>1, <3>2
  <2> QED
      BY <2>1, <2>2
<1>6. Peek(object, offsets[n]) = {object[f.field] : f \in there}
    BY <1>3, <1>5 DEF Peek
<1>7. entry(n).field = TaskFields[n].field
    OBVIOUS
<1> HIDE DEF there, entry
<1>8. Peek(object, offsets[n]) = {object[entry(n).field]}
    BY <1>5, <1>6
<1> QED
    BY <1>7, <1>8

LEMMA TaskLayout ==
    ASSUME NEW t \in DOMAIN Tasks
    PROVE  LET task == TaskStructs[t] IN
           /\ task.struct = "task_struct"
           /\ task.real_parent.struct = "task_struct"
           /\ task.real_parent.tgid = U32(Tasks[t].ppid)
           /\ task.cred.struct = "cred" /\ task.cred.euid = U32(Tasks[t].euid)
           /\ task.signal.struct = "signal_struct"
           /\ Tasks[t].tty = {} => task.signal.tty = Null
           /\ \A index \in Tasks[t].tty : /\ task.signal.tty.struct = "tty_struct"
                                          /\ task.signal.tty.index = U32(index)
BY TasksAssumption DEF TaskStructs

LEMMA FieldsByNumber ==
    /\ DOMAIN TaskFields = 1..12
    /\ TaskFields[1] = [of |-> "task_struct", field |-> "real_parent"]
    /\ TaskFields[2] = [of |-> "task_struct", field |-> "tgid"]
    /\ TaskFields[3] = [of |-> "task_struct", field |-> "cred"]
    /\ TaskFields[4] = [of |-> "cred", field |-> "euid"]
    /\ TaskFields[5] = [of |-> "task_struct", field |-> "signal"]
    /\ TaskFields[6] = [of |-> "signal_struct", field |-> "tty"]
    /\ TaskFields[7] = [of |-> "tty_struct", field |-> "index"]
BY DEF TaskFields

LEMMA AtIsField ==
    ASSUME AllOffsetsAreTrue, Resolves, NEW i \in 0..11, NEW object,
           object.struct = TaskFields[i + 1].of
    PROVE  At({object}, i) = {object[TaskFields[i + 1].field]}
<1>1. i + 1 \in DOMAIN TaskFields
    BY FieldsByNumber
<1>2. Peek(object, offsets[i + 1]) = {object[TaskFields[i + 1].field]}
    BY <1>1, PeekIsField
<1>3. At({object}, i) = Peek(object, offsets[i + 1])
    BY DEF At
<1> QED
    BY <1>2, <1>3

LEMMA ValueIsRead ==
    /\ \A n : Value({U32(n)}) = n
    /\ Value({}) = 0
<1>1. ASSUME NEW n PROVE Value({U32(n)}) = n
  <2>1. (CHOOSE o \in {U32(n)} : TRUE) = U32(n) /\ {U32(n)} # {}
      OBVIOUS
  <2>2. U32(n).struct = "u32" /\ U32(n).value = n
      BY DEF U32
  <2> QED
      BY <2>1, <2>2 DEF Value
<1>2. Value({}) = 0
    BY DEF Value
<1> QED
    BY <1>1, <1>2

\* A probe of this version identifies the task that made the call.
LEMMA HeaderNamesTask ==
    ASSUME AllOffsetsAreTrue, Resolves, artifact = WireVersion, NEW t \in DOMAIN Tasks, NEW type
    PROVE  LET header == FillHeader(t, type) IN
           /\ header.version = WireVersion /\ header.type = type
           /\ header.pid = Tasks[t].pid /\ header.ppid = Tasks[t].ppid
           /\ header.euid = Tasks[t].euid
           /\ {header.tty} = IF Tasks[t].tty = {} THEN {0} ELSE Tasks[t].tty
<1> DEFINE task == TaskStructs[t]
<1>1. ReadPpid(t) = Tasks[t].ppid
  <2>1. At({task}, 0) = {task.real_parent}
      BY AtIsField, FieldsByNumber, TaskLayout
  <2>2. At({task.real_parent}, 1) = {U32(Tasks[t].ppid)}
      BY AtIsField, FieldsByNumber, TaskLayout
  <2> QED
      BY <2>1, <2>2, ValueIsRead DEF ReadPpid
<1>2. ReadEuid(t) = Tasks[t].euid
  <2>1. At({task}, 2) = {task.cred}
      BY AtIsField, FieldsByNumber, TaskLayout
  <2>2. At({task.cred}, 3) = {U32(Tasks[t].euid)}
      BY AtIsField, FieldsByNumber, TaskLayout
  <2> QED
      BY <2>1, <2>2, ValueIsRead DEF ReadEuid
<1>3. {ReadTtyNr(t)} = IF Tasks[t].tty = {} THEN {0} ELSE Tasks[t].tty
  <2>1. At({task}, 4) = {task.signal}
      BY AtIsField, FieldsByNumber, TaskLayout
  <2>2. At({task.signal}, 5) = {task.signal.tty}
      BY AtIsField, FieldsByNumber, TaskLayout
  <2>3. CASE Tasks[t].tty = {}
    <3>1. Peek(Null, offsets[7]) = {}
        BY DEF Peek, Null
    <3>2. At({Null}, 6) = {}
        BY <3>1 DEF At
    <3> QED
        BY <2>1, <2>2, <2>3, <3>2, TaskLayout, ValueIsRead DEF ReadTtyNr
  <2>4. CASE Tasks[t].tty # {}
    <3>1. PICK index \in Tasks[t].tty : Tasks[t].tty = {index}
        BY <2>4, TasksAssumption
    <3>2. At({task.signal.tty}, 6) = {U32(index)}
        BY AtIsField, FieldsByNumber, TaskLayout
    <3> QED
        BY <2>1, <2>2, <3>1, <3>2, ValueIsRead DEF ReadTtyNr
  <2> QED
      BY <2>3, <2>4
<1> QED
    BY <1>1, <1>2, <1>3 DEF FillHeader

-----------------------------------------------------------------------------
(* What an event tells, one call at a time. *)

\* The events of records that are published.
Got(records) ==
    UNION {Handled(r, IF artifact = WireVersion THEN SizeOf[r.header.type] ELSE HeaderSize) :
             r \in records}

\* What is told depends on the version of the probe only.
LEMMA TellsStays ==
    ASSUME UNCHANGED artifact
    PROVE  \A t, call, got : Tells(t, call, got)' <=> Tells(t, call, got)
BY DEF Tells, Silent

LEMMA PublishTells ==
    ASSUME NEW t, NEW call, NEW records, Publish(t, call, records),
           Tells(t, call, Got(records)), UNCHANGED artifact
    PROVE  EventsTellTheCalls'
<1> DEFINE l == [by |-> t, call |-> call, got |-> Got(records)]
<1>1. last' = {l}
    BY DEF Publish, Got
<1>2. l.by = t /\ l.call = call /\ l.got = Got(records)
    OBVIOUS
<1> HIDE DEF l
<1>3. \A m \in last' : Tells(m.by, m.call, m.got)
    BY <1>1, <1>2
<1> QED
    BY <1>3, TellsStays DEF EventsTellTheCalls

\* A record of another version makes no event.
LEMMA ForeignRecordsAreDropped ==
    ASSUME NEW records, artifact # WireVersion, \A r \in records : r.header.version = artifact
    PROVE  Got(records) = {}
BY DEF Got, Handled, HeaderOk

LEMMA ExecTells ==
    ASSUME AllOffsetsAreTrue, Resolves, NEW t \in DOMAIN Tasks, NEW call \in ExecCalls, NEW retval
    PROVE  Tells(t, call, Got({[FillExec(t, call) EXCEPT !.retval = retval]}))
<1> DEFINE record == [FillExec(t, call) EXCEPT !.retval = retval]
           argc == Min({Len(call.argv), MaxArgs})
<1>1. /\ call.filename \in Strings /\ call.argv \in Seq(Strings)
      /\ DOMAIN call = {"filename", "argv"}
    BY CallsAssumption
<1>2. /\ record.header = FillHeader(t, "exec") /\ record.argc = argc
      /\ record.filename = ReadUserStr(Zeros(MaxFilename), call.filename)
      /\ record.argv = [i \in 1..MaxArgs |->
             IF i <= argc THEN ReadUserStr(Zeros(MaxArg), call.argv[i]) ELSE Zeros(MaxArg)]
    BY DEF FillExec, Argc
<1> HIDE DEF record
<1>3. CASE artifact # WireVersion
  <2>1. record.header.version = artifact
      BY <1>2, <1>3 DEF FillHeader
  <2>2. Got({record}) = {}
      BY <1>3, <2>1, ForeignRecordsAreDropped
  <2> QED
      BY <1>3, <2>2 DEF Tells, Silent, record
<1>4. CASE artifact = WireVersion
  <2>1. /\ record.header.version = WireVersion /\ record.header.type = "exec"
        /\ NamesTask(t, record.header)
      BY <1>2, <1>4, HeaderNamesTask DEF NamesTask
  <2>2. Got({record}) = {ParseExec(record)}
    <3>1. HeaderOk(record, SizeOf["exec"]) /\ ~(SizeOf["exec"] < SizeOf[record.header.type])
        BY <2>1 DEF HeaderOk, SizeOf, HeaderSize
    <3>2. Handled(record, SizeOf["exec"]) = {ParseExec(record)}
        BY <2>1, <3>1 DEF Handled
    <3> QED
        BY <1>4, <2>1, <3>2 DEF Got
  <2>3. argc \in Nat /\ argc <= MaxArgs /\ argc <= Len(call.argv) /\ MaxArgs \in Nat
    <3>1. MaxArgs \in Nat /\ Len(call.argv) \in Nat
        BY <1>1, LimitsAssumption
    <3>2. argc = IF Len(call.argv) <= MaxArgs THEN Len(call.argv) ELSE MaxArgs
        BY <3>1, MinOfTwo
    <3> QED
        BY <3>1, <3>2
  <2>4. CStr(record.filename) = Cut(call.filename, MaxFilename - 1)
      BY <1>1, <1>2, StringsAreCut, LimitsAssumption
  <2>5. Min({record.argc, MaxArgs}) = argc
    <3> HIDE DEF argc
    <3> QED
        BY <1>2, <2>3, MinOfTwo
  <2>6. \A i \in 1..argc : CStr(record.argv[i]) = Cut(call.argv[i], MaxArg - 1)
    <3> HIDE DEF argc
    <3> SUFFICES ASSUME NEW i \in 1..argc
                 PROVE  CStr(record.argv[i]) = Cut(call.argv[i], MaxArg - 1)
        OBVIOUS
    <3>1. i \in 1..Len(call.argv) /\ i \in 1..MaxArgs /\ i <= argc
        BY <1>1, <2>3
    <3>2. call.argv[i] \in Strings
        BY <1>1, <3>1
    <3>3. record.argv[i] = ReadUserStr(Zeros(MaxArg), call.argv[i])
        BY <1>2, <3>1
    <3> QED
        BY <3>2, <3>3, StringsAreCut, LimitsAssumption
  <2>7. ParseExec(record).argv = [i \in 1..argc |-> Cut(call.argv[i], MaxArg - 1)]
    <3> HIDE DEF argc
    <3> QED
        BY <2>5, <2>6 DEF ParseExec
  <2>8. /\ ParseExec(record).header = record.header
        /\ ParseExec(record).filename = CStr(record.filename)
        /\ DOMAIN ParseExec(record) = {"header", "filename", "argv", "retval"}
      BY DEF ParseExec
  <2>9. NamesCall(call, ParseExec(record))
      BY <2>4, <2>7, <2>8 DEF NamesCall
  <2> QED
      BY <1>1, <1>4, <2>1, <2>2, <2>8, <2>9 DEF Tells, Silent, record
<1> QED
    BY <1>3, <1>4

LEMMA PrefixOf ==
    ASSUME NEW S, NEW s \in Seq(S), NEW n \in 0..Len(s)
    PROVE  /\ SubSeq(s, 1, n) = [i \in 1..n |-> s[i]]
           /\ SubSeq(s, 1, n) \in Seq(S) /\ Len(SubSeq(s, 1, n)) = n
OBVIOUS

\* The first n bytes of a longer buffer, which the record pads with zeros.
LEMMA DataIsCut ==
    ASSUME NEW buffer \in Seq(0..255), NEW ret \in Nat, ret <= Len(buffer), NEW n,
           n = Min({ret, MaxData})
    PROVE  SubSeq([i \in 1..MaxData |-> IF i <= n THEN buffer[i] ELSE 0],
                  1, Min({n, MaxData}))
             = Cut(SubSeq(buffer, 1, ret), MaxData)
<1> DEFINE data == [i \in 1..MaxData |-> IF i <= n THEN buffer[i] ELSE 0]
           first == SubSeq(buffer, 1, ret)
           Bytes == 0..255
<1>b. 0 \in Bytes /\ buffer \in Seq(Bytes) /\ Unreadable \notin Seq(Bytes)
    BY CallsAssumption
<1> HIDE DEF Bytes
<1>1. MaxData \in Nat /\ n \in Nat /\ n <= MaxData /\ n <= ret
  <2>1. MaxData \in Nat
      BY LimitsAssumption
  <2>2. n = IF ret <= MaxData THEN ret ELSE MaxData
      BY <2>1, MinOfTwo
  <2> QED
      BY <2>1, <2>2
<1>2. Min({n, MaxData}) = n
    BY <1>1, MinOfTwo
<1>3. \A i \in 1..n : i \in 1..MaxData /\ i \in 1..ret /\ i <= n
    BY <1>1
<1>4. first \in Seq(Bytes) /\ Len(first) = ret /\ first = [i \in 1..ret |-> buffer[i]]
    BY <1>b, PrefixOf
<1>5. Min({Len(first), MaxData}) = n /\ first # Unreadable
    BY <1>b, <1>4
<1>6. Cut(first, MaxData) = SubSeq(first, 1, n)
    BY <1>5 DEF Cut
<1>7. SubSeq(data, 1, n) = [i \in 1..n |-> buffer[i]]
  <2>1. \A i \in 1..MaxData : data[i] \in Bytes
    <3>1. \A i \in 1..Len(buffer) : buffer[i] \in Bytes
        BY <1>b
    <3>2. \A i \in 1..MaxData : i <= n => i \in 1..Len(buffer)
        BY <1>1
    <3> QED
        BY <1>b, <3>1, <3>2
  <2>2. data \in Seq(Bytes) /\ Len(data) = MaxData
    <3>1. data \in [1..MaxData -> Bytes]
        BY <2>1
    <3> HIDE DEF data
    <3> QED
        BY <1>1, <3>1
  <2>3. SubSeq(data, 1, n) = [i \in 1..n |-> data[i]]
      BY <1>1, <2>2, PrefixOf
  <2> QED
      BY <1>3, <2>3
<1>8. SubSeq(first, 1, n) = [i \in 1..n |-> buffer[i]]
  <2>1. n \in 0..ret
      BY <1>1
  <2>2. SubSeq(first, 1, n) = [i \in 1..n |-> first[i]]
    <3> HIDE DEF first
    <3> QED
        BY <1>4, <2>1, PrefixOf
  <2> QED
      BY <1>3, <1>4, <2>2
<1> QED
    BY <1>2, <1>6, <1>7, <1>8

LEMMA IoTells ==
    ASSUME AllOffsetsAreTrue, Resolves, NEW t \in DOMAIN Tasks, NEW call \in IoCalls
    PROVE  Tells(t, call, Got(FillIo(t, call)))
<1>1. /\ call.op \in {"read", "write"} /\ call.ret \in Nat
      /\ call.buffer \in Seq(0..255) \cup {Unreadable}
      /\ call.buffer = Unreadable \/ call.ret <= Len(call.buffer)
      /\ DOMAIN call = {"op", "fd", "buffer", "ret"}
    BY CallsAssumption
<1>2. CASE call.buffer = Unreadable
  <2>1. FillIo(t, call) = {}
      BY <1>2 DEF FillIo
  <2>2. Got(FillIo(t, call)) = {}
      BY <2>1 DEF Got
  <2> QED
      BY <1>1, <1>2, <2>2 DEF Tells, Silent
<1>3. CASE call.buffer # Unreadable
  <2> DEFINE n == Min({call.ret, MaxData})
             record == [header |-> FillHeader(t, call.op), fd |-> call.fd,
                        count |-> call.ret, dataLen |-> n,
                        data |-> [i \in 1..MaxData |->
                                    IF i <= n THEN call.buffer[i] ELSE 0]]
  <2>1. FillIo(t, call) = {record}
      BY <1>3 DEF FillIo
  <2>2. /\ record.header = FillHeader(t, call.op)
        /\ record.fd = call.fd /\ record.count = call.ret /\ record.dataLen = n
        /\ record.data = [i \in 1..MaxData |-> IF i <= n THEN call.buffer[i] ELSE 0]
      OBVIOUS
  <2> HIDE DEF record
  <2>3. CASE artifact # WireVersion
    <3>1. record.header.version = artifact
        BY <2>2, <2>3 DEF FillHeader
    <3>2. Got({record}) = {}
        BY <2>3, <3>1, ForeignRecordsAreDropped
    <3> QED
        BY <2>1, <2>3, <3>2 DEF Tells, Silent
  <2>4. CASE artifact = WireVersion
    <3>1. /\ record.header.version = WireVersion /\ record.header.type = call.op
          /\ NamesTask(t, record.header)
        BY <2>2, <2>4, HeaderNamesTask DEF NamesTask
    <3>2. Got({record}) = {ParseIo(record)}
      <4>1. /\ HeaderOk(record, SizeOf[call.op])
            /\ ~(SizeOf[call.op] < SizeOf[record.header.type])
          BY <1>1, <3>1 DEF HeaderOk, SizeOf, HeaderSize
      <4>2. Handled(record, SizeOf[call.op]) = {ParseIo(record)}
          BY <1>1, <3>1, <4>1 DEF Handled
      <4> QED
          BY <2>4, <3>1, <4>2 DEF Got
    <3>3. SubSeq(record.data, 1, Min({record.dataLen, MaxData}))
            = Cut(SubSeq(call.buffer, 1, call.ret), MaxData)
      <4>1. call.buffer \in Seq(0..255) /\ call.ret <= Len(call.buffer)
          BY <1>1, <1>3
      <4>2. SubSeq([i \in 1..MaxData |-> IF i <= n THEN call.buffer[i] ELSE 0],
                   1, Min({n, MaxData}))
              = Cut(SubSeq(call.buffer, 1, call.ret), MaxData)
          BY <1>1, <4>1, DataIsCut
      <4> QED
          BY <2>2, <4>2
    <3>4. /\ ParseIo(record).header = record.header
          /\ ParseIo(record).fd = call.fd /\ ParseIo(record).count = call.ret
          /\ ParseIo(record).data = SubSeq(record.data, 1, Min({record.dataLen, MaxData}))
          /\ DOMAIN ParseIo(record) = {"header", "fd", "count", "data"}
        BY <2>2 DEF ParseIo
    <3>5. NamesCall(call, ParseIo(record))
        BY <3>3, <3>4 DEF NamesCall
    <3> QED
        BY <1>3, <2>1, <2>4, <3>1, <3>2, <3>4, <3>5 DEF Tells, Silent
  <2> QED
      BY <2>3, <2>4
<1> QED
    BY <1>2, <1>3

LEMMA ExitTells ==
    ASSUME AllOffsetsAreTrue, Resolves, NEW t \in DOMAIN Tasks, NEW code
    PROVE  Tells(t, [code |-> code], Got({[header |-> FillHeader(t, "exit"), code |-> code]}))
<1> DEFINE call == [code |-> code]
           record == [header |-> FillHeader(t, "exit"), code |-> code]
<1>1. record.header = FillHeader(t, "exit") /\ record.code = code
    OBVIOUS
<1>2. DOMAIN call = {"code"} /\ call.code = code
    OBVIOUS
<1> HIDE DEF call, record
<1>3. CASE artifact # WireVersion
  <2>1. record.header.version = artifact
      BY <1>1, <1>3 DEF FillHeader
  <2>2. Got({record}) = {}
      BY <1>3, <2>1, ForeignRecordsAreDropped
  <2> QED
      BY <1>3, <2>2 DEF Tells, Silent, record, call
<1>4. CASE artifact = WireVersion
  <2>1. /\ record.header.version = WireVersion /\ record.header.type = "exit"
        /\ NamesTask(t, record.header)
      BY <1>1, <1>4, HeaderNamesTask DEF NamesTask
  <2>2. Got({record}) = {ParseExit(record)}
    <3>1. HeaderOk(record, SizeOf["exit"]) /\ ~(SizeOf["exit"] < SizeOf[record.header.type])
        BY <2>1 DEF HeaderOk, SizeOf, HeaderSize
    <3>2. Handled(record, SizeOf["exit"]) = {ParseExit(record)}
        BY <2>1, <3>1 DEF Handled
    <3> QED
        BY <1>4, <2>1, <3>2 DEF Got
  <2>3. /\ ParseExit(record).header = record.header /\ ParseExit(record).code = code
        /\ DOMAIN ParseExit(record) = {"header", "code"}
      BY <1>1 DEF ParseExit
  <2>4. NamesCall(call, ParseExit(record)) /\ ~Silent(call)
      BY <1>2, <1>4, <2>3 DEF NamesCall, Silent
  <2> QED
      BY <2>1, <2>2, <2>3, <2>4 DEF Tells, record, call
<1> QED
    BY <1>3, <1>4

-----------------------------------------------------------------------------
(* From main to the event. *)

\* A call in progress has its own record waiting, made by the probe that is
\* still running; before that there are neither calls nor events.
RecordInv ==
    /\ stage \in {"attach", "running"} => Resolves
    /\ stage # "running" => doing = EmptyMap /\ pending = EmptyMap /\ last = {}
    /\ \A t \in DOMAIN pending :
         /\ t \in DOMAIN doing /\ doing[t] \in ExecCalls
         /\ pending[t] = FillExec(t, doing[t])
    /\ EventsTellTheCalls

LEMMA FillExecStays ==
    ASSUME NEW t, NEW call, UNCHANGED <<kernel, artifact, offsets>>
    PROVE  FillExec(t, call)' = FillExec(t, call)
<1>1. \A o, i : Peek(o, i)' = Peek(o, i)
    BY DEF Peek
<1>2. \A objects, i : At(objects, i)' = At(objects, i)
    BY <1>1 DEF At
<1>3. ReadPpid(t)' = ReadPpid(t)
    BY <1>2 DEF ReadPpid
<1>4. ReadEuid(t)' = ReadEuid(t)
    BY <1>2 DEF ReadEuid
<1>5. ReadTtyNr(t)' = ReadTtyNr(t)
    BY <1>2 DEF ReadTtyNr
<1> QED
    BY <1>3, <1>4, <1>5 DEF FillExec, FillHeader

\* As long as the probe is the same and no record has come out of it, what
\* was told stays told.
LEMMA ToldStays ==
    ASSUME EventsTellTheCalls, UNCHANGED <<artifact, last>>
    PROVE  EventsTellTheCalls'
BY TellsStays DEF EventsTellTheCalls

LEMMA QuietStep ==
    ASSUME RecordInv,
           StartStdout \/ StartSqlite \/ OpenSink \/ Load \/ Resolve \/ Attach \/ End
    PROVE  RecordInv'
<1>1. CASE StartStdout \/ StartSqlite \/ OpenSink \/ Load \/ Resolve \/ Attach
  <2>1. doing = EmptyMap /\ pending = EmptyMap /\ last = {}
      BY <1>1 DEF RecordInv, StartStdout, StartSqlite, OpenSink, Load, Resolve, Attach
  <2>2. UNCHANGED <<doing, pending, last>>
      BY <1>1 DEF StartStdout, StartSqlite, OpenSink, Load, Resolve, Attach, probeVars
  <2>3. (stage \in {"attach", "running"} => Resolves)'
    <3>1. CASE StartStdout \/ StartSqlite \/ OpenSink \/ Load
        BY <3>1 DEF RecordInv, StartStdout, StartSqlite, OpenSink, Load
    <3>2. CASE Resolve
      <4>1. PICK k \in DOMAIN Kernels :
                /\ kernel' = k
                /\ \/ stage' = "refused"
                   \/ offsets' \in OffsetsOf[k] /\ stage' = "attach"
          BY <3>2 DEF Resolve
      <4> QED
          BY <4>1 DEF Resolves
    <3>3. CASE Attach
        BY <3>3 DEF RecordInv, Attach, Resolves, probeVars
    <3> QED
        BY <1>1, <3>1, <3>2, <3>3
  <2> QED
      BY <2>1, <2>2, <2>3 DEF RecordInv, EventsTellTheCalls, EmptyMap
<1>2. CASE End
    BY <1>2 DEF End, ProbeGone, RecordInv, EventsTellTheCalls, EmptyMap
<1> QED
    BY <1>1, <1>2

\* What a call does to the records of the other tasks: nothing.
LEMMA CallStep ==
    ASSUME AllOffsetsAreTrue, RecordInv, Record
    PROVE  RecordInv'
<1>1. stage = "running" /\ stage' = "running" /\ Call /\ Resolves
    BY DEF Record, RecordInv
<1>2. PICK t \in DOMAIN Tasks :
          \/ \E call \in ExecCalls : EnterExec(t, call)
          \/ \E retval \in {0, -2} : ExitExec(t, retval)
          \/ \E call \in IoCalls : ReadWrite(t, call)
          \/ \E code \in ExitCodes : ExitGroup(t, code)
    BY <1>1 DEF Call
<1>3. UNCHANGED <<kernel, artifact, offsets>>
    BY <1>2 DEF EnterExec, ExitExec, ReadWrite, ExitGroup
<1>4. Resolves'
    BY <1>1, <1>3 DEF Resolves
<1>5. \A u, call : FillExec(u, call)' = FillExec(u, call)
    BY <1>3, FillExecStays
<1>6. \A u \in DOMAIN pending' :
        /\ u \in DOMAIN doing' /\ doing'[u] \in ExecCalls
        /\ pending'[u] = FillExec(u, doing'[u])
  <2>1. ASSUME NEW call \in ExecCalls, EnterExec(t, call)
        PROVE  <1>6!:
      BY <2>1 DEF EnterExec, Put, RecordInv
  <2>2. ASSUME NEW retval, ExitExec(t, retval)
        PROVE  <1>6!:
      BY <2>2 DEF ExitExec, Remove, RecordInv
  <2>3. CASE (\E call \in IoCalls : ReadWrite(t, call)) \/ \E code \in ExitCodes : ExitGroup(t, code)
      BY <2>3 DEF ReadWrite, ExitGroup, RecordInv
  <2> QED
      BY <1>2, <2>1, <2>2, <2>3
<1>7. EventsTellTheCalls'
  <2>1. ASSUME NEW call \in ExecCalls, EnterExec(t, call)
        PROVE  EventsTellTheCalls'
      BY <2>1, ToldStays DEF EnterExec, RecordInv
  <2>2. ASSUME NEW retval, ExitExec(t, retval)
        PROVE  EventsTellTheCalls'
    <3>1. doing[t] \in ExecCalls /\ pending[t] = FillExec(t, doing[t])
        BY <2>2 DEF ExitExec, RecordInv
    <3>2. Tells(t, doing[t], Got({[pending[t] EXCEPT !.retval = retval]}))
        BY <1>1, <3>1, ExecTells
    <3> QED
        BY <1>3, <2>2, <3>2, PublishTells DEF ExitExec
  <2>3. ASSUME NEW call \in IoCalls, ReadWrite(t, call)
        PROVE  EventsTellTheCalls'
      BY <1>1, <1>3, <2>3, IoTells, PublishTells DEF ReadWrite
  <2>4. ASSUME NEW code, ExitGroup(t, code)
        PROVE  EventsTellTheCalls'
      BY <1>1, <1>3, <2>4, ExitTells, PublishTells DEF ExitGroup
  <2> QED
      BY <1>2, <2>1, <2>2, <2>3, <2>4
<1> QED
    BY <1>1, <1>4, <1>5, <1>6, <1>7 DEF RecordInv

\* For every kernel, unless damage to its image is taken for other offsets,
\* every task and every call: an event says who made the call, and as much of its
\* strings and data as fits, whatever other tasks do meanwhile.
THEOREM RecordedEventsTellTheCalls ==
    ASSUME DamageIsHarmless
    PROVE  RecorderSpec => []EventsTellTheCalls
<1>0. AllOffsetsAreTrue
    BY IntactOffsetsAreTrue DEF AllOffsetsAreTrue, DamageIsHarmless
<1>1. RecorderInit => RecordInv
    BY DEF RecorderInit, ProbeInit, RecordInv, EventsTellTheCalls, EmptyMap
<1>2. RecordInv /\ [RecorderNext]_recorderVars => RecordInv'
  <2> SUFFICES ASSUME RecordInv, [RecorderNext]_recorderVars PROVE RecordInv'
      OBVIOUS
  <2>1. CASE Record
      BY <1>0, <2>1, CallStep
  <2>2. CASE StartStdout \/ StartSqlite \/ OpenSink \/ Load \/ Resolve \/ Attach \/ End
      BY <2>2, QuietStep
  <2>3. CASE UNCHANGED recorderVars
    <3>1. UNCHANGED <<kernel, artifact, offsets, pending, doing, last, stage>>
        BY <2>3 DEF recorderVars, probeVars
    <3>2. \A u, call : FillExec(u, call)' = FillExec(u, call)
        BY <3>1, FillExecStays
    <3>3. EventsTellTheCalls'
        BY <3>1, ToldStays DEF RecordInv
    <3> QED
        BY <3>1, <3>2, <3>3 DEF RecordInv, Resolves
  <2> QED
      BY <2>1, <2>2, <2>3 DEF RecorderNext
<1>3. RecordInv => EventsTellTheCalls
    BY DEF RecordInv
<1> QED
    BY <1>1, <1>2, <1>3, PTL DEF RecorderSpec
=============================================================================
