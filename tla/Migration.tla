------------------------------ MODULE Migration ------------------------------
(***************************************************************************)
(* SqliteSink::open (shspectr/src/sqlite_sink.rs): what it does to the     *)
(* database it finds.  The schema script, the check of the columns and the *)
(* rebuild of the events table are separate statements, each a transaction *)
(* of its own, so a crash or an error can come between any two of them and *)
(* the next open starts from whatever is on disk.                          *)
(*                                                                         *)
(* A database file holds the tables "events" and "events_old", each absent *)
(* or with the rows and the columns the code asks about, and the indexes,  *)
(* whose names are unique in the file whatever table they are on.          *)
(***************************************************************************)
EXTENDS Naturals, Sequences, FiniteSets

CONSTANTS
    Legacy,     \* the events tables open may find: [rows, executionId, eventType]
    MaxCrashes, \* bound on crashes and errors, for model checking
    MaxOpens    \* bound on the times the recorder is started

\* A table, as far as open looks at it.
Rows == UNION {d.rows : d \in Legacy}
Tables == [rows : SUBSET Rows, executionId : BOOLEAN, eventType : {"TEXT", "INTEGER", "none"}]

ASSUME LegacyAssumption == Legacy \subseteq Tables
ASSUME BoundsAssumption == MaxCrashes \in Nat /\ MaxOpens \in Nat

VARIABLES
    tables,   \* name -> the table, or Absent
    indexOn,  \* index -> the table it is on, "none" if there is none
    pc,       \* the statement open runs next; "closed", "open" or "failed"
    legacy,   \* the events table the first open found (history)
    crashes,  \* crashes and errors so far
    opens     \* starts so far

vars == <<tables, indexOn, pc, legacy, crashes, opens>>

-----------------------------------------------------------------------------
Absent == [rows |-> {}, executionId |-> FALSE, eventType |-> "none"]
\* MUTANT of NewTable: the schema keeps event_type as TEXT.
NewTableText == [rows |-> {}, executionId |-> TRUE, eventType |-> "TEXT"]
NewTable == [rows |-> {}, executionId |-> TRUE, eventType |-> "INTEGER"]
Exists(t) == tables[t] # Absent

\* The indexes the schema creates on events, in order; the last one is on
\* execution_id among others.
Indexes == <<"session", "timestamp", "type", "execution">>
IndexNames == {Indexes[i] : i \in DOMAIN Indexes}

\* The schema script: create what does not exist.  An index that exists under
\* its name is left where it is.  The script ends at its first error, which
\* is an index on a column the table does not have.
SchemaFails(tabs, idx) ==
    tabs["events"] # Absent /\ ~tabs["events"].executionId /\ idx["execution"] = "none"
SchemaTables(tabs) ==
    IF tabs["events"] = Absent THEN [tabs EXCEPT !["events"] = NewTable] ELSE tabs
SchemaIndexes(idx, count) ==
    [i \in IndexNames |-> IF idx[i] = "none" /\ \E n \in 1..count : Indexes[n] = i
                          THEN "events" ELSE idx[i]]

-----------------------------------------------------------------------------
Init ==
    /\ legacy \in Legacy
    /\ tables = [events |-> legacy, events_old |-> Absent]
    /\ \E found \in 0..Len(Indexes) :
         /\ legacy = Absent => found = 0
         /\ ~legacy.executionId => found < Len(Indexes)
         /\ indexOn = SchemaIndexes([i \in IndexNames |-> "none"], found)
    /\ pc = "closed"
    /\ crashes = 0
    /\ opens = 0

Open ==
    /\ pc \in {"closed", "failed"}
    /\ opens < MaxOpens
    /\ opens' = opens + 1
    /\ pc' = "schema"
    /\ UNCHANGED <<tables, indexOn, legacy, crashes>>

\* The recorder is stopped and may be started again.
Close ==
    /\ pc = "open"
    /\ pc' = "closed"
    /\ UNCHANGED <<tables, indexOn, legacy, crashes, opens>>

\* execute_batch(SCHEMA), at the start of open and again for the new table.
RunSchema(at, next) ==
    /\ pc = at
    /\ IF SchemaFails(tables, indexOn)
       THEN /\ indexOn' = SchemaIndexes(indexOn, Len(Indexes) - 1)
            /\ pc' = "failed"
            /\ UNCHANGED tables
       ELSE /\ tables' = SchemaTables(tables)
            /\ indexOn' = SchemaIndexes(indexOn, Len(Indexes))
            /\ pc' = next
    /\ UNCHANGED <<legacy, crashes, opens>>

\* ensure_schema_compat: a missing execution_id is added; the table is
\* rebuilt if event_type is TEXT.
EnsureSchemaCompat ==
    /\ pc = "compat"
    /\ tables' = [tables EXCEPT !["events"].executionId = TRUE]
    /\ pc' = IF tables["events"].eventType = "TEXT" THEN "rename" ELSE "pragmas"
    /\ UNCHANGED <<indexOn, legacy, crashes, opens>>

\* ALTER TABLE events RENAME TO events_old: the indexes go with the table.
Rename ==
    /\ pc = "rename"
    /\ IF Exists("events_old") THEN pc' = "failed" /\ UNCHANGED <<tables, indexOn>>
       ELSE /\ tables' = [events |-> Absent, events_old |-> tables["events"]]
            /\ indexOn' = [i \in IndexNames |->
                             IF indexOn[i] = "events" THEN "events_old" ELSE indexOn[i]]
            /\ pc' = "recreate"
    /\ UNCHANGED <<legacy, crashes, opens>>

\* MUTANT of Copy: the new table is filled from an empty selection.
CopyNothing ==
    /\ pc = "copy"
    /\ pc' = "drop"
    /\ UNCHANGED <<tables, indexOn, legacy, crashes, opens>>

\* INSERT INTO events ... SELECT ... FROM events_old.
Copy ==
    /\ pc = "copy"
    /\ tables' = [tables EXCEPT !["events"].rows = @ \cup tables["events_old"].rows]
    /\ pc' = "drop"
    /\ UNCHANGED <<indexOn, legacy, crashes, opens>>

\* MUTANT of Drop: the old table is left behind.
DropNothing ==
    /\ pc = "drop"
    /\ pc' = "pragmas"
    /\ UNCHANGED <<tables, indexOn, legacy, crashes, opens>>

\* DROP TABLE events_old, and its indexes with it.
Drop ==
    /\ pc = "drop"
    /\ tables' = [tables EXCEPT !["events_old"] = Absent]
    /\ indexOn' = [i \in IndexNames |->
                     IF indexOn[i] = "events_old" THEN "none" ELSE indexOn[i]]
    /\ pc' = "pragmas"
    /\ UNCHANGED <<legacy, crashes, opens>>

SetPragmas ==
    /\ pc = "pragmas"
    /\ pc' = "open"
    /\ UNCHANGED <<tables, indexOn, legacy, crashes, opens>>

\* The process dies between two statements, or a statement fails and main
\* returns its error.
Crash ==
    /\ pc \notin {"closed", "failed"}
    /\ crashes < MaxCrashes
    /\ crashes' = crashes + 1
    /\ pc' = "closed"
    /\ UNCHANGED <<tables, indexOn, legacy, opens>>

\* The same in the middle of the schema script.
CrashInSchema ==
    /\ pc \in {"schema", "recreate"}
    /\ crashes < MaxCrashes
    /\ crashes' = crashes + 1
    /\ tables' = SchemaTables(tables)
    /\ \E done \in 0..(Len(Indexes) - 1) : indexOn' = SchemaIndexes(indexOn, done)
    /\ pc' = "closed"
    /\ UNCHANGED <<legacy, opens>>

Statement ==
    \/ RunSchema("schema", "compat")
    \/ EnsureSchemaCompat
    \/ Rename
    \/ RunSchema("recreate", "copy")
    \/ Copy
    \/ Drop
    \/ SetPragmas

Next == Open \/ Close \/ Statement \/ Crash \/ CrashInSchema
Spec == Init /\ [][Next]_vars
-----------------------------------------------------------------------------
\* Types; and no index is on a table that is not there.
TypeOK ==
    /\ tables \in [{"events", "events_old"} -> Tables]
    /\ indexOn \in [IndexNames -> {"events", "events_old", "none"}]
    /\ \A i \in IndexNames : indexOn[i] # "none" => Exists(indexOn[i])
    /\ pc \in {"closed", "schema", "compat", "rename", "recreate", "copy", "drop",
               "pragmas", "open", "failed"}
    /\ crashes \in 0..MaxCrashes
    /\ opens \in 0..MaxOpens

\* Wherever open is interrupted, and however often, every row the file held
\* is still in it, in the table or in the one the rebuild set aside.
RowsSurvive == legacy.rows \subseteq tables["events"].rows \cup tables["events_old"].rows

\* Open fails on a database without execution_id only: an interruption leaves
\* nothing behind that a later open cannot get past, such as a second rebuild
\* that finds the name events_old taken.
ReopenSucceeds == pc = "failed" => legacy # Absent /\ ~legacy.executionId

\* An open that is not interrupted migrates the database: the rows it found
\* are in the events table when it is done.
HistoryIsMigrated ==
    pc = "open" /\ crashes = 0 => legacy.rows \subseteq tables["events"].rows

\* Without interruptions, every index of the schema is on events from the
\* second open on.  The open that rebuilds the table leaves it without any:
\* their names are still taken by events_old when the schema is run.
IndexesAfterReopen ==
    pc = "open" /\ opens > 1 /\ crashes = 0 => \A i \in IndexNames : indexOn[i] = "events"

\* Open creates or migrates the database it is given.
OpenSucceeds == pc # "failed"
=============================================================================
