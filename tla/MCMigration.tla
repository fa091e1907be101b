----------------------------- MODULE MCMigration -----------------------------
(* Every kind of events table a version of the collector may have left. *)
EXTENDS Migration

AnyVersion ==
    {Absent} \cup [rows : SUBSET {1, 2}, executionId : BOOLEAN, eventType : {"TEXT", "INTEGER"}]
=============================================================================
