---------------------------- MODULE MCSQLiteBackup ----------------------------
(***************************************************************************)
(* An instance of SQLiteBackup for TLC: two commands, one directory.       *)
(***************************************************************************)
EXTENDS SQLiteBackup

Commands == 1..2
Temporaries == <<".backup.db-1.tmp", ".backup.db-2.tmp">>
=============================================================================
