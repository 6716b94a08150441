--------------------------- MODULE MCSQLiteStartup ---------------------------
(***************************************************************************)
(* Instances of SQLiteStartup for TLC: an old build and a new one.         *)
(***************************************************************************)
EXTENDS SQLiteStartup, TLC

CONSTANTS old, new

Builds == old :> 2 @@ new :> 3
Limits == old :> 2 @@ new :> 1
Groups == 1..3
=============================================================================
