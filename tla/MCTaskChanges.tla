--------------------------- MODULE MCTaskChanges ---------------------------
(* Instances of TaskChanges for TLC.                                        *)
EXTENDS TaskChanges
=============================================================================
