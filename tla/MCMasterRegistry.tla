--------------------------- MODULE MCMasterRegistry ---------------------------
(* TLC instances of MasterRegistry; all values come from the .cfg files.    *)
EXTENDS MasterRegistry
=============================================================================
