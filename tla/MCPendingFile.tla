--------------------------- MODULE MCPendingFile ---------------------------
(* TLC instances of PendingFile.                                           *)
EXTENDS PendingFile
=============================================================================
