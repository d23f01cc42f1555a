-------------------------- MODULE MCConsolidation --------------------------
(* TLC instance of Consolidation: a session of a few messages.             *)
EXTENDS Consolidation
=============================================================================
