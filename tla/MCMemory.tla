------------------------------ MODULE MCMemory ------------------------------
(***************************************************************************)
(* Items and events use disjoint rows.  A behaviour moves one of the two   *)
(* while the other stays in its initial state.                             *)
(***************************************************************************)
EXTENDS MemoryItems, MemoryEvents

Init == ItemInit /\ EventInit

Spec ==
    /\ Init
    /\ [][\/ ItemNext /\ EventInit /\ UNCHANGED eventVars
          \/ EventNext /\ ItemInit /\ UNCHANGED itemVars]_<<itemVars, eventVars>>
=============================================================================
