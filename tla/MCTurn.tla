------------------------------- MODULE MCTurn -------------------------------
(***************************************************************************)
(* Turns and the queues behind them.  A committed turn only adds to the    *)
(* queues, whatever they hold, so the two are checked side by side: a      *)
(* behaviour moves one while the other stays in its initial state.         *)
(***************************************************************************)
EXTENDS AgentLoop, PostTurn

CONSTANTS a, b

TurnInit == Init /\ PostInit

TurnSpec ==
    /\ TurnInit
    /\ [][\/ Next /\ PostInit /\ UNCHANGED postVars
          \/ PostNext /\ Init /\ UNCHANGED vars]_<<vars, postVars>>
    /\ Fairness /\ PostFairness

TurnTypeOK == TypeOK /\ PostTypeOK

(***************************************************************************)
(* The inbox and both queues of the post-turn work drain, however a turn   *)
(* hangs or a worker fails.                                                *)
(***************************************************************************)
EverythingDrains == InboxDrains /\ QueuesDrain
=============================================================================
