----------------------------- MODULE FactLedger -----------------------------
(***************************************************************************)
(* What the pending-fact buffer promises: a fact handed over by a          *)
(* consolidation run stays kept until an optimizer round has merged it     *)
(* into MEMORY.md, and a merged fact is never un-merged.  The promise ends *)
(* for a fact that is put at risk.                                         *)
(***************************************************************************)
CONSTANT Facts

VARIABLE ledger

TypeOK == ledger \in [Facts -> {"absent", "kept", "merged", "risked"}]

Init == ledger = [f \in Facts |-> "absent"]

Keep(f) ==
    /\ ledger[f] = "absent"
    /\ ledger' = [ledger EXCEPT ![f] = "kept"]

\* One optimizer round merges everything it took out of the buffer.
Merge(batch) ==
    /\ batch # {}
    /\ \A f \in batch : ledger[f] = "kept"
    /\ ledger' = [f \in Facts |-> IF f \in batch THEN "merged" ELSE ledger[f]]

Risk(batch) == ledger' = [f \in Facts |-> IF f \in batch THEN "risked" ELSE ledger[f]]

Next ==
    \/ \E f \in Facts : Keep(f)
    \/ \E batch \in SUBSET Facts : Risk(batch)
    \/ \E batch \in SUBSET Facts : Merge(batch)

Spec == Init /\ [][Next]_ledger
=============================================================================
