--------------------------- MODULE MutationLedger ---------------------------
(***************************************************************************)
(* What the mutation service does, without locks, tables or timers: a      *)
(* mutation is tentative once applied and ends either reverted or kept;    *)
(* what is kept can still be reverted by hand; a target is mutated once    *)
(* per trace.  The end of the process leaves at most a row in the table,   *)
(* from which the code never rolls back; that documents say it would is    *)
(* MutationService!RowsCanBeUndone.                                        *)
(***************************************************************************)
CONSTANTS Mutations, SlotOf   \* SlotOf[m]: the trace and target of a mutation

VARIABLE ledger

Gone == {"none", "row_only"}

State == Gone \cup {"tentative", "reverted", "kept"}

LedgerInit == ledger = [m \in Mutations |-> "none"]

Apply(m) ==
    /\ ledger[m] = "none"
    /\ \A n \in Mutations : SlotOf[n] = SlotOf[m] => ledger[n] \in Gone
    /\ ledger' = [ledger EXCEPT ![m] = "tentative"]

Revert(m) ==
    /\ ledger[m] \in {"tentative", "kept"}
    /\ ledger' = [ledger EXCEPT ![m] = "reverted"]

Keep(m) ==
    /\ ledger[m] = "tentative"
    /\ ledger' = [ledger EXCEPT ![m] = "kept"]

\* The process ends: what was gone stays as it was, everything else is gone now.
End ==
    /\ ledger' \in [Mutations -> Gone]
    /\ \A m \in Mutations : ledger[m] \in Gone => ledger'[m] = ledger[m]

LedgerNext ==
    \/ \E m \in Mutations : Apply(m) \/ Revert(m) \/ Keep(m)
    \/ End

LedgerSpec == LedgerInit /\ [][LedgerNext]_ledger
=============================================================================
