----------------------------- MODULE AuditTrail -----------------------------
(***************************************************************************)
(* What the auditor promises its callers, without queue, workers or        *)
(* processes: an accepted event is pending until it becomes one row at the *)
(* end of an append-only ledger, or is given up.                           *)
(***************************************************************************)
EXTENDS Sequences, Functions

CONSTANT Events

VARIABLES pending,   \* accepted events that are not in the ledger yet
          ledger     \* the recorded events, in the order they were recorded

vars == <<pending, ledger>>

Init == pending = {} /\ ledger = <<>>

Accept(e) ==
    /\ e \notin pending \cup Range(ledger)
    /\ pending' = pending \cup {e}
    /\ UNCHANGED ledger

Record(e) ==
    /\ e \in pending
    /\ pending' = pending \ {e}
    /\ ledger' = Append(ledger, e)

GiveUp(S) ==
    /\ S \subseteq pending
    /\ pending' = pending \ S
    /\ UNCHANGED ledger

Next ==
    \/ \E e \in Events : Accept(e) \/ Record(e)
    \/ \E S \in SUBSET Events : GiveUp(S)

Spec == Init /\ [][Next]_vars
=============================================================================
