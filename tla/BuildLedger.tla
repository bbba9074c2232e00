----------------------------- MODULE BuildLedger ----------------------------
(***************************************************************************)
(* What users may rely on: a new build has a higher version than any build *)
(* before it, and a version is built again only when all of its builds     *)
(* have failed or were canceled.                                           *)
(***************************************************************************)
EXTENDS Naturals, Sequences

CONSTANT Versions

VARIABLE ledger        \* the builds in order: [version, status]

Unsuccessful == {"failed", "canceled"}

Init == ledger = <<>>

Enter(v) == \E s \in {"pending", "failed"} : ledger' = Append(ledger, [version |-> v, status |-> s])

Build ==
  \E v \in Versions :
    /\ \A k \in 1..Len(ledger) : ledger[k].version < v
    /\ Enter(v)

Rebuild ==
  \E k \in 1..Len(ledger) :
    /\ \A i \in 1..Len(ledger) :
         ledger[i].version = ledger[k].version => ledger[i].status \in Unsuccessful
    /\ Enter(ledger[k].version)

Progress ==
  \E k \in 1..Len(ledger), s \in {"running", "canceling", "succeeded", "failed", "canceled"} :
    /\ ledger[k].status \notin Unsuccessful \cup {"succeeded"}
    /\ ledger' = [ledger EXCEPT ![k] = [version |-> @.version, status |-> s]]

Next == Build \/ Rebuild \/ Progress

Spec == Init /\ [][Next]_ledger

=============================================================================
