--------------------------- MODULE DeliveryLedger ---------------------------
(***************************************************************************)
(* What webhook delivery promises to the owner of an endpoint, with no     *)
(* queue, worker or request in sight: a delivery is pending until an       *)
(* attempt succeeded (and then stays delivered) or as many attempts as its *)
(* quota failed; a failed delivery may be taken up again; a removed one    *)
(* never comes back.                                                       *)
(***************************************************************************)
EXTENDS Naturals

CONSTANTS Deliveries, Quotas

VARIABLES
    outcome,    \* of each delivery
    quota,      \* how many attempts it gets before it counts as failed
    tried       \* the attempts on record, by result

lvars == <<outcome, quota, tried>>

LedgerInit ==
    /\ outcome = [d \in Deliveries |-> "none"]
    /\ quota   = [d \in Deliveries |-> 0]
    /\ tried   = [d \in Deliveries |-> [ok |-> 0, failed |-> 0]]

Set(d, o) == outcome' = [outcome EXCEPT ![d] = o]

Open(d, n) ==
    /\ outcome[d] = "none"
    /\ Set(d, "pending")
    /\ quota' = [quota EXCEPT ![d] = n]
    /\ UNCHANGED tried

Try(d) ==
    /\ outcome[d] \in {"pending", "delivered", "failed"}
    /\ \/ tried' = [tried EXCEPT ![d].ok = @ + 1]
       \/ tried' = [tried EXCEPT ![d].failed = @ + 1]
    /\ UNCHANGED <<outcome, quota>>

Deliver(d) ==
    /\ outcome[d] \in {"pending", "failed"}
    /\ tried[d].ok >= 1
    /\ Set(d, "delivered")
    /\ UNCHANGED <<quota, tried>>

GiveUp(d) ==
    /\ outcome[d] = "pending"
    /\ tried[d].failed >= quota[d]
    /\ Set(d, "failed")
    /\ UNCHANGED <<quota, tried>>

Reopen(d) ==
    /\ outcome[d] = "failed"
    /\ Set(d, "pending")
    /\ UNCHANGED <<quota, tried>>

\* An endpoint goes with all its deliveries.
Remove(gone) ==
    /\ \A d \in gone : outcome[d] \in {"pending", "delivered", "failed"}
    /\ outcome' = [d \in Deliveries |-> IF d \in gone THEN "removed" ELSE outcome[d]]
    /\ tried'   = [d \in Deliveries |-> IF d \in gone THEN [ok |-> 0, failed |-> 0] ELSE tried[d]]
    /\ UNCHANGED quota

LedgerNext ==
    \/ \E d \in Deliveries :
          \/ \E n \in Quotas : Open(d, n)
          \/ Try(d) \/ Deliver(d) \/ GiveUp(d) \/ Reopen(d)
    \/ \E gone \in SUBSET Deliveries : Remove(gone)

LedgerSpec == LedgerInit /\ [][LedgerNext]_lvars
=============================================================================
