----------------------------- MODULE MCWebhook -----------------------------
\* WebhookDelivery with small sets for TLC.
EXTENDS WebhookDelivery, TLC

CONSTANT MaxDisturbed    \* bound: jobs that stalled or failed

\* A state constraint: behaviours are followed until more jobs than that did.
FewDisturbed ==
    Cardinality({id \in DOMAIN queue : queue[id].stalls > 0 \/ queue[id].state = "failed"})
        <= MaxDisturbed

Symmetry == Permutations(Deliveries) \cup Permutations(Workers) \cup Permutations(Callers)
=============================================================================
