------------------------------- MODULE Billing -------------------------------
(***************************************************************************)
(* What is bought: a checkout at the payment service, and the service's    *)
(* callbacks that put a plan or a pack of credits on the buyer's keys      *)
(* (src/src/routes/billing/index.ts).  The service calls again until it is *)
(* answered 200, and also when an answer takes it too long; a row of       *)
(* processed_webhooks, inserted before the work and deleted when the work  *)
(* fails, keeps one event from being applied twice.                        *)
(*                                                                         *)
(* One person owns the keys of BillKeys.  An event names the key that      *)
(* bought, or only the person's mail address, or nobody that is known.     *)
(***************************************************************************)
EXTENDS Integers, FiniteSets

CONSTANTS BillKeys, Events, EvWorkers, MaxBillActs

VARIABLES
  event,     \* the payment service's events: what happened, whom it names, and whether it is answered
  claimed,   \* processed_webhooks
  hook,      \* the callbacks being handled
  account,   \* the keys' plan and extraVerificationCredits
  paid       \* what became of the events, and the steps spent (MaxBillActs)

billVars == <<event, claimed, hook, account, paid>>

NoHook == [pc |-> "idle", e |-> "none"]
NoEvent == [what |-> "none", names |-> "none", sent |-> "none"]

BillingInit ==
  /\ event = [e \in Events |-> NoEvent]
  /\ claimed = {}
  /\ hook = [w \in EvWorkers |-> NoHook]
  /\ account = [k \in BillKeys |-> [plan |-> "free", credits |-> 0]]
  /\ paid = [grants |-> [e \in Events |-> 0], unsure |-> {}, lost |-> {}, acts |-> 0]

BillSpend(n) == paid.acts + n <= MaxBillActs /\ paid' = [paid EXCEPT !.acts = @ + n]

----------------------------------------------------------------------------
(* The service *)

\* A checkout carries the key that asks, so that the event will name it; the
\* price of a credit pack comes with the amount.
CheckoutPlan(e, k) ==
  /\ event[e].what = "none" /\ BillSpend(1)
  /\ event' = [event EXCEPT ![e] = [what |-> "plan", names |-> k, sent |-> "no"]]
  /\ UNCHANGED <<claimed, hook, account>>

CheckoutCredits(e, k) ==
  /\ event[e].what = "none" /\ BillSpend(1)
  /\ event' = [event EXCEPT ![e] = [what |-> "credits", names |-> k, sent |-> "no"]]
  /\ UNCHANGED <<claimed, hook, account>>

\* The buyer pays.
BuyerPays(e) ==
  /\ event[e].sent = "no"
  /\ event' = [event EXCEPT ![e].sent = "due"]
  /\ UNCHANGED <<claimed, hook, account, paid>>

\* What the service tells of a subscription without a checkout of ours: it is
\* renewed, ends, or cannot be paid.  The event may lack the metadata.
SubscriptionChanges(e, what, whom) ==
  /\ event[e].what = "none" /\ BillSpend(1)
  /\ event' = [event EXCEPT ![e] = [what |-> what, names |-> whom, sent |-> "due"]]
  /\ UNCHANGED <<claimed, hook, account>>

----------------------------------------------------------------------------
(* The callback *)

FirstIdleHook == CHOOSE w \in EvWorkers : hook[w] = NoHook

\* The signature is verified.  The service sends an event again while an
\* earlier delivery of it is still being worked on only when that takes long.
Receive(e) ==
  /\ event[e].sent = "due"
  /\ \E w \in EvWorkers : hook[w] = NoHook
  /\ IF \E w \in EvWorkers : hook[w].e = e THEN BillSpend(1) ELSE UNCHANGED paid
  /\ hook' = [hook EXCEPT ![FirstIdleHook] = [pc |-> "claim", e |-> e]]
  /\ UNCHANGED <<event, claimed, account>>

\* mutant
ClaimedNever(e) == FALSE
\* insert ... on conflict do nothing
ClaimedBefore(e) == e \in claimed

\* 200 to the service: it does not send the event again.  Work of another
\* delivery of it that fails after this is not done again.
Answered(e) == event' = [event EXCEPT ![e].sent = "answered"]

\* A duplicate is answered 200 at once, whatever becomes of the first one.
DuplicateEvent(w) ==
  LET e == hook[w].e IN
  /\ hook[w].pc = "claim" /\ ClaimedBefore(e)
  /\ Answered(e)
  /\ hook' = [hook EXCEPT ![w] = NoHook]
  /\ UNCHANGED <<claimed, account, paid>>

Claim(w) ==
  LET e == hook[w].e IN
  /\ hook[w].pc = "claim" /\ ~ClaimedBefore(e)
  /\ claimed' = claimed \cup {e}
  /\ hook' = [hook EXCEPT ![w].pc = "apply"]
  /\ UNCHANGED <<event, account, paid>>

\* The insert throws: the event is processed anyway.
ClaimFails(w) ==
  LET e == hook[w].e IN
  /\ hook[w].pc = "claim" /\ paid.acts + 2 <= MaxBillActs
  /\ hook' = [hook EXCEPT ![w].pc = "apply"]
  /\ paid' = [paid EXCEPT !.acts = @ + 2, !.unsure = @ \cup {e}]
  /\ UNCHANGED <<event, claimed, account>>

\* The rows an event reaches: the key it names (a row is never deleted), else
\* every key of the person, else none.
KeysReached(e) ==
  CASE event[e].names \in BillKeys -> {event[e].names}
    [] event[e].names = "address"  -> BillKeys
    [] OTHER                       -> {}

\* The amount is added in the database.
ApplyCreditPack(e) ==
  account' = [k \in BillKeys |->
    IF k \in KeysReached(e) THEN [account[k] EXCEPT !.credits = IF @ < 2 THEN @ + 1 ELSE @] ELSE account[k]]
ApplyPlanChange(e) ==
  account' = [k \in BillKeys |-> IF k \in KeysReached(e) THEN [account[k] EXCEPT !.plan = "paid"] ELSE account[k]]
ApplyDowngrade(e) ==
  account' = [k \in BillKeys |-> IF k \in KeysReached(e) THEN [account[k] EXCEPT !.plan = "free"] ELSE account[k]]
\* Only a mail.
NotifyPaymentFailed == UNCHANGED account

Work(e) ==
  /\ event[e].what = "credits" => ApplyCreditPack(e)
  /\ event[e].what = "plan" => ApplyPlanChange(e)
  /\ event[e].what = "ends" => ApplyDowngrade(e)
  /\ event[e].what = "failed" => NotifyPaymentFailed

\* The update is done and the service answered; an event that matched no key
\* is logged and answered all the same.
Apply(w) ==
  LET e == hook[w].e IN
  /\ hook[w].pc = "apply"
  /\ Work(e) /\ Answered(e)
  /\ paid' = [paid EXCEPT !.grants[e] = IF @ < 2 THEN @ + 1 ELSE @]
  /\ hook' = [hook EXCEPT ![w] = NoHook]
  /\ UNCHANGED claimed

\* The update fails before it took effect, or after it did.
ApplyFails(w, done) ==
  LET e == hook[w].e IN
  /\ hook[w].pc = "apply" /\ paid.acts + 2 <= MaxBillActs
  /\ IF done THEN Work(e) ELSE UNCHANGED account
  /\ paid' = [paid EXCEPT !.acts = @ + 2,
                          !.grants[e] = IF done /\ @ < 2 THEN @ + 1 ELSE @,
                          !.unsure = IF done THEN @ \cup {e} ELSE @]
  /\ hook' = [hook EXCEPT ![w].pc = "release"]
  /\ UNCHANGED <<event, claimed>>

\* mutant
ClaimsLeftNot(e) == claimed
\* The claim is deleted and the service answered 500, so that it sends again;
\* unless another delivery has been answered meanwhile.
ClaimsLeft(e) == claimed \ {e}

Unclaim(w) ==
  LET e == hook[w].e IN
  /\ hook[w].pc = "release"
  /\ claimed' = ClaimsLeft(e)
  /\ hook' = [hook EXCEPT ![w] = NoHook]
  /\ paid' = [paid EXCEPT !.lost = IF event[e].sent = "answered" THEN @ \cup {e} ELSE @]
  /\ UNCHANGED <<event, account>>

\* The delete is best effort: the claim stays and the next delivery is a
\* duplicate.
UnclaimFails(w) ==
  LET e == hook[w].e IN
  /\ hook[w].pc = "release" /\ paid.acts + 2 <= MaxBillActs
  /\ hook' = [hook EXCEPT ![w] = NoHook]
  /\ paid' = [paid EXCEPT !.acts = @ + 2, !.lost = @ \cup {e}]
  /\ UNCHANGED <<event, claimed, account>>

\* The process stops at any point of the work.
HookDies(w) ==
  LET e == hook[w].e IN
  /\ hook[w].pc # "idle" /\ paid.acts + 2 <= MaxBillActs
  /\ hook' = [hook EXCEPT ![w] = NoHook]
  /\ paid' = [paid EXCEPT !.acts = @ + 2,
                          !.lost = IF hook[w].pc \in {"apply", "release"} /\ e \in claimed THEN @ \cup {e} ELSE @]
  /\ UNCHANGED <<event, claimed, account>>

HookStep(w) == DuplicateEvent(w) \/ Claim(w) \/ Apply(w) \/ Unclaim(w)

BillingNext ==
  \/ \E e \in Events, k \in BillKeys : CheckoutPlan(e, k) \/ CheckoutCredits(e, k)
  \/ \E e \in Events : BuyerPays(e) \/ Receive(e)
  \/ \E e \in Events, what \in {"plan", "ends", "failed"}, whom \in BillKeys \cup {"address", "nobody"} :
       SubscriptionChanges(e, what, whom)
  \/ \E w \in EvWorkers : \/ HookStep(w)
                          \/ ClaimFails(w)
                          \/ \E done \in BOOLEAN : ApplyFails(w, done)
                          \/ UnclaimFails(w)
                          \/ HookDies(w)

BillingSpec == BillingInit /\ [][BillingNext]_billVars

\* The service goes on sending what is not answered (external), and handlers
\* make progress.
HooksWork == (\E w \in EvWorkers : HookStep(w)) \/ (\E e \in Events : Receive(e))

----------------------------------------------------------------------------
\* No payment is applied twice, however often and however overlapping its
\* event is delivered: the exceptions are those the code chose, an insert that
\* threw and an update that took effect and still reported an error.
GrantedOnce == \A e \in Events : paid.grants[e] >= 2 => e \in paid.unsure

\* What is paid for is applied in the end, also when the work failed at first:
\* unless the claim outlived the work (a process that stopped, a delete that
\* failed), or the retry was answered as a duplicate while the work was still
\* about to fail.
GrantedInTheEnd ==
  \A e \in Events : []<>(event[e].sent \in {"none", "no"} \/ paid.grants[e] >= 1 \/ e \in paid.lost)
=============================================================================
