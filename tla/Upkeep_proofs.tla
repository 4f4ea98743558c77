---------------------------- MODULE Upkeep_proofs ----------------------------
(***************************************************************************)
(* What the background work promises to do once, proved for every number   *)
(* of events, callbacks, cycles, enrollments and leads: a payment is not   *)
(* applied twice (Billing), the owner is not told twice and three soft     *)
(* bounces block (DeliveryEvents), a step of an automation is mailed once  *)
(* (Automations), a lead gets one record (SalesforceSync).  Each part      *)
(* states its inductive invariant and proves it of the component's own     *)
(* next-state relation; the theorems at the end put the parts together for *)
(* the specification MCUpkeep checks.                                      *)
(***************************************************************************)
EXTENDS MCUpkeep, FiniteSetTheorems, SequenceTheorems, TLAPS

------------------------------------------------------------------------------
(* Billing: a payment's event is applied once. *)

\* The callbacks, and what became of the events.
HookPcs == {"idle", "claim", "apply", "release"}
HookType == [pc : HookPcs, e : Events \cup {"none"}]
PaidType == [grants : [Events -> Nat], unsure : SUBSET Events, lost : SUBSET Events, acts : Nat]
\* The callback h is at work on the event e: it has claimed it, or does without.
AtWork(h, e) == h.pc \in {"apply", "release"} /\ h.e = e
BillingTypeOK ==
    /\ hook \in [EvWorkers -> HookType]
    /\ \A w \in EvWorkers : hook[w].pc # "idle" => hook[w].e \in Events
    /\ paid \in PaidType
\* An event whose insert did not throw, and whose outcome is known, is at work
\* at one callback, which has claimed it and before which it was not applied;
\* once it was applied it stays claimed.
GrantSound(e) ==
    /\ paid.grants[e] <= 1
    /\ paid.grants[e] = 1 => e \in claimed
    /\ \A w \in EvWorkers : AtWork(hook[w], e) => e \in claimed /\ paid.grants[e] = 0
    /\ \A v, w \in EvWorkers : AtWork(hook[v], e) /\ AtWork(hook[w], e) => v = w
BillingInv == BillingTypeOK /\ \A e \in Events \ paid.unsure : GrantSound(e)

\* The invariant gives the property.
LEMMA GrantsFollow == BillingInv => GrantedOnce
BY DEF BillingInv, BillingTypeOK, PaidType, GrantSound, GrantedOnce

\* Nothing is claimed, at work or applied at first.
LEMMA BillingStarts == BillingInit => BillingInv
BY DEF BillingInit, BillingInv, BillingTypeOK, PaidType, HookType, HookPcs, NoHook, GrantSound, AtWork

\* Counting a step changes nothing else.
LEMMA BillSpends ==
    ASSUME BillingTypeOK, NEW n \in Nat, BillSpend(n)
    PROVE  paid' \in PaidType /\ paid'.grants = paid.grants /\ paid'.unsure = paid.unsure
BY DEF BillingTypeOK, PaidType, BillSpend

\* One callback moves on without taking an event into its hands: the claims of
\* events whose outcome is known stay, and so does what was applied.
LEMMA HookMoves ==
    ASSUME BillingInv, NEW w \in EvWorkers, NEW h \in HookType, hook' = [hook EXCEPT ![w] = h],
           h.pc # "idle" => h.e \in Events,
           \A e \in Events \ paid'.unsure : AtWork(h, e) => AtWork(hook[w], e),
           \A e \in Events \ paid'.unsure : e \in claimed => e \in claimed',
           paid' \in PaidType, paid.unsure \subseteq paid'.unsure,
           \A e \in Events \ paid'.unsure : paid'.grants[e] = paid.grants[e]
    PROVE  BillingInv'
<1>1. hook \in [EvWorkers -> HookType] /\ \A x \in EvWorkers : hook[x].pc # "idle" => hook[x].e \in Events
    BY DEF BillingInv, BillingTypeOK
<1>2. \A x \in EvWorkers : hook'[x] = IF x = w THEN h ELSE hook[x] BY <1>1
<1>3. BillingTypeOK' BY <1>1, <1>2 DEF BillingTypeOK
<1>4. ASSUME NEW e \in Events \ paid'.unsure PROVE GrantSound(e)' BY <1>2 DEF BillingInv, GrantSound, AtWork
<1> QED  BY <1>3, <1>4 DEF BillingInv

\* Every step of the payment service and of the callbacks keeps the invariant.
LEMMA BillingStep == BillingInv /\ [BillingNext]_billVars => BillingInv'
<1> SUFFICES ASSUME BillingInv, [BillingNext]_billVars PROVE BillingInv' OBVIOUS
<1>t. BillingTypeOK /\ hook \in [EvWorkers -> HookType] /\ paid \in PaidType BY DEF BillingInv, BillingTypeOK
<1>s. ASSUME UNCHANGED <<claimed, hook>>, UNCHANGED paid \/ BillSpend(1) PROVE BillingInv'
  BY <1>s, <1>t, BillSpends DEF BillingInv, BillingTypeOK, GrantSound, AtWork
<1>n. NoHook \in HookType /\ NoHook.pc = "idle" /\ \A x \in Events : ~AtWork(NoHook, x)
    BY DEF NoHook, HookType, HookPcs, AtWork
<1>h. ASSUME NEW w \in EvWorkers PROVE hook[w] \in HookType /\ (hook[w].pc # "idle" => hook[w].e \in Events)
    BY <1>t DEF BillingTypeOK
<1>1. ASSUME NEW e \in Events, NEW k \in BillKeys, CheckoutPlan(e, k) \/ CheckoutCredits(e, k) PROVE BillingInv'
    BY <1>1, <1>s DEF CheckoutPlan, CheckoutCredits
<1>2. ASSUME NEW e \in Events, BuyerPays(e) PROVE BillingInv' BY <1>2, <1>s DEF BuyerPays
<1>3. ASSUME NEW e \in Events, NEW what, NEW whom, SubscriptionChanges(e, what, whom) PROVE BillingInv'
    BY <1>3, <1>s DEF SubscriptionChanges
<1>4. ASSUME NEW e \in Events, Receive(e) PROVE BillingInv'
  BY <1>4, <1>t, BillSpends, HookMoves DEF Receive, FirstIdleHook, HookType, HookPcs, AtWork
<1>5. ASSUME NEW w \in EvWorkers, DuplicateEvent(w) PROVE BillingInv'
  BY <1>5, <1>n, <1>t, HookMoves DEF DuplicateEvent
<1>6. ASSUME NEW w \in EvWorkers, Claim(w) PROVE BillingInv'
    <2>1. PICK e \in Events : e = hook[w].e BY <1>6, <1>h DEF Claim
    <2>2. /\ e \notin claimed /\ claimed' = claimed \cup {e} /\ hook' = [hook EXCEPT ![w].pc = "apply"]
          /\ paid' = paid /\ hook[w].pc = "claim"
        BY <1>6, <2>1 DEF Claim, ClaimedBefore
    <2>3. PICK h : h = [hook[w] EXCEPT !.pc = "apply"] OBVIOUS
    <2>4. h \in HookType /\ h.e = e /\ h.pc = "apply" BY <2>1, <2>3, <1>h DEF HookType, HookPcs
    <2>5. hook' = [hook EXCEPT ![w] = h] BY <2>2, <2>3
    <2>6. \A x \in EvWorkers : hook'[x] = IF x = w THEN h ELSE hook[x] BY <2>5, <1>t
    <2>7. BillingTypeOK' BY <2>2, <2>4, <2>6, <2>5, <1>t DEF BillingTypeOK
    <2>8. ASSUME NEW x \in Events \ paid.unsure PROVE GrantSound(x)'
        <3>1. GrantSound(x) /\ paid.grants[x] \in Nat BY <1>t DEF BillingInv, PaidType
        <3>2. \A v \in EvWorkers : AtWork(hook'[v], x) => AtWork(hook[v], x) \/ (v = w /\ x = e)
            BY <2>4, <2>6 DEF AtWork
        <3>3. x = e => paid.grants[x] = 0 /\ \A v \in EvWorkers : ~AtWork(hook[v], x)
            BY <3>1, <2>2 DEF GrantSound
        <3> QED  BY <3>1, <3>2, <3>3, <2>2 DEF GrantSound
    <2> QED  BY <2>2, <2>7, <2>8 DEF BillingInv
<1>7. ASSUME NEW w \in EvWorkers, ClaimFails(w) PROVE BillingInv'
    <2>1. PICK e \in Events : e = hook[w].e BY <1>7, <1>h DEF ClaimFails
    <2>2. claimed' = claimed /\ hook' = [hook EXCEPT ![w].pc = "apply"] /\ hook[w].pc = "claim"
          /\ paid' = [paid EXCEPT !.acts = @ + 2, !.unsure = @ \cup {e}]
        BY <1>7, <2>1 DEF ClaimFails
    <2>3. PICK h : h = [hook[w] EXCEPT !.pc = "apply"] OBVIOUS
    <2>4. h \in HookType /\ h.e = e /\ h.pc = "apply" BY <2>1, <2>3, <1>h DEF HookType, HookPcs
    <2>5. hook' = [hook EXCEPT ![w] = h] BY <2>2, <2>3
    <2>6. paid' \in PaidType /\ paid'.grants = paid.grants /\ paid'.unsure = paid.unsure \cup {e}
        <3>1. PICK n \in Nat : n = paid.acts BY <1>t DEF PaidType
        <3>2. paid' = [paid EXCEPT !.acts = n + 2, !.unsure = paid.unsure \cup {e}] BY <2>2, <3>1
        <3>3. paid' = [grants |-> paid.grants, unsure |-> paid.unsure \cup {e}, lost |-> paid.lost, acts |-> n + 2]
            BY <3>2, <1>t DEF PaidType
        <3>4. /\ paid.grants \in [Events -> Nat] /\ paid.unsure \cup {e} \in SUBSET Events
              /\ paid.lost \in SUBSET Events /\ n + 2 \in Nat
            BY <1>t DEF PaidType
        <3> QED  BY <3>3, <3>4 DEF PaidType
    <2>7. \A x \in Events \ paid'.unsure : ~AtWork(h, x) BY <2>4, <2>6 DEF AtWork
    <2> QED  BY <2>2, <2>4, <2>5, <2>6, <2>7, HookMoves
<1>8. ASSUME NEW w \in EvWorkers, Apply(w) PROVE BillingInv'
    <2>1. PICK e \in Events : e = hook[w].e BY <1>8, <1>h DEF Apply
    <2>2. claimed' = claimed /\ hook' = [hook EXCEPT ![w] = NoHook] /\ hook[w].pc = "apply"
          /\ paid' = [paid EXCEPT !.grants[e] = IF @ < 2 THEN @ + 1 ELSE @]
        BY <1>8, <2>1 DEF Apply
    <2>3. /\ paid' \in PaidType /\ paid'.unsure = paid.unsure
          /\ \A x \in Events : paid'.grants[x] =
               IF x = e THEN (IF paid.grants[e] < 2 THEN paid.grants[e] + 1 ELSE paid.grants[e]) ELSE paid.grants[x]
        BY <2>2, <1>t DEF PaidType
    <2>4. \A x \in EvWorkers : hook'[x] = IF x = w THEN NoHook ELSE hook[x] BY <2>2, <1>t
    <2>5. BillingTypeOK' BY <2>2, <2>3, <2>4, <1>n, <1>t DEF BillingTypeOK
    <2>6. ASSUME NEW x \in Events \ paid.unsure PROVE GrantSound(x)'
    BY <2>4, <1>n, <2>1, <2>2, <2>3 DEF BillingInv, AtWork, GrantSound
    <2> QED  BY <2>3, <2>5, <2>6 DEF BillingInv
<1>9. ASSUME NEW w \in EvWorkers, NEW done \in BOOLEAN, ApplyFails(w, done) PROVE BillingInv'
    <2>1. PICK e \in Events : e = hook[w].e BY <1>9, <1>h DEF ApplyFails
    <2>2. claimed' = claimed /\ hook' = [hook EXCEPT ![w].pc = "release"] /\ hook[w].pc = "apply"
          /\ paid' = [paid EXCEPT !.acts = @ + 2, !.grants[e] = IF done /\ @ < 2 THEN @ + 1 ELSE @,
                                  !.unsure = IF done THEN @ \cup {e} ELSE @]
        BY <1>9, <2>1 DEF ApplyFails
    <2>3. PICK h : h = [hook[w] EXCEPT !.pc = "release"] OBVIOUS
    <2>4. h \in HookType /\ h.e = e /\ h.pc = "release" BY <2>1, <2>3, <1>h DEF HookType, HookPcs
    <2>5. hook' = [hook EXCEPT ![w] = h] BY <2>2, <2>3
    <2>6. /\ paid' \in PaidType /\ paid.unsure \subseteq paid'.unsure
          /\ \A x \in Events \ paid'.unsure : paid'.grants[x] = paid.grants[x]
        <3>0. PICK n \in Nat : n = paid.acts BY <1>t DEF PaidType
        <3>1. CASE done
            <4>1. paid' = [paid EXCEPT !.acts = @ + 2, !.grants[e] = IF @ < 2 THEN @ + 1 ELSE @, !.unsure = @ \cup {e}]
                BY <2>2, <3>1
            <4>2. PICK m \in Nat : m = IF paid.grants[e] < 2 THEN paid.grants[e] + 1 ELSE paid.grants[e]
                BY <1>t DEF PaidType
            <4>3. PICK g : g = [paid.grants EXCEPT ![e] = m] OBVIOUS
            <4>4. g \in [Events -> Nat] /\ \A x \in Events : x # e => g[x] = paid.grants[x]
                BY <4>3, <1>t DEF PaidType
            <4>5. paid' = [grants |-> g, unsure |-> paid.unsure \cup {e}, lost |-> paid.lost, acts |-> n + 2]
                BY <4>1, <3>0, <4>2, <4>3, <1>t DEF PaidType
            <4>6. paid.unsure \cup {e} \in SUBSET Events /\ paid.lost \in SUBSET Events /\ n + 2 \in Nat
                BY <1>t DEF PaidType
            <4> QED  BY <4>4, <4>5, <4>6 DEF PaidType
        <3>2. CASE ~done
            <4>1. paid' = [paid EXCEPT !.acts = @ + 2, !.grants[e] = @, !.unsure = @] BY <2>2, <3>2
            <4>2. paid' = [grants |-> paid.grants, unsure |-> paid.unsure, lost |-> paid.lost, acts |-> n + 2]
                BY <4>1, <3>0, <1>t DEF PaidType
            <4>3. /\ paid.grants \in [Events -> Nat] /\ paid.unsure \in SUBSET Events
                  /\ paid.lost \in SUBSET Events /\ n + 2 \in Nat
                BY <1>t DEF PaidType
            <4> QED  BY <4>2, <4>3 DEF PaidType
        <3> QED  BY <3>1, <3>2
    <2>7. \A x \in Events \ paid'.unsure : AtWork(h, x) => AtWork(hook[w], x) BY <2>1, <2>2, <2>4 DEF AtWork
    <2>8. \A x \in Events \ paid'.unsure : x \in claimed => x \in claimed' BY <2>2
    <2>9. h.pc # "idle" => h.e \in Events BY <2>4
    <2> QED  BY <2>4, <2>5, <2>6, <2>7, <2>8, <2>9, HookMoves
<1>10. ASSUME NEW w \in EvWorkers, Unclaim(w) PROVE BillingInv'
    <2>1. PICK e \in Events : e = hook[w].e BY <1>10, <1>h DEF Unclaim
    <2>2. claimed' = claimed \ {e} /\ hook' = [hook EXCEPT ![w] = NoHook] /\ hook[w].pc = "release"
          /\ paid' = [paid EXCEPT !.lost = IF event[e].sent = "answered" THEN @ \cup {e} ELSE @]
        BY <1>10, <2>1 DEF Unclaim, ClaimsLeft
    <2>3. paid' \in PaidType /\ paid'.unsure = paid.unsure /\ paid'.grants = paid.grants
        BY <2>2, <1>t DEF PaidType
    <2>4. \A x \in EvWorkers : hook'[x] = IF x = w THEN NoHook ELSE hook[x] BY <2>2, <1>t
    <2>5. BillingTypeOK' BY <2>2, <2>3, <2>4, <1>n, <1>t DEF BillingTypeOK
    <2>6. ASSUME NEW x \in Events \ paid.unsure PROVE GrantSound(x)'
    BY <2>4, <1>n, <2>1, <2>2, <2>3 DEF BillingInv, AtWork, GrantSound
    <2> QED  BY <2>3, <2>5, <2>6 DEF BillingInv
<1>11. ASSUME NEW w \in EvWorkers, UnclaimFails(w) \/ HookDies(w) PROVE BillingInv'
    <2>1. hook' = [hook EXCEPT ![w] = NoHook] /\ claimed' = claimed BY <1>11 DEF UnclaimFails, HookDies
    <2>2. PICK e \in Events : e = hook[w].e BY <1>11, <1>h DEF UnclaimFails, HookDies
    <2>3. PICK n \in Nat : n = paid.acts BY <1>t DEF PaidType
    <2>4. PICK l \in SUBSET Events : paid' = [paid EXCEPT !.acts = n + 2, !.lost = l]
    BY <2>2, <2>3, <1>t, <1>11 DEF UnclaimFails, PaidType, HookDies
    <2>5. paid' = [grants |-> paid.grants, unsure |-> paid.unsure, lost |-> l, acts |-> n + 2]
        BY <2>4, <1>t DEF PaidType
    <2>6. paid.grants \in [Events -> Nat] /\ paid.unsure \in SUBSET Events /\ n + 2 \in Nat BY <1>t DEF PaidType
    <2>7. paid' \in PaidType /\ paid'.unsure = paid.unsure /\ paid'.grants = paid.grants
        BY <2>5, <2>6 DEF PaidType
    <2> QED  BY <2>1, <2>7, <1>n, HookMoves
<1>12. CASE UNCHANGED billVars BY <1>12, <1>s DEF billVars
<1> QED  BY <1>1, <1>2, <1>3, <1>4, <1>5, <1>6, <1>7, <1>8, <1>9, <1>10, <1>11, <1>12 DEF BillingNext, HookStep

------------------------------------------------------------------------------
(* DeliveryEvents: three soft bounces block, and the owner is told once. *)

\* The callbacks, the suppression, and what was counted.
HandlerPcs == {"idle", "record", "look", "count", "suppress", "rate", "mail", "audit"}
HandlerType == [pc : HandlerPcs, event : EventTypes]
NotedType == [acts : Nat, soft : Nat, bad : BOOLEAN, lost : BOOLEAN, alerts : [Rates -> Nat], doubled : BOOLEAN]
BlockType == [suppressed : {"no", "soft", "hard", "complaint"}, strikes : Nat]
DeliveryTypeOK ==
    /\ due \in [EventTypes -> Nat] /\ handler \in [Handlers -> HandlerType] /\ block \in BlockType
    /\ alerted \in [Rates -> {"none", "recent"}] /\ noted \in NotedType
\* What a callback at work is about, once n soft bounces were counted.
AboutRight(x, n) ==
    /\ x.pc \in {"look", "count"} => x.event = "soft"
    /\ x.pc = "suppress" => x.event # "delivered" /\ (x.event = "soft" => n >= Strikes)
    /\ x.pc \in {"rate", "mail", "audit"} => x.event \in Rates
\* A callback that has a soft bounce to count or to act upon.
SoftInHand(x) == x.event = "soft" /\ x.pc \in {"record", "look", "count", "suppress"}
\* The counter says how many soft bounces were counted, and the third one is in
\* somebody's hands until it blocks.
StrikesSound ==
    /\ block.strikes = noted.soft
    /\ \A h \in Handlers : AboutRight(handler[h], noted.soft)
    /\ block.suppressed = "soft" => noted.soft >= Strikes
    /\ noted.soft >= Strikes /\ ~noted.lost =>
         block.suppressed # "no" \/ due["soft"] > 0 \/ \E h \in Handlers : SoftInHand(handler[h])
\* A callback that is telling the owner of the rate r.
Telling(x, r) == x.event = r /\ x.pc \in {"mail", "audit"}
\* One callback at a time tells the owner of r; until its mail nobody has, and
\* after it the audit row keeps the others back, or will.
AlertSound(r) ==
    /\ noted.alerts[r] <= 1
    /\ \A g, h \in Handlers : Telling(handler[g], r) /\ Telling(handler[h], r) => g = h
    /\ \A h \in Handlers : Telling(handler[h], r) /\ handler[h].pc = "mail" => noted.alerts[r] = 0
    /\ noted.alerts[r] > 0 => alerted[r] = "recent" \/ \E h \in Handlers : Telling(handler[h], r)
AlertsSound == ~noted.doubled => \A r \in Rates : AlertSound(r)
DeliveryInv == DeliveryTypeOK /\ StrikesSound /\ AlertsSound

\* The invariant gives the two properties.
LEMMA EventsFollow == DeliveryInv => ThreeStrikes /\ AlertedOnce
  BY DEF DeliveryInv, StrikesSound, ThreeStrikes, At, SoftInHand, AlertsSound, AlertSound, AlertedOnce

\* Nothing has happened at first.
LEMMA EventsStart == DeliveryInit => DeliveryInv
  BY DeliveryAssumption DEF DeliveryInit, DeliveryTypeOK, HandlerType, HandlerPcs, NotedType, BlockType,
     NoEventHeld, EventTypes, Rates, StrikesSound, AboutRight, AlertsSound, AlertSound, Telling, DeliveryInv

\* Counting a step changes none of the other ghosts.
LEMMA SpendLeaves ==
    ASSUME NEW t \in NotedType, NEW n \in Nat, Spend(n, t)
    PROVE  /\ noted' \in NotedType /\ noted'.soft = t.soft /\ noted'.lost = t.lost
           /\ noted'.alerts = t.alerts /\ noted'.doubled = t.doubled
  BY DEF NotedType, Spend

\* The strikes after a step of one callback that counts and blocks nothing.
LEMMA StrikesStay ==
    ASSUME DeliveryInv, NEW h \in Handlers, NEW x \in HandlerType, handler' = [handler EXCEPT ![h] = x],
           AboutRight(x, noted.soft), noted' \in NotedType, noted'.soft = noted.soft, noted.lost => noted'.lost,
           block' = block, due' \in [EventTypes -> Nat],
           SoftInHand(handler[h]) => SoftInHand(x) \/ due'["soft"] > 0 \/ block.suppressed # "no" \/ noted'.lost,
           due["soft"] > 0 => due'["soft"] > 0 \/ SoftInHand(x) \/ noted'.lost
    PROVE  StrikesSound'
<1>1. handler \in [Handlers -> HandlerType] /\ StrikesSound BY DEF DeliveryInv, DeliveryTypeOK
<1>2. \A y \in Handlers : handler'[y] = IF y = h THEN x ELSE handler[y] BY <1>1
<1>3. block'.strikes = noted'.soft /\ (block'.suppressed = "soft" => noted'.soft >= Strikes)
    BY <1>1 DEF StrikesSound
<1>4. \A y \in Handlers : AboutRight(handler'[y], noted'.soft) BY <1>1, <1>2 DEF StrikesSound
<1>5. ASSUME noted'.soft >= Strikes, ~noted'.lost, block'.suppressed = "no", ~(due'["soft"] > 0)
      PROVE  \E y \in Handlers : SoftInHand(handler'[y])
  BY <1>5, <1>2, <1>1 DEF StrikesSound
<1>6. noted'.soft >= Strikes /\ ~noted'.lost =>
         block'.suppressed # "no" \/ due'["soft"] > 0 \/ \E y \in Handlers : SoftInHand(handler'[y])
    BY <1>5
<1> QED  BY <1>3, <1>4, <1>6 DEF StrikesSound

\* The alerts after a step of one callback that is not, then, telling the owner,
\* and did not have his mail to record.
LEMMA AlertsStay ==
    ASSUME DeliveryInv, NEW h \in Handlers, NEW x \in HandlerType, handler' = [handler EXCEPT ![h] = x],
           x.pc \notin {"mail", "audit"}, alerted' = alerted, noted' \in NotedType,
           noted'.alerts = noted.alerts, noted.doubled => noted'.doubled,
           handler[h].pc = "audit" => noted'.doubled
    PROVE  AlertsSound'
<1> SUFFICES ASSUME ~noted'.doubled, NEW r \in Rates PROVE AlertSound(r)' BY DEF AlertsSound
<1>1. handler \in [Handlers -> HandlerType] /\ AlertSound(r) /\ noted.alerts[r] \in Nat
    BY DEF DeliveryInv, DeliveryTypeOK, AlertsSound, NotedType
<1>2. \A y \in Handlers : handler'[y] = IF y = h THEN x ELSE handler[y] BY <1>1
<1>3. \A y \in Handlers : Telling(handler'[y], r) => y # h /\ handler'[y] = handler[y] BY <1>2 DEF Telling
<1>4. noted.alerts[r] > 0 => alerted[r] = "recent" \/ \E y \in Handlers : Telling(handler'[y], r)
    <2> SUFFICES ASSUME noted.alerts[r] > 0, alerted[r] # "recent" PROVE \E y \in Handlers : Telling(handler'[y], r)
        OBVIOUS
    <2>1. PICK y \in Handlers : Telling(handler[y], r) BY <1>1 DEF AlertSound
    <2>2. y # h BY <2>1, <1>1 DEF AlertSound, Telling
    <2> QED  BY <2>1, <2>2, <1>2
<1> QED  BY <1>1, <1>3, <1>4 DEF AlertSound

\* A callback that keeps its event and moves to another place.
LEMMA GoesOn ==
    ASSUME NEW h \in Handlers, handler \in [Handlers -> HandlerType], NEW pc, NEW e, e = handler[h].event, Goes(h, pc)
    PROVE  handler' = [handler EXCEPT ![h] = [pc |-> pc, event |-> e]]
<1>1. handler[h] \in HandlerType OBVIOUS
<1>2. [handler[h] EXCEPT !.pc = pc] = [pc |-> pc, event |-> e] BY <1>1 DEF HandlerType
<1>3. handler' = [handler EXCEPT ![h] = [handler[h] EXCEPT !.pc = pc]] BY DEF Goes
<1> QED  BY <1>2, <1>3

\* Every step of the services and of the callbacks keeps the invariant.
LEMMA EventsStep == DeliveryInv /\ [DeliveryNext]_deliveryVars => DeliveryInv'
<1> SUFFICES ASSUME DeliveryInv, [DeliveryNext]_deliveryVars PROVE DeliveryInv' OBVIOUS
<1>t. /\ due \in [EventTypes -> Nat] /\ handler \in [Handlers -> HandlerType] /\ block \in BlockType
      /\ alerted \in [Rates -> {"none", "recent"}] /\ noted \in NotedType
    BY DEF DeliveryInv, DeliveryTypeOK
<1>i. StrikesSound /\ AlertsSound BY DEF DeliveryInv
<1>w. NoEventHeld = [pc |-> "idle", event |-> "delivered"] /\ NoEventHeld \in HandlerType /\ "soft" \in EventTypes
      /\ \A n : AboutRight(NoEventHeld, n)
    BY DEF NoEventHeld, HandlerType, HandlerPcs, EventTypes, AboutRight
<1>h. ASSUME NEW h \in Handlers PROVE handler[h] \in HandlerType /\ AboutRight(handler[h], noted.soft)
    BY <1>t, <1>i DEF StrikesSound
\* A step of the services: nothing but the callbacks that wait, and more of them.
<1>s. ASSUME UNCHANGED <<handler, block, alerted>>, noted' \in NotedType, noted'.soft = noted.soft, noted'.lost = noted.lost,
             noted'.alerts = noted.alerts, noted'.doubled = noted.doubled,
             due' \in [EventTypes -> Nat], due["soft"] > 0 => due'["soft"] > 0
      PROVE  DeliveryInv'
  BY <1>s, <1>t, <1>i DEF DeliveryTypeOK, StrikesSound, AlertsSound, AlertSound, DeliveryInv
\* A step of one callback that leaves the counts alone.
<1>m. ASSUME NEW h \in Handlers, NEW x \in HandlerType, handler' = [handler EXCEPT ![h] = x],
             AboutRight(x, noted.soft), UNCHANGED <<block, due, alerted, noted>>, x.pc \notin {"mail", "audit"},
             handler[h].pc \notin {"mail", "audit"},
             SoftInHand(handler[h]) => SoftInHand(x) \/ block.suppressed # "no"
      PROVE  DeliveryInv'
  BY <1>m, <1>t, StrikesStay, AlertsStay DEF DeliveryTypeOK, DeliveryInv
\* A step of one callback after which a bounce is lost.
<1>f. ASSUME NEW h \in Handlers, NEW x \in HandlerType, handler' = [handler EXCEPT ![h] = x], AboutRight(x, noted.soft),
             UNCHANGED <<block, due, alerted>>, Spend(2, [noted EXCEPT !.lost = TRUE]), x.pc \notin {"mail", "audit"},
             handler[h].pc \notin {"mail", "audit"}
      PROVE  DeliveryInv'
    <2>1. PICK t : t = [noted EXCEPT !.lost = TRUE] OBVIOUS
    <2>2. t \in NotedType /\ t.soft = noted.soft /\ t.lost = TRUE /\ t.alerts = noted.alerts /\ t.doubled = noted.doubled
        BY <2>1, <1>t DEF NotedType
    <2>3. Spend(2, t) BY <2>1, <1>f
    <2>4. /\ noted' \in NotedType /\ noted'.soft = noted.soft /\ noted'.lost
          /\ noted'.alerts = noted.alerts /\ noted'.doubled = noted.doubled
        BY <2>2, <2>3, SpendLeaves
    <2>5. DeliveryTypeOK' BY <1>f, <2>4, <1>t DEF DeliveryTypeOK
    <2>6. StrikesSound' BY <1>f, <2>4, <1>t, StrikesStay
    <2>7. AlertsSound' BY <1>f, <2>4, <1>t, AlertsStay
    <2> QED  BY <2>5, <2>6, <2>7 DEF DeliveryInv
<1>1. ASSUME NEW e \in EventTypes, Happens(e) PROVE DeliveryInv'
    <2>1. PICK b \in BOOLEAN : b = (noted.bad \/ e \in Rates) OBVIOUS
    <2>2. PICK t : t = [noted EXCEPT !.bad = b] OBVIOUS
    <2>3. t \in NotedType /\ t.soft = noted.soft /\ t.lost = noted.lost /\ t.alerts = noted.alerts /\ t.doubled = noted.doubled
        BY <2>2, <1>t DEF NotedType
    <2>4. Spend(1, t) BY <1>1, <2>1, <2>2, Zenon DEF Happens
    <2>5. due' = [due EXCEPT ![e] = @ + 1] /\ UNCHANGED <<handler, block, alerted>> BY <1>1 DEF Happens
    <2>6. due' \in [EventTypes -> Nat] /\ (due["soft"] > 0 => due'["soft"] > 0) BY <2>5, <1>t, <1>w
    <2> QED  BY <2>3, <2>4, <2>5, <2>6, <1>s, SpendLeaves
<1>2. ASSUME NEW h \in Handlers, Twice(h) PROVE DeliveryInv'
  BY <1>h, <1>2, <1>t, <1>w, <1>s, SpendLeaves DEF HandlerType, Twice
<1>3. ASSUME UNCHANGED <<due, handler, block, alerted, noted>> PROVE DeliveryInv' BY <1>3, <1>s, <1>t
<1>4. ASSUME NEW h \in Handlers, NEW e \in EventTypes, ReceiveEvent(h, e) PROVE DeliveryInv'
    <2>1. due[e] > 0 /\ due' = [due EXCEPT ![e] = @ - 1] /\ UNCHANGED <<block, alerted>> /\ handler[h].pc = "idle"
        BY <1>4 DEF ReceiveEvent, At
    <2>2. due' \in [EventTypes -> Nat] /\ (e # "soft" => due'["soft"] = due["soft"]) BY <2>1, <1>t, <1>w
    <2>3. CASE mail.known
        <3>1. PICK x : x = [pc |-> "record", event |-> e] OBVIOUS
        <3>2. x \in HandlerType /\ AboutRight(x, noted.soft) /\ (e = "soft" => SoftInHand(x)) /\ x.pc = "record"
            BY <3>1 DEF HandlerType, HandlerPcs, AboutRight, SoftInHand
        <3>3. handler' = [handler EXCEPT ![h] = x] /\ noted' = noted BY <1>4, <2>3, <3>1 DEF ReceiveEvent
        <3>4. DeliveryTypeOK' BY <2>1, <2>2, <3>2, <3>3, <1>t DEF DeliveryTypeOK
        <3>5. ~SoftInHand(handler[h]) BY <2>1 DEF SoftInHand
        <3>6. StrikesSound' BY <2>1, <2>2, <3>2, <3>3, <3>5, <1>t, StrikesStay
        <3>7. AlertsSound' BY <2>1, <3>2, <3>3, <1>t, AlertsStay
        <3> QED  BY <3>4, <3>6, <3>7 DEF DeliveryInv
    <2>4. CASE ~mail.known
        <3>1. noted' = [noted EXCEPT !.lost = TRUE] /\ handler' = handler BY <1>4, <2>4 DEF ReceiveEvent
        <3>2. /\ noted' \in NotedType /\ noted'.lost /\ noted'.soft = noted.soft
              /\ noted'.alerts = noted.alerts /\ noted'.doubled = noted.doubled
            BY <3>1, <1>t DEF NotedType
        <3>3. DeliveryTypeOK' BY <2>1, <2>2, <3>1, <3>2, <1>t DEF DeliveryTypeOK
        <3>4. StrikesSound' BY <2>1, <3>1, <3>2, <1>i DEF StrikesSound
        <3>5. AlertsSound' BY <2>1, <3>1, <3>2, <1>i DEF AlertsSound, AlertSound
        <3> QED  BY <3>3, <3>4, <3>5 DEF DeliveryInv
    <2> QED  BY <2>3, <2>4
<1>5. ASSUME NEW h \in Handlers, Record(h) PROVE DeliveryInv'
  BY <1>h, <1>5, <1>w, <1>m, <1>t, GoesOn DEF HandlerType, Record, At, AfterRecord, Ends, SoftInHand,
     HandlerPcs, AboutRight
<1>6. ASSUME NEW h \in Handlers, Look(h) PROVE DeliveryInv'
  BY <1>6, <1>h, <1>t, GoesOn, <1>m, <1>w DEF Look, At, AboutRight, HandlerType, HandlerPcs, EventTypes,
     SoftInHand, Ends
<1>7. ASSUME NEW h \in Handlers, Suppress(h) PROVE DeliveryInv'
    <2>1. PICK e \in EventTypes \ {"delivered"} : e = handler[h].event /\ (e = "soft" => noted.soft >= Strikes)
        BY <1>7, <1>h DEF Suppress, At, HandlerType, AboutRight
    <2>2. handler[h].pc = "suppress" /\ UNCHANGED <<due, alerted>> BY <1>7 DEF Suppress, At
    <2>3. PICK x \in HandlerType : /\ handler' = [handler EXCEPT ![h] = x] /\ AboutRight(x, noted.soft)
                                   /\ x.pc \in {"idle", "rate"} /\ ~SoftInHand(x)
    BY <1>7, <2>1, <1>t, GoesOn, <1>w DEF Suppress, HandlerType, HandlerPcs, AboutRight, SoftInHand, Rates, Ends
    <2>4. CASE block' = [block EXCEPT !.suppressed = Suppressed(e)] /\ noted' = noted
    BY <2>1, <1>t, <2>4, <2>2, <2>3, <1>h, <1>i, AlertsStay DEF Suppressed, BlockType, EventTypes,
       DeliveryTypeOK, StrikesSound, DeliveryInv
    <2>5. CASE Spend(2, [noted EXCEPT !.lost = TRUE]) /\ block' = block BY <2>2, <2>3, <2>5, <1>f
    <2> QED  BY <1>7, <2>1, <2>4, <2>5 DEF Suppress
<1>8. ASSUME NEW h \in Handlers, Count(h) PROVE DeliveryInv'
    <2>1. handler[h].pc = "count" /\ UNCHANGED <<due, alerted>> BY <1>8 DEF Count, At
    <2>2. handler[h].event = "soft" BY <2>1, <1>h DEF AboutRight
    <2>3. CASE Spend(2, [noted EXCEPT !.lost = TRUE]) /\ Ends(h) /\ block' = block
        BY <2>1, <2>3, <1>w, <1>f DEF Ends
    <2>4. CASE /\ block' = [block EXCEPT !.strikes = block.strikes + 1] /\ noted' = [noted EXCEPT !.soft = @ + 1]
               /\ IF AtTheLimit(block.strikes + 1) THEN Goes(h, "suppress") ELSE Ends(h)
    BY <1>t, <1>i, <2>4, <2>2, GoesOn, <1>w, <2>1, <1>h, DeliveryAssumption, AlertsStay DEF NotedType,
       StrikesSound, BlockType, AtTheLimit, HandlerType, HandlerPcs, EventTypes, AboutRight, SoftInHand, Ends,
       DeliveryTypeOK, DeliveryInv
    <2> QED  BY <1>8, <2>3, <2>4 DEF Count
<1>9. ASSUME NEW h \in Handlers, Rate(h) PROVE DeliveryInv'
    <2>1. PICK r \in Rates : r = handler[h].event BY <1>9, <1>h DEF Rate, At, AboutRight
    <2>2. handler[h].pc = "rate" /\ UNCHANGED <<due, block, alerted>> BY <1>9 DEF Rate, At
    <2>3. ~SoftInHand(handler[h]) BY <2>2 DEF SoftInHand
    <2>4. CASE alerted[r] # "none" BY <1>9, <2>1, <2>4, <2>2, <2>3, <1>w, <1>m DEF Rate, KeepsQuiet, Ends
    <2>5. CASE alerted[r] = "none"
        <3>1. PICK b \in BOOLEAN : b = (noted.doubled \/ \E x \in Others(h) : handler[x].event = r /\ (At(x, "mail") \/ At(x, "audit")))
            OBVIOUS
        <3>2. noted' = [noted EXCEPT !.doubled = b] /\ Goes(h, "mail")
            BY <1>9, <2>1, <2>5, <3>1, Zenon DEF Rate, KeepsQuiet
        <3>3. PICK x : x = [pc |-> "mail", event |-> r] OBVIOUS
        <3>4. handler' = [handler EXCEPT ![h] = x] BY <3>2, <3>3, <2>1, <1>t, GoesOn
        <3>5. x \in HandlerType /\ AboutRight(x, noted.soft) /\ x.pc = "mail" /\ x.event = r
            BY <3>3 DEF HandlerType, HandlerPcs, AboutRight, Rates, EventTypes
        <3>6. /\ noted' \in NotedType /\ noted'.soft = noted.soft /\ noted'.lost = noted.lost
              /\ noted'.alerts = noted.alerts /\ noted'.doubled = b
            BY <3>2, <1>t DEF NotedType
        <3>7. DeliveryTypeOK' BY <2>2, <3>4, <3>5, <3>6, <1>t DEF DeliveryTypeOK
        <3>8. StrikesSound' BY <2>2, <2>3, <3>4, <3>5, <3>6, <1>t, StrikesStay
        <3>9. ASSUME ~noted'.doubled, NEW q \in Rates PROVE AlertSound(q)'
            <4>1. ~noted.doubled /\ \A y \in Handlers : y # h => ~Telling(handler[y], r)
        BY <3>1, <3>6, <3>9, Zenon DEF Others, At, Telling
            <4>2. AlertSound(q) /\ noted.alerts[q] \in Nat BY <4>1, <1>i, <1>t DEF AlertsSound, NotedType
            <4>3. \A y \in Handlers : handler'[y] = IF y = h THEN x ELSE handler[y] BY <3>4, <1>t
            <4>4. ~Telling(handler[h], q) BY <2>2 DEF Telling
            <4>5. CASE q = r BY <4>1, <4>4, <4>5, <4>2, <2>5, <4>3, <3>6 DEF AlertSound
            <4>6. CASE q # r BY <4>3, <4>4, <4>6, <3>5, <4>2, <3>6, <2>2 DEF Telling, AlertSound
            <4> QED  BY <4>5, <4>6
        <3> QED  BY <3>7, <3>8, <3>9 DEF DeliveryInv, AlertsSound
    <2> QED  BY <2>4, <2>5
<1>10. ASSUME NEW h \in Handlers, MailAlert(h) PROVE DeliveryInv'
    <2>1. PICK r \in Rates : r = handler[h].event BY <1>10, <1>h DEF MailAlert, At, AboutRight
    <2>2. handler[h].pc = "mail" /\ UNCHANGED <<due, block, alerted>> BY <1>10 DEF MailAlert, At
    <2>3. PICK n \in Nat : n = IF noted.alerts[r] < 2 THEN noted.alerts[r] + 1 ELSE noted.alerts[r]
        BY <1>t DEF NotedType
    <2>4. PICK a : a = [noted.alerts EXCEPT ![r] = n] OBVIOUS
    <2>5. a \in [Rates -> Nat] /\ a[r] = n /\ \A q \in Rates : q # r => a[q] = noted.alerts[q]
        BY <2>4, <1>t DEF NotedType
    <2>6. noted' = [noted EXCEPT !.alerts = a] BY <1>10, <2>1, <2>3, <2>4, <1>t DEF MailAlert, NotedType
    <2>7. /\ noted' \in NotedType /\ noted'.soft = noted.soft /\ noted'.lost = noted.lost
          /\ noted'.alerts = a /\ noted'.doubled = noted.doubled
        BY <2>5, <2>6, <1>t DEF NotedType
    <2>8. PICK x : x = [pc |-> "audit", event |-> r] OBVIOUS
    <2>9. handler' = [handler EXCEPT ![h] = x] BY <1>10, <2>1, <2>8, <1>t, GoesOn DEF MailAlert
    <2>10. x \in HandlerType /\ AboutRight(x, noted.soft) /\ x.pc = "audit" /\ x.event = r
        BY <2>8 DEF HandlerType, HandlerPcs, AboutRight, Rates, EventTypes
    <2>11. DeliveryTypeOK' BY <2>2, <2>7, <2>9, <2>10, <1>t DEF DeliveryTypeOK
    <2>12. ~SoftInHand(handler[h]) BY <2>2 DEF SoftInHand
    <2>13. StrikesSound' BY <2>2, <2>7, <2>9, <2>10, <2>12, <1>t, StrikesStay
    <2>14. ASSUME ~noted'.doubled, NEW q \in Rates PROVE AlertSound(q)'
    BY <2>7, <2>14, <1>i, <1>t, <2>9, <2>1, <2>2, <2>10, <2>3, <2>5 DEF AlertsSound, NotedType, Telling,
       AlertSound
    <2> QED  BY <2>11, <2>13, <2>14 DEF DeliveryInv, AlertsSound
<1>11. ASSUME NEW h \in Handlers, Audit(h) PROVE DeliveryInv'
    <2>1. PICK r \in Rates : r = handler[h].event BY <1>11, <1>h DEF Audit, At, AboutRight
    <2>2. handler[h].pc = "audit" /\ UNCHANGED <<due, block>> /\ handler' = [handler EXCEPT ![h] = NoEventHeld]
        BY <1>11 DEF Audit, At, Ends
    <2>3. ~SoftInHand(handler[h]) BY <2>2 DEF SoftInHand
    <2>4. CASE alerted' = [alerted EXCEPT ![r] = "recent"] /\ noted' = noted
        <3>1. DeliveryTypeOK' BY <2>2, <2>4, <1>t, <1>w DEF DeliveryTypeOK
        <3>2. StrikesSound' BY <2>2, <2>3, <2>4, <1>t, <1>w, StrikesStay
        <3>3. ASSUME ~noted.doubled, NEW q \in Rates PROVE AlertSound(q)'
      BY <3>3, <1>i, <1>t, <2>2, <1>w, <2>4, <2>1 DEF AlertsSound, NotedType, Telling, AlertSound
        <3> QED  BY <3>1, <3>2, <3>3, <2>4 DEF DeliveryInv, AlertsSound
    <2>5. CASE Spend(2, [noted EXCEPT !.doubled = TRUE]) /\ alerted' = alerted
        <3>1. PICK t : t = [noted EXCEPT !.doubled = TRUE] OBVIOUS
        <3>2. t \in NotedType /\ t.soft = noted.soft /\ t.lost = noted.lost /\ t.alerts = noted.alerts /\ t.doubled = TRUE
            BY <3>1, <1>t DEF NotedType
        <3>3. Spend(2, t) BY <3>1, <2>5
        <3>4. /\ noted' \in NotedType /\ noted'.soft = noted.soft /\ noted'.lost = noted.lost
              /\ noted'.alerts = noted.alerts /\ noted'.doubled
            BY <3>2, <3>3, SpendLeaves
        <3>5. DeliveryTypeOK' BY <2>2, <2>5, <3>4, <1>t, <1>w DEF DeliveryTypeOK
        <3>6. StrikesSound' BY <2>2, <2>3, <3>4, <1>t, <1>w, StrikesStay
        <3>7. AlertsSound' BY <3>4 DEF AlertsSound
        <3> QED  BY <3>5, <3>6, <3>7 DEF DeliveryInv
    <2> QED  BY <1>11, <2>1, <2>4, <2>5 DEF Audit
<1>12. ASSUME NEW r \in Rates, CooldownPasses(r) PROVE DeliveryInv'
    <2>1. /\ alerted' = [alerted EXCEPT ![r] = "none"] /\ UNCHANGED <<block, due, handler>>
          /\ \A h \in Handlers : handler[h].pc = "idle"
        BY <1>12 DEF CooldownPasses, At
    <2>2. PICK a : a = [noted.alerts EXCEPT ![r] = 0] OBVIOUS
    <2>3. a \in [Rates -> Nat] /\ a[r] = 0 /\ \A q \in Rates : q # r => a[q] = noted.alerts[q]
        BY <2>2, <1>t DEF NotedType
    <2>4. PICK t : t = [noted EXCEPT !.alerts = a] OBVIOUS
    <2>5. t \in NotedType /\ t.soft = noted.soft /\ t.lost = noted.lost /\ t.alerts = a /\ t.doubled = noted.doubled
        BY <2>3, <2>4, <1>t DEF NotedType
    <2>6. Spend(1, t) BY <2>2, <2>4, <1>t, <1>12 DEF NotedType, CooldownPasses
    <2>7. /\ noted' \in NotedType /\ noted'.soft = noted.soft /\ noted'.lost = noted.lost
          /\ noted'.alerts = a /\ noted'.doubled = noted.doubled
        BY <2>5, <2>6, SpendLeaves
    <2>8. DeliveryTypeOK' BY <2>1, <2>7, <1>t DEF DeliveryTypeOK
    <2>9. StrikesSound' BY <2>1, <2>7, <1>i DEF StrikesSound
    <2>10. ASSUME ~noted.doubled, NEW q \in Rates PROVE AlertSound(q)'
    BY <2>10, <1>i, <1>t, <2>1, <2>3, <2>7 DEF AlertsSound, NotedType, Telling, AlertSound
    <2> QED  BY <2>7, <2>8, <2>9, <2>10 DEF DeliveryInv, AlertsSound
<1>13. ASSUME NEW h \in Handlers, HandlerDies(h) PROVE DeliveryInv'
    <2>1. PICK e \in EventTypes : e = handler[h].event BY <1>h DEF HandlerType
    <2>2. UNCHANGED <<block, alerted>> /\ handler' = [handler EXCEPT ![h] = NoEventHeld]
        BY <1>13 DEF HandlerDies, Ends
    <2>3. PICK b \in BOOLEAN : b = (noted.doubled \/ At(h, "audit")) OBVIOUS
    <2>4. PICK t : t = [noted EXCEPT !.doubled = b] OBVIOUS
    <2>5. t \in NotedType /\ t.soft = noted.soft /\ t.lost = noted.lost /\ t.alerts = noted.alerts /\ t.doubled = b
        BY <2>4, <1>t DEF NotedType
    <2>6. Spend(2, t) BY <1>13, <2>3, <2>4, Zenon DEF HandlerDies
    <2>7. /\ noted' \in NotedType /\ noted'.soft = noted.soft /\ noted'.lost = noted.lost
          /\ noted'.alerts = noted.alerts /\ noted'.doubled = b
        BY <2>5, <2>6, SpendLeaves
    <2>8. due' \in [EventTypes -> Nat] /\ (due["soft"] > 0 => due'["soft"] > 0) /\ (SoftInHand(handler[h]) => due'["soft"] > 0)
    BY <1>13, <1>t, <2>1, <1>w DEF HandlerDies, SoftInHand
    <2>9. DeliveryTypeOK' BY <2>2, <2>7, <2>8, <1>t, <1>w DEF DeliveryTypeOK
    <2>10. StrikesSound' BY <2>2, <2>7, <2>8, <1>w, StrikesStay
    <2>11. (noted.doubled => noted'.doubled) /\ (handler[h].pc = "audit" => noted'.doubled)
        BY <2>3, <2>7, Zenon DEF At
    <2>12. AlertsSound' BY <2>2, <2>7, <2>11, <1>w, AlertsStay
    <2> QED  BY <2>9, <2>10, <2>12 DEF DeliveryInv
<1>14. CASE IdStored \/ UNCHANGED deliveryVars BY <1>14, <1>3 DEF IdStored, deliveryVars
<1> QED  BY <1>1, <1>2, <1>4, <1>5, <1>6, <1>7, <1>8, <1>9, <1>10, <1>11, <1>12, <1>13, <1>14 DEF DeliveryNext, EventsHandled

------------------------------------------------------------------------------
(* SalesforceSync: one record for a lead, one note for its reply. *)

\* The rows, the records, the tick and the ghosts.
Marks == {"reconnected", "relogged", "unnoticed", "overtaken", "swallowed"}
CrmType == [acts : Nat, logged : [SfLeads -> Nat], marks : [SfLeads -> SUBSET Marks]]
LocalType == [version : Nat, stale : BOOLEAN, mailing : BOOLEAN]
RemoteType == [copies : {0, 1}, version : Nat, status : Decisions]
IsTick(t) == /\ t = [pc |-> t.pc, todo |-> t.todo, at |-> t.at, old |-> t.old, row |-> t.row]
             /\ t.pc \in {"idle", "push", "replies", "pull"}
             /\ t.at # << >> => t.at[1].lead \in SfLeads
SfTypeOK ==
    /\ local \in [SfLeads -> LocalType] /\ remote \in [SfLeads -> RemoteType]
    /\ answer \in [SfLeads -> {"none", "new", "old"}] /\ IsTick(sfTick) /\ crm \in CrmType
\* No deleted connection and no tick that died have made the reply new again.
Unmarked(k, l) == "reconnected" \notin k.marks[l] /\ "relogged" \notin k.marks[l]
\* The lead l has a reply for the tick to log.
ToLog(t, l) == t.pc = "replies" /\ l \in t.todo
\* A reply that is to be logged was not, and one that was logged is old, or will
\* be when the tick ends; a tick knows the replies that were old when it began.
LogSound(l) ==
    /\ crm.logged[l] > 0 \/ ToLog(sfTick, l) => answer[l] # "none"
    /\ sfTick.pc = "push" /\ answer[l] = "old" => l \in sfTick.old
    /\ Unmarked(crm, l) => /\ crm.logged[l] <= 1
                           /\ ToLog(sfTick, l) => crm.logged[l] = 0
                           /\ crm.logged[l] = 1 => answer[l] = "old" \/ sfTick.pc \in {"replies", "pull"}
SfInv == SfTypeOK /\ \A l \in SfLeads : LogSound(l)

\* The invariant gives the property.
LEMMA RecordsFollow == SfInv => NoSecondRecord
BY DEF SfInv, SfTypeOK, RemoteType, LogSound, Unmarked, NoSecondRecord

\* Nothing is connected at first.
LEMMA SyncStarts == SfInit => SfInv
  BY DEF SfInit, SfIdle, IsTick, SfTypeOK, LocalType, RemoteType, CrmType, Decisions, LogSound, ToLog, SfInv

\* Counting a step changes neither the log nor the marks.
LEMMA ChargeLeaves ==
    ASSUME NEW k \in CrmType, NEW n \in Nat, Charge(n, k)
    PROVE  crm' \in CrmType /\ crm'.logged = k.logged /\ crm'.marks = k.marks
  BY DEF CrmType, Charge

\* A mark more.
LEMMA MarkLeaves ==
    ASSUME NEW k \in CrmType, NEW l \in SfLeads, NEW what \in Marks, NEW m, m = MarkLead(k, l, what)
    PROVE  m \in CrmType /\ m.logged = k.logged /\ \A x \in SfLeads : Unmarked(m, x) => Unmarked(k, x)
  BY DEF CrmType, MarkLead, Unmarked

\* A mark less, of the kind that says a status went unnoticed.
LEMMA NoticeLeaves ==
    ASSUME crm \in CrmType, NEW l \in SfLeads, NEW s, NEW m, m = Noticeable(l, s)
    PROVE  m \in CrmType /\ m.logged = crm.logged /\ \A x \in SfLeads : Unmarked(m, x) => Unmarked(crm, x)
<1>1. CASE synced[l].last = s BY <1>1, MarkLeaves DEF Noticeable, Marks
<1>2. CASE synced[l].last # s BY <1>2 DEF CrmType, Noticeable, Unmarked
<1> QED  BY <1>1, <1>2

\* All replies that were logged are marked.
LEMMA AgainLeaves ==
    ASSUME crm \in CrmType, NEW what \in {"reconnected", "relogged"}, NEW m, m = Again(what)
    PROVE  /\ m \in CrmType /\ m.logged = crm.logged
           /\ \A x \in SfLeads : Unmarked(m, x) => Unmarked(crm, x) /\ ~(crm.logged[x] > 0)
  BY DEF Again, CrmType, Marks, Unmarked

\* The log after a step that logs nothing, answers nothing and moves no tick.
LEMMA LogStays ==
    ASSUME NEW l \in SfLeads, LogSound(l), crm'.logged = crm.logged, Unmarked(crm', l) => Unmarked(crm, l),
           answer'[l] = answer[l], sfTick'.pc = sfTick.pc, sfTick'.old = sfTick.old,
           sfTick.pc = "replies" => sfTick'.todo \subseteq sfTick.todo
    PROVE  LogSound(l)'
BY DEF LogSound, ToLog

\* Every step of the owner, the leads, the reps and the tick keeps the invariant.
LEMMA SyncStep == SfInv /\ [SfNext]_sfVars => SfInv'
<1> SUFFICES ASSUME SfInv, [SfNext]_sfVars PROVE SfInv' OBVIOUS
<1>t. /\ local \in [SfLeads -> LocalType] /\ remote \in [SfLeads -> RemoteType]
      /\ answer \in [SfLeads -> {"none", "new", "old"}] /\ crm \in CrmType
    BY DEF SfInv, SfTypeOK
<1>k. IsTick(sfTick) BY DEF SfInv, SfTypeOK
<1>l. \A l \in SfLeads : LogSound(l) /\ crm.logged[l] \in Nat BY <1>t DEF SfInv, CrmType
\* A step that leaves the tick and the answers alone.
<1>s. ASSUME UNCHANGED answer, sfTick'.pc = sfTick.pc, sfTick'.todo = sfTick.todo, sfTick'.old = sfTick.old, IsTick(sfTick'),
             crm' \in CrmType, crm'.logged = crm.logged, \A x \in SfLeads : Unmarked(crm', x) => Unmarked(crm, x),
             local' \in [SfLeads -> LocalType], remote' \in [SfLeads -> RemoteType]
      PROVE  SfInv'
  BY <1>s, <1>t, <1>l, LogStays DEF SfTypeOK, SfInv
<1>1. ASSUME Connect PROVE SfInv'
    <2>1. UNCHANGED <<local, synced, remote, sfTick>> BY <1>1 DEF Connect
    <2>2. CASE link = "none"
        <3>1. answer' = Renewed /\ Charge(1, Again("reconnected")) BY <1>1, <2>2 DEF Connect
        <3>2. PICK m : m = Again("reconnected") OBVIOUS
        <3>3. /\ m \in CrmType /\ m.logged = crm.logged
              /\ \A x \in SfLeads : Unmarked(m, x) => Unmarked(crm, x) /\ ~(crm.logged[x] > 0)
            BY <3>2, <1>t, AgainLeaves
        <3>4. crm' \in CrmType /\ crm'.logged = crm.logged /\ crm'.marks = m.marks
            BY <3>1, <3>2, <3>3, ChargeLeaves
        <3>5. answer' \in [SfLeads -> {"none", "new", "old"}] /\ \A x \in SfLeads : answer'[x] # "old" /\ (answer'[x] = "none" <=> answer[x] = "none")
            BY <3>1, <1>t DEF Renewed
        <3>6. SfTypeOK' BY <2>1, <3>4, <3>5, <1>t, <1>k DEF SfTypeOK
        <3>7. ASSUME NEW l \in SfLeads PROVE LogSound(l)' BY <3>3, <3>4, <1>l, <2>1, <3>5 DEF Unmarked, LogSound
        <3> QED  BY <3>6, <3>7 DEF SfInv
    <2>3. CASE link # "none" BY <1>1, <2>3, <2>1, <1>t, <1>k, <1>s, ChargeLeaves DEF Connect, Unmarked
    <2> QED  BY <2>2, <2>3
<1>2. ASSUME SwitchOff PROVE SfInv' BY <1>2, <1>t, <1>k, <1>s, ChargeLeaves DEF SwitchOff, Unmarked
<1>3. ASSUME Disconnect PROVE SfInv'
  BY <1>3, Zenon, <1>k, <1>t, <1>s, ChargeLeaves DEF Disconnect, IsTick, Unmarked
<1>4. ASSUME NEW l \in SfLeads, EditLead(l) PROVE SfInv'
    <2>1. local' = [local EXCEPT ![l].version = @ + 1, ![l].stale = TRUE] /\ UNCHANGED <<remote, answer, sfTick>> /\ Charge(1, crm)
        BY <1>4 DEF EditLead
    <2>2. PICK n \in Nat : n = local[l].version BY <1>t DEF LocalType
    <2>3. PICK f : f = [local EXCEPT ![l].version = n + 1] OBVIOUS
    <2>4. f \in [SfLeads -> LocalType] BY <2>3, <1>t DEF LocalType
    <2>5. local' = [f EXCEPT ![l].stale = TRUE] BY <2>1, <2>2, <2>3
    <2>6. local' \in [SfLeads -> LocalType] BY <2>4, <2>5 DEF LocalType
    <2> QED  BY <2>1, <2>6, <1>t, <1>k, <1>s, ChargeLeaves DEF Unmarked
<1>5. ASSUME NEW l \in SfLeads, StartMailing(l) PROVE SfInv'
    <2>1. local' = [local EXCEPT ![l].mailing = TRUE] /\ UNCHANGED <<remote, answer, sfTick>> /\ Charge(1, Noticeable(l, remote[l].status))
        BY <1>5 DEF StartMailing
    <2>2. local' \in [SfLeads -> LocalType] BY <2>1, <1>t DEF LocalType
    <2>3. PICK m : m = Noticeable(l, remote[l].status) OBVIOUS
    <2>4. m \in CrmType /\ m.logged = crm.logged /\ \A x \in SfLeads : Unmarked(m, x) => Unmarked(crm, x)
        BY <2>3, <1>t, NoticeLeaves
    <2>5. crm' \in CrmType /\ crm'.logged = crm.logged /\ crm'.marks = m.marks BY <2>1, <2>3, <2>4, ChargeLeaves
    <2> QED  BY <2>1, <2>2, <2>4, <2>5, <1>t, <1>k, <1>s DEF Unmarked
<1>6. ASSUME NEW l \in SfLeads, Reply(l) PROVE SfInv'
    <2>1. answer[l] = "none" /\ Charge(1, crm) /\ answer' = [answer EXCEPT ![l] = "new"] /\ UNCHANGED <<local, remote, sfTick>>
        BY <1>6 DEF Reply
    <2>2. crm' \in CrmType /\ crm'.logged = crm.logged /\ crm'.marks = crm.marks BY <2>1, <1>t, ChargeLeaves
    <2>3. SfTypeOK' BY <2>1, <2>2, <1>t, <1>k DEF SfTypeOK
    <2>4. ASSUME NEW x \in SfLeads PROVE LogSound(x)' BY <2>1, <1>l, <1>t, <2>2, LogStays DEF LogSound, Unmarked
    <2> QED  BY <2>3, <2>4 DEF SfInv
<1>7. ASSUME NEW l \in SfLeads, NEW s \in Decisions, RepDecides(l, s) PROVE SfInv'
  BY <1>7, <1>t, NoticeLeaves, ChargeLeaves, <1>k, <1>s DEF RepDecides, RemoteType, Unmarked
<1>8. ASSUME NEW l \in SfLeads, RepAdds(l) PROVE SfInv'
  BY <1>8, <1>t, <1>k, <1>s, ChargeLeaves DEF RepAdds, RemoteType, Unmarked
<1>9. ASSUME StartSync PROVE SfInv'
  BY <1>9, <1>t, <1>l DEF StartSync, SfIdle, IsTick, SfTypeOK, LogSound, ToLog, Unmarked, SfInv
<1>10. ASSUME NEW l \in SfLeads, PushLead(l) PROVE SfInv'
    <2>1. UNCHANGED <<local, answer>> /\ sfTick.pc = "push" BY <1>10 DEF PushLead
    <2>2. PICK d : d = sfTick.todo \ {l} OBVIOUS
    <2>3. PICK q : q = <<[lead |-> l, version |-> local[l].version]>> OBVIOUS
    <2>4. PICK t : /\ t = [sfTick EXCEPT !.todo = d]
                   /\ \/ remote' = Sent(l) /\ sfTick' = [t EXCEPT !.at = q] /\ UNCHANGED crm
                      \/ remote' \in {remote, Sent(l)} /\ sfTick' = t /\ Charge(2, crm)
        BY <1>10, <2>2, <2>3 DEF PushLead
    <2>5. t = [pc |-> sfTick.pc, todo |-> d, at |-> sfTick.at, old |-> sfTick.old, row |-> sfTick.row]
        BY <2>4, <1>k DEF IsTick
    <2>6. \/ sfTick' = t
          \/ sfTick' = [pc |-> sfTick.pc, todo |-> d, at |-> q, old |-> sfTick.old, row |-> sfTick.row]
        BY <2>4, <2>5
    <2>7. q[1].lead = l /\ q # << >> BY <2>3
    <2>8. IsTick(sfTick') /\ sfTick'.pc = "push" /\ sfTick'.old = sfTick.old
        BY <2>1, <2>5, <2>6, <2>7, <1>k DEF IsTick
    <2>9. Sent(l) \in [SfLeads -> RemoteType]
        <3>1. PICK v \in Nat : v = local[l].version BY <1>t DEF LocalType
        <3>2. CASE MustCreate(l)
            <4>1. remote[l].copies = 0 BY <3>2 DEF MustCreate
            <4>2. PICK y : y = [copies |-> 1, version |-> v, status |-> remote[l].status] OBVIOUS
            <4>3. y \in RemoteType BY <4>2, <1>t DEF RemoteType
            <4>4. Sent(l) = [remote EXCEPT ![l] = y]
                <5>1. PICK u : u = [copies |-> 1, version |-> remote[l].version, status |-> remote[l].status]
                    OBVIOUS
                <5>2. u = [remote[l] EXCEPT !.copies = 1] /\ y = [u EXCEPT !.version = v]
                    BY <5>1, <4>2, <1>t DEF RemoteType
                <5>3. Sent(l) = [[remote EXCEPT ![l] = u] EXCEPT ![l].version = v]
                    BY <3>1, <3>2, <4>1, <5>2 DEF Sent
                <5>4. Sent(l) = [[remote EXCEPT ![l] = u] EXCEPT ![l] = y] BY <5>2, <5>3, <1>t
                <5> QED  BY <5>4, <1>t
            <4> QED  BY <4>3, <4>4, <1>t
        <3>3. CASE ~MustCreate(l) BY <1>t, <3>1, <3>3 DEF RemoteType, Sent
        <3> QED  BY <3>2, <3>3
    <2>10. remote' \in [SfLeads -> RemoteType] BY <2>4, <2>9, <1>t
    <2>11. crm' \in CrmType /\ crm'.logged = crm.logged /\ crm'.marks = crm.marks BY <2>4, <1>t, ChargeLeaves
    <2>12. SfTypeOK' BY <2>1, <2>8, <2>10, <2>11, <1>t DEF SfTypeOK
    <2>13. \A x \in SfLeads : LogSound(x)' BY <2>1, <2>8, <2>11, <1>l, LogStays DEF Unmarked
    <2> QED  BY <2>12, <2>13 DEF SfInv
<1>11. ASSUME RecordPush PROVE SfInv'
    <2>1. PICK l : l = sfTick.at[1].lead OBVIOUS
    <2>2. sfTick.pc = "push" /\ sfTick.at # << >> /\ sfTick' = [sfTick EXCEPT !.at = << >>] /\ UNCHANGED <<remote, answer>>
        BY <1>11 DEF RecordPush
    <2>3. l \in SfLeads BY <2>1, <2>2, <1>k DEF IsTick
    <2>4. sfTick' = [pc |-> sfTick.pc, todo |-> sfTick.todo, at |-> << >>, old |-> sfTick.old, row |-> sfTick.row]
        BY <2>2, <1>k DEF IsTick
    <2>5. IsTick(sfTick') /\ sfTick'.pc = sfTick.pc /\ sfTick'.todo = sfTick.todo /\ sfTick'.old = sfTick.old
        BY <2>4, <1>k DEF IsTick
    <2>6. local' \in [SfLeads -> LocalType]
        <3>1. local' = [local EXCEPT ![l].stale = FALSE] \/ local' = local BY <1>11, <2>1 DEF RecordPush
        <3> QED  BY <3>1, <2>3, <1>t DEF LocalType
    <2>7. crm' \in CrmType /\ crm'.logged = crm.logged /\ \A x \in SfLeads : Unmarked(crm', x) => Unmarked(crm, x)
        <3>1. crm' = MarkLead(crm, l, "overtaken") \/ crm' = crm \/ Charge(2, crm) BY <1>11, <2>1 DEF RecordPush
        <3>2. "overtaken" \in Marks BY DEF Marks
        <3>3. CASE crm' = MarkLead(crm, l, "overtaken") BY <3>3, <3>2, <2>3, <1>t, MarkLeaves
        <3>4. CASE crm' = crm \/ Charge(2, crm) BY <3>4, <1>t, ChargeLeaves DEF Unmarked
        <3> QED  BY <3>1, <3>3, <3>4
    <2> QED  BY <2>2, <2>5, <2>6, <2>7, <1>t, <1>s
<1>12. ASSUME StartReplies PROVE SfInv'
    <2>1. PICK d : d = {l \in SfLeads \ sfTick.old : answer[l] # "none" /\ synced[l].there} OBVIOUS
    <2>2. sfTick.pc = "push" /\ sfTick.at = << >> /\ sfTick' = [sfTick EXCEPT !.pc = "replies", !.todo = d] /\ UNCHANGED <<local, remote, answer, crm>>
        BY <1>12, <2>1 DEF StartReplies
    <2>3. sfTick' = [pc |-> "replies", todo |-> d, at |-> << >>, old |-> sfTick.old, row |-> sfTick.row]
        BY <2>2, <1>k DEF IsTick
    <2>4. IsTick(sfTick') /\ sfTick'.pc = "replies" /\ sfTick'.todo = d BY <2>3 DEF IsTick
    <2>5. SfTypeOK' BY <2>2, <2>4, <1>t DEF SfTypeOK
    <2>6. ASSUME NEW l \in SfLeads PROVE LogSound(l)' BY <2>1, <2>2, <1>l, <2>4 DEF LogSound, ToLog, Unmarked
    <2> QED  BY <2>5, <2>6 DEF SfInv
<1>13. ASSUME NEW l \in SfLeads, LogReply(l) PROVE SfInv'
    <2>1. PICK d : d = sfTick.todo \ {l} OBVIOUS
    <2>2. sfTick.pc = "replies" /\ l \in sfTick.todo /\ sfTick' = [sfTick EXCEPT !.todo = d] /\ UNCHANGED <<local, remote, answer>>
        BY <1>13, <2>1 DEF LogReply
    <2>3. sfTick' = [pc |-> "replies", todo |-> d, at |-> sfTick.at, old |-> sfTick.old, row |-> sfTick.row]
        BY <2>2, <1>k DEF IsTick
    <2>4. IsTick(sfTick') /\ sfTick'.pc = "replies" /\ sfTick'.todo = d /\ sfTick'.old = sfTick.old
        BY <2>3, <1>k DEF IsTick
    <2>5. CASE crm' = [crm EXCEPT !.logged[l] = IF @ < 2 THEN @ + 1 ELSE @]
        <3>1. PICK n \in Nat : n = IF crm.logged[l] < 2 THEN crm.logged[l] + 1 ELSE crm.logged[l] BY <1>l
        <3>2. PICK f : f = [crm.logged EXCEPT ![l] = n] OBVIOUS
        <3>3. f \in [SfLeads -> Nat] /\ f[l] = n /\ \A x \in SfLeads : x # l => f[x] = crm.logged[x]
            BY <3>2, <1>t DEF CrmType
        <3>4. crm' = [crm EXCEPT !.logged = f] BY <2>5, <3>1, <3>2, <1>t DEF CrmType
        <3>5. crm' \in CrmType /\ crm'.logged = f /\ crm'.marks = crm.marks BY <3>3, <3>4, <1>t DEF CrmType
        <3>6. SfTypeOK' BY <2>2, <2>4, <3>5, <1>t DEF SfTypeOK
        <3>7. ASSUME NEW x \in SfLeads PROVE LogSound(x)'
      BY <2>1, <2>2, <2>4, <3>1, <1>l, <3>3, <3>5 DEF LogSound, ToLog, Unmarked
        <3> QED  BY <3>6, <3>7 DEF SfInv
    <2>6. CASE Charge(2, crm)
    BY <2>6, <1>t, ChargeLeaves, <2>2, <2>4, <2>1, <1>l, LogStays DEF SfTypeOK, Unmarked, SfInv
    <2> QED  BY <1>13, <2>5, <2>6 DEF LogReply
<1>14. ASSUME StartPull PROVE SfInv'
  BY <1>14, <1>k, <1>t, <1>l DEF StartPull, IsTick, SfTypeOK, LogSound, ToLog, Unmarked, SfInv
<1>15. ASSUME NEW l \in SfLeads, NEW s \in Decisions, Pull(l, s) PROVE SfInv'
    <2>1. PICK d : d = sfTick.todo \ {<<l, s>>} OBVIOUS
    <2>2. sfTick.pc = "pull" /\ sfTick' = [sfTick EXCEPT !.todo = d] /\ UNCHANGED <<remote, answer>>
        BY <1>15, <2>1 DEF Pull
    <2>3. sfTick' = [pc |-> "pull", todo |-> d, at |-> sfTick.at, old |-> sfTick.old, row |-> sfTick.row]
        BY <2>2, <1>k DEF IsTick
    <2>4. IsTick(sfTick') /\ sfTick'.pc = "pull" /\ sfTick'.old = sfTick.old BY <2>3, <1>k DEF IsTick
    <2>5. local' \in [SfLeads -> LocalType]
        <3>1. local' = [local EXCEPT ![l].mailing = FALSE, ![l].stale = TRUE] \/ local' = local
            BY <1>15 DEF Pull
        <3>2. PICK g \in LocalType : g = local[l] BY <1>t
        <3>3. PICK f : f = [g EXCEPT !.mailing = FALSE] OBVIOUS
        <3>4. f = [version |-> g.version, stale |-> g.stale, mailing |-> FALSE] /\ f \in LocalType
            BY <3>2, <3>3 DEF LocalType
        <3>5. PICK h : h = [f EXCEPT !.stale = TRUE] OBVIOUS
        <3>6. h \in LocalType BY <3>4, <3>5 DEF LocalType
        <3>7. [local EXCEPT ![l].mailing = FALSE] = [local EXCEPT ![l] = f] BY <3>2, <3>3
        <3>8. [local EXCEPT ![l].mailing = FALSE, ![l].stale = TRUE] = [local EXCEPT ![l] = h]
            BY <3>5, <3>7, <1>t
        <3>9. [local EXCEPT ![l] = h] \in [SfLeads -> LocalType] BY <3>6, <1>t
        <3> QED  BY <3>1, <3>8, <3>9, <1>t
    <2>6. crm' \in CrmType /\ crm'.logged = crm.logged /\ \A x \in SfLeads : Unmarked(crm', x) => Unmarked(crm, x)
        <3>1. crm' = crm \/ Charge(2, MarkLead(crm, l, "swallowed")) BY <1>15 DEF Pull
        <3>2. PICK m : m = MarkLead(crm, l, "swallowed") OBVIOUS
        <3>3. m \in CrmType /\ m.logged = crm.logged /\ \A x \in SfLeads : Unmarked(m, x) => Unmarked(crm, x)
      BY <3>2, <1>t, MarkLeaves DEF Marks
        <3>4. CASE crm' = crm BY <3>4, <1>t
        <3>5. CASE Charge(2, m) BY <3>3, <3>5, ChargeLeaves DEF Unmarked
        <3> QED  BY <3>1, <3>2, <3>4, <3>5
    <2>7. SfTypeOK' BY <2>2, <2>4, <2>5, <2>6, <1>t DEF SfTypeOK
    <2>8. \A x \in SfLeads : LogSound(x)' BY <2>2, <2>4, <2>6, <1>l, LogStays
    <2> QED  BY <2>7, <2>8 DEF SfInv
<1>16. ASSUME EndSync \/ SyncDies PROVE SfInv'
    <2>1. sfTick' = SfIdle /\ UNCHANGED <<local, remote>> BY <1>16 DEF EndSync, SyncDies
    <2>2. IsTick(sfTick') /\ sfTick'.pc = "idle" BY <2>1 DEF SfIdle, IsTick
    <2>3. CASE EndSync /\ sfTick.row
        <3>1. crm' = crm /\ answer' = [l \in SfLeads |-> IF answer[l] = "none" THEN "none" ELSE "old"]
            BY <2>3 DEF EndSync
        <3>2. SfTypeOK' BY <2>1, <2>2, <3>1, <1>t DEF SfTypeOK
        <3>3. ASSUME NEW l \in SfLeads PROVE LogSound(l)' BY <3>1, <2>2, <1>l DEF LogSound, ToLog, Unmarked
        <3> QED  BY <3>2, <3>3 DEF SfInv
    <2>4. CASE SyncDies \/ ~sfTick.row
        <3>1. PICK what \in {"reconnected", "relogged"} : answer' = answer /\ (crm' = Again(what) \/ Charge(2, Again(what)))
            BY <1>16, <2>4 DEF EndSync, SyncDies
        <3>2. PICK m : m = Again(what) OBVIOUS
        <3>3. /\ m \in CrmType /\ m.logged = crm.logged
              /\ \A x \in SfLeads : Unmarked(m, x) => Unmarked(crm, x) /\ ~(crm.logged[x] > 0)
            BY <3>2, <1>t, AgainLeaves
        <3>4. crm' \in CrmType /\ crm'.logged = crm.logged /\ crm'.marks = m.marks
            BY <3>1, <3>2, <3>3, ChargeLeaves
        <3>5. SfTypeOK' BY <2>1, <2>2, <3>1, <3>4, <1>t DEF SfTypeOK
        <3>6. ASSUME NEW l \in SfLeads PROVE LogSound(l)'
      BY <3>3, <3>4, <1>l, <3>1, <2>2 DEF Unmarked, LogSound, ToLog
        <3> QED  BY <3>5, <3>6 DEF SfInv
    <2> QED  BY <1>16, <2>3, <2>4
<1>17. CASE UNCHANGED sfVars BY <1>17, <1>t, <1>k, <1>s DEF sfVars, Unmarked
<1> QED  BY <1>1, <1>2, <1>3, <1>4, <1>5, <1>6, <1>7, <1>8, <1>9, <1>10, <1>11, <1>12, <1>13, <1>14, <1>15, <1>16, <1>17 DEF SfNext, SyncWorks

------------------------------------------------------------------------------
(* Automations: a step is mailed once a round. *)

\* The enrollments, the rows in the hands of a cycle, and the ghosts.
EnrollmentType == [status : {"none", "active", "unsubscribed", "completed"}, step : 0 .. LastStep, due : BOOLEAN]
RowType == [email : Enrollees, step : 0 .. LastStep]
CycleType == [pc : {"idle", "run", "send", "sent", "failed"}, batch : SUBSET RowType, at : {<< >>} \cup {<<r>> : r \in RowType}]
AutoMarks == {"retriggered", "overlap", "unrecorded"}
DripType == [acts : Nat, marks : [Enrollees -> SUBSET AutoMarks], mails : [Enrollees -> [0 .. LastStep -> Nat]]]
\* A cycle has a row at hand while it mails and records it.
CycleOK(x) == (x.pc \in {"send", "sent", "failed"} <=> x.at # << >>) /\ (x.pc = "idle" => x.batch = {})
AutoTypeOK ==
    /\ enrollment \in [Enrollees -> EnrollmentType] /\ cycle \in [Cycles -> CycleType]
    /\ \A c \in Cycles : CycleOK(cycle[c])
    /\ drip \in DripType
\* The cycle x has a row of e, in its batch or at hand; has mailed the one at hand.
InBatch(x, e) == \E r \in x.batch : r.email = e
AtHand(x, e) == x.at # << >> /\ x.at[1].email = e
HoldsRow(x, e) == InBatch(x, e) \/ AtHand(x, e)
Mailed(x, e) == x.pc = "sent" /\ AtHand(x, e)
\* What it has is one row, of the step the enrollment is at.
HandSound(x, e, st) ==
    /\ \A r \in x.batch : r.email = e => r.step = st
    /\ AtHand(x, e) => x.at[1].step = st
    /\ ~(InBatch(x, e) /\ AtHand(x, e))
\* A round that nothing has disturbed: one cycle has the row, no later step was
\* mailed, and the step the enrollment is at was mailed only if that is about to
\* be recorded or the enrollment has ended.
RoundSound(e) ==
    /\ \A s \in 0 .. LastStep : drip.mails[e][s] <= 1 /\ (s > enrollment[e].step => drip.mails[e][s] = 0)
    /\ \A c \in Cycles : HandSound(cycle[c], e, enrollment[e].step)
    /\ \A c, d \in Cycles : HoldsRow(cycle[c], e) /\ HoldsRow(cycle[d], e) => c = d
    /\ drip.mails[e][enrollment[e].step] > 0 =>
         \/ \E c \in Cycles : Mailed(cycle[c], e)
         \/ enrollment[e].status # "active" /\ \A c \in Cycles : ~HoldsRow(cycle[c], e)
AutoInv == AutoTypeOK /\ \A e \in Enrollees : drip.marks[e] = {} => RoundSound(e)

\* The invariant gives the property.
LEMMA StepsFollow == AutoInv => AutoStepOnce
BY DEF AutoInv, RoundSound, AutoStepOnce

\* Nobody is enrolled at first.
LEMMA AutomationsStart == AutoInit => AutoInv
<1> SUFFICES ASSUME AutoInit PROVE AutoInv OBVIOUS
<1>1. 0 \in 0 .. LastStep BY AutomationAssumption
<1>2. Unenrolled \in EnrollmentType /\ Waiting \in CycleType /\ CycleOK(Waiting)
    BY <1>1 DEF Unenrolled, EnrollmentType, Waiting, CycleType, CycleOK
<1>3. AutoTypeOK BY <1>2 DEF AutoInit, AutoTypeOK, DripType
<1>4. \A e \in Enrollees, c \in Cycles : ~HoldsRow(cycle[c], e)
    BY DEF AutoInit, Waiting, HoldsRow, InBatch, AtHand
<1>5. ASSUME NEW e \in Enrollees PROVE RoundSound(e)
  BY <1>1, <1>4 DEF AutoInit, Waiting, HandSound, InBatch, AtHand, Unenrolled, RoundSound
<1> QED  BY <1>3, <1>5 DEF AutoInv

\* Counting a step changes neither the marks nor the mails.
LEMMA CostLeaves ==
    ASSUME NEW d \in DripType, NEW n \in Nat, Costs(n, d)
    PROVE  drip' \in DripType /\ drip'.marks = d.marks /\ drip'.mails = d.mails
  BY DEF DripType, Costs

\* A mark on the enrollments of S.
LEMMA MarLeaves ==
    ASSUME NEW d \in DripType, NEW S, NEW what \in AutoMarks, NEW m, m = Mar(d, S, what)
    PROVE  /\ m \in DripType /\ m.mails = d.mails
           /\ \A e \in Enrollees : m.marks[e] = {} => d.marks[e] = {} /\ e \notin S
  BY DEF Mar, DripType

\* A round after a step of one cycle that takes no row and forgets no mail.
LEMMA RoundStays ==
    ASSUME NEW e \in Enrollees, AutoTypeOK, RoundSound(e), NEW c \in Cycles, NEW x, cycle' = [cycle EXCEPT ![c] = x],
           HandSound(x, e, enrollment[e].step), HoldsRow(x, e) => HoldsRow(cycle[c], e),
           Mailed(cycle[c], e) => Mailed(x, e),
           enrollment'[e].step = enrollment[e].step,
           enrollment'[e].status # "active" \/ enrollment'[e].status = enrollment[e].status,
           drip'.mails[e] = drip.mails[e]
    PROVE  RoundSound(e)'
  BY DEF AutoTypeOK, RoundSound

\* Every step of the owner, the enrolled and the cycles keeps the invariant.
LEMMA AutoStep == AutoInv /\ [AutoNext]_autoVars => AutoInv'
<1> SUFFICES ASSUME AutoInv, [AutoNext]_autoVars PROVE AutoInv' OBVIOUS
<1>t. /\ AutoTypeOK /\ enrollment \in [Enrollees -> EnrollmentType] /\ cycle \in [Cycles -> CycleType] /\ drip \in DripType
      /\ \A c \in Cycles : CycleOK(cycle[c])
    BY DEF AutoInv, AutoTypeOK
<1>n. LastStep \in Nat /\ 0 \in 0 .. LastStep BY AutomationAssumption
<1>w. /\ Waiting = [pc |-> "idle", batch |-> {}, at |-> << >>] /\ Waiting \in CycleType /\ CycleOK(Waiting)
      /\ \A e \in Enrollees : \A s : HandSound(Waiting, e, s) /\ ~HoldsRow(Waiting, e)
    BY DEF Waiting, CycleType, CycleOK, HandSound, HoldsRow, InBatch, AtHand
<1>r. \A e \in Enrollees : drip.marks[e] = {} => RoundSound(e) BY DEF AutoInv
\* A step that leaves the rows, the cycles, the marks and the mails alone.
<1>s. ASSUME UNCHANGED cycle, drip' \in DripType, drip'.marks = drip.marks, drip'.mails = drip.mails,
             enrollment' \in [Enrollees -> EnrollmentType],
             \A e \in Enrollees : /\ enrollment'[e].step = enrollment[e].step
                                  /\ enrollment'[e].status # "active" \/ enrollment'[e].status = enrollment[e].status
      PROVE  AutoInv'
    <2>1. AutoTypeOK' BY <1>s, <1>t DEF AutoTypeOK
    <2>2. ASSUME NEW e \in Enrollees, drip'.marks[e] = {} PROVE RoundSound(e)'
        BY <1>s, <1>r, <2>2 DEF RoundSound
    <2> QED  BY <2>1, <2>2 DEF AutoInv
<1>1. ASSUME UNCHANGED <<enrollment, cycle>>, UNCHANGED drip \/ Costs(1, drip) PROVE AutoInv'
  BY <1>1, <1>t, CostLeaves, <1>s
<1>2. ASSUME NEW e \in Enrollees, AutoTrigger(e) PROVE AutoInv'
    <2>1. PICK z : z = [s \in 0 .. LastStep |-> 0] OBVIOUS
    <2>2. PICK m : m = [drip.mails EXCEPT ![e] = z] OBVIOUS
    <2>3. PICK k : k = [drip.marks EXCEPT ![e] = {}] OBVIOUS
    <2>4. m \in [Enrollees -> [0 .. LastStep -> Nat]] /\ k \in [Enrollees -> SUBSET AutoMarks]
        BY <2>1, <2>2, <2>3, <1>t DEF DripType
    <2>5. PICK clean : clean = [drip EXCEPT !.mails = m, !.marks = k] OBVIOUS
    <2>6. clean \in DripType /\ clean.mails = m /\ clean.marks = k BY <2>4, <2>5, <1>t DEF DripType
    <2>7. clean = [drip EXCEPT !.mails[e] = [s \in 0 .. LastStep |-> 0], !.marks[e] = {}]
        BY <2>1, <2>2, <2>3, <2>5, <1>t DEF DripType
    <2>8. PICK row : row = [status |-> "active", step |-> 0, due |-> FALSE] OBVIOUS
    <2>9. enrollment' = [enrollment EXCEPT ![e] = row] /\ UNCHANGED cycle
          /\ Costs(1, IF \E c \in Cycles : e \in Loaded(c) THEN Mar(clean, {e}, "retriggered") ELSE clean)
        BY <1>2, <2>7, <2>8 DEF AutoTrigger
    <2>10. row \in EnrollmentType BY <2>8, <1>n DEF EnrollmentType
    <2>11. enrollment' \in [Enrollees -> EnrollmentType] /\ \A x \in Enrollees : x # e => enrollment'[x] = enrollment[x]
        BY <2>9, <2>10, <1>t
    <2>12. PICK d \in DripType : Costs(1, d) /\ d.mails = m /\ \A x \in Enrollees : d.marks[x] = {} =>
                 (IF x = e THEN \A c \in Cycles : e \notin Loaded(c) ELSE drip.marks[x] = {})
        <3>1. \A x \in Enrollees : k[x] = IF x = e THEN {} ELSE drip.marks[x] BY <2>3, <1>t DEF DripType
        <3>2. CASE \E c \in Cycles : e \in Loaded(c)
            <4>1. PICK d : d = Mar(clean, {e}, "retriggered") OBVIOUS
            <4>2. "retriggered" \in AutoMarks BY DEF AutoMarks
            <4>3. d \in DripType /\ d.mails = m /\ \A x \in Enrollees : d.marks[x] = {} => k[x] = {} /\ x # e
                BY <2>6, <4>1, <4>2, MarLeaves
            <4> QED  BY <2>9, <3>1, <3>2, <4>1, <4>3
        <3>3. CASE ~\E c \in Cycles : e \in Loaded(c) BY <2>6, <2>9, <3>1, <3>3
        <3> QED  BY <3>2, <3>3
    <2>13. drip' \in DripType /\ drip'.marks = d.marks /\ drip'.mails = m BY <2>12, CostLeaves
    <2>14. AutoTypeOK' BY <2>9, <2>11, <2>13, <1>t DEF AutoTypeOK
    <2>15. ASSUME NEW x \in Enrollees, drip'.marks[x] = {} PROVE RoundSound(x)'
        <3>1. CASE x = e
            <4>1. \A c \in Cycles : ~HoldsRow(cycle[c], e)
        BY <2>12, <2>13, <2>15, <3>1 DEF Loaded, HoldsRow, InBatch, AtHand
            <4>2. \A c \in Cycles : HandSound(cycle[c], e, 0) BY <4>1 DEF HandSound, HoldsRow, InBatch
            <4>3. enrollment'[e].step = 0 /\ \A s \in 0 .. LastStep : drip'.mails[e][s] = 0
                BY <2>1, <2>2, <2>8, <2>9, <2>13, <1>t DEF DripType
            <4> QED  BY <3>1, <4>1, <4>2, <4>3, <2>9, <1>n DEF RoundSound
        <3>2. CASE x # e BY <2>2, <2>12, <2>13, <2>15, <3>2, <1>r, <1>t, <2>9, <2>11 DEF DripType, RoundSound
        <3> QED  BY <3>1, <3>2
    <2> QED  BY <2>14, <2>15 DEF AutoInv
<1>3. ASSUME NEW e \in Enrollees, Unenroll(e) PROVE AutoInv'
  BY <1>3, <1>t, <1>s, CostLeaves DEF Unenroll, EnrollmentType
<1>4. ASSUME NEW e \in Enrollees, DelayPasses(e) PROVE AutoInv'
  BY <1>4, <1>t, <1>s DEF DelayPasses, EnrollmentType
<1>5. ASSUME NEW c \in Cycles, StartCycle(c) PROVE AutoInv'
    <2>1. PICK L : L = Loads OBVIOUS
    <2>2. L \subseteq RowType /\ \A r \in L : enrollment[r.email].status = "active" /\ r.step = enrollment[r.email].step
        BY <2>1, <1>t DEF Loads, DueRow, RowType, EnrollmentType
    <2>3. PICK both : both = {r.email : r \in L} \cap UNION {Loaded(d) : d \in Cycles \ {c}} OBVIOUS
    <2>4. PICK x : x = [pc |-> "run", batch |-> L, at |-> << >>] OBVIOUS
    <2>5. /\ cycle[c].pc = "idle" /\ cycle' = [cycle EXCEPT ![c] = x] /\ UNCHANGED enrollment
          /\ IF \A d \in Cycles : cycle[d].pc = "idle" THEN UNCHANGED drip ELSE Costs(1, Mar(drip, both, "overlap"))
        BY <1>5, <2>1, <2>3, <2>4 DEF StartCycle
    <2>6. x \in CycleType /\ CycleOK(x) BY <2>2, <2>4 DEF CycleType, CycleOK
    <2>7. \A d \in Cycles : cycle[d].pc = "idle" => \A e \in Enrollees : ~HoldsRow(cycle[d], e)
        BY <1>t DEF CycleOK, HoldsRow, InBatch, AtHand
    <2>8. /\ drip' \in DripType /\ drip'.mails = drip.mails
          /\ \A e \in Enrollees : drip'.marks[e] = {} => drip.marks[e] = {} /\
               (HoldsRow(x, e) => \A d \in Cycles \ {c} : ~HoldsRow(cycle[d], e))
        <3>1. CASE \A d \in Cycles : cycle[d].pc = "idle" BY <2>5, <2>7, <3>1, <1>t
        <3>2. CASE ~\A d \in Cycles : cycle[d].pc = "idle"
            <4>1. PICK m : m = Mar(drip, both, "overlap") OBVIOUS
            <4>2. "overlap" \in AutoMarks BY DEF AutoMarks
            <4>3. m \in DripType /\ m.mails = drip.mails /\ \A e \in Enrollees : m.marks[e] = {} => drip.marks[e] = {} /\ e \notin both
                BY <4>1, <4>2, <1>t, MarLeaves
            <4>4. drip' \in DripType /\ drip'.marks = m.marks /\ drip'.mails = m.mails
                BY <2>5, <3>2, <4>1, <4>3, CostLeaves
            <4>5. ASSUME NEW e \in Enrollees, HoldsRow(x, e), NEW d \in Cycles \ {c}, HoldsRow(cycle[d], e) PROVE e \in both
        BY <4>5, <2>4, <2>3 DEF HoldsRow, InBatch, AtHand, Loaded
            <4> QED  BY <4>3, <4>4, <4>5
        <3> QED  BY <3>1, <3>2
    <2>9. AutoTypeOK' BY <2>5, <2>6, <2>8, <1>t DEF AutoTypeOK
    <2>10. ASSUME NEW e \in Enrollees, drip'.marks[e] = {} PROVE RoundSound(e)'
    BY <2>8, <2>10, <1>r, <2>2, <2>4, <2>5, <2>7, <1>t, RoundStays DEF HandSound, AtHand, Mailed, HoldsRow,
       InBatch, RoundSound
    <2> QED  BY <2>9, <2>10 DEF AutoInv
<1>6. ASSUME NEW c \in Cycles, NEW r \in cycle[c].batch, TakeRow(c, r) PROVE AutoInv'
    <2>1. PICK b : b = cycle[c].batch \ {r} OBVIOUS
    <2>2. cycle[c].pc = "run" /\ cycle[c].at = << >> /\ r \in RowType /\ b \subseteq RowType /\ drip' = drip
        BY <1>6, <2>1, <1>t DEF TakeRow, CycleOK, CycleType
    <2>3. PICK rest : rest = [pc |-> "run", batch |-> b, at |-> << >>] OBVIOUS
    <2>4. rest = [cycle[c] EXCEPT !.batch = b] BY <2>2, <2>3, <1>t DEF CycleType
    <2>5. \A e \in Enrollees : ~Mailed(cycle[c], e) BY <2>2 DEF Mailed
    <2>6. CASE r.email \in optedOut
        <3>1. PICK x : x = IF b = {} THEN Waiting ELSE rest OBVIOUS
        <3>2. enrollment' = [enrollment EXCEPT ![r.email].status = "unsubscribed"] /\ cycle' = [cycle EXCEPT ![c] = x]
            BY <1>6, <2>1, <2>3, <2>4, <2>6, <3>1 DEF TakeRow
        <3>3. x \in CycleType /\ CycleOK(x) /\ x.batch = b /\ x.at = << >>
            BY <3>1, <2>2, <2>3, <1>w DEF CycleType, CycleOK
        <3>4. /\ enrollment' \in [Enrollees -> EnrollmentType]
              /\ \A e \in Enrollees : /\ enrollment'[e].step = enrollment[e].step
                                      /\ enrollment'[e].status # "active" \/ enrollment'[e].status = enrollment[e].status
            BY <3>2, <1>t DEF EnrollmentType
        <3>5. AutoTypeOK' BY <3>2, <3>3, <3>4, <2>2, <1>t DEF AutoTypeOK
        <3>6. ASSUME NEW e \in Enrollees, drip.marks[e] = {} PROVE RoundSound(e)'
      BY <3>6, <1>r, <3>3, <2>1, <3>2, <3>4, <2>2, <2>5, <1>t, RoundStays DEF RoundSound, HandSound, InBatch,
         AtHand, HoldsRow
        <3> QED  BY <3>5, <3>6, <2>2 DEF AutoInv
    <2>7. CASE r.email \notin optedOut
        <3>1. PICK x : x = [pc |-> "send", batch |-> b, at |-> <<r>>] OBVIOUS
        <3>2. enrollment' = enrollment /\ cycle' = [cycle EXCEPT ![c] = x]
            <4>1. x = [rest EXCEPT !.pc = "send", !.at = <<r>>]
                <5>1. PICK h : h = <<r>> OBVIOUS
                <5>2. x = [pc |-> "send", batch |-> b, at |-> h] BY <3>1, <5>1
                <5>3. x = [rest EXCEPT !.pc = "send", !.at = h]
                    <6>1. PICK z : rest = [pc |-> "run", batch |-> b, at |-> z] BY <2>3
                    <6>3. PICK w : w = [rest EXCEPT !.pc = "send", !.at = h] OBVIOUS
                    <6>4. w = [pc |-> "send", batch |-> b, at |-> h] BY <6>1, <6>3
                    <6> QED  BY <6>3, <6>4, <5>2
                <5> QED  BY <5>1, <5>3
            <4> QED  BY <1>6, <2>1, <2>4, <2>7, <4>1 DEF TakeRow
        <3>3. x \in CycleType /\ CycleOK(x) /\ x.batch = b /\ x.at # << >> /\ x.at[1] = r
            BY <3>1, <2>2 DEF CycleType, CycleOK
        <3>4. AutoTypeOK' BY <3>2, <3>3, <2>2, <1>t DEF AutoTypeOK
        <3>5. ASSUME NEW e \in Enrollees, drip.marks[e] = {} PROVE RoundSound(e)'
            <4>1. RoundSound(e) /\ HandSound(cycle[c], e, enrollment[e].step) BY <3>5, <1>r DEF RoundSound
            <4>2. AtHand(x, e) <=> r.email = e BY <3>3 DEF AtHand
            <4>3. \A q \in cycle[c].batch : q.email = e => q.step = enrollment[e].step BY <4>1 DEF HandSound
            <4>4. r.email = e => \A q \in b : q.email # e
                <5> SUFFICES ASSUME r.email = e, NEW q \in b, q.email = e PROVE FALSE OBVIOUS
                <5>1. q \in RowType /\ q \in cycle[c].batch /\ q # r BY <2>1, <2>2
                <5>2. q.step = r.step /\ q.email = r.email BY <4>3, <5>1
                <5> QED  BY <5>1, <5>2, <2>2 DEF RowType
            <4>5. HandSound(x, e, enrollment[e].step) BY <4>2, <4>3, <4>4, <3>3, <2>1 DEF HandSound, InBatch
            <4>6. HoldsRow(x, e) => HoldsRow(cycle[c], e) BY <4>2, <3>3, <2>1 DEF HoldsRow, InBatch
            <4> QED  BY <4>1, <4>5, <4>6, <3>2, <2>2, <2>5, <1>t, RoundStays
        <3> QED  BY <3>4, <3>5, <2>2 DEF AutoInv
    <2> QED  BY <2>6, <2>7
\* The cycle is at a row, which is the only one there is of its enrollment.
<1>a. ASSUME NEW c \in Cycles, cycle[c].pc \in {"send", "sent", "failed"}
      PROVE  /\ cycle[c].at # << >> /\ cycle[c].at[1] \in RowType
             /\ \A e \in Enrollees : AtHand(cycle[c], e) <=> cycle[c].at[1].email = e
             /\ drip.marks[cycle[c].at[1].email] = {} =>
                  /\ cycle[c].at[1].step = enrollment[cycle[c].at[1].email].step
                  /\ ~InBatch(cycle[c], cycle[c].at[1].email)
                  /\ \A d \in Cycles : HoldsRow(cycle[d], cycle[c].at[1].email) => d = c
    <2>1. cycle[c].at # << >> /\ cycle[c].at[1] \in RowType BY <1>a, <1>t DEF CycleOK, CycleType
    <2>2. \A e \in Enrollees : AtHand(cycle[c], e) <=> cycle[c].at[1].email = e BY <2>1 DEF AtHand
    <2>3. PICK e \in Enrollees : e = cycle[c].at[1].email BY <2>1 DEF RowType
    <2>4. AtHand(cycle[c], e) BY <2>2, <2>3
    <2>5. ASSUME drip.marks[e] = {}
          PROVE  /\ cycle[c].at[1].step = enrollment[e].step /\ ~InBatch(cycle[c], e)
                 /\ \A d \in Cycles : HoldsRow(cycle[d], e) => d = c
    BY <2>5, <1>r, <2>4 DEF RoundSound, HandSound, HoldsRow
    <2> QED  BY <2>1, <2>2, <2>3, <2>5
<1>7. ASSUME NEW c \in Cycles, SendStep(c) PROVE AutoInv'
    <2>1. cycle[c].pc = "send" /\ enrollment' = enrollment BY <1>7 DEF SendStep
    <2>2. PICK r \in RowType : r = cycle[c].at[1] BY <2>1, <1>a
    <2>3. PICK pc \in {"sent", "failed"} :
             /\ cycle' = [cycle EXCEPT ![c].pc = pc]
             /\ \/ pc = "sent" /\ drip' = [drip EXCEPT !.mails[r.email][r.step] = IF @ < 2 THEN @ + 1 ELSE @]
                \/ pc = "failed" /\ Costs(2, drip)
        BY <1>7, <2>2 DEF SendStep
    <2>4. PICK x : x = [cycle[c] EXCEPT !.pc = pc] OBVIOUS
    <2>5. cycle' = [cycle EXCEPT ![c] = x] BY <2>3, <2>4
    <2>6. x \in CycleType /\ x.pc = pc /\ x.batch = cycle[c].batch /\ x.at = cycle[c].at
        BY <2>3, <2>4, <1>t DEF CycleType
    <2>7. CycleOK(x) BY <2>1, <2>3, <2>6, <1>t DEF CycleOK
    <2>8. \A e \in Enrollees : /\ HoldsRow(x, e) <=> HoldsRow(cycle[c], e)
                               /\ \A s : HandSound(x, e, s) <=> HandSound(cycle[c], e, s)
                               /\ ~Mailed(cycle[c], e)
        BY <2>1, <2>6 DEF HoldsRow, HandSound, InBatch, AtHand, Mailed
    <2>9. CASE pc = "failed"
        <3>1. drip' \in DripType /\ drip'.marks = drip.marks /\ drip'.mails = drip.mails
            BY <2>3, <2>9, <1>t, CostLeaves
        <3>2. AutoTypeOK' BY <2>1, <2>5, <2>6, <2>7, <3>1, <1>t DEF AutoTypeOK
        <3>3. ASSUME NEW e \in Enrollees, drip'.marks[e] = {} PROVE RoundSound(e)'
      BY <3>1, <3>3, <1>r, <2>8, <2>1, <2>5, <1>t, RoundStays DEF RoundSound
        <3> QED  BY <3>2, <3>3 DEF AutoInv
    <2>10. CASE pc = "sent"
        <3>0. r.email \in Enrollees /\ r.step \in 0 .. LastStep /\ drip.mails \in [Enrollees -> [0 .. LastStep -> Nat]]
            BY <2>2, <1>t DEF RowType, DripType
        <3>1. PICK n \in Nat : n = IF drip.mails[r.email][r.step] < 2 THEN drip.mails[r.email][r.step] + 1 ELSE drip.mails[r.email][r.step]
            <4>1. PICK k \in Nat : k = drip.mails[r.email][r.step] BY <3>0
            <4> QED  BY <4>1
        <3>2. PICK g : g = [drip.mails[r.email] EXCEPT ![r.step] = n] OBVIOUS
        <3>3. PICK m : m = [drip.mails EXCEPT ![r.email] = g] OBVIOUS
        <3>4. r.email \in Enrollees /\ r.step \in 0 .. LastStep /\ drip.mails \in [Enrollees -> [0 .. LastStep -> Nat]]
            BY <3>0
        <3>5. g \in [0 .. LastStep -> Nat] /\ g[r.step] = n /\ \A s \in 0 .. LastStep : s # r.step => g[s] = drip.mails[r.email][s]
            BY <3>2, <3>4
        <3>6. /\ m \in [Enrollees -> [0 .. LastStep -> Nat]] /\ m[r.email] = g
              /\ \A e \in Enrollees : e # r.email => m[e] = drip.mails[e]
            BY <3>3, <3>4, <3>5
        <3>7. drip' = [drip EXCEPT !.mails = m] BY <2>3, <2>10, <3>1, <3>2, <3>3
        <3>8. drip' \in DripType /\ drip'.mails = m /\ drip'.marks = drip.marks BY <3>6, <3>7, <1>t DEF DripType
        <3>9. AutoTypeOK' BY <2>1, <2>5, <2>6, <2>7, <3>8, <1>t DEF AutoTypeOK
        <3>10. ASSUME NEW e \in Enrollees, drip'.marks[e] = {} PROVE RoundSound(e)'
            <4>1. RoundSound(e) BY <3>8, <3>10, <1>r
            <4>2. HandSound(x, e, enrollment[e].step) BY <4>1, <2>8 DEF RoundSound
            <4>3. CASE e # r.email BY <4>1, <4>2, <4>3, <3>6, <3>8, <2>1, <2>5, <2>8, <1>t, RoundStays
            <4>4. CASE e = r.email
                <5>1. /\ AtHand(cycle[c], e) /\ r.step = enrollment[e].step
                      /\ \A d \in Cycles : HoldsRow(cycle[d], e) => d = c
                    BY <4>4, <3>8, <3>10, <2>1, <2>2, <1>a
                <5>2. \A y \in Cycles : cycle'[y] = IF y = c THEN x ELSE cycle[y] BY <2>5, <1>t
                <5>3. drip.mails[e][r.step] = 0
                    <6>1. \A y \in Cycles : ~Mailed(cycle[y], e) BY <5>1, <2>8 DEF Mailed, HoldsRow
                    <6>2. HoldsRow(cycle[c], e) BY <5>1 DEF HoldsRow
                    <6>3. ~(drip.mails[e][enrollment[e].step] > 0) BY <6>1, <6>2, <4>1 DEF RoundSound
                    <6>4. drip.mails[e][r.step] \in Nat BY <3>4
                    <6> QED  BY <6>3, <6>4, <5>1
                <5>4. n = 1 BY <5>3, <3>1, <4>4
                <5>5. Mailed(cycle'[c], e) BY <5>1, <5>2, <2>6, <2>10 DEF Mailed, AtHand
                <5>6. \A s \in 0 .. LastStep : drip'.mails[e][s] <= 1 /\ (s > enrollment[e].step => drip'.mails[e][s] = 0)
                    <6>1. \A s \in 0 .. LastStep : drip.mails[e][s] <= 1 /\ (s > enrollment[e].step => drip.mails[e][s] = 0)
                        BY <4>1 DEF RoundSound
                    <6>2. drip'.mails[e] = g BY <3>6, <3>8, <4>4
                    <6> QED  BY <6>1, <6>2, <5>1, <5>4, <3>4, <3>5, <4>4
                <5>7. \A y \in Cycles : HandSound(cycle'[y], e, enrollment[e].step)
                    BY <4>1, <4>2, <5>2 DEF RoundSound
                <5>8. \A y, z \in Cycles : HoldsRow(cycle'[y], e) /\ HoldsRow(cycle'[z], e) => y = z
                    BY <5>1, <5>2
                <5> QED  BY <5>5, <5>6, <5>7, <5>8, <2>1 DEF RoundSound
            <4> QED  BY <4>3, <4>4
        <3> QED  BY <3>9, <3>10 DEF AutoInv
    <2> QED  BY <2>9, <2>10
<1>8. ASSUME NEW c \in Cycles, EndRow(c) PROVE AutoInv'
    <2>1. cycle[c].pc \in {"sent", "failed"} BY <1>8 DEF EndRow
    <2>2. PICK r \in RowType : r = cycle[c].at[1] BY <2>1, <1>a
    <2>3. PICK x : x = Rests(c) OBVIOUS
    <2>4. cycle' = [cycle EXCEPT ![c] = x] BY <1>8, <2>3 DEF EndRow
    <2>5. x \in CycleType /\ CycleOK(x) /\ x.batch = cycle[c].batch /\ x.at = << >>
    BY <2>3, <1>w, <1>t DEF Rests, CycleType, CycleOK
    <2>6. r.email \in Enrollees /\ r.step \in 0 .. LastStep /\ enrollment[r.email] \in EnrollmentType
        BY <2>2, <1>t DEF RowType
    <2>7. PICK row \in EnrollmentType :
             /\ enrollment' = [enrollment EXCEPT ![r.email] = row]
             /\ row.status = enrollment[r.email].status \/ row.status = "completed"
             /\ \/ /\ row.step = enrollment[r.email].step /\ row.status = enrollment[r.email].status
                   /\ cycle[c].pc = "failed" /\ drip' = drip
                \/ Costs(2, Mar(drip, {r.email}, "unrecorded"))
                \/ /\ cycle[c].pc = "sent" /\ drip' = drip
                   /\ \/ r.step < LastStep /\ row.step = r.step + 1
                      \/ r.step = LastStep /\ row.step = enrollment[r.email].step /\ row.status = "completed"
        <3>1. PICK q \in EnrollmentType : q = Postponed(enrollment[r.email]) /\ q.step = enrollment[r.email].step /\ q.status = enrollment[r.email].status
            <4>1. PICK q : q = [enrollment[r.email] EXCEPT !.due = FALSE] OBVIOUS
            <4>2. q \in EnrollmentType /\ q.step = enrollment[r.email].step /\ q.status = enrollment[r.email].status
                BY <4>1, <2>6 DEF EnrollmentType
            <4> QED  BY <4>1, <4>2 DEF Postponed
        <3>2. CASE cycle[c].pc = "sent" /\ enrollment' = [enrollment EXCEPT ![r.email] = Advance(enrollment[r.email], r.step)] /\ drip' = drip
            <4>1. CASE r.step < LastStep
                <5>1. PICK y : y = [enrollment[r.email] EXCEPT !.step = r.step + 1, !.due = FALSE] OBVIOUS
                <5>2. r.step + 1 \in 0 .. LastStep BY <4>1, <2>6, <1>n
                <5>3. y \in EnrollmentType /\ y.step = r.step + 1 /\ y.status = enrollment[r.email].status
                    BY <5>1, <5>2, <2>6 DEF EnrollmentType
                <5>4. y = Advance(enrollment[r.email], r.step) BY <4>1, <5>1 DEF Advance, MovedOn
                <5> QED  BY <3>2, <4>1, <5>3, <5>4
            <4>2. CASE ~(r.step < LastStep)
                <5>1. PICK y : y = [enrollment[r.email] EXCEPT !.status = "completed"] OBVIOUS
                <5>2. y \in EnrollmentType /\ y.step = enrollment[r.email].step /\ y.status = "completed"
                    BY <5>1, <2>6 DEF EnrollmentType
                <5>3. y = Advance(enrollment[r.email], r.step) BY <4>2, <5>1 DEF Advance, MovedOn
                <5>4. r.step = LastStep BY <4>2, <2>6, <1>n
                <5> QED  BY <3>2, <5>2, <5>3, <5>4
            <4> QED  BY <4>1, <4>2
        <3>3. CASE enrollment' = [enrollment EXCEPT ![r.email] = q] /\ (Costs(2, Mar(drip, {r.email}, "unrecorded")) \/ (cycle[c].pc = "failed" /\ drip' = drip))
            BY <3>1, <3>3
        <3> QED  BY <1>8, <2>2, <3>1, <3>2, <3>3 DEF EndRow
    <2>8. enrollment' \in [Enrollees -> EnrollmentType] /\ \A e \in Enrollees : enrollment'[e] = IF e = r.email THEN row ELSE enrollment[e]
        BY <2>7, <2>6, <1>t
    <2>9. /\ drip' \in DripType /\ drip'.mails = drip.mails
          /\ \A e \in Enrollees : drip'.marks[e] = {} => drip.marks[e] = {} /\ (e = r.email => drip' = drip)
    BY <1>t, MarLeaves, CostLeaves, <2>7 DEF AutoMarks
    <2>10. AutoTypeOK' BY <2>4, <2>5, <2>8, <2>9, <1>t DEF AutoTypeOK
    <2>11. ASSUME NEW e \in Enrollees, drip'.marks[e] = {} PROVE RoundSound(e)'
        <3>1. RoundSound(e) /\ HandSound(cycle[c], e, enrollment[e].step) BY <2>9, <2>11, <1>r DEF RoundSound
        <3>2. HoldsRow(x, e) <=> InBatch(cycle[c], e) BY <2>5 DEF HoldsRow, InBatch, AtHand
        <3>3. HoldsRow(x, e) => HoldsRow(cycle[c], e) BY <3>2 DEF HoldsRow
        <3>4. HandSound(x, e, enrollment[e].step) BY <3>1, <2>5 DEF HandSound, AtHand
        <3>5. CASE e # r.email
      BY <3>5, <2>1, <2>2, <3>1, <3>3, <3>4, <2>4, <2>8, <2>9, <1>t, RoundStays DEF Mailed, AtHand
        <3>6. CASE e = r.email
            <4>1. /\ AtHand(cycle[c], e) /\ r.step = enrollment[e].step /\ ~InBatch(cycle[c], e)
                  /\ \A d \in Cycles : HoldsRow(cycle[d], e) => d = c
                BY <3>6, <2>1, <2>2, <2>9, <2>11, <1>a
            <4>2. \A y \in Cycles : cycle'[y] = IF y = c THEN x ELSE cycle[y] BY <2>4, <1>t
            <4>3. \A y \in Cycles : ~HoldsRow(cycle'[y], e) BY <4>1, <4>2, <3>2
            <4>4. \A y \in Cycles : HandSound(cycle'[y], e, enrollment'[e].step)
                BY <4>3 DEF HandSound, HoldsRow, InBatch
            <4>5. enrollment'[e] = row /\ drip' = drip BY <3>6, <2>8, <2>9, <2>11
            <4>6. \A s \in 0 .. LastStep : drip.mails[e][s] <= 1 /\ (s > enrollment[e].step => drip.mails[e][s] = 0)
                BY <3>1 DEF RoundSound
            <4>7. CASE cycle[c].pc = "failed" /\ row.step = enrollment[e].step /\ row.status = enrollment[e].status
        BY <4>1, <4>7, <3>1, <4>3, <4>4, <4>5, <4>6 DEF Mailed, HoldsRow, RoundSound
            <4>8. CASE r.step < LastStep /\ row.step = r.step + 1
        BY <4>1, <4>8, <2>6, <1>n, <4>6, <4>3, <4>4, <4>5 DEF RoundSound
            <4>9. CASE row.step = enrollment[e].step /\ row.status = "completed"
                BY <4>3, <4>4, <4>5, <4>6, <4>9 DEF RoundSound
            <4>10. ~Costs(2, Mar(drip, {r.email}, "unrecorded"))
                <5> SUFFICES ASSUME Costs(2, Mar(drip, {r.email}, "unrecorded")) PROVE FALSE OBVIOUS
                <5>1. PICK m : m = Mar(drip, {r.email}, "unrecorded") OBVIOUS
                <5>2. "unrecorded" \in AutoMarks BY DEF AutoMarks
                <5>3. m \in DripType /\ m.marks[e] # {}
                    <6>1. m \in DripType /\ \A y \in Enrollees : m.marks[y] = {} => drip.marks[y] = {} /\ y \notin {r.email}
                        BY <5>1, <5>2, <1>t, MarLeaves
                    <6> QED  BY <6>1, <3>6
                <5> QED  BY <5>1, <5>3, <2>11, CostLeaves
            <4> QED  BY <2>7, <3>6, <4>7, <4>8, <4>9, <4>10
        <3> QED  BY <3>5, <3>6
    <2> QED  BY <2>10, <2>11 DEF AutoInv
<1>9. ASSUME NEW c \in Cycles, CycleDies(c) PROVE AutoInv'
    <2>1. cycle' = [cycle EXCEPT ![c] = Waiting] /\ enrollment' = enrollment BY <1>9 DEF CycleDies
    <2>2. /\ drip' \in DripType /\ drip'.mails = drip.mails
          /\ \A e \in Enrollees : drip'.marks[e] = {} => drip.marks[e] = {} /\ ~Mailed(cycle[c], e)
    BY <1>t, MarLeaves, <1>9, CostLeaves DEF AutoMarks, CycleDies, Mailed, AtHand
    <2>3. AutoTypeOK' BY <2>1, <2>2, <1>t, <1>w DEF AutoTypeOK
    <2>4. ASSUME NEW e \in Enrollees, drip'.marks[e] = {} PROVE RoundSound(e)'
    BY <2>2, <2>4, <1>r, <2>1, <1>t, <1>w, RoundStays
    <2> QED  BY <2>3, <2>4 DEF AutoInv
<1>10. CASE UNCHANGED autoVars BY <1>10, <1>1 DEF autoVars
<1>11. CASE CreateAutomation \/ DeleteAutomation \/ \E s \in {"active", "paused"} : PatchAutomation(s)
    BY <1>11, <1>1 DEF CreateAutomation, DeleteAutomation, PatchAutomation
<1>12. ASSUME NEW e \in Enrollees, OptOut(e) PROVE AutoInv' BY <1>12, <1>1 DEF OptOut
<1> QED  BY <1>2, <1>3, <1>4, <1>5, <1>6, <1>7, <1>8, <1>9, <1>10, <1>11, <1>12 DEF AutoNext, CycleWorks

------------------------------------------------------------------------------
(* The specification that is checked: one of the parts moves, the others wait. *)

UpkeepInv == AutoInv /\ SfInv /\ BillingInv /\ DeliveryInv

\* Each part starts in its invariant.
LEMMA UpkeepStarts == MCInit => UpkeepInv
BY AutomationsStart, SyncStarts, BillingStarts, EventsStart DEF MCInit, UpkeepInv

\* A step of one part is a stutter of the others.
LEMMA UpkeepStep == UpkeepInv /\ [MCNext]_all => UpkeepInv'
  BY AutoStep, SyncStep, BillingStep, EventsStep DEF MCNext, Auto_, Domain_, Sf_, Bil_, Ev_, Lim_, Use_, all,
     UpkeepInv

\* The inductive invariant of the four parts holds always.
LEMMA UpkeepAlways == MCSpec => []UpkeepInv
BY UpkeepStarts, UpkeepStep, PTL DEF MCSpec

\* The callback of the payment service applies an event at most once, whatever
\* is delivered again, fails or dies, unless its insert threw or its update
\* took effect and reported an error (routes/billing/index.ts).
THEOREM AlwaysGrantedOnce == MCSpec => []GrantedOnce
  BY GrantsFollow, UpkeepAlways, PTL DEF UpkeepInv

\* What the background work does once: a drip mail of a step, a lead's record and
\* its reply's note, the alert of a rate, the block at the third soft bounce
\* (automationWorker.ts, salesforceSyncWorker.ts, bounceHandling.ts).
THEOREM NeverTwiceAlways == MCSpec => []NeverTwice
  BY StepsFollow, RecordsFollow, EventsFollow, UpkeepAlways, PTL DEF UpkeepInv, NeverTwice

------------------------------------------------------------------------------
(* The limiter, for any number of calls and any maxConcurrent.  IInv       *)
(* counts the slots by the calls that hold one; what makes it inductive is *)
(* that the queue holds only waiting calls, each once, so that the call    *)
(* next() grants a slot to did not hold one already.                       *)

\* The state next() starts from: the pushed or released call is accounted for
\* and a slots are taken.
Ready(q, a, k) ==
    /\ q \in Seq(Calls) /\ a \in Nat /\ a <= maxConcurrent
    /\ k \in [Calls -> {"new", "queued", "granted", "running", "done"}]
    /\ \A i \in DOMAIN q : k[q[i]] = "queued"
    /\ \A i, j \in DOMAIN q : q[i] = q[j] => i = j
    /\ a = Cardinality({c \in Calls : k[c] \in {"granted", "running"}})

\* The calls that hold a slot, in one set.
LEMMA HoldingSet == ASSUME TypeOK
                    PROVE Holding = {c \in Calls : call[c] \in {"granted", "running"}}
  BY DEF Holding, InState

\* next() grants at most one slot, and leaves nobody waiting while one is free,
\* provided only one slot can be free.
LEMMA GrantOK ==
    ASSUME NEW q, NEW a, NEW k, Ready(q, a, k), Grant(q, a, k),
           Len(q) <= 1 \/ a + 1 >= maxConcurrent
    PROVE  IInv'
<1> DEFINE H(f) == {c \in Calls : f[c] \in {"granted", "running"}}
<1>0. maxConcurrent \in Nat \ {0} /\ IsFiniteSet(Calls) BY LimiterAssumption
<1>1. CASE HasRoom(a) /\ q # <<>>
  <2> DEFINE h == Head(q)
  <2>1. /\ queue' = Tail(q) /\ active' = a + 1 /\ call' = [k EXCEPT ![h] = "granted"] BY <1>1 DEF Grant
  <2>2. /\ q \in Seq(Calls) /\ Len(q) \in Nat /\ Len(q) >= 1 /\ h = q[1] /\ h \in Calls /\ 1 \in DOMAIN q
    BY <1>1 DEF Ready
  <2>3. k[h] = "queued" BY <2>2 DEF Ready
  <2>4. /\ Tail(q) \in Seq(Calls) /\ Len(Tail(q)) = Len(q) - 1
        /\ \A i \in 1 .. Len(Tail(q)) : Tail(q)[i] = q[i + 1] /\ i + 1 \in DOMAIN q
    BY <2>2, <1>1
  <2>5. TypeOK' BY <2>1, <2>2, <2>4 DEF Ready, TypeOK
  <2>6. QueueOK'
    <3>1. ASSUME NEW i \in DOMAIN Tail(q) PROVE call'[Tail(q)[i]] = "queued" BY <2>4, <2>2, <2>1 DEF Ready
    <3>2. ASSUME NEW i \in DOMAIN Tail(q), NEW j \in DOMAIN Tail(q), Tail(q)[i] = Tail(q)[j] PROVE i = j
      BY <2>4, <2>2, <3>2 DEF Ready
    <3>3. QED BY <3>1, <3>2, <2>1 DEF QueueOK
  <2>7. SlotsMatch'
    <3>1. H(call') = H(k) \cup {h} /\ h \notin H(k) BY <2>1, <2>2, <2>3 DEF Ready
    <3>2. IsFiniteSet(H(k)) BY <1>0, FS_Subset
    <3>3. Cardinality(H(call')) = Cardinality(H(k)) + 1 BY <3>1, <3>2, FS_AddElement
    <3>4. Holding' = H(call') BY <2>5 DEF Holding, InState
    <3>5. QED BY <3>3, <3>4, <2>1 DEF Ready, SlotsMatch
  <2>8. active' <= maxConcurrent BY <2>1, <1>1, <1>0 DEF HasRoom, Ready
  <2>9. WorkConserving' BY <2>1, <2>4, <2>2 DEF WorkConserving
  <2>10. QED BY <2>5, <2>6, <2>7, <2>8, <2>9 DEF IInv
<1>2. CASE ~(HasRoom(a) /\ q # <<>>)
  <2>1. queue' = q /\ active' = a /\ call' = k BY <1>2 DEF Grant
  <2>2. TypeOK' /\ QueueOK' /\ active' <= maxConcurrent BY <2>1 DEF Ready, TypeOK, QueueOK
  <2>3. Holding' = H(k) BY <2>1, <2>2 DEF Holding, InState
  <2>4. SlotsMatch' BY <2>1, <2>3 DEF SlotsMatch, Ready
  <2>5. WorkConserving' BY <2>1, <1>2, <1>0 DEF WorkConserving, HasRoom, Ready
  <2>6. QED BY <2>2, <2>4, <2>5 DEF IInv
<1>3. QED BY <1>1, <1>2

\* limit(fn) finds the limiter in order, and queues a call that holds no slot.
LEMMA LimitStep == ASSUME IInv, NEW c \in Calls, Limit(c) PROVE IInv'
<1> DEFINE q == Append(queue, c)
           k == [call EXCEPT ![c] = "queued"]
<1>1. maxConcurrent \in Nat \ {0} /\ active \in Nat /\ queue \in Seq(Calls) /\ Len(queue) \in Nat
  BY LimiterAssumption DEF IInv, TypeOK
<1>2. /\ q \in Seq(Calls) /\ Len(q) = Len(queue) + 1 /\ q[Len(q)] = c
      /\ \A i \in 1 .. Len(queue) : q[i] = queue[i]
  BY <1>1
<1>3. k \in [Calls -> {"new", "queued", "granted", "running", "done"}] /\ k[c] = "queued" BY DEF IInv, TypeOK
<1>4. \A i \in DOMAIN queue : queue[i] # c /\ queue[i] \in Calls /\ k[queue[i]] = "queued"
  BY DEF IInv, TypeOK, QueueOK, Limit
<1>5. \A i \in DOMAIN q : k[q[i]] = "queued"
  <2> TAKE i \in DOMAIN q
  <2>1. CASE i = Len(q) BY <2>1, <1>2, <1>3
  <2>2. CASE i # Len(q) BY <2>2, <1>1, <1>2, <1>4
  <2>3. QED BY <2>1, <2>2
<1>6. \A i, j \in DOMAIN q : q[i] = q[j] => i = j
  <2> SUFFICES ASSUME NEW i \in DOMAIN q, NEW j \in DOMAIN q, q[i] = q[j] PROVE i = j OBVIOUS
  <2>1. CASE i \in 1 .. Len(queue) /\ j \in 1 .. Len(queue) BY <2>1, <1>2, <1>1 DEF IInv, QueueOK
  <2>2. CASE i = Len(q) \/ j = Len(q) BY <2>2, <1>1, <1>2, <1>4
  <2>3. QED BY <2>1, <2>2, <1>1, <1>2
<1>7. active = Cardinality({d \in Calls : k[d] \in {"granted", "running"}})
  BY DEF Holding, InState, Limit, IInv, TypeOK, SlotsMatch
<1>8. Ready(q, active, k) BY <1>1, <1>2, <1>3, <1>5, <1>6, <1>7 DEF Ready, IInv
<1>9. Len(q) <= 1 \/ active + 1 >= maxConcurrent BY <1>1, <1>2 DEF IInv, WorkConserving
<1>10. QED BY <1>8, <1>9, GrantOK DEF Limit

\* The microtask changes nothing but which way the slot is held.
LEMMA BeginStep == ASSUME IInv, NEW c \in Calls, Begin(c) PROVE IInv'
<1>1. call' = [call EXCEPT ![c] = "running"] /\ UNCHANGED <<queue, active>> /\ call[c] = "granted" BY DEF Begin
<1>2. TypeOK' BY <1>1 DEF IInv, TypeOK
<1>3. QueueOK' BY <1>1 DEF IInv, TypeOK, QueueOK
<1>4. Holding' = Holding BY <1>1 DEF IInv, TypeOK, Holding, InState
<1>5. QED BY <1>1, <1>2, <1>3, <1>4 DEF IInv, SlotsMatch, WorkConserving

\* A settled call gives its slot back before next() looks for a taker.
LEMMA EndStep == ASSUME IInv, NEW c \in Calls, End(c) PROVE IInv'
<1> DEFINE k == [call EXCEPT ![c] = "done"]
           H == {d \in Calls : k[d] \in {"granted", "running"}}
<1>1. maxConcurrent \in Nat \ {0} /\ active \in Nat /\ queue \in Seq(Calls) /\ Len(queue) \in Nat
      /\ active <= maxConcurrent
  BY LimiterAssumption DEF IInv, TypeOK
<1>2. call[c] = "running" /\ c \in Holding BY DEF End, Holding, InState
<1>3. IsFiniteSet(Holding) BY LimiterAssumption, FS_Subset DEF Holding, InState
<1>4. H = Holding \ {c} BY DEF IInv, TypeOK, Holding, InState
<1>5. Cardinality(H) = active - 1 /\ Cardinality(H) \in Nat
  BY <1>2, <1>3, <1>4, FS_RemoveElement, FS_CardinalityType, FS_Subset DEF IInv, SlotsMatch
<1>6. k \in [Calls -> {"new", "queued", "granted", "running", "done"}] BY DEF IInv, TypeOK
<1>7. \A i \in DOMAIN queue : k[queue[i]] = "queued" BY <1>2 DEF IInv, TypeOK, QueueOK
<1>8. Ready(queue, active - 1, k) BY <1>1, <1>5, <1>6, <1>7 DEF Ready, IInv, QueueOK
<1>9. Len(queue) <= 1 \/ (active - 1) + 1 >= maxConcurrent BY <1>1 DEF IInv, WorkConserving
<1>10. QED BY <1>8, <1>9, GrantOK DEF End, Release

\* The limiter is in order after any number of calls, whatever their order and
\* their outcome (lib/concurrencyLimiter.ts, createLimiter).
THEOREM Inductive == Spec => []IInv
<1>1. Init => IInv
  <2> SUFFICES ASSUME Init PROVE IInv OBVIOUS
  <2>1. Holding = {} /\ queue = <<>> /\ active = 0 BY DEF Init, Holding, InState
  <2>2. TypeOK /\ QueueOK BY <2>1 DEF Init, TypeOK, QueueOK
  <2>3. SlotsMatch /\ WorkConserving BY <2>1, FS_EmptySet DEF SlotsMatch, WorkConserving
  <2>4. QED BY <2>1, <2>2, <2>3, LimiterAssumption DEF IInv
<1>2. IInv /\ [Next]_vars => IInv'
  <2> SUFFICES ASSUME IInv, [Next]_vars PROVE IInv' OBVIOUS
  <2>1. ASSUME NEW c \in Calls, Limit(c) PROVE IInv' BY <2>1, LimitStep
  <2>2. ASSUME NEW c \in Calls, Begin(c) PROVE IInv' BY <2>2, BeginStep
  <2>3. ASSUME NEW c \in Calls, End(c) PROVE IInv' BY <2>3, EndStep
  <2>4. CASE UNCHANGED vars
    BY <2>4 DEF vars, IInv, TypeOK, QueueOK, SlotsMatch, WorkConserving, Holding, InState
  <2>5. QED BY <2>1, <2>2, <2>3, <2>4 DEF Next
<1>3. QED BY <1>1, <1>2, PTL DEF Spec

\* paidProviderLimiter never lets more than its maximum through to a provider.
THEOREM NeverTooMany == Spec => []AtMostMax
<1>1. IInv => AtMostMax
  <2> SUFFICES ASSUME IInv PROVE AtMostMax OBVIOUS
  <2>1. IsFiniteSet(Holding) /\ InState("running") \subseteq Holding
    BY LimiterAssumption, FS_Subset DEF Holding, InState
  <2>2. Cardinality(InState("running")) <= Cardinality(Holding) BY <2>1, FS_Subset
  <2>3. Cardinality(InState("running")) \in Nat BY <2>1, FS_Subset, FS_CardinalityType
  <2>4. QED BY <2>2, <2>3, LimiterAssumption DEF IInv, TypeOK, SlotsMatch, AtMostMax
<1>2. QED BY <1>1, Inductive, PTL

\* No call waits while a slot is free ("the instant any slot frees up").
THEOREM NoIdleSlot == Spec => []WorkConserving
  BY Inductive, PTL DEF IInv
=============================================================================
