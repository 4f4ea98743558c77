------------------------------ MODULE MCUpkeep ------------------------------
(***************************************************************************)
(* The workers, callbacks and sweeps that owe something in the end, with   *)
(* small sets for TLC.  These parts keep no state that one changes for     *)
(* another, so one run checks all, one per behaviour: the initial state    *)
(* says which.                                                             *)
(***************************************************************************)
EXTENDS Automations, Domains, SalesforceSync, Billing, DeliveryEvents, Limiter, UsageMeter

VARIABLE focus
all == <<autoVars, domainVars, sfVars, billVars, deliveryVars, vars, meterVars, focus>>

Auto_(A) == focus = "automations" /\ A /\ UNCHANGED <<domainVars, sfVars, billVars, deliveryVars, vars, meterVars, focus>>
Domain_(A) == focus = "domains" /\ A /\ UNCHANGED <<autoVars, sfVars, billVars, deliveryVars, vars, meterVars, focus>>
Sf_(A) == focus = "salesforce" /\ A /\ UNCHANGED <<autoVars, domainVars, billVars, deliveryVars, vars, meterVars, focus>>
Bil_(A) == focus = "billing" /\ A /\ UNCHANGED <<autoVars, domainVars, sfVars, deliveryVars, vars, meterVars, focus>>
Ev_(A) == focus = "events" /\ A /\ UNCHANGED <<autoVars, domainVars, sfVars, billVars, vars, meterVars, focus>>
Lim_(A) == focus = "limiter" /\ A /\ UNCHANGED <<autoVars, domainVars, sfVars, billVars, deliveryVars, meterVars, focus>>
Use_(A) == focus = "usage" /\ A /\ UNCHANGED <<autoVars, domainVars, sfVars, billVars, deliveryVars, vars, focus>>

MCInit ==
    /\ AutoInit
    /\ DomainInit
    /\ SfInit
    /\ BillingInit
    /\ DeliveryInit
    /\ Init
    /\ MeterInit
    /\ focus \in {"automations", "domains", "salesforce", "billing", "events", "limiter", "usage"}
MCNext == Auto_(AutoNext) \/ Domain_(DomainNext) \/ Sf_(SfNext) \/ Bil_(BillingNext) \/ Ev_(DeliveryNext)
          \/ Lim_(Next) \/ Use_(MeterNext)

\* The focus never changes: each disjunction is the fairness of its parts.
MCSpec ==
    /\ MCInit /\ [][MCNext]_all
    /\ WF_all(Auto_(\E c \in Cycles : CycleWorks(c))
              \/ Domain_(TickVerifies)
              \/ Sf_(SyncWorks)
              \/ Bil_(HooksWork)
              \/ Ev_(EventsHandled)
              \/ Lim_(\E c \in Calls : Begin(c) \/ End(c))
              \/ Use_(MonitorSweep))
    /\ WF_all(Auto_(\E e \in Enrollees : DelayPasses(e))
              \/ Ev_(IdStored))

------------------------------------------------------------------------------
\* What is done once: a step of an automation is mailed, a lead gets a record
\* and a reply its note, the owner is told of a rate, a third soft bounce
\* suppresses.
NeverTwice == AutoStepOnce /\ NoSecondRecord /\ AlertedOnce /\ ThreeStrikes

\* What comes in the end: an enrollment ends, a confirmed domain is verified, a
\* bounced address is blocked, a queued call begins, a due counter is reset.
UpkeepEnds == AutoEnds /\ PendingIsVerified /\ BlockedInTheEnd /\ EveryCallRuns /\ ResetInTheEnd
=============================================================================
