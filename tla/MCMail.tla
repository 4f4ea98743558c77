------------------------------- MODULE MCMail -------------------------------
(***************************************************************************)
(* Campaigns and transactional mail with small sets for TLC.  They share   *)
(* the counters of UsageMeter and the suppression list, which each module  *)
(* has in its own terms; a run checks both, one per behaviour: the initial *)
(* state says which.                                                       *)
(***************************************************************************)
EXTENDS Campaign, SendPipeline, TLC

CONSTANTS r1, r2, r3
Two   == <<r1, r2>>
Three == <<r1, r2, r3>>

VARIABLE focus
all == <<vars, sendVars, focus>>

Campaigns_(A) == focus = "campaigns" /\ A /\ UNCHANGED <<sendVars, focus>>
Messages_(A)  == focus = "messages" /\ A /\ UNCHANGED <<vars, focus>>

MCInit == Init /\ SendInit /\ focus \in {"campaigns", "messages"}
MCNext == Campaigns_(Next) \/ Messages_(SendNext)
MCSafety == MCInit /\ [][MCNext]_all

\* The fairness of the two.  The focus never changes: each disjunction is the
\* fairness of its two parts.
MCSpec ==
    /\ MCSafety
    /\ WF_all(Campaigns_(\E w \in Workers : Works(w))
              \/ Messages_(\E w \in SendWorkers : WorkerProceeds(w) \/ Transport(w)))
    /\ WF_all(Campaigns_(\E p \in Callers, c \in Campaigns : Answers(p, c))
              \/ Messages_(\E c \in Senders : CallerProceeds(c) \/ Transport(c)))
    /\ WF_all(Campaigns_(\E j \in Jobs : JobStalls(j)) \/ Messages_(\E m \in Messages : SendStalled(m)))

\* What was begun ends: a campaign that is being sent, a message that was
\* accepted.
MailSettles == Settles /\ MessagesSettle
=============================================================================
