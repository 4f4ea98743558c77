----------------------------- MODULE MCOutreach ------------------------------
(***************************************************************************)
(* Sequences, mailboxes and agents with small sets for TLC.  They meet in  *)
(* the code only through what is started or switched (an agent's approval  *)
(* starts a sequence, a mailbox's state and counter are read by both       *)
(* others), which each has in its own terms; one run checks all, one per   *)
(* behaviour: the initial state says which.                                *)
(***************************************************************************)
EXTENDS Outreach, MailboxPool, AgentRuns

CONSTANTS main, other, sub
Email(i)  == [id |-> i, kind |-> "email", cond |-> "always"]
Task(i)   == [Email(i) EXCEPT !.kind = "task"]
Unopened(i) == [Email(i) EXCEPT !.cond = "if_not_opened"]
Unreplied(i) == [Email(i) EXCEPT !.cond = "if_not_replied"]
MCDesign  == (main :> <<Email("a"), Unreplied("b")>> @@ other :> <<Task("c"), Unopened("d")>>
              @@ sub :> <<Email("e")>>)
MCParents == main :> None @@ other :> None @@ sub :> main
MCTrigger == main :> None @@ other :> None @@ sub :> "REPLIED"

VARIABLE focus
all == <<vars, poolVars, agentVars, focus>>

Sequences_(A) == focus = "sequences" /\ A /\ UNCHANGED <<poolVars, agentVars, focus>>
Mailboxes_(A) == focus = "mailboxes" /\ A /\ UNCHANGED <<vars, agentVars, focus>>
Agents_(A) == focus = "agents" /\ A /\ UNCHANGED <<vars, poolVars, focus>>

MCInit == Init /\ PoolInit /\ AgentInit /\ focus \in {"sequences", "mailboxes", "agents"}
MCNext == Sequences_(Next) \/ Mailboxes_(PoolNext) \/ Agents_(AgentNext)

\* The focus never changes: each disjunction is the fairness of its three parts.
MCSpec ==
    /\ MCInit /\ [][MCNext]_all
    /\ WF_all(Sequences_(\E w \in Workers : TickWorks(w)) \/ Mailboxes_(NewDay)
              \/ Agents_(\E w \in AgentWorkers : AgentWorks(w)))
    /\ WF_all(Sequences_(\E p \in Pollers : PollWorks(p)) \/ Mailboxes_(WarmupWorks) \/ Agents_(TimePasses))
    /\ WF_all(Sequences_(\E s \in SequenceIds, l \in Leads : Elapse(s, l)) \/ Agents_(Provider))
    /\ WF_all(Sequences_(\E m \in inbox : Expire(m)) \/ Agents_(\E q \in Calls : CallWorks(q)))

\* Mailboxes come back: one at its limit can send again, and one that is well
\* again ramps again.
MailboxesRecover == Refreshed /\ RampComesBack
=============================================================================
