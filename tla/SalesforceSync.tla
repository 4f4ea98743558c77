---------------------------- MODULE SalesforceSync ----------------------------
(***************************************************************************)
(* The hourly exchange with a key's Salesforce: leads and replies go out,  *)
(* the statuses a rep sets come back.                                      *)
(*   workers/salesforceSyncWorker.ts     one tick, one at a time           *)
(*   lib/salesforceApi.ts                find, create, update, log, query  *)
(*   routes/connectors/salesforce.ts     connect, switch, disconnect       *)
(* Times are relative: a lead is stale if it changed since its last push,  *)
(* a reply is new if it came after the connection's last push.             *)
(***************************************************************************)
EXTENDS Integers, FiniteSets

CONSTANTS SfLeads,
    MaxEdits,       \* bound: versions of a lead
    MaxSfActs       \* bound: acts of owners, leads and reps, failures (which count twice)

ASSUME SalesforceAssumption == {MaxEdits, MaxSfActs} \subseteq Nat

VARIABLES
    link,       \* salesforce_connections: "none", "on", "off"
    local,      \* leads: version, stale, and whether a sequence is mailing them
    synced,     \* salesforce_lead_syncs
    remote,     \* External: the records in Salesforce
    answer,     \* reply_events: "none", "new", "old"
    sfTick,     \* the tick: what it has left, the lead at hand, the replies that were old when
                \* it began, and whether the connection it read is still there
    crm         \* ghosts and bounds

sfVars == <<link, local, synced, remote, answer, sfTick, crm>>

Decisions == {"open", "stop", "converted"}
SfIdle == [pc |-> "idle", todo |-> {}, at |-> << >>, old |-> {}, row |-> TRUE]
SfInit ==
    /\ link = "none"
    /\ local  = [l \in SfLeads |-> [version |-> 1, stale |-> FALSE, mailing |-> FALSE]]
    /\ synced = [l \in SfLeads |-> [there |-> FALSE, last |-> "open", type |-> "Lead"]]
    /\ remote = [l \in SfLeads |-> [copies |-> 0, version |-> 0, status |-> "open"]]
    /\ answer = [l \in SfLeads |-> "none"]
    /\ sfTick = SfIdle
    /\ crm = [acts |-> 0, logged |-> [l \in SfLeads |-> 0], marks |-> [l \in SfLeads |-> {}]]

Charge(n, k)     == k.acts + n <= MaxSfActs /\ crm' = [k EXCEPT !.acts = @ + n]
MarkLead(k, l, what) == [k EXCEPT !.marks[l] = @ \cup {what}]
Again(what) == [crm EXCEPT !.marks = [l \in SfLeads |-> IF crm.logged[l] = 0 THEN @[l] ELSE @[l] \cup {what}]]
Renewed == [l \in SfLeads |-> IF answer[l] = "none" THEN "none" ELSE "new"]

------------------------------------------------------------------------------
\* The callback of the sign-in creates the connection, or puts it back on; one
\* that was deleted has forgotten its last push, the records of leads stay.
Connect ==
    /\ link # "on" /\ link' = "on"
    /\ answer' = IF link = "none" THEN Renewed ELSE answer
    /\ Charge(1, IF link = "none" THEN Again("reconnected") ELSE crm)
    /\ UNCHANGED <<local, synced, remote, sfTick>>
SwitchOff ==
    /\ link = "on" /\ link' = "off" /\ Charge(1, crm)
    /\ UNCHANGED <<local, synced, remote, answer, sfTick>>
Disconnect ==
    /\ link # "none" /\ link' = "none" /\ Charge(1, crm)
    /\ sfTick' = [sfTick EXCEPT !.row = (sfTick.pc = "idle")]
    /\ UNCHANGED <<local, synced, remote, answer>>

\* The rest of the system, and Salesforce.
EditLead(l) ==
    /\ local[l].version < MaxEdits /\ Charge(1, crm)
    /\ local' = [local EXCEPT ![l].version = @ + 1, ![l].stale = TRUE]
    /\ UNCHANGED <<link, synced, remote, answer, sfTick>>
\* The tick compares a status with the one it saw last: a stop that was lifted and
\* set again between two ticks is not noticed, nor one set before the mailing began.
Noticeable(l, s) ==
    IF synced[l].last = s THEN MarkLead(crm, l, "unnoticed") ELSE [crm EXCEPT !.marks[l] = @ \ {"unnoticed"}]
StartMailing(l) ==
    /\ ~local[l].mailing /\ local' = [local EXCEPT ![l].mailing = TRUE]
    /\ Charge(1, Noticeable(l, remote[l].status))
    /\ UNCHANGED <<link, synced, remote, answer, sfTick>>
Reply(l) ==
    /\ answer[l] = "none" /\ Charge(1, crm) /\ answer' = [answer EXCEPT ![l] = "new"]
    /\ UNCHANGED <<link, local, synced, remote, sfTick>>
RepDecides(l, s) ==
    /\ remote[l].copies > 0 /\ remote[l].status \notin {s, "converted"}
    /\ Charge(1, Noticeable(l, s))
    /\ remote' = [remote EXCEPT ![l].status = s]
    /\ UNCHANGED <<link, local, synced, answer, sfTick>>
\* A rep has the lead already.
RepAdds(l) ==
    /\ remote[l].copies = 0 /\ Charge(1, crm)
    /\ remote' = [remote EXCEPT ![l].copies = 1]
    /\ UNCHANGED <<link, local, synced, answer, sfTick>>

------------------------------------------------------------------------------
\* Leads never pushed, or changed since.
ToPush == {l \in SfLeads : ~synced[l].there \/ local[l].stale}
StartSync ==
    /\ link = "on" /\ sfTick.pc = "idle"
    /\ sfTick' = [SfIdle EXCEPT !.pc = "push", !.todo = ToPush, !.old = {l \in SfLeads : answer[l] = "old"}]
    /\ UNCHANGED <<link, local, synced, remote, answer, crm>>

\* A lead's record is updated, or found by its address, or created.  A call that
\* fails leaves the lead for the next tick, whether or not Salesforce did it.
CreateBlind(l) == ~synced[l].there                                           \* mutant
MustCreate(l)  == ~synced[l].there /\ remote[l].copies = 0
Sent(l) == IF MustCreate(l) THEN [remote EXCEPT ![l].copies = @ + 1, ![l].version = local[l].version]
           ELSE IF synced[l].there THEN [remote EXCEPT ![l].version = local[l].version] ELSE remote
PushLead(l) ==
    /\ sfTick.pc = "push" /\ sfTick.at = << >> /\ l \in sfTick.todo
    /\ LET rest == [sfTick EXCEPT !.todo = @ \ {l}]
       IN  \/ remote' = Sent(l) /\ sfTick' = [rest EXCEPT !.at = <<[lead |-> l, version |-> local[l].version]>>]
              /\ UNCHANGED crm
           \/ remote' \in {remote, Sent(l)} /\ sfTick' = rest /\ Charge(2, crm)
    /\ UNCHANGED <<link, local, synced, answer>>

\* lastPushedAt is now, after the call: a change made in between is not stale.
RecordPush ==
    LET l == sfTick.at[1].lead
        lost == local[l].version # sfTick.at[1].version
    IN  /\ sfTick.pc = "push" /\ sfTick.at # << >>
        /\ \/ /\ synced' = [synced EXCEPT ![l].there = TRUE]
              /\ local' = [local EXCEPT ![l].stale = FALSE]
              /\ crm' = IF lost THEN MarkLead(crm, l, "overtaken") ELSE crm
           \/ Charge(2, crm) /\ UNCHANGED <<synced, local>>
        /\ sfTick' = [sfTick EXCEPT !.at = << >>]
        /\ UNCHANGED <<link, remote, answer>>

\* New replies of leads that are in Salesforce; the others, and those whose call
\* fails, are not tried again: the end of the tick makes them old.
StartReplies ==
    /\ sfTick.pc = "push" /\ sfTick.at = << >> /\ sfTick.todo = {}
    /\ sfTick' = [sfTick EXCEPT !.pc = "replies",
                      !.todo = {l \in SfLeads \ sfTick.old : answer[l] # "none" /\ synced[l].there}]
    /\ UNCHANGED <<link, local, synced, remote, answer, crm>>
LogReply(l) ==
    /\ sfTick.pc = "replies" /\ l \in sfTick.todo
    /\ sfTick' = [sfTick EXCEPT !.todo = @ \ {l}]
    /\ \/ crm' = [crm EXCEPT !.logged[l] = IF @ < 2 THEN @ + 1 ELSE @]
       \/ Charge(2, crm)
    /\ UNCHANGED <<link, local, synced, remote, answer>>

\* What a rep decided since the last tick stops the sequence mailing the lead; the
\* record of having seen it comes first, and the rest may fail unnoticed.
Stops(s)       == s \in {"stop", "converted"}
StopsConverted(s) == s = "converted"                                         \* mutant
ShouldStop(s)  == Stops(s)
StartPull ==                                \* one query for them all
    /\ sfTick.pc = "replies" /\ sfTick.todo = {}
    /\ sfTick' = [sfTick EXCEPT !.pc = "pull",
                      !.todo = {<<l, remote[l].status>> : l \in {x \in SfLeads : synced[x].there /\ synced[x].type = "Lead"}}]
    /\ UNCHANGED <<link, local, synced, remote, answer, crm>>
Pull(l, s) ==
    LET news == s # synced[l].last
        seen == [synced EXCEPT ![l].last = s, ![l].type = IF s = "converted" THEN "Contact" ELSE "Lead"]
    IN  /\ sfTick.pc = "pull" /\ <<l, s>> \in sfTick.todo
        /\ sfTick' = [sfTick EXCEPT !.todo = @ \ {<<l, s>>}]
        /\ synced' = IF news THEN seen ELSE synced
        /\ \/ /\ local' = IF news /\ ShouldStop(s) THEN [local EXCEPT ![l].mailing = FALSE, ![l].stale = TRUE] ELSE local
              /\ UNCHANGED crm
           \/ /\ news /\ ShouldStop(s) /\ local[l].mailing
              /\ UNCHANGED local /\ Charge(2, MarkLead(crm, l, "swallowed"))
        /\ UNCHANGED <<link, remote, answer>>
EndSync ==
    /\ sfTick.pc = "pull" /\ sfTick.todo = {}
    /\ sfTick' = SfIdle
    /\ IF sfTick.row
       THEN /\ answer' = [l \in SfLeads |-> IF answer[l] = "none" THEN "none" ELSE "old"]
            /\ UNCHANGED crm
       ELSE UNCHANGED answer /\ crm' = Again("reconnected")
    /\ UNCHANGED <<link, local, synced, remote>>

\* The process stops, or a call outside a lead's try throws: the tick's replies
\* are still new, and those it has logged are logged again.
SyncDies ==
    /\ sfTick.pc # "idle" /\ sfTick' = SfIdle
    /\ Charge(2, Again("relogged"))
    /\ UNCHANGED <<link, local, synced, remote, answer>>

SyncWorks == StartSync \/ RecordPush \/ StartReplies \/ StartPull \/ EndSync
             \/ \E l \in SfLeads : PushLead(l) \/ LogReply(l) \/ \E s \in Decisions : Pull(l, s)
SfNext ==
    \/ Connect \/ SwitchOff \/ Disconnect \/ SyncWorks \/ SyncDies
    \/ \E l \in SfLeads : EditLead(l) \/ StartMailing(l) \/ Reply(l) \/ RepAdds(l)
                          \/ \E s \in Decisions : RepDecides(l, s)

------------------------------------------------------------------------------
\* The exchange makes no lead a second record, whatever is retried, lost or
\* reconnected; and logs a reply once, but for a deleted connection or a tick that
\* dies (salesforceSyncWorker.ts:79-84; connectors/salesforce.ts:139-140).
NoSecondRecord ==
    \A l \in SfLeads : /\ remote[l].copies <= 1
                       /\ crm.marks[l] \cap {"reconnected", "relogged"} = {} => crm.logged[l] <= 1

\* A rep's stop is heeded: the sequence that mails the lead is paused, unless that
\* update was lost once the status had been recorded, or the status is the one the
\* tick had seen last (salesforceSyncWorker.ts:167-189).
Unheeded(l) == /\ link = "on" /\ synced[l].there /\ local[l].mailing /\ Stops(remote[l].status)
               /\ crm.marks[l] \cap {"swallowed", "unnoticed"} = {}
StopIsHeeded == \A l \in SfLeads : []<>~Unheeded(l)
=============================================================================
