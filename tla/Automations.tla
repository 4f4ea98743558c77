----------------------------- MODULE Automations -----------------------------
(***************************************************************************)
(* Drip mails after an event: one automation, its enrollments and the      *)
(* cycles that mail them.                                                  *)
(*   routes/automations/index.ts   create, patch, delete, trigger,         *)
(*                                 unenroll                                *)
(*   workers/automationWorker.ts   one cycle                               *)
(*   worker-new.ts                 every five minutes, without a lock: a   *)
(*                                 slow cycle meets the next one           *)
(* An enrollment refers to its automation without a cascade: an automation *)
(* that has ever enrolled anyone cannot be deleted.                        *)
(***************************************************************************)
EXTENDS Integers, FiniteSets

CONSTANTS Enrollees, Cycles,
    LastStep,       \* steps are 0 .. LastStep
    MaxAutoActs     \* bound: calls of the owner, overlaps, failures (which count twice)

ASSUME AutomationAssumption == {LastStep, MaxAutoActs} \subseteq Nat

VARIABLES
    automation,     \* its status, or "none"
    enrollment,     \* automation_enrollments
    optedOut,       \* suppressions
    cycle,          \* rows a cycle has loaded, the one it is at, and where
    drip            \* ghosts and bounds

autoVars == <<automation, enrollment, optedOut, cycle, drip>>

Unenrolled == [status |-> "none", step |-> 0, due |-> FALSE]
Waiting    == [pc |-> "idle", batch |-> {}, at |-> << >>]

AutoInit ==
    /\ automation = "none"
    /\ enrollment = [e \in Enrollees |-> Unenrolled]
    /\ optedOut = {}
    /\ cycle = [c \in Cycles |-> Waiting]
    /\ drip = [acts |-> 0, marks |-> [e \in Enrollees |-> {}],
               mails |-> [e \in Enrollees |-> [s \in 0 .. LastStep |-> 0]]]

Costs(n, d) == d.acts + n <= MaxAutoActs /\ drip' = [d EXCEPT !.acts = @ + n]
Mar(d, S, what) == [d EXCEPT !.marks = [e \in Enrollees |-> IF e \in S THEN @[e] \cup {what} ELSE @[e]]]
Loaded(c) == {r.email : r \in cycle[c].batch} \cup (IF cycle[c].at = << >> THEN {} ELSE {cycle[c].at[1].email})

------------------------------------------------------------------------------
CreateAutomation ==
    /\ automation = "none" /\ automation' = "active"
    /\ UNCHANGED <<enrollment, optedOut, cycle, drip>>

\* PATCH writes the status it is given; the cycles never read it.
PatchAutomation(s) ==
    /\ automation \notin {"none", s} /\ automation' = s /\ Costs(1, drip)
    /\ UNCHANGED <<enrollment, optedOut, cycle>>
DeleteAutomation ==
    /\ automation # "none" /\ \A e \in Enrollees : enrollment[e].status = "none"
    /\ automation' = "none" /\ Costs(1, drip)
    /\ UNCHANGED <<enrollment, optedOut, cycle>>

\* POST /automations/trigger begins a round, whatever the row was; a cycle that
\* has the row of the last round will mail it, and may write over this one.
AutoTrigger(e) ==
    /\ automation = "active" /\ e \notin optedOut
    /\ enrollment' = [enrollment EXCEPT ![e] = [status |-> "active", step |-> 0, due |-> FALSE]]
    /\ LET clean == [drip EXCEPT !.mails[e] = [s \in 0 .. LastStep |-> 0], !.marks[e] = {}]
       IN  Costs(1, IF \E c \in Cycles : e \in Loaded(c) THEN Mar(clean, {e}, "retriggered") ELSE clean)
    /\ UNCHANGED <<automation, optedOut, cycle>>
Unenroll(e) ==
    /\ enrollment[e].status \notin {"none", "unsubscribed"}
    /\ enrollment' = [enrollment EXCEPT ![e].status = "unsubscribed"]
    /\ Costs(1, drip)
    /\ UNCHANGED <<automation, optedOut, cycle>>
OptOut(e) ==
    /\ e \notin optedOut /\ optedOut' = optedOut \cup {e} /\ Costs(1, drip)
    /\ UNCHANGED <<automation, enrollment, cycle>>
DelayPasses(e) ==
    /\ enrollment[e].status = "active" /\ ~enrollment[e].due
    /\ enrollment' = [enrollment EXCEPT ![e].due = TRUE]
    /\ UNCHANGED <<automation, optedOut, cycle, drip>>

------------------------------------------------------------------------------
DueRowEver(e) == enrollment[e].status # "none" /\ enrollment[e].step <= LastStep            \* mutant
DueRow(e)     == enrollment[e].status = "active" /\ enrollment[e].due
Loads == {[email |-> e, step |-> enrollment[e].step] : e \in {x \in Enrollees : DueRow(x)}}
StartCycle(c) ==
    LET both == {r.email : r \in Loads} \cap UNION {Loaded(d) : d \in Cycles \ {c}}
    IN  /\ cycle[c].pc = "idle" /\ Loads # {} /\ c = CHOOSE d \in Cycles : cycle[d].pc = "idle"
        /\ cycle' = [cycle EXCEPT ![c] = [pc |-> "run", batch |-> Loads, at |-> << >>]]
        /\ IF \A d \in Cycles : cycle[d].pc = "idle" THEN UNCHANGED drip
           ELSE Costs(1, Mar(drip, both, "overlap"))
        /\ UNCHANGED <<automation, enrollment, optedOut>>

\* The next row, by what it was; only the suppression is read again.
TakeRow(c, r) ==
    /\ cycle[c].pc = "run" /\ r \in cycle[c].batch
    /\ LET rest == [cycle[c] EXCEPT !.batch = @ \ {r}]
       IN  IF r.email \in optedOut
           THEN /\ enrollment' = [enrollment EXCEPT ![r.email].status = "unsubscribed"]
                /\ cycle' = [cycle EXCEPT ![c] = IF rest.batch = {} THEN Waiting ELSE rest]
           ELSE /\ cycle' = [cycle EXCEPT ![c] = [rest EXCEPT !.pc = "send", !.at = <<r>>]]
                /\ UNCHANGED enrollment
    /\ UNCHANGED <<automation, optedOut, drip>>

SendStep(c) ==
    LET r == cycle[c].at[1]
    IN  /\ cycle[c].pc = "send"
        /\ \/ /\ cycle' = [cycle EXCEPT ![c].pc = "sent"]
              /\ drip' = [drip EXCEPT !.mails[r.email][r.step] = IF @ < 2 THEN @ + 1 ELSE @]
           \/ /\ cycle' = [cycle EXCEPT ![c].pc = "failed"]
              /\ Costs(2, drip)
        /\ UNCHANGED <<automation, enrollment, optedOut>>

\* The row moves on from the step it was loaded at, or is done.
MovedOn(row, s)  == IF s < LastStep THEN [row EXCEPT !.step = s + 1, !.due = FALSE]
                    ELSE [row EXCEPT !.status = "completed"]
Postponed(row)   == [row EXCEPT !.due = FALSE]
Rests(c) == IF cycle[c].batch = {} THEN Waiting ELSE [cycle[c] EXCEPT !.pc = "run", !.at = << >>]
AdvanceNever(row, s) == IF s < LastStep THEN [row EXCEPT !.due = FALSE]                    \* mutant
                        ELSE [row EXCEPT !.status = "completed"]
Advance(row, s) == MovedOn(row, s)
EndRow(c) ==
    LET r == cycle[c].at[1]
    IN  /\ \/ /\ cycle[c].pc = "sent"
              /\ enrollment' = [enrollment EXCEPT ![r.email] = Advance(@, r.step)]
              /\ UNCHANGED drip
           \/ /\ cycle[c].pc = "sent"                   \* the update fails, its retry in 15 minutes
              /\ enrollment' = [enrollment EXCEPT ![r.email] = Postponed(@)]
              /\ Costs(2, Mar(drip, {r.email}, "unrecorded"))
           \/ /\ cycle[c].pc = "failed"
              /\ enrollment' = [enrollment EXCEPT ![r.email] = Postponed(@)]
              /\ UNCHANGED drip
        /\ cycle' = [cycle EXCEPT ![c] = Rests(c)]
        /\ UNCHANGED <<automation, optedOut>>

\* The process stops, or an update outside the try throws and ends the cycle.
CycleDies(c) ==
    /\ cycle[c].pc # "idle"
    /\ cycle' = [cycle EXCEPT ![c] = Waiting]
    /\ Costs(2, IF cycle[c].pc = "sent" THEN Mar(drip, {cycle[c].at[1].email}, "unrecorded") ELSE drip)
    /\ UNCHANGED <<automation, enrollment, optedOut>>

CycleWorks(c) == StartCycle(c) \/ (\E r \in cycle[c].batch : TakeRow(c, r)) \/ SendStep(c) \/ EndRow(c)
AutoNext ==
    \/ CreateAutomation \/ (\E s \in {"active", "paused"} : PatchAutomation(s)) \/ DeleteAutomation
    \/ \E e \in Enrollees : AutoTrigger(e) \/ Unenroll(e) \/ OptOut(e) \/ DelayPasses(e)
    \/ \E c \in Cycles : CycleWorks(c) \/ CycleDies(c)

------------------------------------------------------------------------------
\* A step is mailed once a round: but for a cycle that overlaps another, a mail
\* whose record is lost, and an event that comes while the row is in hand
\* (automationWorker.ts:16-37 loads rows that nothing claims).
AutoStepOnce ==
    \A e \in Enrollees : drip.marks[e] = {} => \A s \in 0 .. LastStep : drip.mails[e][s] <= 1

\* A paused automation stops no one it has enrolled: an enrollment goes on to its
\* end, or until it is stopped itself (the worker never reads automation.status).
AutoEnds == \A e \in Enrollees : []<>(enrollment[e].status # "active")
=============================================================================
