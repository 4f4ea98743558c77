------------------------------ MODULE AgentRuns ------------------------------
(***************************************************************************)
(* Agent runs: what an agent drafts, searches, verifies and ramps, and     *)
(* what its owner approves, pauses and cancels.                            *)
(*   workers/agentRunWorker.ts   the tick, every five minutes, and kicks   *)
(*   routes/agentRuns/index.ts   create, patch, cancel, approve, trigger   *)
(*   lib/{nurture,outbound}Agent.ts   what an approval sends               *)
(* A worker reads a run, then takes its lock, then works on what it read.  *)
(* nextCheckAt is "now" (passed), "later" or "never" (null).  A config     *)
(* made by POST always parses, so the ticks' invalid-config branch is out. *)
(***************************************************************************)
EXTENDS Integers, FiniteSets, Sequences, TLC

CONSTANTS
    Runs, AgentWorkers, Calls,   \* agent runs; worker processes; requests of the owner
    Pillars,                     \* the pillars used, "nurture_auto" being nurture with autoSend
    RUN_LIMIT,                   \* getAgentRunLimit of the plan
    MAX_FAILURES,                \* MAX_CONSECUTIVE_FAILURES
    MaxSearches, MaxKicks,       \* bounds: searches begun; kicks of a run in the queue
    MaxTurns                     \* bound: calls and mishaps, which count twice

Nothing == "nothing"
ASSUME AgentRunsAssumption ==
    /\ RUN_LIMIT \in Nat /\ MAX_FAILURES \in Nat \ {0} /\ MaxSearches \in Nat /\ MaxTurns \in Nat
    /\ Nothing \notin Runs \cup AgentWorkers \cup Calls \cup Pillars /\ "dead" \notin AgentWorkers
    /\ AgentWorkers \cap Calls = {}

VARIABLES
    run,        \* agent_runs
    lock,       \* agentRunLock in Redis: the worker, "dead" when it died, None
    kicks,      \* agent-run-kick jobs waiting or delayed, per run
    agent,      \* what each worker is doing
    call,       \* what each request is doing
    search,     \* searches at the provider: "running", "done", "failed"
    contact,    \* the contact of the watched list: "due", "fresh" or "quarantined"
    warmBox,    \* the warmBox that warms up: health, and dailyRampUp
    told        \* ghosts and bounds

agentVars == <<run, lock, kicks, agent, call, search, contact, warmBox, told>>
outside   == <<search, contact, warmBox>>

------------------------------------------------------------------------------
OneShot   == {"nurture", "nurture_auto", "outbound"}
Recurring == {"verification", "lead_finding", "warmup"}

\* config: draft and campaignId or sequenceId, pendingRunId, baselineDailyRampUp.
Blank == [draft |-> FALSE, sent |-> FALSE, search |-> 0, base |-> 0]
NoRun == [pillar |-> Nothing, status |-> Nothing, paused |-> FALSE, due |-> "never", fails |-> 0,
          cfg |-> Blank]
Of(r, statuses) == run[r].status \in statuses
Put(r, new)     == run' = [run EXCEPT ![r] = new]
IdleAgent == [pc |-> "idle", todo |-> {}, rows |-> << >>, at |-> Nothing, found |-> 0]
IdleCall  == [pc |-> "idle", at |-> Nothing, was |-> Nothing, cfg |-> Blank, arg |-> Nothing]

AgentInit ==
    /\ run     = [r \in Runs |-> NoRun]
    /\ lock    = [r \in Runs |-> Nothing]
    /\ kicks   = [r \in Runs |-> 0]
    /\ agent   = [w \in AgentWorkers |-> IdleAgent]
    /\ call    = [q \in Calls |-> IdleCall]
    /\ search  = << >>
    /\ contact = "due"
    /\ warmBox = [status |-> "active", error |-> FALSE, ramp |-> 1]
    /\ told    = [turns |-> 0, sends |-> [r \in Runs |-> 0], counted |-> << >>, cancelled |-> {},
                  spoilt |-> [r \in Runs |-> {}]]

\* Ghosts: something happens to a run.
\*   raced      two calls, or a call and a worker, had it in hand at once
\*   stale      a worker took the lock with a row that had changed since, or lost the lock
\*   torn       a worker or request ended between two of its steps
\*   unkicked   its kick was not enqueued, met a lock or a pause, or a PATCH made it active without one
Spoil(t, r, what) == [t EXCEPT !.spoilt[r] = @ \cup {what}]
Spoilt(r, what)   == told.spoilt[r] \cap what # {}
Turns(n, t) == told.turns + n <= MaxTurns /\ told' = [t EXCEPT !.turns = @ + n]
Kick(r)     == kicks' = [kicks EXCEPT ![r] = IF @ < MaxKicks THEN @ + 1 ELSE @]
Busy(r, me) ==
    \/ \E w \in AgentWorkers \ {me} : agent[w].at = r \/ r \in agent[w].todo
    \/ \E q \in Calls \ {me} : call[q].at = r

------------------------------------------------------------------------------
\* runAgentTick: the recurring runs that are due, as they are now.
DueRunsAny == {r \in Runs : run[r].pillar \in Recurring /\ run[r].due = "now"}   \* mutant
DueRuns == {r \in Runs : /\ run[r].pillar \in Recurring /\ Of(r, {"active"})
                         /\ ~run[r].paused /\ run[r].due = "now"}
Seen(row) == [status |-> row.status, cfg |-> row.cfg]
Snapshot(rs) == [IdleAgent EXCEPT !.pc = "open", !.todo = rs, !.rows = [r \in rs |-> Seen(run[r])]]
\* A process runs one job at a time; a second one is a second process, or a job
\* that stalled and was given out again.
Starts(w, t) ==
    /\ w = CHOOSE v \in AgentWorkers : agent[v].pc = "idle" \/ \A u \in AgentWorkers : agent[u].pc # "idle"
    /\ agent[w].pc = "idle"
    /\ IF \A v \in AgentWorkers : agent[v].pc = "idle" THEN told' = t ELSE Turns(1, t)
StartAgentTick(w) ==
    /\ Starts(w, told) /\ DueRuns # {}
    /\ agent' = [agent EXCEPT ![w] = Snapshot(DueRuns)]
    /\ UNCHANGED <<run, lock, kicks, call, outside>>

\* runKick: the run, if it is active.
StartKick(w, r) ==
    /\ kicks[r] > 0 /\ kicks' = [kicks EXCEPT ![r] = @ - 1]
    /\ IF Of(r, {"active"}) /\ ~run[r].paused
       THEN Starts(w, told) /\ agent' = [agent EXCEPT ![w] = Snapshot({r})]
       ELSE Starts(w, Spoil(told, r, "unkicked")) /\ UNCHANGED agent
    /\ UNCHANGED <<run, lock, call, outside>>

\* processAgentRun: the lock, or nothing; the runs of a tick share no state, so
\* that one at a time stands for five.
TakeLock(w, r) ==
    /\ agent[w].pc = "open" /\ r \in agent[w].todo
    /\ IF lock[r] = Nothing
       THEN /\ lock'  = [lock EXCEPT ![r] = w]
            /\ agent' = [agent EXCEPT ![w].pc = "held", ![w].at = r, ![w].todo = @ \ {r}]
            /\ told'  = IF Seen(run[r]) = agent[w].rows[r] THEN told ELSE Spoil(told, r, "stale")
       ELSE /\ agent' = [agent EXCEPT ![w].todo = @ \ {r}]
            /\ told'  = Spoil(told, r, "unkicked")
            /\ UNCHANGED lock
    /\ UNCHANGED <<run, kicks, call, outside>>
EndJob(w) ==
    /\ agent[w].pc = "open" /\ agent[w].todo = {}
    /\ agent' = [agent EXCEPT ![w] = IdleAgent]
    /\ UNCHANGED <<run, lock, kicks, call, outside, told>>

Cfg(w)  == agent[w].rows[agent[w].at].cfg
Now(w)  == run[agent[w].at]
\* The lock is given back if it is still the worker's.
GivenBack(job) == [job EXCEPT !.pc = "open", !.at = Nothing, !.found = 0, !.rows = [o \in job.todo |-> @[o]]]
Release(w) ==
    LET r == agent[w].at
    IN  /\ agent' = [agent EXCEPT ![w] = GivenBack(agent[w])]
        /\ lock'  = IF lock[r] = w THEN [lock EXCEPT ![r] = Nothing] ELSE lock
GoOn(w, pc) == agent' = [agent EXCEPT ![w].pc = pc] /\ UNCHANGED lock
Working(w, pc, pillars) == agent[w].pc = pc /\ Now(w).pillar \in pillars

\* handleTickFailure: one more failure, a later date, and at the limit a pause,
\* whatever the run's status is by now.
Failed(row) ==
    [row EXCEPT !.fails  = IF @ < MAX_FAILURES THEN @ + 1 ELSE @,
                !.due    = "later",
                !.paused = @ \/ row.fails + 1 >= MAX_FAILURES,
                !.status = IF row.fails + 1 >= MAX_FAILURES THEN "paused" ELSE @]
NotRescheduled(row) == [row EXCEPT !.fails = 0]                          \* mutant
Rescheduled(row) == [row EXCEPT !.due = "later", !.fails = 0]
Revived(w, new) ==
    IF agent[w].at \in told.cancelled /\ new.status # "cancelled" THEN Spoil(told, agent[w].at, "raced") ELSE told
Finish(w, new) == Put(agent[w].at, new) /\ told' = Revived(w, new) /\ Release(w)

\* A verification tick: the quota may be used up (the run waits); otherwise the
\* contacts that are due get a verdict, and an invalid one leaves the list.
Verify(w) ==
    /\ Working(w, "held", {"verification"})
    /\ \/ UNCHANGED contact
       \/ contact = "due" /\ contact' \in {"fresh", "quarantined"}
    /\ Finish(w, Rescheduled(Now(w)))
    /\ UNCHANGED <<kicks, call, search, warmBox>>

\* A warmup tick: the ramp is held at 0 while the warmBox is not active or its
\* last mail failed, and set back to the baseline when it is well.
HeldRampOn(w) == IF warmBox.status # "active" \/ warmBox.error THEN 0 ELSE warmBox.ramp   \* mutant
HeldRamp(w) == IF warmBox.status # "active" \/ warmBox.error THEN 0 ELSE Cfg(w).base
WarmupTick(w) ==
    /\ Working(w, "held", {"warmup"}) /\ warmBox.status # "gone"
    /\ warmBox' = [warmBox EXCEPT !.ramp = HeldRamp(w), !.error = warmBox.status # "active" /\ @]
    /\ Finish(w, Rescheduled(Now(w)))
    /\ UNCHANGED <<kicks, call, search, contact>>

\* Without its warmBox, or the warmBox's warmup, the tick fails.
WarmupFails(w) ==
    /\ Working(w, "held", {"warmup"}) /\ warmBox.status = "gone"
    /\ Finish(w, Failed(Now(w)))
    /\ UNCHANGED <<kicks, call, outside>>

\* Lead finding, with no search in flight: one is started (its answer takes time),
\* unless the quota is used up...
StartSearch(w) ==
    /\ Working(w, "held", {"lead_finding"}) /\ Cfg(w).search = 0
    /\ \/ /\ Finish(w, [Now(w) EXCEPT !.due = "later"]) /\ UNCHANGED search
       \/ /\ Len(search) < MaxSearches
          /\ search' = Append(search, "running")
          /\ agent'  = [agent EXCEPT ![w].pc = "started", ![w].found = Len(search) + 1]
          /\ told'   = [told EXCEPT !.counted = Append(@, 0)]
          /\ UNCHANGED <<run, lock>>
    /\ UNCHANGED <<kicks, call, contact, warmBox>>
\* ...and written in the config as it was read; the first poll is enqueued.
RecordSearch(w) ==
    /\ Working(w, "started", {"lead_finding"})
    /\ Finish(w, [Now(w) EXCEPT !.cfg = [Cfg(w) EXCEPT !.search = agent[w].found]])
    /\ Kick(agent[w].at)
    /\ UNCHANGED <<call, outside>>

\* A search in flight is polled; while it runs the run stays due, so that ticks
\* poll as well, and every poll enqueues one more.
PollAgain(w) ==
    /\ Working(w, "held", {"lead_finding"}) /\ Cfg(w).search # 0 /\ search[Cfg(w).search] = "running"
    /\ Kick(agent[w].at) /\ Release(w)
    /\ UNCHANGED <<run, call, outside, told>>
\* It succeeded: the new addresses are verified, imported and charged, up to
\* what the key can pay for...
Import(w) ==
    /\ Working(w, "held", {"lead_finding"}) /\ Cfg(w).search # 0 /\ search[Cfg(w).search] = "done"
    /\ GoOn(w, "imported")
    /\ told' = [told EXCEPT !.counted[Cfg(w).search] = @ + 1]
    /\ UNCHANGED <<run, kicks, call, outside>>
\* ...and the config as it was read is written back without the search.
NotCleared(cfg) == cfg                                                   \* mutant
Cleared(cfg) == [cfg EXCEPT !.search = 0]
EndSearch(w) ==
    /\ Working(w, "imported", {"lead_finding"})
    /\ Finish(w, [Rescheduled(Now(w)) EXCEPT !.cfg = Cleared(Cfg(w))])
    /\ UNCHANGED <<kicks, call, outside>>
\* It failed at the provider, or the tick throws.
SearchFails(w) ==
    /\ Working(w, "held", {"lead_finding"}) /\ Cfg(w).search # 0 /\ search[Cfg(w).search] = "failed"
    /\ Finish(w, [Failed(Now(w)) EXCEPT !.cfg = Cleared(Cfg(w))])
    /\ UNCHANGED <<kicks, call, outside>>
TickThrows(w) ==
    /\ \/ Working(w, "held", Recurring)
       \/ Working(w, "started", Recurring) \/ Working(w, "imported", Recurring)
    /\ LET new == IF Now(w).pillar = "lead_finding" THEN [Failed(Now(w)) EXCEPT !.cfg = Cleared(Cfg(w))]
                  ELSE Failed(Now(w))
           t == IF agent[w].pc = "held" THEN Revived(w, new) ELSE Spoil(Revived(w, new), agent[w].at, "torn")
       IN  /\ Put(agent[w].at, new) /\ Release(w)
           /\ Turns(1, t)
    /\ UNCHANGED <<kicks, call, outside>>

\* Nurture and outbound.  A run that was sent is left alone, one with a draft
\* goes back to its owner, any other is drafted; its status is not read again.
Open(w) ==
    /\ Working(w, "held", OneShot)
    /\ IF Cfg(w).sent THEN Release(w) /\ UNCHANGED <<run, told>>
       ELSE IF Cfg(w).draft THEN Finish(w, [Now(w) EXCEPT !.status = "pending_approval"])
       ELSE /\ Put(agent[w].at, [Now(w) EXCEPT !.status = "running"]) /\ GoOn(w, "draft")
            /\ told' = Revived(w, [Now(w) EXCEPT !.status = "running"])
    /\ UNCHANGED <<kicks, call, outside>>
DraftFails(w) ==
    /\ Working(w, "draft", OneShot)
    /\ Finish(w, [Now(w) EXCEPT !.status = "failed"])
    /\ UNCHANGED <<kicks, call, outside>>
\* The draft is written in the config as it was read, for approval...
Draft(w) ==
    /\ Working(w, "draft", {"nurture", "outbound"})
    /\ Finish(w, [Now(w) EXCEPT !.status = "pending_approval", !.cfg = [Cfg(w) EXCEPT !.draft = TRUE]])
    /\ UNCHANGED <<kicks, call, outside>>
\* ...or sent at once, and written then.
AutoSend(w) ==
    /\ Working(w, "draft", {"nurture_auto"})
    /\ told' = [told EXCEPT !.sends[agent[w].at] = @ + 1]
    /\ GoOn(w, "sent")
    /\ UNCHANGED <<run, kicks, call, outside>>
RecordSend(w) ==
    /\ Working(w, "sent", {"nurture_auto"})
    /\ Finish(w, [Now(w) EXCEPT !.status = "completed", !.cfg = [Cfg(w) EXCEPT !.draft = TRUE, !.sent = TRUE]])
    /\ UNCHANGED <<kicks, call, outside>>

\* A worker dies: BullMQ gives its kick out again, the lock stays until it lapses.
AgentDies(w) ==
    /\ agent[w].at # Nothing
    /\ Turns(2, Spoil(told, agent[w].at, "torn"))
    /\ lock' = IF lock[agent[w].at] = w THEN [lock EXCEPT ![agent[w].at] = "dead"] ELSE lock
    /\ \/ Kick(agent[w].at)
       \/ UNCHANGED kicks
    /\ agent' = [agent EXCEPT ![w] = IdleAgent]
    /\ UNCHANGED <<run, call, outside>>
\* The lock lapses; under a worker that is slower than LOCK_TTL too.
Lapse(r) ==
    /\ lock[r] = "dead" /\ lock' = [lock EXCEPT ![r] = Nothing]
    /\ UNCHANGED <<run, kicks, agent, call, outside, told>>
LapseEarly(r) ==
    /\ lock[r] \in AgentWorkers /\ lock' = [lock EXCEPT ![r] = Nothing]
    /\ Turns(2, Spoil(told, r, "stale"))
    /\ UNCHANGED <<run, kicks, agent, call, outside>>

------------------------------------------------------------------------------
\* Time, the provider, and the warmBox (see MailboxPool).
ComesDue(r) ==
    /\ run[r].due = "later" /\ Put(r, [run[r] EXCEPT !.due = "now"])
    /\ UNCHANGED <<lock, kicks, agent, call, outside, told>>
Answer(i) ==
    /\ search[i] = "running" /\ \E a \in {"done", "failed"} : search' = [search EXCEPT ![i] = a]
    /\ UNCHANGED <<run, lock, kicks, agent, call, contact, warmBox, told>>
ContactAges ==
    /\ contact = "fresh" /\ contact' = "due" /\ Turns(1, told)
    /\ UNCHANGED <<run, lock, kicks, agent, call, search, warmBox>>
MailboxTurns(m) ==
    /\ \E r \in Runs : run[r].pillar = "warmup"
    /\ warmBox.status # "gone" /\ warmBox' = [m EXCEPT !.ramp = warmBox.ramp] /\ warmBox' # warmBox
    /\ Turns(1, told)
    /\ UNCHANGED <<run, lock, kicks, agent, call, search, contact>>

------------------------------------------------------------------------------
\* Requests.  Most read in one transaction and write in another.
FreeCall(q) == call[q].pc = "idle" /\ q = CHOOSE o \in Calls : call[o].pc = "idle"
Unchanged(q) == run[call[q].at].status = call[q].was /\ run[call[q].at].cfg = call[q].cfg
Enter(q, r, pc, arg) ==
    /\ FreeCall(q)
    /\ call' = [call EXCEPT ![q] = [pc |-> pc, at |-> r, was |-> run[r].status, cfg |-> run[r].cfg, arg |-> arg]]
    /\ Turns(1, IF Busy(r, q) THEN Spoil(told, r, "raced") ELSE told)
Leave(q) == call' = [call EXCEPT ![q] = IdleCall]

\* POST: the runs are counted (and a warmBox's agent looked for)...
Live == {r \in Runs : run[r].pillar # Nothing /\ ~Of(r, {"cancelled", "failed"})}
CountRuns(q, r, p) ==
    /\ ~Of(r, {"cancelled"}) /\ run[r].pillar = Nothing /\ \A o \in Calls : call[o].at # r
    /\ Cardinality(Live) < RUN_LIMIT
    /\ p = "warmup" => warmBox.status # "gone" /\ \A o \in Live : run[o].pillar # "warmup"
    /\ FreeCall(q) /\ call' = [call EXCEPT ![q] = [IdleCall EXCEPT !.pc = "create", !.at = r, !.arg = p]]
    /\ UNCHANGED <<run, lock, kicks, agent, outside, told>>
\* ...the run is made, a warmup agent with the ramp of the moment as baseline...
CreateRun(q) ==
    LET r == call[q].at
        p == call[q].arg
        new == [NoRun EXCEPT !.pillar = p, !.status = "active",
                             !.due = IF p \in Recurring THEN "later" ELSE "never",
                             !.cfg.base = IF p = "warmup" THEN warmBox.ramp ELSE 0]
    IN  /\ call[q].pc = "create" /\ Put(r, new)
        /\ IF p \in OneShot THEN call' = [call EXCEPT ![q].pc = "kick"] ELSE Leave(q)
        /\ UNCHANGED <<lock, kicks, agent, outside, told>>
\* ...and a one-shot run is kicked.
KickRun(q) ==
    /\ call[q].pc = "kick" /\ Leave(q)
    /\ \/ Kick(call[q].at) /\ UNCHANGED told
       \/ Turns(2, Spoil(told, call[q].at, "unkicked")) /\ UNCHANGED kicks
    /\ UNCHANGED <<run, lock, agent, outside>>

\* PATCH: the whole config is written back as it was read; a one-shot run that is
\* put back to active gets no kick.
PatchReads(q, r, to) ==
    /\ run[r].pillar # Nothing /\ ~Of(r, {"cancelled"}) /\ Enter(q, r, "patch", to)
    /\ UNCHANGED <<run, lock, kicks, agent, outside>>
Patched(q) ==
    LET now == [run[call[q].at] EXCEPT !.cfg = call[q].cfg]
    IN  CASE call[q].arg = "paused" -> [now EXCEPT !.status = "paused", !.paused = TRUE]
          [] call[q].arg = "active" -> [now EXCEPT !.status = "active", !.paused = FALSE, !.fails = 0,
                                                   !.due = "later"]
          [] OTHER -> [now EXCEPT !.due = IF call[q].was = "active" THEN "later" ELSE @]
PatchWrites(q) ==
    LET r == call[q].at
    IN  /\ call[q].pc = "patch" /\ Put(r, Patched(q)) /\ Leave(q)
        /\ told' = LET t == IF call[q].arg = "active" THEN Spoil(told, r, "unkicked") ELSE told
                   IN  IF Busy(r, q) \/ ~Unchanged(q) THEN Spoil(t, r, "raced") ELSE t
        /\ UNCHANGED <<lock, kicks, agent, outside>>

\* POST .../cancel.
CancelRun(r) ==
    /\ run[r].pillar # Nothing /\ ~Of(r, {"cancelled"})
    /\ Put(r, [run[r] EXCEPT !.status = "cancelled", !.paused = TRUE])
    /\ Turns(1, LET t == [told EXCEPT !.cancelled = @ \cup {r}]
                IN  IF Busy(r, Nothing) THEN Spoil(t, r, "raced") ELSE t)
    /\ UNCHANGED <<lock, kicks, agent, call, outside>>

\* POST .../approve: the run awaits approval; the campaign or sequence is made...
ApproveUnasked(row) == row.cfg.draft                                      \* mutant
MayApprove(row) == row.status = "pending_approval" /\ row.cfg.draft
Approve(q, r) ==
    /\ run[r].pillar \in OneShot /\ MayApprove(run[r]) /\ Enter(q, r, "approve", Nothing)
    /\ UNCHANGED <<run, lock, kicks, agent, outside>>
ApproveSends(q) ==
    /\ call[q].pc = "approve"
    /\ call' = [call EXCEPT ![q].pc = "sent"]
    /\ told' = [told EXCEPT !.sends[call[q].at] = @ + 1]
    /\ UNCHANGED <<run, lock, kicks, agent, outside>>
\* ...and then recorded, with the config as it was read.
ApproveRecords(q) ==
    LET r == call[q].at
    IN  /\ call[q].pc = "sent" /\ Leave(q)
        /\ Put(r, [run[r] EXCEPT !.status = "completed", !.cfg = [call[q].cfg EXCEPT !.sent = TRUE]])
        /\ told' = IF ~Unchanged(q) THEN Spoil(told, r, "raced") ELSE told
        /\ UNCHANGED <<lock, kicks, agent, outside>>
CallDies(q) ==
    /\ call[q].pc = "sent" /\ Leave(q)
    /\ Turns(2, Spoil(told, call[q].at, "torn"))
    /\ UNCHANGED <<run, lock, kicks, agent, outside>>

\* POST .../trigger.
TriggerRun(r) ==
    /\ Of(r, {"active"}) /\ ~run[r].paused /\ Kick(r) /\ kicks' # kicks
    /\ Turns(1, told)
    /\ UNCHANGED <<run, lock, agent, call, outside>>

------------------------------------------------------------------------------
AgentWorks(w) ==
    \/ StartAgentTick(w)
    \/ \E r \in Runs : StartKick(w, r) \/ TakeLock(w, r)
    \/ EndJob(w)
    \/ Verify(w) \/ WarmupTick(w) \/ WarmupFails(w)
    \/ StartSearch(w) \/ RecordSearch(w) \/ PollAgain(w) \/ Import(w) \/ EndSearch(w) \/ SearchFails(w)
    \/ Open(w) \/ DraftFails(w) \/ Draft(w) \/ AutoSend(w) \/ RecordSend(w)
CallWorks(q) == CreateRun(q) \/ KickRun(q) \/ PatchWrites(q) \/ ApproveSends(q) \/ ApproveRecords(q)
TimePasses == \E r \in Runs : ComesDue(r) \/ Lapse(r)
Provider   == \E i \in DOMAIN search : Answer(i)

AgentNext ==
    \/ \E w \in AgentWorkers : AgentWorks(w) \/ TickThrows(w) \/ AgentDies(w)
    \/ TimePasses \/ Provider \/ ContactAges
    \/ \E r \in Runs : LapseEarly(r)
    \/ \E m \in [status : {"active", "error", "gone"}, error : BOOLEAN, ramp : {0}] : MailboxTurns(m)
    \/ \E q \in Calls : CallWorks(q) \/ CallDies(q)
    \/ \E q \in Calls, r \in Runs :
          \/ \E p \in Pillars : CountRuns(q, r, p)
          \/ \E to \in {"paused", "active", "interval"} : PatchReads(q, r, to)
          \/ Approve(q, r)
    \/ \E r \in Runs : CancelRun(r) \/ TriggerRun(r)

------------------------------------------------------------------------------
\* What a run drafts is sent once, through any series of approvals, pauses,
\* resumptions, triggers and retries, unless two of them met on the run or one
\* ended half way; and only what was approved is sent, autoSend apart.
DraftSentOnce ==
    \A r \in Runs : ~Spoilt(r, {"raced", "stale", "torn"}) => told.sends[r] <= 1

\* A cancelled run stays cancelled, and nothing of it is sent any more, unless
\* the cancel met a worker or a request that had the run in hand.
CancelHolds ==
    \A r \in told.cancelled : ~Spoilt(r, {"raced", "stale"}) =>
        /\ Of(r, {"cancelled"})
        /\ \A w \in AgentWorkers : agent[w].at # r

\* The addresses a search finds are verified and charged once.
SearchCountedOnce ==
    (\A r \in Runs : ~Spoilt(r, {"raced", "stale", "torn"})) =>
        \A i \in DOMAIN told.counted : told.counted[i] <= 1

\* An active run that is due is served: checked and given a later date, or
\* paused; a search it waits for does not hold it for ever.  A kicked run is
\* drafted or fails, unless its worker died or the kick met a lock.
RunsAreServed ==
    \A r \in Runs :
        /\ []<>(r \notin DueRuns)
        /\ []<>(\/ run[r].pillar \notin OneShot \/ ~Of(r, {"active", "running"}) \/ run[r].cfg.sent
                \/ Spoilt(r, {"raced", "stale", "torn", "unkicked"}))

\* A warmBox that is well again ramps again, if its agent began with a ramp.
Well == warmBox.status = "active" /\ ~warmBox.error
RampComesBack ==
    \A r \in Runs :
        []<>(\/ ~Of(r, {"active"}) \/ run[r].cfg.base = 0 \/ ~Well
             \/ warmBox.ramp = run[r].cfg.base)

\* The three: what a run does once, and not any more.
RunsHold == DraftSentOnce /\ CancelHolds /\ SearchCountedOnce
=============================================================================
