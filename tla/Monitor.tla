------------------------------ MODULE Monitor ------------------------------
(***************************************************************************)
(* Recurring checks of email addresses.                                    *)
(*   workers/monitorWorker.ts   the tick, the manual recheck, the check    *)
(*   routes/monitor/index.ts    create, patch, delete, recheck             *)
(* All monitors belong to one API key.  Time is the order in which         *)
(* monitors become due: <<m, n>> is in `due` when the nextCheckAt of both  *)
(* has passed, that of m no later than that of n.  The cron job may start  *)
(* a tick whenever a worker is free, and so may a stalled tick that runs   *)
(* again.                                                                  *)
(***************************************************************************)
EXTENDS Integers, FiniteSets, Sequences, BullMQ, RedisLock

CONSTANTS
    Monitors, Registered,    \* emails; those that have a monitor at the start
    Statuses,                \* verdicts of the engine
    Workers,                 \* monitor worker processes
    Rechecks, Requests,      \* ids of manual recheck jobs; POST /monitoring requests
    BATCH_SIZE, MONITOR_CONCURRENCY, MAX_CONSECUTIVE_FAILURES,   \* monitorWorker.ts
    MonitorLimit, PlanLimit, \* getMonitorLimit and getPlanLimit of the key
    RecheckAttempts,         \* attempts of a recheck job
    MaxStalledCount,         \* the worker's maxStalledCount
    MaxAsked, MaxEvents      \* bounds: times monitors become due; failures, deaths and
                             \* requests of the owner

ASSUME MonitorAssumption ==
    /\ Registered \subseteq Monitors /\ IsFiniteSet(Monitors)
    /\ Workers # {} /\ IsFiniteSet(Workers)
    /\ {BATCH_SIZE, MONITOR_CONCURRENCY, MAX_CONSECUTIVE_FAILURES, RecheckAttempts} \subseteq Nat \ {0}
    /\ {MonitorLimit, PlanLimit, MaxStalledCount, MaxAsked, MaxEvents} \subseteq Nat
    /\ Free \notin Workers

VARIABLES
    monitor,    \* the monitors table
    due,        \* the order of the monitors whose nextCheckAt has passed
    checks,     \* the monitor_checks rows of every monitor, oldest first
    usage,      \* currentMonthUsage of the key
    locks,      \* lock:monitor:<id>
    queue,      \* the recheck-single jobs of continuum-monitor
    worker,     \* the job each worker process runs
    check,      \* what processMonitor does, per worker and monitor
    request,    \* POST /monitoring requests
    tally       \* ghosts and bounds

vars == <<monitor, due, checks, usage, locks, queue, worker, check, request, tally>>

------------------------------------------------------------------------------
NoStatus   == "null"
NewMonitor == [exists |-> TRUE, active |-> TRUE, paused |-> FALSE, notify |-> TRUE,
               last |-> NoStatus, failures |-> 0]
NoMonitor  == [NewMonitor EXCEPT !.exists = FALSE, !.active = FALSE]
IdleWorker == [kind |-> "idle", id |-> "none", todo |-> {}]
NoCheck    == [pc |-> "none", last |-> NoStatus, notify |-> FALSE, new |-> NoStatus,
               row |-> 0, failures |-> 0]

Init ==
    /\ monitor = [m \in Monitors |-> IF m \in Registered THEN NewMonitor ELSE NoMonitor]
    /\ due     = {}
    /\ checks  = [m \in Monitors |-> << >>]
    /\ usage   = 0
    /\ locks   = [m \in Monitors |-> Free]
    /\ queue   = EmptyQueue
    /\ worker  = [w \in Workers |-> IdleWorker]
    /\ check   = [w \in Workers |-> [m \in Monitors |-> NoCheck]]
    /\ request = [r \in Requests |-> [pc |-> "idle", monitor |-> "none", found |-> FALSE]]
    /\ tally   = [asked |-> [m \in Monitors |-> 0],
                  charged |-> [w \in Workers |-> [m \in Monitors |-> 0]],
                  errors |-> [m \in Monitors |-> 0], marred |-> [m \in Monitors |-> {}],
                  times |-> 0, events |-> 0]

Exists(m)  == monitor[m].exists
Running(m) == monitor[m].active /\ ~monitor[m].paused

\* Ghosts: something happens, and m is the worse for it:
\*   slow      its lock expired while the holder was still working
\*   untold    a check was stored, its webhook not dispatched
\*   again     a check was charged, the monitor not rescheduled
Marks == {"slow", "untold", "again"}
Marred(m, marks) == [tally EXCEPT !.events = @ + 1, !.marred[m] = @ \cup marks]
MayHappen == tally.events < MaxEvents

\* Of an order: whom it lists, its restriction to S, its first n.
Listed(order)      == {m \in Monitors : <<m, m>> \in order}
Among(order, S)    == order \cap (S \X S)
Earliest(order, n) == {m \in Monitors : Cardinality({k \in Monitors : <<k, m>> \in order}) \in 1..n}

\* nextCheckAt moves into the future, or to now.
IsDue(m)  == m \in Listed(due)
NotDue(m) == Among(due, Monitors \ {m})
DueNow(m) == NotDue(m) \cup ((Listed(due) \cup {m}) \X {m})

TimePasses(m) ==
    /\ Exists(m) /\ ~IsDue(m)
    /\ tally.times < MaxAsked
    /\ due'   = DueNow(m)
    /\ tally' = [tally EXCEPT !.asked[m] = @ + 1, !.times = @ + 1]
    /\ UNCHANGED <<monitor, checks, usage, locks, queue, worker, check, request>>

------------------------------------------------------------------------------
\* runMonitorTick: the first BATCH_SIZE due monitors, as they are now...
ToCheck == Among(due, {m \in Monitors : Running(m)})
Batch   == Among(ToCheck, Earliest(ToCheck, BATCH_SIZE))
Snapshot(m, pc) ==
    [NoCheck EXCEPT !.pc = pc, !.last = monitor[m].last, !.notify = monitor[m].notify]
StartTick(w) ==
    /\ worker[w].kind = "idle" /\ Batch # {}
    /\ worker' = [worker EXCEPT ![w] = [kind |-> "tick", id |-> "none", todo |-> Batch]]
    /\ check'  = [check EXCEPT ![w] = [m \in Monitors |->
          IF m \in Listed(Batch) THEN Snapshot(m, "listed") ELSE NoCheck]]
    /\ UNCHANGED <<monitor, due, checks, usage, locks, queue, request, tally>>

\* ...in chunks of MONITOR_CONCURRENCY, each when the one before has settled.
Settled(w) == \A m \in Monitors : check[w][m].pc \in {"none", "listed"}
StartChunk(w) ==
    LET chunk == Earliest(worker[w].todo, MONITOR_CONCURRENCY)
    IN  /\ worker[w].kind = "tick" /\ worker[w].todo # {} /\ Settled(w)
        /\ worker' = [worker EXCEPT ![w].todo = Among(@, Monitors \ chunk)]
        /\ check'  = [check EXCEPT ![w] = [m \in Monitors |->
              IF m \in chunk THEN [@[m] EXCEPT !.pc = "lock"] ELSE @[m]]]
        /\ UNCHANGED <<monitor, due, checks, usage, locks, queue, request, tally>>

EndTick(w) ==
    /\ worker[w].kind = "tick" /\ worker[w].todo = {} /\ Settled(w)
    /\ worker' = [worker EXCEPT ![w] = IdleWorker]
    /\ UNCHANGED <<monitor, due, checks, usage, locks, queue, check, request, tally>>

\* runRecheckSingle: one monitor, if it is there and active.
StartRecheck(w, id) ==
    /\ worker[w].kind = "idle" /\ Waiting(queue, id)
    /\ LET m == queue[id].data.monitor
       IN  IF monitor[m].active
           THEN /\ queue'  = Take(queue, id, w)
                /\ worker' = [worker EXCEPT ![w] = [IdleWorker EXCEPT !.kind = "recheck", !.id = id]]
                /\ check'  = [check EXCEPT ![w][m] = Snapshot(m, "lock")]
           ELSE /\ queue'  = Finish(Take(queue, id, w), id, w, "completed")
                /\ UNCHANGED <<worker, check>>
    /\ UNCHANGED <<monitor, due, checks, usage, locks, request, tally>>

------------------------------------------------------------------------------
\* processMonitor.
At(w, m, pc)   == check[w][m].pc = pc
Goto(w, m, pc) == check' = [check EXCEPT ![w][m].pc = pc]

\* It returns, or throws: a recheck job is then tried again, a tick goes on.
Again(id) == [queue EXCEPT ![id].state = "waiting", ![id].holder = "nobody",
                           ![id].data.attempts = @ + 1]
\* Ghost: a recheck job that waits once more asks once more.
AskedAgain(w) ==
    [m \in Monitors |-> tally.asked[m] +
        IF /\ worker[w].kind = "recheck" /\ Waiting(queue', worker[w].id)
           /\ queue[worker[w].id].data.monitor = m
        THEN 1 ELSE 0]
EndCheck(w, m, throws) ==
    /\ check' = [check EXCEPT ![w][m] = NoCheck]
    /\ IF worker[w].kind = "recheck"
       THEN LET id == worker[w].id
            IN  /\ queue' = IF throws /\ queue[id].data.attempts < RecheckAttempts
                            THEN Again(id)
                            ELSE Finish(queue, id, w, IF throws THEN "failed" ELSE "completed")
                /\ worker' = [worker EXCEPT ![w] = IdleWorker]
       ELSE UNCHANGED <<queue, worker>>
    /\ tally' = [tally EXCEPT !.asked = AskedAgain(w)]

\* SET lock:monitor:<id> NX PX
NoOneElse(m) == TRUE                                               \* mutant
MayLock(m) == IsFree(locks, m)
Lock(w, m) ==
    /\ At(w, m, "lock") /\ MayLock(m)
    /\ locks' = Put(locks, m, w)
    /\ Goto(w, m, "quota")
    /\ UNCHANGED <<monitor, due, checks, usage, queue, worker, request, tally>>

SkipLocked(w, m) ==
    /\ At(w, m, "lock") /\ ~MayLock(m)
    /\ EndCheck(w, m, FALSE)
    /\ UNCHANGED <<monitor, due, checks, usage, locks, request>>

\* The key's counter, read afresh.
OverQuotaByOne == usage > PlanLimit                                \* mutant
OverQuota == usage >= PlanLimit
ReadQuota(w, m) ==
    /\ At(w, m, "quota")
    /\ Goto(w, m, IF OverQuota THEN "reschedule" ELSE "verify")
    /\ UNCHANGED <<monitor, due, checks, usage, locks, queue, worker, request, tally>>

Reschedule(w, m) ==
    /\ At(w, m, "reschedule") /\ Exists(m)
    /\ due' = NotDue(m)
    /\ Goto(w, m, "unlock")
    /\ UNCHANGED <<monitor, checks, usage, locks, queue, worker, request, tally>>

Verify(w, m) ==
    /\ At(w, m, "verify")
    /\ \E s \in Statuses : check' = [check EXCEPT ![w][m].pc = "charge", ![w][m].new = s]
    /\ UNCHANGED <<monitor, due, checks, usage, locks, queue, worker, request, tally>>

\* incrementUsageBy(apiKeyId, 1)
Charge(w, m) ==
    /\ At(w, m, "charge")
    /\ usage' = usage + 1
    /\ tally' = [tally EXCEPT !.charged[w][m] = @ + 1]
    /\ Goto(w, m, "record")
    /\ UNCHANGED <<monitor, due, checks, locks, queue, worker, request>>

\* monitorCheck.create, compared with lastStatus as the job read it.
Changed(c) == c.new # c.last
Record(w, m) ==
    LET c == check[w][m]
    IN  /\ At(w, m, "record") /\ Exists(m)
        /\ checks' = [checks EXCEPT ![m] = Append(@, [previous |-> c.last, new |-> c.new,
                         notify |-> c.notify, webhookSent |-> FALSE, told |-> 0])]
        /\ check'  = [check EXCEPT ![w][m].pc = "update", ![w][m].row = Len(checks[m]) + 1]
        /\ UNCHANGED <<monitor, due, usage, locks, queue, worker, request, tally>>

\* monitor.update: the new status, the next date, no failures.
NotRescheduled(m) == due                                          \* mutant
AfterCheck(m) == NotDue(m)
ChangedSince(c) == Changed(c) /\ c.notify /\ c.last # NoStatus    \* mutant
MustNotify(c) == Changed(c) /\ c.notify
Update(w, m) ==
    LET c == check[w][m]
    IN  /\ At(w, m, "update") /\ Exists(m)
        /\ monitor' = [monitor EXCEPT ![m].last = c.new, ![m].failures = 0]
        /\ due'     = AfterCheck(m)
        /\ tally'   = [tally EXCEPT !.errors[m] = 0]
        /\ Goto(w, m, IF MustNotify(c) THEN "dispatch" ELSE "unlock")
        /\ UNCHANGED <<checks, usage, locks, queue, worker, request>>

\* dispatchWebhook, which swallows its errors; then webhookSent, on this row
\* and those after it.
Dispatch(w, m) ==
    /\ At(w, m, "dispatch")
    /\ \/ /\ checks' = [checks EXCEPT ![m][check[w][m].row].told = @ + 1]
          /\ UNCHANGED tally
       \/ MayHappen /\ tally' = Marred(m, {"untold"}) /\ UNCHANGED checks
    /\ Goto(w, m, "mark")
    /\ UNCHANGED <<monitor, due, usage, locks, queue, worker, request>>

MarkSent(w, m) ==
    /\ At(w, m, "mark")
    /\ checks' = [checks EXCEPT ![m] = [i \in DOMAIN @ |->
          IF i >= check[w][m].row THEN [@[i] EXCEPT !.webhookSent = TRUE] ELSE @[i]]]
    /\ Goto(w, m, "unlock")
    /\ UNCHANGED <<monitor, due, usage, locks, queue, worker, request, tally>>

\* The engine or the database throws, or the monitor is gone: the failures
\* so far are read...
\* What m loses when its check ends at this point.
Loses(w, m) == (IF check[w][m].pc \in {"update", "dispatch"} THEN {"untold"} ELSE {})
               \cup (IF check[w][m].pc \in {"record", "update", "saveFailure"} THEN {"again"} ELSE {})
FailsAt(w, m) ==
    MayHappen /\ check[w][m].pc \in {"quota", "reschedule", "verify", "record", "update", "mark"}
GoneAt(w, m) == ~Exists(m) /\ check[w][m].pc \in {"reschedule", "record", "update"}
CheckFails(w, m) ==
    /\ FailsAt(w, m) \/ GoneAt(w, m)
    /\ tally' = [(IF GoneAt(w, m) THEN tally ELSE Marred(m, Loses(w, m) \ {"again"}))
                   EXCEPT !.errors[m] = @ + 1]
    /\ check' = [check EXCEPT ![w][m].pc = "saveFailure",
                              ![w][m].failures = IF Exists(m) THEN monitor[m].failures ELSE 0]
    /\ UNCHANGED <<monitor, due, checks, usage, locks, queue, worker, request>>

\* ...and written one higher; MAX_CONSECUTIVE_FAILURES of them pause it.
PauseEarly(n)  == n >= MAX_CONSECUTIVE_FAILURES - 1               \* mutant
ShouldPause(n) == n >= MAX_CONSECUTIVE_FAILURES
SaveFailure(w, m) ==
    LET n == check[w][m].failures + 1
    IN  /\ At(w, m, "saveFailure") /\ Exists(m)
        /\ monitor' = [monitor EXCEPT ![m].failures = n,
                          ![m].paused = @ \/ ShouldPause(n), ![m].active = @ /\ ~ShouldPause(n)]
        /\ due' = NotDue(m)
        /\ Goto(w, m, "unlock")
        /\ UNCHANGED <<checks, usage, locks, queue, worker, request, tally>>

\* That fails too: processMonitor throws, after its `finally`.
SaveFailureFails(w, m) ==
    /\ At(w, m, "saveFailure") /\ (~Exists(m) \/ MayHappen)
    /\ Goto(w, m, "unlockThrow")
    /\ tally' = IF Exists(m) THEN Marred(m, {"again"}) ELSE tally
    /\ UNCHANGED <<monitor, due, checks, usage, locks, queue, worker, request>>

\* finally: GET the lock; DEL it if the value is ours.
Unlock(w, m) ==
    /\ check[w][m].pc \in {"unlock", "unlockThrow"}
    /\ IF Holds(locks, m, w)
       THEN /\ Goto(w, m, IF At(w, m, "unlock") THEN "delete" ELSE "deleteThrow")
            /\ UNCHANGED <<queue, worker, tally>>
       ELSE EndCheck(w, m, At(w, m, "unlockThrow"))
    /\ UNCHANGED <<monitor, due, checks, usage, locks, request>>

DeleteLock(w, m) ==
    /\ check[w][m].pc \in {"delete", "deleteThrow"}
    /\ locks' = Gone(locks, m)
    /\ EndCheck(w, m, At(w, m, "deleteThrow"))
    /\ UNCHANGED <<monitor, due, checks, usage, request>>

------------------------------------------------------------------------------
\* LOCK_TTL_MS passes: the holder died...
InsideLock(w, m) == check[w][m].pc \notin {"none", "listed", "lock"}
NeverExpires(m) == FALSE                                           \* mutant
HolderGone(m) == \A w \in Workers : locks[m] = w => ~InsideLock(w, m)
LockExpires(m) ==
    /\ ~IsFree(locks, m) /\ HolderGone(m)
    /\ locks' = Gone(locks, m)
    /\ UNCHANGED <<monitor, due, checks, usage, queue, worker, check, request, tally>>

\* ...or takes longer than that.
LockOutlived(m) ==
    /\ ~IsFree(locks, m) /\ ~HolderGone(m) /\ MayHappen
    /\ locks' = Gone(locks, m)
    /\ tally' = Marred(m, {"slow"})
    /\ UNCHANGED <<monitor, due, checks, usage, queue, worker, check, request>>

\* A worker process dies; its job stalls.
WorkerCrash(w) ==
    /\ worker[w].kind # "idle" /\ MayHappen
    /\ worker' = [worker EXCEPT ![w] = IdleWorker]
    /\ check'  = [check EXCEPT ![w] = [m \in Monitors |-> NoCheck]]
    /\ queue'  = IF worker[w].kind = "recheck" THEN Stall(queue, worker[w].id, MaxStalledCount)
                 ELSE queue
    /\ tally'  = [tally EXCEPT !.events = @ + 1, !.asked = AskedAgain(w),
                      !.marred = [m \in Monitors |-> @[m] \cup Loses(w, m)]]
    /\ UNCHANGED <<monitor, due, checks, usage, locks, request>>

------------------------------------------------------------------------------
\* POST /monitoring, first half of its transaction: the cap, and the monitor
\* of this email.
UnderCap == Cardinality({m \in Monitors : Exists(m)}) < MonitorLimit
CheckCap(r, m) ==
    /\ request[r].pc = "idle" /\ MayHappen
    /\ UnderCap /\ ~(Exists(m) /\ Running(m))
    /\ request' = [request EXCEPT ![r] = [pc |-> "write", monitor |-> m, found |-> Exists(m)]]
    /\ tally'   = Marred(m, {})
    /\ UNCHANGED <<monitor, due, checks, usage, locks, queue, worker, check>>

\* Ghost: failures count from the reactivation, unless one of them is being
\* stored meanwhile.
Cleared(m, t) ==
    [t EXCEPT !.errors[m] = IF \E w \in Workers : At(w, m, "saveFailure") THEN @ ELSE 0]
Reactivated(m) ==
    [monitor[m] EXCEPT !.active = TRUE, !.paused = FALSE, !.failures = 0, !.notify = TRUE]

\* Second half: reactivate the one found, or create one; neither if another
\* request was faster.
SaveMonitor(r) ==
    LET m == request[r].monitor
    IN  /\ request[r].pc = "write"
        /\ IF request[r].found = Exists(m)
           THEN /\ monitor' = [monitor EXCEPT ![m] = IF Exists(m) THEN Reactivated(m) ELSE NewMonitor]
                /\ due'     = NotDue(m)
                /\ tally'   = Cleared(m, tally)
           ELSE UNCHANGED <<monitor, due, tally>>
        /\ request' = [request EXCEPT ![r] = [pc |-> "done", monitor |-> "none", found |-> FALSE]]
        /\ UNCHANGED <<checks, usage, locks, queue, worker, check>>

\* PATCH /monitoring/:id, one field of the body at a time.
Patch(m) ==
    /\ Exists(m) /\ MayHappen
    /\ \/ /\ monitor' = [monitor EXCEPT ![m].active = TRUE, ![m].paused = FALSE, ![m].failures = 0]
          /\ due'     = NotDue(m)
          /\ tally'   = Cleared(m, Marred(m, {}))
       \/ /\ monitor' = [monitor EXCEPT ![m].active = FALSE]
          /\ tally'   = Marred(m, {}) /\ UNCHANGED due
       \/ /\ due'     = NotDue(m)
          /\ tally'   = Marred(m, {}) /\ UNCHANGED monitor
       \/ /\ monitor' = [monitor EXCEPT ![m].notify = ~@]
          /\ tally'   = Marred(m, {}) /\ UNCHANGED due
    /\ UNCHANGED <<checks, usage, locks, queue, worker, check, request>>

\* DELETE /monitoring/:id; the foreign key of monitor_checks restricts it.
DeleteMonitor(m) ==
    /\ Exists(m) /\ checks[m] = << >> /\ MayHappen
    /\ monitor' = [monitor EXCEPT ![m] = NoMonitor]
    /\ due'     = NotDue(m)
    /\ tally'   = Marred(m, {})
    /\ UNCHANGED <<checks, usage, locks, queue, worker, check, request>>

\* POST /monitoring/:id/recheck: due now, and a job of its own.
Recheck(m, id) ==
    /\ Exists(m) /\ monitor[m].active /\ ~Has(queue, id) /\ MayHappen
    /\ due'   = DueNow(m)
    /\ queue' = Add(queue, id, [monitor |-> m, attempts |-> 1])
    /\ tally' = [Marred(m, {}) EXCEPT !.asked[m] = @ + (IF IsDue(m) THEN 1 ELSE 2)]
    /\ UNCHANGED <<monitor, checks, usage, locks, worker, check, request>>

------------------------------------------------------------------------------
CheckNext(w, m) ==
    \/ Lock(w, m) \/ SkipLocked(w, m) \/ ReadQuota(w, m) \/ Reschedule(w, m) \/ Verify(w, m)
    \/ Charge(w, m) \/ Record(w, m) \/ Update(w, m) \/ Dispatch(w, m) \/ MarkSent(w, m)
    \/ CheckFails(w, m) \/ SaveFailure(w, m) \/ SaveFailureFails(w, m)
    \/ Unlock(w, m) \/ DeleteLock(w, m)

WorkerNext(w) ==
    \/ StartTick(w) \/ StartChunk(w) \/ EndTick(w)
    \/ \E id \in Rechecks : StartRecheck(w, id)
    \/ \E m \in Monitors : CheckNext(w, m)

OwnerNext ==
    \/ \E r \in Requests : SaveMonitor(r) \/ \E m \in Monitors : CheckCap(r, m)
    \/ \E m \in Monitors : Patch(m) \/ DeleteMonitor(m) \/ \E id \in Rechecks : Recheck(m, id)

Next ==
    \/ \E w \in Workers : WorkerNext(w) \/ WorkerCrash(w)
    \/ \E m \in Monitors : TimePasses(m) \/ LockExpires(m) \/ LockOutlived(m)
    \/ OwnerNext

Spec == Init /\ [][Next]_vars

\* The cron job starts ticks for ever, a started job runs to its end, a lock
\* whose holder died expires.
FairSpec ==
    /\ Spec
    /\ \A w \in Workers : WF_vars(StartTick(w)) /\ WF_vars(StartChunk(w)) /\ WF_vars(EndTick(w))
    /\ \A w \in Workers, m \in Monitors : WF_vars(CheckNext(w, m))
    /\ \A m \in Monitors : WF_vars(LockExpires(m))

------------------------------------------------------------------------------
\* Properties.

CheckPc == {"none", "listed", "lock", "quota", "reschedule", "verify", "charge", "record", "update",
            "dispatch", "mark", "saveFailure", "unlock", "unlockThrow", "delete", "deleteThrow"}

\* A total order of some of the monitors.
IsOrder(order) ==
    /\ order \subseteq Listed(order) \X Listed(order)
    /\ \A k, m \in Listed(order) : <<k, m>> \in order \/ <<m, k>> \in order
    /\ \A k, m \in Listed(order) : <<k, m>> \in order /\ <<m, k>> \in order => k = m
    /\ \A k, m, n \in Listed(order) : <<k, m>> \in order /\ <<m, n>> \in order => <<k, n>> \in order

\* The tables, the jobs and the checks have the shape the code gives them.
TypeOK ==
    /\ monitor \in [Monitors -> [exists : BOOLEAN, active : BOOLEAN, paused : BOOLEAN,
          notify : BOOLEAN, last : Statuses \cup {NoStatus}, failures : Nat]]
    /\ IsOrder(due)
    /\ \A m \in Monitors : \A i \in DOMAIN checks[m] :
          checks[m][i] \in [previous : Statuses \cup {NoStatus}, new : Statuses, notify : BOOLEAN,
                            webhookSent : BOOLEAN, told : Nat]
    /\ usage \in Nat
    /\ locks \in [Monitors -> Workers \cup {Free}]
    /\ DOMAIN queue \subseteq Rechecks
    /\ \A w \in Workers : worker[w].kind \in {"idle", "tick", "recheck"}
                          /\ IsOrder(worker[w].todo)
    /\ check \in [Workers -> [Monitors -> [pc : CheckPc, last : Statuses \cup {NoStatus},
          notify : BOOLEAN, new : Statuses \cup {NoStatus}, row : Nat, failures : Nat]]]

Spared(m, marks) == tally.marred[m] \cap marks = {}

\* "Distributed lock -- prevents double-checking when multiple workers run":
\* two workers never check one monitor at the same time, whoever died holding
\* its lock, unless a check took longer than the lock lasts.
OneAtATime ==
    \A m \in Monitors : \A w, v \in Workers :
        Spared(m, {"slow"}) /\ InsideLock(w, m) /\ InsideLock(v, m) => w = v

\* Every time a monitor becomes due, a recheck is asked for or its job is tried
\* again, each worker checks it, and charges the key, at most once.
AskedFor ==
    \A m \in Monitors, w \in Workers :
        Spared(m, {"again"}) => tally.charged[w][m] <= tally.asked[m]

\* A change that must be notified is, or the check that found it still runs.
ChangesTold ==
    \A m \in Monitors : Spared(m, {"untold"}) => \A i \in DOMAIN checks[m] :
        LET r == checks[m][i]
        IN  r.new # r.previous /\ r.notify =>
                r.told > 0 \/ \E w \in Workers : check[w][m].row = i
                                               /\ check[w][m].pc \in {"update", "dispatch"}

\* Monitors of a key checked in parallel pass the same quota check, and no
\* more than that: the limit is overrun by less than one chunk per worker.
OverrunBounded ==
    usage <= PlanLimit + Cardinality(Workers) * MONITOR_CONCURRENCY - 1

\* The three, and the types: what a monitor's checks charge, and what they tell.
ChecksHold == TypeOK /\ AskedFor /\ ChangesTold /\ OverrunBounded

\* A monitor pauses only after MAX_CONSECUTIVE_FAILURES failures with no
\* success and no reactivation between them.
PausedForCause ==
    [][\A m \in Monitors : Spared(m, {"slow"}) /\ ~monitor[m].paused /\ monitor'[m].paused =>
           tally.errors[m] >= MAX_CONSECUTIVE_FAILURES]_vars

\* A due monitor is checked, rescheduled or paused in the end, though workers
\* die holding its lock and others are in front of it.
DueIsServed ==
    \A m \in Monitors : []<>~(IsDue(m) /\ Running(m))

\* Both: a due monitor is served, and pausing it is no way out of that.
ServedOrPaused == DueIsServed /\ PausedForCause
=============================================================================
