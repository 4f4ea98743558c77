-------------------------- MODULE WebhookDelivery --------------------------
(***************************************************************************)
(* Webhook endpoints and the delivery of events to them:                   *)
(*   lib/webhooks.ts            fans an event out into delivery records    *)
(*   routes/webhooks/index.ts   create, PATCH, DELETE, ping, manual retry, *)
(*                              rotate-secret                              *)
(*   workers/webhookWorker.ts   one job = one POST; retries are new jobs   *)
(*                                                                         *)
(* Every database call is a transaction of its own (withTenant,            *)
(* withRlsBypass), so every `await` between two calls is a point where the *)
(* other processes may run.  A caller is one request handler or one        *)
(* deliverToEndpoint() branch of a dispatch; a worker is one of the slots  *)
(* of the webhook worker processes.                                        *)
(***************************************************************************)
EXTENDS Integers, FiniteSets, Functions, BullMQ

CONSTANTS
    Hooks, Deliveries,          \* the ids the database may give out
    Events,                     \* event occurrences (eventIds) all hooks subscribe to
    Workers, Callers,
    WEBHOOK_MAX_ATTEMPTS,       \* config.ts
    FAILURE_ALERT_THRESHOLD,    \* webhookWorker.ts
    MAX_WEBHOOKS_PER_KEY,       \* routes/webhooks/index.ts
    MaxStalledCount,            \* the worker's maxStalledCount
    Faults,                     \* which failures may happen
    MaxCrashes, MaxDispatches, MaxRetries, MaxEdits   \* bounds of the model

ASSUME ConstantsAssumption ==
    /\ WEBHOOK_MAX_ATTEMPTS \in Nat \ {0}
    /\ FAILURE_ALERT_THRESHOLD \in Nat \ {0}
    /\ {MAX_WEBHOOKS_PER_KEY, MaxStalledCount, MaxCrashes, MaxDispatches,
        MaxRetries, MaxEdits} \subseteq Nat
    /\ Faults \subseteq {"worker_crash", "lock_lost", "handler_error", "caller_error"}

None == "none"
Ping == "ping"                  \* the event of POST /webhooks/:id/ping
ASSUME NoneAssumption == None \notin Hooks /\ None \notin Deliveries /\ {None, Ping} \cap Events = {}

VARIABLES
    hook,        \* the webhooks table
    delivery,    \* the webhook_deliveries table
    attempts,    \* the webhook_attempts table: rows per delivery and outcome
    queue,       \* the BullMQ queue continuum:webhooks
    worker,      \* what each worker slot is doing
    caller,      \* what each request or dispatch branch is doing
    alert,       \* failure alerts being sent, and sent in this streak
    tally        \* ghosts and bounds: dispatches, manual retries, edits, crashes

vars == <<hook, delivery, attempts, queue, worker, caller, alert, tally>>

------------------------------------------------------------------------------
\* Jobs: `webhook-<d>-<n>`, `webhook-<d>-retry-<n>` and `ping-<d>`.
JobIds == Deliveries \X {"auto", "retry", "ping"} \X (Nat \ {0})
NoJob  == <<None, "auto", 0>>
HookOf(job) == delivery[job[1]].hook

NoHook     == [row |-> "none", active |-> FALSE, secret |-> 0, succeeded |-> 0,
               failed |-> 0, streak |-> 0, alertSent |-> "never"]
NoDelivery == [row |-> "none", hook |-> None, event |-> None, attempts |-> 0,
               maxAttempts |-> 0, delivered |-> FALSE, failedPermanently |-> FALSE]
IdleWorker == [pc |-> "idle", job |-> NoJob, attempts |-> 0, maxAttempts |-> 0, ok |-> FALSE]
IdleCaller == [pc |-> "idle", hook |-> None, event |-> None, secret |-> 0,
               maxAttempts |-> 0, job |-> NoJob]

LiveHook(h) == hook[h].row = "live"
LiveRow(d)  == delivery[d].row = "live"
Settled(d)  == delivery[d].delivered \/ delivery[d].failedPermanently

Init ==
    /\ hook     = [h \in Hooks |-> NoHook]
    /\ delivery = [d \in Deliveries |-> NoDelivery]
    /\ attempts = [d \in Deliveries |-> [ok |-> 0, failed |-> 0]]
    /\ queue    = EmptyQueue
    /\ worker   = [w \in Workers |-> IdleWorker]
    /\ caller   = [c \in Callers |-> IdleCaller]
    /\ alert    = [h \in Hooks |-> [mailing |-> 0, recording |-> 0, mailed |-> 0]]
    /\ tally    = [dispatched |-> [e \in Events |-> 0],
                   reopened   |-> [d \in Deliveries |-> 0],
                   edits |-> 0, crashes |-> 0]

------------------------------------------------------------------------------
\* The rest of the request: caller c goes on with r, or is done.
Continue(c, r) == caller' = [caller EXCEPT ![c] = r]
Done(c)        == Continue(c, IdleCaller)

\* The pool of delivery ids is finite: requests that need one stop coming
\* when it might run out.
Reserved == {c \in Callers : caller[c].pc \in {"check", "create"}}
Room(n)  == Cardinality({d \in Deliveries : delivery[d].row = "none"}) >= Cardinality(Reserved) + n

\* POST /webhooks counts the active endpoints of the key...
CountHooks(c) ==
    /\ caller[c].pc = "idle"
    /\ \E h \in Hooks : hook[h].row = "none"
    /\ Cardinality({h \in Hooks : LiveHook(h) /\ hook[h].active}) < MAX_WEBHOOKS_PER_KEY
    /\ Continue(c, [IdleCaller EXCEPT !.pc = "newHook"])
    /\ UNCHANGED <<hook, delivery, attempts, queue, worker, alert, tally>>

\* ...and creates the new one.
CreateHook(c) ==
    /\ caller[c].pc = "newHook"
    /\ \E h \in Hooks :
          /\ hook[h].row = "none"
          /\ hook' = [hook EXCEPT ![h] = [NoHook EXCEPT !.row = "live", !.active = TRUE]]
    /\ Done(c)
    /\ UNCHANGED <<delivery, attempts, queue, worker, alert, tally>>

\* PATCH /webhooks/:id with isActive.
SetActive(h) ==
    /\ LiveHook(h)
    /\ tally.edits < MaxEdits
    /\ hook'  = [hook EXCEPT ![h].active = ~@]
    /\ tally' = [tally EXCEPT !.edits = @ + 1]
    /\ UNCHANGED <<delivery, attempts, queue, worker, caller, alert>>

\* POST /webhooks/:id/rotate-secret.
RotateSecret(h) ==
    /\ LiveHook(h) /\ hook[h].active
    /\ tally.edits < MaxEdits
    /\ hook'  = [hook EXCEPT ![h].secret = @ + 1]
    /\ tally' = [tally EXCEPT !.edits = @ + 1]
    /\ UNCHANGED <<delivery, attempts, queue, worker, caller, alert>>

\* DELETE /webhooks/:id removes the deliveries (their attempt rows cascade)...
DeleteDeliveries(c, h) ==
    /\ caller[c].pc = "idle" /\ LiveHook(h)
    /\ LET gone == {d \in Deliveries : LiveRow(d) /\ delivery[d].hook = h}
       IN  /\ delivery' = [d \in Deliveries |->
                             IF d \in gone THEN [delivery[d] EXCEPT !.row = "deleted"] ELSE delivery[d]]
           /\ attempts' = [d \in Deliveries |->
                             IF d \in gone THEN [ok |-> 0, failed |-> 0] ELSE attempts[d]]
    /\ Continue(c, [IdleCaller EXCEPT !.pc = "dropHook", !.hook = h])
    /\ UNCHANGED <<hook, queue, worker, alert, tally>>

\* ...then the endpoint: refused by the foreign key when a delivery was
\* created in between, and an error when it is already gone.
DropHook(c) ==
    /\ caller[c].pc = "dropHook"
    /\ LET h == caller[c].hook
           refused == \E d \in Deliveries : LiveRow(d) /\ delivery[d].hook = h
       IN  hook' = IF refused THEN hook ELSE [hook EXCEPT ![h].row = "deleted"]
    /\ Done(c)
    /\ UNCHANGED <<delivery, attempts, queue, worker, alert, tally>>

------------------------------------------------------------------------------
\* dispatchWebhook: one branch for every active endpoint, each with the
\* secret read here.
Dispatch(e) ==
    LET targets == {h \in Hooks : LiveHook(h) /\ hook[h].active}
        free    == {c \in Callers : caller[c].pc = "idle"}
    IN  /\ tally.dispatched[e] < MaxDispatches
        /\ targets # {}
        /\ Room(Cardinality(targets))
        /\ \E branch \in Injection(targets, free) :
              caller' = [c \in Callers |->
                  IF \E h \in targets : branch[h] = c
                  THEN LET h == CHOOSE h \in targets : branch[h] = c
                       IN  [pc |-> "check", hook |-> h, event |-> e, secret |-> hook[h].secret,
                            maxAttempts |-> WEBHOOK_MAX_ATTEMPTS, job |-> NoJob]
                  ELSE caller[c]]
        /\ tally' = [tally EXCEPT !.dispatched[e] = @ + 1]
        /\ UNCHANGED <<hook, delivery, attempts, queue, worker, alert>>

\* deliverToEndpoint: skip when a delivery of this event to this hook exists.
DeliveryExists(h, e) == \E d \in Deliveries : LiveRow(d) /\ delivery[d].hook = h /\ delivery[d].event = e
CheckDuplicate(c) ==
    /\ caller[c].pc = "check"
    /\ IF DeliveryExists(caller[c].hook, caller[c].event)
       THEN Done(c)
       ELSE Continue(c, [caller[c] EXCEPT !.pc = "create"])
    /\ UNCHANGED <<hook, delivery, attempts, queue, worker, alert, tally>>

\* POST /webhooks/:id/ping: one attempt, no duplicate check.
PingHook(c, h) ==
    /\ caller[c].pc = "idle"
    /\ LiveHook(h) /\ hook[h].active
    /\ Room(1)
    /\ Continue(c, [pc |-> "create", hook |-> h, event |-> Ping, secret |-> hook[h].secret,
                    maxAttempts |-> 1, job |-> NoJob])
    /\ UNCHANGED <<hook, delivery, attempts, queue, worker, alert, tally>>

\* webhookDelivery.create; the foreign key refuses it when the hook is gone.
CreateDelivery(c) ==
    /\ caller[c].pc = "create"
    /\ LET k == caller[c]
       IN  IF LiveHook(k.hook)
           THEN \E d \in Deliveries :
                   /\ delivery[d].row = "none"
                   /\ delivery' = [delivery EXCEPT ![d] =
                         [NoDelivery EXCEPT !.row = "live", !.hook = k.hook, !.event = k.event,
                                            !.maxAttempts = k.maxAttempts]]
                   /\ Continue(c, [k EXCEPT !.pc = "enqueue",
                         !.job = <<d, IF k.event = Ping THEN "ping" ELSE "auto", 1>>])
           ELSE Done(c) /\ UNCHANGED delivery
    /\ UNCHANGED <<hook, attempts, queue, worker, alert, tally>>

\* webhookQueue.add of a first attempt, a ping or a manual retry.
Enqueue(c) ==
    /\ caller[c].pc = "enqueue"
    /\ queue' = Add(queue, caller[c].job, caller[c].secret)
    /\ Done(c)
    /\ UNCHANGED <<hook, delivery, attempts, worker, alert, tally>>

\* POST .../deliveries/:deliveryId/retry reads the hook and the delivery...
RetrySameJob(d) == <<d, "retry", delivery[d].attempts>>                      \* mutant
RetryJob(d)     == <<d, "retry", delivery[d].attempts + 1>>
ReadForRetry(c, d) ==
    /\ caller[c].pc = "idle"
    /\ LiveRow(d) /\ hook[delivery[d].hook].active /\ ~delivery[d].delivered
    /\ tally.reopened[d] + Cardinality({k \in Callers : /\ caller[k].pc = "reset"
                                                        /\ caller[k].job[1] = d}) < MaxRetries
    /\ Continue(c, [IdleCaller EXCEPT !.pc = "reset", !.hook = delivery[d].hook,
                       !.secret = hook[delivery[d].hook].secret,
                       !.job = RetryJob(d)])
    /\ UNCHANGED <<hook, delivery, attempts, queue, worker, alert, tally>>

\* ...and clears failedPermanently (an error when the row is gone).
Restarted(r) == [r EXCEPT !.failedPermanently = FALSE, !.delivered = FALSE]  \* mutant
Reopened(r)  == [r EXCEPT !.failedPermanently = FALSE]
ResetForRetry(c) ==
    /\ caller[c].pc = "reset"
    /\ LET d == caller[c].job[1]
       IN  IF LiveRow(d)
           THEN /\ delivery' = [delivery EXCEPT ![d] = Reopened(@)]
                /\ tally' = [tally EXCEPT !.reopened[d] = @ + 1]
                /\ Continue(c, [caller[c] EXCEPT !.pc = "enqueue"])
           ELSE Done(c) /\ UNCHANGED <<delivery, tally>>
    /\ UNCHANGED <<hook, attempts, queue, worker, alert>>

\* The API process dies, or a database or Redis call of the handler fails:
\* the error is logged (dispatch) or answered (requests), and nothing is undone.
CallerFails(c) ==
    /\ "caller_error" \in Faults
    /\ caller[c].pc # "idle"
    /\ Done(c)
    /\ UNCHANGED <<hook, delivery, attempts, queue, worker, alert, tally>>

------------------------------------------------------------------------------
Step(w, pc) == worker' = [worker EXCEPT ![w].pc = pc]

\* The handler returns or throws, and BullMQ closes the job.
EndJob(w, outcome) ==
    /\ worker' = [worker EXCEPT ![w] = IdleWorker]
    /\ queue'  = Finish(queue, worker[w].job, w, outcome)

\* The idempotency guard: missing, delivered or permanently failed.
ShouldSkip(id)   == ~LiveRow(id[1]) \/ Settled(id[1])

TakenAndRetried(id, w) ==   \* mutant: schedules the retry before the attempt
    Add(Take(queue, id, w), <<id[1], "auto", delivery[id[1]].attempts + 2>>, queue[id].data)
Taken(id, w) == Take(queue, id, w)

\* Take a job and load its delivery record.
LoadDelivery(w) ==
    /\ worker[w].pc = "idle"
    /\ \E id \in DOMAIN queue :
          /\ Waiting(queue, id) /\ ~ShouldSkip(id)
          /\ queue'  = Taken(id, w)
          /\ worker' = [worker EXCEPT ![w] =
                [pc |-> "post", job |-> id, attempts |-> delivery[id[1]].attempts,
                 maxAttempts |-> delivery[id[1]].maxAttempts, ok |-> FALSE]]
    /\ UNCHANGED <<hook, delivery, attempts, caller, alert, tally>>

\* Take a job for which there is nothing left to do.
SkipDelivery(w) ==
    /\ worker[w].pc = "idle"
    /\ \E id \in DOMAIN queue :
          /\ Waiting(queue, id) /\ ShouldSkip(id)
          /\ queue' = Finish(Take(queue, id, w), id, w, "completed")
    /\ UNCHANGED <<hook, delivery, attempts, worker, caller, alert, tally>>

\* The POST, signed with the secret in the job: 2xx or not.  Its body is read
\* after the abort timer is cleared, so it may take any time.
Post(w) ==
    /\ worker[w].pc = "post"
    /\ \E success \in BOOLEAN :
          worker' = [worker EXCEPT ![w].pc = "log", ![w].ok = success]
    /\ UNCHANGED <<hook, delivery, attempts, queue, caller, alert, tally>>

\* webhookAttempt.create
AttemptRow(n, ok)  == IF ok THEN [n EXCEPT !.ok = @ + 1] ELSE [n EXCEPT !.failed = @ + 1]
LogAttempt(w) ==
    LET d == worker[w].job[1]
    IN  /\ worker[w].pc = "log" /\ LiveRow(d)
        /\ attempts' = [attempts EXCEPT ![d] = AttemptRow(@, worker[w].ok)]
        /\ Step(w, "save")
        /\ UNCHANGED <<hook, delivery, queue, caller, alert, tally>>

NewAttemptCount(w) == worker[w].attempts + 1
ExhaustedEarly(w)  == NewAttemptCount(w) + 1 >= worker[w].maxAttempts   \* mutant
ExhaustedOnce(w)   == NewAttemptCount(w) = worker[w].maxAttempts        \* mutant
Exhausted(w)       == NewAttemptCount(w) >= worker[w].maxAttempts

\* webhookDelivery.update after a 2xx...
SaveDelivered(w) ==
    LET d == worker[w].job[1]
    IN  /\ worker[w].pc = "save" /\ LiveRow(d) /\ worker[w].ok
        /\ delivery' = [delivery EXCEPT ![d].delivered = TRUE, ![d].attempts = NewAttemptCount(w)]
        /\ Step(w, "stats")
        /\ UNCHANGED <<hook, attempts, queue, caller, alert, tally>>

\* ...and after a failure: delivered is left alone.
FailedForNow(w, r)  == [r EXCEPT !.attempts = NewAttemptCount(w)]                        \* mutant
FailedAttempt(w, r) == [r EXCEPT !.attempts = NewAttemptCount(w),
                                 !.failedPermanently = Exhausted(w)]
SaveFailed(w) ==
    LET d == worker[w].job[1]
    IN  /\ worker[w].pc = "save" /\ LiveRow(d) /\ ~worker[w].ok
        /\ delivery' = [delivery EXCEPT ![d] = FailedAttempt(w, @)]
        /\ Step(w, "stats")
        /\ UNCHANGED <<hook, attempts, queue, caller, alert, tally>>

\* webhook.update after a success: the streak is over, the job is done.
RecordSuccess(w) ==
    LET h == HookOf(worker[w].job)
    IN  /\ worker[w].pc = "stats" /\ worker[w].ok /\ LiveHook(h)
        /\ hook'  = [hook EXCEPT ![h].succeeded = @ + 1, ![h].streak = 0, ![h].alertSent = "never"]
        /\ alert' = [alert EXCEPT ![h].mailed = 0]
        /\ EndJob(w, "completed")
        /\ UNCHANGED <<delivery, attempts, caller, tally>>

\* webhook.update after a failed attempt: only the last one counts.
CountFailure(r, exhausted) == IF exhausted THEN [r EXCEPT !.failed = @ + 1, !.streak = @ + 1] ELSE r

\* There are attempts left...
RecordAttempt(w) ==
    LET h == HookOf(worker[w].job)
    IN  /\ worker[w].pc = "stats" /\ ~worker[w].ok /\ ~Exhausted(w) /\ LiveHook(h)
        /\ hook' = [hook EXCEPT ![h] = CountFailure(@, FALSE)]
        /\ Step(w, "retry")
        /\ UNCHANGED <<delivery, attempts, queue, caller, alert, tally>>

\* consecutiveFailures as just incremented, and the cooldown.
AlertDueLate(h) == hook[h].streak >= FAILURE_ALERT_THRESHOLD /\ hook[h].alertSent # "recently"  \* mutant
AlertDue(h) == hook[h].streak + 1 >= FAILURE_ALERT_THRESHOLD /\ hook[h].alertSent # "recently"

\* ...or that was the last, which may set off an alert (not awaited).
RecordFailure(w) ==
    LET h == HookOf(worker[w].job)
    IN  /\ worker[w].pc = "stats" /\ ~worker[w].ok /\ Exhausted(w) /\ LiveHook(h)
        /\ hook'  = [hook EXCEPT ![h] = CountFailure(@, TRUE)]
        /\ alert' = IF AlertDue(h)
                    THEN [alert EXCEPT ![h].mailing = @ + 1]
                    ELSE alert
        /\ EndJob(w, "completed")
        /\ UNCHANGED <<delivery, attempts, caller, tally>>

\* The next attempt is a job of its own, numbered from the record.
SameJob(w) == <<worker[w].job[1], "auto", NewAttemptCount(w)>>               \* mutant
NextJob(w) == <<worker[w].job[1], "auto", NewAttemptCount(w) + 1>>
EnqueueRetry(w) ==
    LET job == worker[w].job
    IN  /\ worker[w].pc = "retry"
        /\ worker' = [worker EXCEPT ![w] = IdleWorker]
        /\ queue'  = Finish(Add(queue, NextJob(w), queue[job].data), job, w, "completed")
        /\ UNCHANGED <<hook, delivery, attempts, caller, alert, tally>>

\* A call of the handler throws: the row it writes is gone, or the database
\* or Redis is away.  The queue has attempts: 1, so the job is not run again.
HandlerThrows(w) ==
    LET job == worker[w].job
    IN  /\ \/ worker[w].pc \in {"log", "save"} /\ ~LiveRow(job[1])
           \/ worker[w].pc = "stats" /\ ~LiveHook(HookOf(job))
           \/ worker[w].pc \in {"log", "save", "stats", "retry"} /\ "handler_error" \in Faults
        /\ EndJob(w, "failed")
        /\ UNCHANGED <<hook, delivery, attempts, caller, alert, tally>>

\* A worker process dies; the alerts it was sending may be its own.
WorkerCrash(w) ==
    /\ "worker_crash" \in Faults
    /\ worker[w].pc # "idle"
    /\ tally.crashes < MaxCrashes
    /\ worker' = [worker EXCEPT ![w] = IdleWorker]
    /\ \/ UNCHANGED alert
       \/ alert' = [h \in Hooks |-> [alert[h] EXCEPT !.mailing = 0, !.recording = 0]]
    /\ tally' = [tally EXCEPT !.crashes = @ + 1]
    /\ UNCHANGED <<hook, delivery, attempts, queue, caller>>

\* The stalled-job check finds a job whose holder is gone, or has not renewed
\* its lock in time and is still at work.
JobStalls(id) ==
    /\ Active(queue, id)
    /\ "lock_lost" \in Faults \/ worker[queue[id].holder].job # id
    /\ queue' = Stall(queue, id, MaxStalledCount)
    /\ UNCHANGED <<hook, delivery, attempts, worker, caller, alert, tally>>

------------------------------------------------------------------------------
\* sendWebhookFailureAlert: the mail goes out...
MailAlert(h) ==
    /\ alert[h].mailing > 0
    /\ alert' = [alert EXCEPT ![h].mailing = @ - 1, ![h].recording = @ + 1, ![h].mailed = @ + 1]
    /\ UNCHANGED <<hook, delivery, attempts, queue, worker, caller, tally>>

\* ...and then failureAlertSentAt is set (unless the hook is gone).
RecordAlert(h) ==
    /\ alert[h].recording > 0
    /\ alert' = [alert EXCEPT ![h].recording = @ - 1]
    /\ hook'  = IF LiveHook(h) THEN [hook EXCEPT ![h].alertSent = "recently"] ELSE hook
    /\ UNCHANGED <<delivery, attempts, queue, worker, caller, tally>>

\* FAILURE_ALERT_COOLDOWN_MS (24 h) passes, long after any mail is out.
CooldownElapses(h) ==
    /\ hook[h].alertSent = "recently"
    /\ alert[h].mailing = 0 /\ alert[h].recording = 0
    /\ hook'  = [hook EXCEPT ![h].alertSent = "long ago"]
    /\ alert' = [alert EXCEPT ![h].mailed = 0]
    /\ UNCHANGED <<delivery, attempts, queue, worker, caller, tally>>

------------------------------------------------------------------------------
CallerNext(c) ==
    \/ CountHooks(c) \/ CreateHook(c) \/ DropHook(c)
    \/ CheckDuplicate(c) \/ CreateDelivery(c) \/ Enqueue(c) \/ ResetForRetry(c) \/ CallerFails(c)
    \/ \E h \in Hooks : DeleteDeliveries(c, h) \/ PingHook(c, h)
    \/ \E d \in Deliveries : ReadForRetry(c, d)

\* What a request or a dispatch does once it has begun.
CallerProceeds(c) ==
    CreateHook(c) \/ DropHook(c) \/ CheckDuplicate(c) \/ CreateDelivery(c)
    \/ Enqueue(c) \/ ResetForRetry(c)

WorkerProceeds(w) ==
    \/ LoadDelivery(w) \/ SkipDelivery(w) \/ Post(w) \/ LogAttempt(w)
    \/ SaveDelivered(w) \/ SaveFailed(w) \/ RecordSuccess(w) \/ RecordAttempt(w)
    \/ RecordFailure(w) \/ EnqueueRetry(w)

HookNext(h) ==
    SetActive(h) \/ RotateSecret(h) \/ MailAlert(h) \/ RecordAlert(h) \/ CooldownElapses(h)

Next ==
    \/ \E c \in Callers : CallerNext(c)
    \/ \E e \in Events  : Dispatch(e)
    \/ \E w \in Workers : WorkerProceeds(w) \/ HandlerThrows(w) \/ WorkerCrash(w)
    \/ \E id \in DOMAIN queue : JobStalls(id)
    \/ \E h \in Hooks : HookNext(h)

Spec == Init /\ [][Next]_vars

\* Node runs every pending continuation, BullMQ hands a waiting job to a free
\* slot and its stalled check runs every minute.
Fairness ==
    /\ \A c \in Callers : WF_vars(CallerProceeds(c))
    /\ \A w \in Workers : WF_vars(WorkerProceeds(w) \/ HandlerThrows(w))
    /\ WF_vars(\E id \in DOMAIN queue : JobStalls(id))

FairSpec == Spec /\ Fairness

------------------------------------------------------------------------------
\* Properties.

HookType     == [row : {"none", "live", "deleted"}, active : BOOLEAN, secret : Nat,
                 succeeded : Nat, failed : Nat, streak : Nat,
                 alertSent : {"never", "recently", "long ago"}]
DeliveryType == [row : {"none", "live", "deleted"}, hook : Hooks \cup {None},
                 event : Events \cup {None, Ping}, attempts : Nat, maxAttempts : Nat,
                 delivered : BOOLEAN, failedPermanently : BOOLEAN]
AttemptsType == [ok : Nat, failed : Nat]
JobType      == [state : {"waiting", "active", "completed", "failed"}, stalls : Nat,
                 holder : Workers \cup {"nobody"}, data : Nat]
WorkerType   == [pc : {"idle", "post", "log", "save", "stats", "retry"},
                 job : JobIds \cup {NoJob}, attempts : Nat, maxAttempts : Nat, ok : BOOLEAN]
CallerType   == [pc : {"idle", "newHook", "dropHook", "check", "create", "enqueue", "reset"},
                 hook : Hooks \cup {None}, event : Events \cup {None, Ping}, secret : Nat,
                 maxAttempts : Nat, job : JobIds \cup {NoJob}]
AlertType    == [mailing : Nat, recording : Nat, mailed : Nat]
TallyType    == [dispatched : [Events -> Nat], reopened : [Deliveries -> Nat],
                 edits : Nat, crashes : Nat]

QueueOK(q) == DOMAIN q \subseteq JobIds /\ q \in [DOMAIN q -> JobType]

\* Every table, job and handler has the shape the code gives it.
TypeOK ==
    /\ hook     \in [Hooks -> HookType]
    /\ delivery \in [Deliveries -> DeliveryType]
    /\ attempts \in [Deliveries -> AttemptsType]
    /\ QueueOK(queue)
    /\ worker   \in [Workers -> WorkerType]
    /\ caller   \in [Callers -> CallerType]
    /\ alert    \in [Hooks -> AlertType]
    /\ tally    \in TallyType

\* The attempt counter of an undelivered delivery never claims an attempt
\* that is not in its log: the worker writes the row before the counter, and
\* a counter computed from a stale read is never ahead.
AttemptsBacked ==
    \A d \in Deliveries :
        LiveRow(d) /\ ~delivery[d].delivered => delivery[d].attempts <= attempts[d].failed

\* A delivery is given up only after maxAttempts failed POSTs, and called
\* delivered only after a 2xx, whatever crashed, stalled or ran twice.
OutcomeIsEarned ==
    \A d \in Deliveries : LiveRow(d) =>
        /\ delivery[d].delivered => attempts[d].ok >= 1
        /\ delivery[d].failedPermanently /\ ~delivery[d].delivered
              => attempts[d].failed >= delivery[d].maxAttempts

\* The counter goes past maxAttempts only by manual retries, one each:
\* processWebhookDelivery never schedules an attempt the budget excludes.
RetryBudget ==
    \A d \in Deliveries : LiveRow(d) =>
        delivery[d].attempts <= delivery[d].maxAttempts + tally.reopened[d]

\* Without failures and manual retries the jobs of a delivery form one chain:
\* a retry is in the queue only when the attempt before it is over, and the
\* endpoint is sent at most one POST that it accepts.
LiveJobs(d) == {id \in DOMAIN queue : id[1] = d /\ Live(queue, id)}
SingleChain ==
    \A d \in Deliveries :
        /\ Cardinality(LiveJobs(d)) <= 1
        /\ attempts[d].ok <= 1
        /\ LiveRow(d) => ~(delivery[d].delivered /\ delivery[d].failedPermanently)

\* A delivery that is neither delivered nor given up is on its way: it has a
\* job, or a request is about to enqueue one.
NeverStranded ==
    \A d \in Deliveries : LiveRow(d) /\ ~Settled(d) =>
        \/ LiveJobs(d) # {}
        \/ \E c \in Callers : caller[c].pc = "enqueue" /\ caller[c].job[1] = d

\* Both: a delivery that is not settled is on its way, and on one way only.
OneWay == SingleChain /\ NeverStranded

\* A streak of FAILURE_ALERT_THRESHOLD failures is never silent: an alert was
\* sent in the last day or is on its way.
StreakIsAlerted ==
    \A h \in Hooks : LiveHook(h) /\ hook[h].streak >= FAILURE_ALERT_THRESHOLD =>
        hook[h].alertSent # "never" \/ alert[h].mailing + alert[h].recording > 0

\* Every delivery is eventually delivered, given up or deleted: retries do
\* not stop half-way ("deliveries will eventually be marked as permanently
\* failed").
Settles == \A d \in Deliveries : []<>(Settled(d) \/ ~LiveRow(d))

\* The three tables, seen as the ledger of DeliveryLedger.
Outcome == [d \in Deliveries |->
    CASE delivery[d].row = "none"    -> "none"
      [] delivery[d].row = "deleted" -> "removed"
      [] OTHER -> IF delivery[d].delivered THEN "delivered"
                  ELSE IF delivery[d].failedPermanently THEN "failed" ELSE "pending"]
Quota   == [d \in Deliveries |-> delivery[d].maxAttempts]
Ledger  == INSTANCE DeliveryLedger WITH Quotas <- {1, WEBHOOK_MAX_ATTEMPTS},
              outcome <- Outcome, quota <- Quota, tried <- attempts

\* Workers, retries, crashes and deletions implement the ledger.
ImplementsLedger == Ledger!LedgerSpec
=============================================================================
