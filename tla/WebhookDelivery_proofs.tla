----------------------- MODULE WebhookDelivery_proofs -----------------------
(***************************************************************************)
(* Proofs about WebhookDelivery, for any number of endpoints, deliveries,  *)
(* workers and callers, any limits and any set of faults.                  *)
(***************************************************************************)
EXTENDS WebhookDelivery, FiniteSetTheorems, TLAPS

------------------------------------------------------------------------------
\* The queue.

\* Adding a job keeps the queue well formed.
LEMMA AddOK ==
    ASSUME NEW q, QueueOK(q), NEW id \in JobIds, NEW data \in Nat
    PROVE  /\ QueueOK(Add(q, id, data)) /\ DOMAIN Add(q, id, data) = DOMAIN q \cup {id}
<1> DEFINE new == [state |-> "waiting", stalls |-> 0, holder |-> "nobody", data |-> data]
           D == DOMAIN q \cup {id}
           r == [i \in D |-> IF i = id THEN new ELSE q[i]]
<1>1. CASE Has(q, id) BY <1>1 DEF Add, Has, QueueOK
<1>2. CASE ~Has(q, id)
  <2>1. Add(q, id, data) = r BY <1>2 DEF Add
  <2>2. new \in JobType BY DEF JobType
  <2>3. r \in [D -> JobType] /\ DOMAIN r = D BY <2>2 DEF QueueOK
  <2> HIDE DEF r
  <2>. QED BY <2>1, <2>3 DEF QueueOK
<1>. QED BY <1>1, <1>2

\* So does taking one.
LEMMA TakeOK ==
    ASSUME NEW q, QueueOK(q), NEW id \in DOMAIN q, NEW w \in Workers
    PROVE  QueueOK(Take(q, id, w)) /\ DOMAIN Take(q, id, w) = DOMAIN q
<1> DEFINE D == DOMAIN q
<1>1. q \in [D -> JobType] /\ D \subseteq JobIds BY DEF QueueOK
<1> HIDE DEF D
<1>2. id \in D BY DEF D
<1>3. Take(q, id, w) \in [D -> JobType] BY <1>1, <1>2 DEF Take, JobType
<1>. QED BY <1>1, <1>3 DEF QueueOK, D

\* So does closing one.
LEMMA FinishOK ==
    ASSUME NEW q, QueueOK(q), NEW id, NEW w, NEW outcome \in {"completed", "failed"}
    PROVE  QueueOK(Finish(q, id, w, outcome)) /\ DOMAIN Finish(q, id, w, outcome) = DOMAIN q
<1> DEFINE D == DOMAIN q
<1>1. q \in [D -> JobType] /\ D \subseteq JobIds BY DEF QueueOK
<1>2. Active(q, id) => id \in D BY DEF Active, Has
<1> HIDE DEF D
<1>3. Finish(q, id, w, outcome) \in [D -> JobType] BY <1>1, <1>2 DEF Finish, JobType
<1>. QED BY <1>1, <1>3 DEF QueueOK, D

\* And so does a stall.
LEMMA StallOK ==
    ASSUME NEW q, QueueOK(q), NEW id \in DOMAIN q, NEW n
    PROVE  QueueOK(Stall(q, id, n)) /\ DOMAIN Stall(q, id, n) = DOMAIN q
<1> DEFINE D == DOMAIN q
<1>1. q \in [D -> JobType] /\ D \subseteq JobIds BY DEF QueueOK
<1> HIDE DEF D
<1>2. id \in D BY DEF D
<1> DEFINE next == IF q[id].state = "active" /\ q[id].stalls < n THEN "waiting" ELSE "failed"
<1>3. Stall(q, id, n) = [q EXCEPT ![id].state = next, ![id].stalls = q[id].stalls + 1, ![id].holder = "nobody"]
  BY DEF Stall
<1>4. next \in {"waiting", "failed"} OBVIOUS
<1> HIDE DEF next
<1>5. q[id].stalls + 1 \in Nat BY <1>1, <1>2 DEF JobType
<1>6. Stall(q, id, n) \in [D -> JobType] BY <1>1, <1>2, <1>3, <1>4, <1>5 DEF JobType
<1>. QED BY <1>1, <1>6 DEF QueueOK, D

------------------------------------------------------------------------------
\* The inductive invariant.

\* A delivery that has a job exists.
JobsInv == \A id \in DOMAIN queue : delivery[id[1]].row # "none"

\* The three safety properties, and what they need: a delivery that is not
\* settled has an attempt left in its budget.
DeliveryInv(d) ==
    /\ delivery[d].row # "none" => delivery[d].hook \in Hooks /\ delivery[d].maxAttempts >= 1
    /\ LiveRow(d) =>
          /\ delivery[d].attempts <= delivery[d].maxAttempts + tally.reopened[d]
          /\ ~Settled(d) => delivery[d].attempts < delivery[d].maxAttempts + tally.reopened[d]
          /\ ~delivery[d].delivered => delivery[d].attempts <= attempts[d].failed
          /\ delivery[d].delivered => attempts[d].ok >= 1
          /\ delivery[d].failedPermanently /\ ~delivery[d].delivered
                => attempts[d].failed >= delivery[d].maxAttempts

\* What a worker read is no longer true, but it is still behind the log and
\* within the budget.
WorkerInv(w) ==
    LET d == worker[w].job[1]
    IN  worker[w].pc # "idle" =>
          /\ worker[w].job \in DOMAIN queue /\ worker[w].maxAttempts = delivery[d].maxAttempts
          /\ worker[w].pc \in {"post", "log", "save"} /\ LiveRow(d) =>
                worker[w].attempts < delivery[d].maxAttempts + tally.reopened[d]
          /\ worker[w].pc \in {"post", "log"} /\ LiveRow(d) =>
                worker[w].attempts <= attempts[d].failed
          /\ worker[w].pc = "save" /\ LiveRow(d) =>
                IF worker[w].ok THEN attempts[d].ok >= 1
                                ELSE worker[w].attempts + 1 <= attempts[d].failed

\* What a request or dispatch branch holds is fit for the tables.
Fit(r) ==
    /\ r.pc \in {"check", "create"} => 
          r.hook \in Hooks /\ r.maxAttempts \in {1, WEBHOOK_MAX_ATTEMPTS}
    /\ r.pc = "dropHook" => r.hook \in Hooks
    /\ r.pc \in {"enqueue", "reset"} => r.job \in JobIds /\ delivery[r.job[1]].row # "none"
CallerInv(c) == Fit(caller[c])

IInv ==
    /\ TypeOK /\ JobsInv
    /\ \A d \in Deliveries : DeliveryInv(d)
    /\ \A w \in Workers : WorkerInv(w)
    /\ \A c \in Callers : CallerInv(c)

\* The parts of a job id.
LEMMA JobParts ==
    /\ \A id \in JobIds : id[1] \in Deliveries
    /\ \A d \in Deliveries, k \in {"auto", "retry", "ping"}, n \in Nat \ {0} :
          <<d, k, n>> \in JobIds /\ <<d, k, n>>[1] = d
BY DEF JobIds

\* The initial states satisfy it.
LEMMA InitIInv == Init => IInv
<1> SUFFICES ASSUME Init PROVE IInv OBVIOUS
<1> USE DEF Init
<1>1. DOMAIN queue = {} /\ QueueOK(queue) BY DEF EmptyQueue, QueueOK
<1>2. TypeOK
  BY <1>1 DEF TypeOK, HookType, DeliveryType, AttemptsType, WorkerType, CallerType, AlertType, TallyType,
               NoHook, NoDelivery, IdleWorker, IdleCaller
<1>3. JobsInv BY <1>1 DEF JobsInv
<1>. QED
  BY <1>2, <1>3 DEF IInv, DeliveryInv, WorkerInv, CallerInv, Fit, LiveRow, NoDelivery, IdleWorker, IdleCaller

\* The types, one by one.
LEMMA Types ==
    ASSUME IInv
    PROVE  /\ hook \in [Hooks -> HookType] /\ delivery \in [Deliveries -> DeliveryType]
           /\ attempts \in [Deliveries -> AttemptsType] /\ QueueOK(queue)
           /\ worker \in [Workers -> WorkerType] /\ caller \in [Callers -> CallerType]
           /\ alert \in [Hooks -> AlertType] /\ tally \in TallyType
BY DEF IInv, TypeOK

------------------------------------------------------------------------------
\* Requests and alerts that leave deliveries, attempts, jobs and workers
\* alone keep what is said of them.
LEMMA Frame ==
    ASSUME IInv, UNCHANGED <<delivery, attempts, queue, worker>>,
           tally'.reopened = tally.reopened
    PROVE  /\ JobsInv'
           /\ \A d \in Deliveries : DeliveryInv(d)'
           /\ \A w \in Workers : WorkerInv(w)'
BY DEF IInv, JobsInv, DeliveryInv, WorkerInv, LiveRow, Settled

\* A request goes on with something fit for the tables, or is done.
LEMMA ContinueInv ==
    ASSUME IInv, NEW c \in Callers, NEW r \in CallerType, Continue(c, r), Fit(r),
           \A d \in Deliveries : delivery[d].row # "none" => delivery'[d].row # "none"
    PROVE  caller' \in [Callers -> CallerType] /\ \A k \in Callers : CallerInv(k)'
  BY JobParts, Types DEF Fit, Continue, IInv, CallerInv

LEMMA DoneInv ==
    ASSUME IInv, NEW c \in Callers, Done(c),
           \A d \in Deliveries : delivery[d].row # "none" => delivery'[d].row # "none"
    PROVE  caller' \in [Callers -> CallerType] /\ \A k \in Callers : CallerInv(k)'
  BY ContinueInv DEF IdleCaller, CallerType, Fit, Done

\* Nothing happens to the requests.
LEMMA CallersStay ==
    ASSUME IInv, UNCHANGED caller,
           \A d \in Deliveries : delivery[d].row # "none" => delivery'[d].row # "none"
    PROVE  caller' \in [Callers -> CallerType] /\ \A k \in Callers : CallerInv(k)'
BY Types, JobParts DEF IInv, CallerInv, Fit

LEMMA CountHooksStep == ASSUME IInv, NEW c \in Callers, CountHooks(c) PROVE IInv'
<1> DEFINE r == [IdleCaller EXCEPT !.pc = "newHook"]
<1>1. r \in CallerType /\ Fit(r) BY DEF IdleCaller, CallerType, Fit
<1>2. Continue(c, r) /\ UNCHANGED <<hook, delivery, attempts, queue, worker, alert, tally>> BY DEF CountHooks
<1>. QED BY <1>1, <1>2, ContinueInv, Types, Frame DEF IInv, TypeOK

LEMMA CreateHookStep == ASSUME IInv, NEW c \in Callers, CreateHook(c) PROVE IInv'
<1> DEFINE new == [NoHook EXCEPT !.row = "live", !.active = TRUE]
<1>1. new \in HookType BY DEF NoHook, HookType
<1>2. hook' \in [Hooks -> HookType] BY <1>1, Types DEF CreateHook
<1>3. Done(c) /\ UNCHANGED <<delivery, attempts, queue, worker, alert, tally>> BY DEF CreateHook
<1>. QED BY <1>2, <1>3, DoneInv, Types, Frame DEF IInv, TypeOK

LEMMA SetActiveStep == ASSUME IInv, NEW h \in Hooks, SetActive(h) PROVE IInv'
<1>1. hook' \in [Hooks -> HookType] BY ZenonT(60), Types DEF HookType, SetActive
<1>2. tally' \in TallyType /\ tally'.reopened = tally.reopened BY Types DEF TallyType, SetActive
<1>3. UNCHANGED <<delivery, attempts, queue, worker, caller, alert>> BY DEF SetActive
<1>. QED BY <1>1, <1>2, <1>3, CallersStay, Types, Frame DEF IInv, TypeOK

LEMMA RotateSecretStep == ASSUME IInv, NEW h \in Hooks, RotateSecret(h) PROVE IInv'
<1>0. hook[h].secret \in Nat BY Types DEF HookType
<1>1. hook[h].secret + 1 \in Nat BY <1>0
<1>2. hook' \in [Hooks -> HookType] BY ZenonT(60), <1>1, Types DEF HookType, RotateSecret
<1>3. tally' \in TallyType /\ tally'.reopened = tally.reopened BY Types DEF TallyType, RotateSecret
<1>4. UNCHANGED <<delivery, attempts, queue, worker, caller, alert>> BY DEF RotateSecret
<1>. QED BY <1>2, <1>3, <1>4, CallersStay, Types, Frame DEF IInv, TypeOK

LEMMA DropHookStep == ASSUME IInv, NEW c \in Callers, DropHook(c) PROVE IInv'
  BY ZenonT(60), Types, DoneInv, Frame DEF HookType, DropHook, IInv, TypeOK

LEMMA CheckDuplicateStep == ASSUME IInv, NEW c \in Callers, CheckDuplicate(c) PROVE IInv'
<1> DEFINE r == [caller[c] EXCEPT !.pc = "create"]
<1>1. r \in CallerType BY Types DEF CallerType
<1>2. caller[c].pc = "check" => Fit(r) BY Types DEF IInv, CallerInv, Fit, CallerType
<1>3. UNCHANGED <<hook, delivery, attempts, queue, worker, alert, tally>> BY DEF CheckDuplicate
<1>4. CASE Done(c) BY <1>3, <1>4, DoneInv, Types, Frame DEF IInv, TypeOK
<1>5. CASE Continue(c, r) BY <1>1, <1>2, <1>3, <1>5, ContinueInv, Types, Frame DEF IInv, TypeOK, CheckDuplicate
<1>. QED BY <1>4, <1>5 DEF CheckDuplicate

LEMMA PingHookStep == ASSUME IInv, NEW c \in Callers, NEW h \in Hooks, PingHook(c, h) PROVE IInv'
<1> DEFINE r == [pc |-> "create", hook |-> h, event |-> Ping, secret |-> hook[h].secret,
                 maxAttempts |-> 1, job |-> NoJob]
<1>0. hook[h].secret \in Nat BY Types DEF HookType
<1>1. r \in CallerType /\ Fit(r) BY <1>0 DEF CallerType, Fit
<1>2. Continue(c, r) /\ UNCHANGED <<hook, delivery, attempts, queue, worker, alert, tally>> BY DEF PingHook
<1>. QED BY <1>1, <1>2, ContinueInv, Types, Frame DEF IInv, TypeOK

LEMMA ReadForRetryStep ==
    ASSUME IInv, NEW c \in Callers, NEW d \in Deliveries, ReadForRetry(c, d) PROVE IInv'
<1> DEFINE h == delivery[d].hook
           r == [IdleCaller EXCEPT !.pc = "reset", !.hook = h, !.secret = hook[h].secret,
                                   !.job = RetryJob(d)]
<1>1. RetryJob(d) \in JobIds /\ RetryJob(d)[1] = d BY Types, JobParts DEF RetryJob, DeliveryType
<1>2. LiveRow(d) /\ h \in Hooks BY DEF ReadForRetry, IInv, DeliveryInv, LiveRow
<1>3. hook[h].secret \in Nat BY <1>2, Types DEF HookType
<1>4. r \in CallerType BY <1>1, <1>2, <1>3 DEF CallerType, IdleCaller
<1>5. Fit(r) BY <1>1, <1>2 DEF Fit, LiveRow, IdleCaller
<1>6. Continue(c, r) /\ UNCHANGED <<hook, delivery, attempts, queue, worker, alert, tally>> BY DEF ReadForRetry
<1>. QED BY <1>4, <1>5, <1>6, ContinueInv, Types, Frame DEF IInv, TypeOK

LEMMA CallerFailsStep == ASSUME IInv, NEW c \in Callers, CallerFails(c) PROVE IInv'
  BY DoneInv, Types, Frame DEF CallerFails, IInv, TypeOK

LEMMA DispatchStep == ASSUME IInv, NEW e \in Events, Dispatch(e) PROVE IInv'
<1> DEFINE r(h) == [pc |-> "check", hook |-> h, event |-> e, secret |-> hook[h].secret,
                    maxAttempts |-> WEBHOOK_MAX_ATTEMPTS, job |-> NoJob]
<1>0. \A h \in Hooks : hook[h].secret \in Nat BY Types DEF HookType
<1>1. \A h \in Hooks : r(h) \in CallerType /\ Fit(r(h)) BY <1>0, ConstantsAssumption DEF CallerType, Fit
<1>2. \A c \in Callers : caller'[c] = caller[c] \/ \E h \in Hooks : caller'[c] = r(h) BY DEF Dispatch
<1>3. caller' = [c \in Callers |-> caller'[c]] BY DEF Dispatch
<1>4. UNCHANGED <<hook, delivery, attempts, queue, worker, alert>> BY DEF Dispatch
<1>5. tally' \in TallyType /\ tally'.reopened = tally.reopened BY Types DEF TallyType, Dispatch
<1> HIDE DEF r
<1>6. caller' \in [Callers -> CallerType] BY <1>1, <1>2, <1>3, Types
<1>7. \A c \in Callers : Fit(caller'[c]) BY <1>1, <1>2 DEF IInv, CallerInv
<1>8. \A x \in CallerType : Fit(x) => Fit(x)' BY <1>4 DEF Fit
<1>9. \A c \in Callers : CallerInv(c)' BY <1>6, <1>7, <1>8 DEF CallerInv
<1>. QED BY <1>4, <1>5, <1>6, <1>9, Types, Frame DEF IInv, TypeOK

LEMMA MailAlertStep == ASSUME IInv, NEW h \in Hooks, MailAlert(h) PROVE IInv'
  BY Types, CallersStay, Frame DEF AlertType, MailAlert, IInv, TypeOK

LEMMA RecordAlertStep == ASSUME IInv, NEW h \in Hooks, RecordAlert(h) PROVE IInv'
<1>1. alert' \in [Hooks -> AlertType] BY Types DEF AlertType, RecordAlert
<1>2. hook' \in [Hooks -> HookType] BY ZenonT(60), Types DEF HookType, RecordAlert
<1>3. UNCHANGED <<delivery, attempts, queue, worker, caller, tally>> BY DEF RecordAlert
<1>. QED BY <1>1, <1>2, <1>3, CallersStay, Types, Frame DEF IInv, TypeOK

LEMMA CooldownElapsesStep == ASSUME IInv, NEW h \in Hooks, CooldownElapses(h) PROVE IInv'
  BY Types, CallersStay, Frame DEF AlertType, CooldownElapses, HookType, IInv, TypeOK

------------------------------------------------------------------------------
\* Worker steps that leave deliveries and attempts alone.

\* The other workers lose no job, and their deliveries stay as they were.
LEMMA WorkersStay ==
    ASSUME IInv, UNCHANGED <<delivery, attempts>>, tally'.reopened = tally.reopened,
           NEW w \in Workers, DOMAIN queue \subseteq DOMAIN queue',
           \A v \in Workers : v # w => worker'[v] = worker[v],
           WorkerInv(w)'
    PROVE  \A v \in Workers : WorkerInv(v)'
BY DEF IInv, WorkerInv, LiveRow

\* Deliveries are judged by tables that did not change.
LEMMA DeliveriesStay ==
    ASSUME IInv, UNCHANGED <<delivery, attempts>>, tally'.reopened = tally.reopened
    PROVE  \A d \in Deliveries : DeliveryInv(d)'
BY DEF IInv, DeliveryInv, LiveRow, Settled

\* A worker at work holds a job of a delivery that exists, of some endpoint.
LEMMA AtWork ==
    ASSUME IInv, NEW w \in Workers, worker[w].pc # "idle"
    PROVE  /\ worker[w].job \in JobIds /\ worker[w].job[1] \in Deliveries
           /\ delivery[worker[w].job[1]].row # "none" /\ HookOf(worker[w].job) \in Hooks
  BY Types, JobParts DEF IInv, WorkerInv, QueueOK, JobsInv, DeliveryInv, HookOf

\* An idle worker has nothing to answer for.
LEMMA EndJobInv ==
    ASSUME IInv, NEW w \in Workers, NEW outcome \in {"completed", "failed"}, EndJob(w, outcome),
           UNCHANGED <<delivery, attempts, tally>>
    PROVE  /\ worker' \in [Workers -> WorkerType] /\ QueueOK(queue')
           /\ JobsInv' /\ \A v \in Workers : WorkerInv(v)'
  BY Types, FinishOK, WorkersStay DEF IdleWorker, WorkerType, EndJob, WorkerInv, IInv, JobsInv

LEMMA LoadDeliveryStep == ASSUME IInv, NEW w \in Workers, LoadDelivery(w) PROVE IInv'
<1>1. PICK id \in DOMAIN queue :
         /\ Waiting(queue, id) /\ ~ShouldSkip(id) /\ queue' = Take(queue, id, w)
         /\ worker' = [worker EXCEPT ![w] =
               [pc |-> "post", job |-> id, attempts |-> delivery[id[1]].attempts,
                maxAttempts |-> delivery[id[1]].maxAttempts, ok |-> FALSE]]
  BY DEF LoadDelivery, Taken
<1> DEFINE d == id[1]
           r == [pc |-> "post", job |-> id, attempts |-> delivery[d].attempts,
                 maxAttempts |-> delivery[d].maxAttempts, ok |-> FALSE]
<1>2. UNCHANGED <<hook, delivery, attempts, caller, alert, tally>> BY DEF LoadDelivery
<1>3. id \in JobIds /\ d \in Deliveries BY Types, JobParts DEF QueueOK
<1>4. QueueOK(queue') /\ DOMAIN queue' = DOMAIN queue BY <1>1, TakeOK, Types
<1>5. delivery[d].attempts \in Nat /\ delivery[d].maxAttempts \in Nat BY <1>3, Types DEF DeliveryType
<1>6. r \in WorkerType BY <1>3, <1>5 DEF WorkerType
<1>7. /\ worker' \in [Workers -> WorkerType] /\ worker'[w] = r
      /\ \A v \in Workers : v # w => worker'[v] = worker[v]
  BY <1>1, <1>6, Types
<1>8. LiveRow(d) /\ ~Settled(d) /\ DeliveryInv(d) BY <1>1, <1>3 DEF ShouldSkip, IInv
<1>9. WorkerInv(w)' BY <1>2, <1>4, <1>7, <1>8 DEF WorkerInv, DeliveryInv, LiveRow, Settled
<1>10. JobsInv' BY <1>2, <1>4 DEF IInv, JobsInv
<1>. QED BY <1>2, <1>4, <1>7, <1>9, <1>10, WorkersStay, DeliveriesStay, CallersStay, Types DEF IInv, TypeOK

LEMMA SkipDeliveryStep == ASSUME IInv, NEW w \in Workers, SkipDelivery(w) PROVE IInv'
<1>1. PICK id \in DOMAIN queue : queue' = Finish(Take(queue, id, w), id, w, "completed") BY DEF SkipDelivery
<1>2. UNCHANGED <<hook, delivery, attempts, worker, caller, alert, tally>> BY DEF SkipDelivery
<1>3. QueueOK(Take(queue, id, w)) /\ DOMAIN Take(queue, id, w) = DOMAIN queue BY TakeOK, Types
<1>4. QueueOK(queue') /\ DOMAIN queue' = DOMAIN queue BY <1>1, <1>3, FinishOK
<1>5. JobsInv' BY <1>2, <1>4 DEF IInv, JobsInv
<1>6. WorkerInv(w)' BY <1>2, <1>4 DEF IInv, WorkerInv, LiveRow
<1>. QED BY <1>2, <1>4, <1>5, <1>6, WorkersStay, DeliveriesStay, CallersStay, Types DEF IInv, TypeOK

LEMMA PostStep == ASSUME IInv, NEW w \in Workers, Post(w) PROVE IInv'
<1>1. UNCHANGED hook BY DEF Post
<1>2. UNCHANGED <<delivery, attempts, queue, caller, alert, tally>> BY DEF Post
<1>3. worker' \in [Workers -> WorkerType] /\ \A v \in Workers : v # w => worker'[v] = worker[v]
  <2>1. PICK success \in BOOLEAN : worker' = [worker EXCEPT ![w].pc = "log", ![w].ok = success] BY DEF Post
  <2>2. worker[w] \in WorkerType /\ worker \in [Workers -> WorkerType] BY Types
  <2>3. [worker[w] EXCEPT !.pc = "log", !.ok = success] \in WorkerType BY <2>2 DEF WorkerType
  <2>. QED BY <2>1, <2>2, <2>3
<1>4. WorkerInv(w)' BY SMTT(40), <1>2, Types DEF IInv, WorkerInv, WorkerType, LiveRow, Post
<1>5. JobsInv' BY <1>2 DEF IInv, JobsInv
<1>. QED BY <1>1, <1>2, <1>3, <1>4, <1>5, WorkersStay, DeliveriesStay, CallersStay, Types DEF IInv, TypeOK

LEMMA RecordAttemptStep == ASSUME IInv, NEW w \in Workers, RecordAttempt(w) PROVE IInv'
<1>1. hook' \in [Hooks -> HookType] BY Types DEF HookType, RecordAttempt, CountFailure
<1>2. UNCHANGED <<delivery, attempts, queue, caller, alert, tally>> BY DEF RecordAttempt
<1>3. worker' \in [Workers -> WorkerType] /\ \A v \in Workers : v # w => worker'[v] = worker[v]
  BY Types DEF WorkerType, RecordAttempt, Step
<1>4. WorkerInv(w)' BY <1>2, Types DEF IInv, WorkerInv, WorkerType, LiveRow, RecordAttempt, Step
<1>5. JobsInv' BY <1>2 DEF IInv, JobsInv
<1>. QED BY <1>1, <1>2, <1>3, <1>4, <1>5, WorkersStay, DeliveriesStay, CallersStay, Types DEF IInv, TypeOK

LEMMA RecordSuccessStep == ASSUME IInv, NEW w \in Workers, RecordSuccess(w) PROVE IInv'
<1>0. HookOf(worker[w].job) \in Hooks BY AtWork DEF RecordSuccess
<1>1. hook' \in [Hooks -> HookType]
  <2> DEFINE h == HookOf(worker[w].job)
             r == [hook[h] EXCEPT !.succeeded = @ + 1, !.streak = 0, !.alertSent = "never"]
  <2>0. hook[h] \in HookType BY <1>0, Types
  <2>3. hook[h].succeeded \in Nat BY <2>0 DEF HookType
  <2>4. hook[h].succeeded + 1 \in Nat BY <2>3
  <2>1. r \in HookType BY <2>0, <2>4 DEF HookType
  <2>2. hook' = [hook EXCEPT ![h] = r] BY Types, <1>0 DEF RecordSuccess, HookType
  <2>. QED BY <2>1, <2>2, <1>0, Types
<1>2. alert' \in [Hooks -> AlertType] BY Types DEF AlertType, RecordSuccess
<1>3. EndJob(w, "completed") /\ UNCHANGED <<delivery, attempts, caller, tally>> BY DEF RecordSuccess
<1>. QED BY <1>1, <1>2, <1>3, EndJobInv, DeliveriesStay, CallersStay, Types DEF IInv, TypeOK

LEMMA RecordFailureStep == ASSUME IInv, NEW w \in Workers, RecordFailure(w) PROVE IInv'
<1>0. HookOf(worker[w].job) \in Hooks BY AtWork DEF RecordFailure
<1>1. hook' \in [Hooks -> HookType]
  <2>1. ASSUME NEW r \in HookType PROVE CountFailure(r, TRUE) \in HookType
    <3>1. r.failed \in Nat /\ r.streak \in Nat BY DEF HookType
    <3>2. r.failed + 1 \in Nat /\ r.streak + 1 \in Nat BY <3>1
    <3>. QED BY <3>2 DEF HookType, CountFailure
  <2>. QED BY <2>1, <1>0, Types DEF RecordFailure
<1>2. alert' \in [Hooks -> AlertType]
  <2> DEFINE h == HookOf(worker[w].job)
  <2>1. alert[h].mailing + 1 \in Nat BY <1>0, Types DEF AlertType
  <2>2. alert' = alert \/ alert' = [alert EXCEPT ![h].mailing = alert[h].mailing + 1] BY DEF RecordFailure
  <2> HIDE DEF h
  <2>. QED BY <2>1, <2>2, Types DEF AlertType
<1>3. EndJob(w, "completed") /\ UNCHANGED <<delivery, attempts, caller, tally>> BY DEF RecordFailure
<1>. QED BY <1>1, <1>2, <1>3, EndJobInv, DeliveriesStay, CallersStay, Types DEF IInv, TypeOK

LEMMA HandlerThrowsStep == ASSUME IInv, NEW w \in Workers, HandlerThrows(w) PROVE IInv'
  BY EndJobInv, DeliveriesStay, CallersStay, Types DEF HandlerThrows, IInv, TypeOK

LEMMA EnqueueRetryStep == ASSUME IInv, NEW w \in Workers, EnqueueRetry(w) PROVE IInv'
<1> DEFINE job == worker[w].job
           q == Add(queue, NextJob(w), queue[job].data)
<1>1. UNCHANGED <<hook, delivery, attempts, caller, alert, tally>> /\ worker[w].pc # "idle" BY DEF EnqueueRetry
<1>2. job \in DOMAIN queue /\ job \in JobIds /\ queue[job].data \in Nat
  BY <1>1, Types DEF IInv, WorkerInv, QueueOK, JobType
<1>3. NewAttemptCount(w) + 1 \in Nat \ {0} BY Types DEF NewAttemptCount, WorkerType
<1>4. NextJob(w) \in JobIds /\ NextJob(w)[1] = job[1] BY <1>2, <1>3, JobParts DEF NextJob
<1>5. QueueOK(q) /\ DOMAIN q = DOMAIN queue \cup {NextJob(w)} BY <1>2, <1>4, AddOK, Types
<1>6. queue' = Finish(q, job, w, "completed") BY DEF EnqueueRetry
<1> HIDE DEF q
<1>7. QueueOK(queue') /\ DOMAIN queue' = DOMAIN queue \cup {NextJob(w)} BY <1>5, <1>6, FinishOK
<1>8. JobsInv' BY <1>1, <1>2, <1>4, <1>7 DEF IInv, JobsInv
<1>9. worker' \in [Workers -> WorkerType] /\ worker'[w] = IdleWorker
      /\ \A v \in Workers : v # w => worker'[v] = worker[v]
  BY Types DEF EnqueueRetry, IdleWorker, WorkerType
<1>10. WorkerInv(w)' BY <1>9 DEF WorkerInv, IdleWorker
<1>. QED BY <1>1, <1>7, <1>8, <1>9, <1>10, WorkersStay, DeliveriesStay, CallersStay, Types DEF IInv, TypeOK

LEMMA WorkerCrashStep == ASSUME IInv, NEW w \in Workers, WorkerCrash(w) PROVE IInv'
<1>1. UNCHANGED <<hook, delivery, attempts, queue, caller>> BY DEF WorkerCrash
<1>2. alert' \in [Hooks -> AlertType]
  <2> DEFINE none == [h \in Hooks |-> [alert[h] EXCEPT !.mailing = 0, !.recording = 0]]
  <2>1. none \in [Hooks -> AlertType] BY Types DEF AlertType
  <2>2. alert' = alert \/ alert' = none BY DEF WorkerCrash
  <2>. QED BY <2>1, <2>2, Types
<1>3. tally' \in TallyType /\ tally'.reopened = tally.reopened
  <2>1. tally.crashes + 1 \in Nat BY Types DEF TallyType
  <2>2. tally' = [tally EXCEPT !.crashes = tally.crashes + 1] BY DEF WorkerCrash
  <2>. QED BY <2>1, <2>2, Types DEF TallyType
<1>4. worker' \in [Workers -> WorkerType] /\ worker'[w] = IdleWorker
      /\ \A v \in Workers : v # w => worker'[v] = worker[v]
  BY Types DEF WorkerCrash, IdleWorker, WorkerType
<1>5. WorkerInv(w)' BY <1>4 DEF WorkerInv, IdleWorker
<1>6. JobsInv' BY <1>1 DEF IInv, JobsInv
<1>. QED BY <1>1, <1>2, <1>3, <1>4, <1>5, <1>6, WorkersStay, DeliveriesStay, CallersStay, Types DEF IInv, TypeOK

LEMMA JobStallsStep == ASSUME IInv, NEW id \in DOMAIN queue, JobStalls(id) PROVE IInv'
  BY StallOK, Types, DeliveriesStay, CallersStay DEF JobStalls, IInv, JobsInv, WorkerInv, LiveRow, TypeOK

LEMMA EnqueueStep == ASSUME IInv, NEW c \in Callers, Enqueue(c) PROVE IInv'
<1>1. Done(c) /\ UNCHANGED <<hook, delivery, attempts, worker, alert, tally>> BY DEF Enqueue
<1>2. caller[c].job \in JobIds /\ delivery[caller[c].job[1]].row # "none" /\ caller[c].secret \in Nat
  BY Types DEF IInv, CallerInv, Fit, Enqueue, CallerType
<1>3. QueueOK(queue') /\ DOMAIN queue' = DOMAIN queue \cup {caller[c].job} BY <1>2, AddOK, Types DEF Enqueue
<1>4. JobsInv' BY <1>1, <1>2, <1>3 DEF IInv, JobsInv
<1>5. \A v \in Workers : WorkerInv(v)' BY <1>1, <1>3 DEF IInv, WorkerInv, LiveRow
<1>. QED BY <1>1, <1>3, <1>4, <1>5, DeliveriesStay, DoneInv, Types DEF IInv, TypeOK

------------------------------------------------------------------------------
\* Steps that change a delivery or its log.

LEMMA DeleteDeliveriesStep ==
    ASSUME IInv, NEW c \in Callers, NEW h \in Hooks, DeleteDeliveries(c, h) PROVE IInv'
<1> DEFINE gone == {d \in Deliveries : LiveRow(d) /\ delivery[d].hook = h}
           r == [IdleCaller EXCEPT !.pc = "dropHook", !.hook = h]
<1>1. /\ delivery' = [d \in Deliveries |->
            IF d \in gone THEN [delivery[d] EXCEPT !.row = "deleted"] ELSE delivery[d]]
      /\ attempts' = [d \in Deliveries |->
            IF d \in gone THEN [ok |-> 0, failed |-> 0] ELSE attempts[d]]
      /\ Continue(c, r) /\ UNCHANGED <<hook, queue, worker, alert, tally>>
  BY DEF DeleteDeliveries
<1>2. delivery' \in [Deliveries -> DeliveryType] BY <1>1, Types DEF DeliveryType
<1>3. attempts' \in [Deliveries -> AttemptsType] BY <1>1, Types DEF AttemptsType
<1>4. \A d \in Deliveries :
         /\ delivery[d].row # "none" => delivery'[d].row # "none"
         /\ delivery'[d].maxAttempts = delivery[d].maxAttempts
         /\ LiveRow(d)' => delivery'[d] = delivery[d] /\ attempts'[d] = attempts[d] /\ LiveRow(d)
  BY <1>1, Types DEF DeliveryType, LiveRow
<1>5. \A d \in Deliveries : DeliveryInv(d)'
  <2> SUFFICES ASSUME NEW d \in Deliveries PROVE DeliveryInv(d)' OBVIOUS
  <2>1. delivery'[d].row # "none" => delivery'[d].hook \in Hooks /\ delivery'[d].maxAttempts >= 1
    BY <1>1, Types DEF IInv, DeliveryInv, DeliveryType, LiveRow
  <2>2. LiveRow(d)' => DeliveryInv(d) /\ UNCHANGED tally BY <1>1 DEF IInv
  <2>. QED BY <1>4, <2>1, <2>2 DEF DeliveryInv, LiveRow, Settled
<1>6. JobsInv' BY <1>1, <1>4, Types, JobParts DEF IInv, JobsInv, QueueOK
<1>7. \A v \in Workers : WorkerInv(v)'
  <2> SUFFICES ASSUME NEW v \in Workers, worker[v].pc # "idle" PROVE WorkerInv(v)' BY <1>1 DEF WorkerInv
  <2>1. worker[v].job[1] \in Deliveries BY AtWork
  <2>. QED BY ZenonT(60), <1>1, <1>4, <2>1 DEF IInv, WorkerInv, LiveRow
<1>8. r \in CallerType /\ Fit(r) BY DEF IdleCaller, CallerType, Fit
<1>9. caller' \in [Callers -> CallerType] /\ \A k \in Callers : CallerInv(k)' BY <1>1, <1>4, <1>8, ContinueInv
<1>. QED BY <1>1, <1>2, <1>3, <1>5, <1>6, <1>7, <1>9, Types DEF IInv, TypeOK

LEMMA CreateDeliveryStep == ASSUME IInv, NEW c \in Callers, CreateDelivery(c) PROVE IInv'
<1> DEFINE k == caller[c]
<1>1. UNCHANGED <<hook, attempts, queue, worker, alert, tally>> /\ k.pc = "create" BY DEF CreateDelivery
<1>2. k \in CallerType /\ k.maxAttempts >= 1 /\ k.hook \in Hooks
  BY <1>1, Types, ConstantsAssumption DEF IInv, CallerInv, Fit
<1>3. CASE ~LiveHook(k.hook) BY <1>3, <1>1, DoneInv, Frame, Types DEF CreateDelivery, IInv, TypeOK
<1>4. CASE LiveHook(k.hook)
  <2> DEFINE new == [NoDelivery EXCEPT !.row = "live", !.hook = k.hook, !.event = k.event,
                                       !.maxAttempts = k.maxAttempts]
             r(d) == [k EXCEPT !.pc = "enqueue", !.job = <<d, IF k.event = Ping THEN "ping" ELSE "auto", 1>>]
  <2>1. PICK d \in Deliveries : /\ delivery[d].row = "none" /\ delivery' = [delivery EXCEPT ![d] = new]
                                /\ Continue(c, r(d))
    BY <1>4 DEF CreateDelivery
  <2>2. new \in DeliveryType BY <1>2 DEF DeliveryType, NoDelivery, CallerType
  <2>3. delivery' \in [Deliveries -> DeliveryType] /\ delivery'[d] = new
        /\ \A x \in Deliveries : x # d => delivery'[x] = delivery[x]
    BY <2>1, <2>2, Types
  <2>4. new.row = "live" /\ new.hook \in Hooks /\ new.maxAttempts >= 1 /\ new.attempts = 0
        /\ ~new.delivered /\ ~new.failedPermanently
    BY <1>2, <2>2 DEF NoDelivery
  <2> HIDE DEF new
  <2>5. DeliveryInv(d)'
    BY <2>2, Types, <1>1, <2>3, <2>4 DEF AttemptsType, TallyType, DeliveryType, DeliveryInv, LiveRow, Settled
  <2>6. \A x \in Deliveries : DeliveryInv(x)' BY <1>1, <2>3, <2>5 DEF IInv, DeliveryInv, LiveRow, Settled
  <2>7. \A v \in Workers : WorkerInv(v)'
    <3> SUFFICES ASSUME NEW v \in Workers, worker[v].pc # "idle" PROVE WorkerInv(v)' BY <1>1 DEF WorkerInv
    <3>1. worker[v].job[1] \in Deliveries /\ worker[v].job[1] # d BY AtWork, <2>1
    <3>. QED BY <1>1, <2>3, <3>1 DEF IInv, WorkerInv, LiveRow
  <2>8. JobsInv' BY <1>1, <2>3, <2>4, Types, JobParts DEF IInv, JobsInv, QueueOK
  <2>9. \A x \in Deliveries : delivery[x].row # "none" => delivery'[x].row # "none" BY <2>3, <2>4
  <2>10. <<d, "ping", 1>> \in JobIds /\ <<d, "auto", 1>> \in JobIds BY JobParts
  <2>11. r(d) \in CallerType BY <1>2, <2>10 DEF CallerType
  <2>12. r(d).pc = "enqueue" /\ r(d).job \in JobIds /\ r(d).job[1] = d BY <1>2, <2>10, JobParts DEF CallerType
  <2> HIDE DEF r
  <2>13. caller' \in [Callers -> CallerType] /\ \A x \in Callers : CallerInv(x)'
    BY <2>1, <2>11, Types, <2>3, <2>4, <2>12, <2>9, JobParts DEF Continue, CallerInv, Fit, IInv
  <2>. QED BY <1>1, <2>3, <2>6, <2>7, <2>8, <2>13, Types DEF IInv, TypeOK
<1>. QED BY <1>3, <1>4

LEMMA ResetForRetryStep == ASSUME IInv, NEW c \in Callers, ResetForRetry(c) PROVE IInv'
<1> DEFINE d == caller[c].job[1]
           r == [caller[c] EXCEPT !.pc = "enqueue"]
<1>1. UNCHANGED <<hook, attempts, queue, worker, alert>> /\ caller[c].pc = "reset" BY DEF ResetForRetry
<1>2. caller[c].job \in JobIds /\ d \in Deliveries /\ delivery[d].row # "none"
  BY <1>1, JobParts DEF IInv, CallerInv, Fit
<1>3. CASE ~LiveRow(d) BY <1>3, <1>1, DoneInv, Frame, Types DEF ResetForRetry, IInv, TypeOK
<1>4. CASE LiveRow(d)
  <2>1. /\ delivery' = [delivery EXCEPT ![d] = Reopened(@)] /\ tally' = [tally EXCEPT !.reopened[d] = @ + 1]
        /\ Continue(c, r)
    BY <1>4 DEF ResetForRetry
  <2> HIDE DEF d
  <2>2. /\ delivery' \in [Deliveries -> DeliveryType]
        /\ \A x \in Deliveries :
              /\ delivery'[x].row = delivery[x].row /\ delivery'[x].hook = delivery[x].hook
              /\ delivery'[x].attempts = delivery[x].attempts
              /\ delivery'[x].maxAttempts = delivery[x].maxAttempts
              /\ delivery'[x].delivered = delivery[x].delivered
              /\ x # d => delivery'[x] = delivery[x]
              /\ x = d => ~delivery'[x].failedPermanently
    BY ZenonT(60), <1>2, <2>1, Types DEF DeliveryType, Reopened
  <2>3. \A x \in Deliveries : tally.reopened[x] \in Nat BY Types DEF TallyType
  <2>4. tally' \in TallyType /\ \A x \in Deliveries :
           tally'.reopened[x] = IF x = d THEN tally.reopened[x] + 1 ELSE tally.reopened[x]
    BY <1>2, <2>1, <2>3, Types DEF TallyType
  <2>5. \A x \in Deliveries : delivery[x].attempts \in Nat /\ delivery[x].maxAttempts \in Nat
    BY Types DEF DeliveryType
  <2>6. \A x \in Deliveries : DeliveryInv(x)'
    <3> SUFFICES ASSUME NEW x \in Deliveries PROVE DeliveryInv(x)' OBVIOUS
    <3>1. DeliveryInv(x) BY DEF IInv
    <3>. QED BY <1>1, <2>2, <2>3, <2>4, <2>5, <3>1 DEF DeliveryInv, LiveRow, Settled
  <2>7. \A v \in Workers : WorkerInv(v)'
    <3> SUFFICES ASSUME NEW v \in Workers, worker[v].pc # "idle" PROVE WorkerInv(v)' BY <1>1 DEF WorkerInv
    <3>1. worker[v].job[1] \in Deliveries /\ WorkerInv(v) /\ worker[v].attempts \in Nat
      BY AtWork, Types DEF IInv, WorkerType
    <3>. QED BY <1>1, <2>2, <2>3, <2>4, <2>5, <3>1 DEF WorkerInv, LiveRow
  <2>8. JobsInv' BY <1>1, <2>2, Types, JobParts DEF IInv, JobsInv, QueueOK
  <2>9. r \in CallerType /\ Fit(r) BY <1>1, <1>2, Types DEF CallerType, Fit, d
  <2>10. caller' \in [Callers -> CallerType] /\ \A x \in Callers : CallerInv(x)'
    BY <2>1, <2>2, <2>9, ContinueInv
  <2>. QED BY <1>1, <2>2, <2>4, <2>6, <2>7, <2>8, <2>10, Types DEF IInv, TypeOK
<1>. QED BY <1>3, <1>4

\* Counts only grow: what was in the log stays there.
LEMMA LogAttemptStep == ASSUME IInv, NEW w \in Workers, LogAttempt(w) PROVE IInv'
<1>0. PICK d \in Deliveries : d = worker[w].job[1] BY AtWork DEF LogAttempt
<1>1. /\ worker[w].pc = "log" /\ LiveRow(d) /\ attempts' = [attempts EXCEPT ![d] = AttemptRow(@, worker[w].ok)]
      /\ worker' = [worker EXCEPT ![w].pc = "save"] /\ UNCHANGED <<hook, delivery, queue, caller, alert, tally>>
  BY <1>0 DEF LogAttempt, Step
<1>2. d \in Deliveries BY <1>1, AtWork
<1>3. worker' \in [Workers -> WorkerType] /\ \A v \in Workers :
         /\ v # w => worker'[v] = worker[v]
         /\ v = w => worker'[v] = [worker[v] EXCEPT !.pc = "save"]
  BY <1>1, Types DEF WorkerType
<1>4. \A x \in Deliveries : attempts[x].ok \in Nat /\ attempts[x].failed \in Nat BY Types DEF AttemptsType
<1>5. worker[w].attempts \in Nat /\ worker[w].ok \in BOOLEAN BY Types DEF WorkerType
<1>6. CASE worker[w].ok
  <2>1. attempts' = [attempts EXCEPT ![d] = [attempts[d] EXCEPT !.ok = attempts[d].ok + 1]]
    BY <1>1, <1>6 DEF AttemptRow
  <2>2. attempts' \in [Deliveries -> AttemptsType] /\ \A x \in Deliveries :
           /\ attempts'[x].failed = attempts[x].failed
           /\ attempts'[x].ok = IF x = d THEN attempts[x].ok + 1 ELSE attempts[x].ok
    BY <1>2, <1>4, <2>1, Types DEF AttemptsType
  <2>3. \A x \in Deliveries : DeliveryInv(x)' BY <1>1, <1>4, <2>2 DEF IInv, DeliveryInv, LiveRow, Settled
  <2>4. \A v \in Workers : WorkerInv(v)'
    <3> SUFFICES ASSUME NEW v \in Workers, worker[v].pc # "idle" PROVE WorkerInv(v)' BY <1>1, <1>3 DEF WorkerInv
    <3>1. worker[v].job[1] \in Deliveries /\ WorkerInv(v) BY AtWork DEF IInv
    <3>2. CASE v = w
      <4>1. /\ worker'[v].pc = "save" /\ worker'[v].job = worker[v].job
            /\ worker'[v].maxAttempts = worker[v].maxAttempts
            /\ worker'[v].attempts = worker[v].attempts /\ worker'[v].ok
        BY <1>3, <1>6, <3>2, Types DEF WorkerType
      <4>2. attempts'[worker[v].job[1]].ok >= 1 BY <1>0, <1>2, <1>4, <2>2, <3>2
      <4>. QED BY <1>0, <1>1, <3>1, <3>2, <4>1, <4>2 DEF WorkerInv, LiveRow
    <3>3. CASE v # w BY <1>1, <1>3, <1>4, <2>2, <3>1, <3>3 DEF WorkerInv, LiveRow
    <3>. QED BY <3>2, <3>3
  <2>5. JobsInv' BY <1>1 DEF IInv, JobsInv
  <2>. QED BY <1>1, <1>3, <2>2, <2>3, <2>4, <2>5, CallersStay, Types DEF IInv, TypeOK
<1>7. CASE ~worker[w].ok
  <2>1. attempts' = [attempts EXCEPT ![d] = [attempts[d] EXCEPT !.failed = attempts[d].failed + 1]]
    BY <1>1, <1>7 DEF AttemptRow
  <2>2. attempts' \in [Deliveries -> AttemptsType] /\ \A x \in Deliveries :
           /\ attempts'[x].ok = attempts[x].ok
           /\ attempts'[x].failed = IF x = d THEN attempts[x].failed + 1 ELSE attempts[x].failed
    BY <1>2, <1>4, <2>1, Types DEF AttemptsType
  <2>3. \A x \in Deliveries : DeliveryInv(x)'
    <3> SUFFICES ASSUME NEW x \in Deliveries PROVE DeliveryInv(x)' OBVIOUS
    <3>1. DeliveryInv(x) /\ delivery[x].attempts \in Nat /\ delivery[x].maxAttempts \in Nat
      BY Types DEF IInv, DeliveryType
    <3>. QED BY <1>1, <1>4, <2>2, <3>1 DEF DeliveryInv, LiveRow, Settled
  <2>4. \A v \in Workers : WorkerInv(v)'
    <3> SUFFICES ASSUME NEW v \in Workers, worker[v].pc # "idle" PROVE WorkerInv(v)' BY <1>1, <1>3 DEF WorkerInv
    <3>1. worker[v].job[1] \in Deliveries /\ WorkerInv(v) /\ worker[v].attempts \in Nat
      BY AtWork, Types DEF IInv, WorkerType
    <3>2. CASE v = w BY <1>0, <1>1, <1>3, <1>4, <1>7, <2>2, <3>1, <3>2 DEF WorkerInv, LiveRow
    <3>3. CASE v # w BY <1>1, <1>3, <1>4, <2>2, <3>1, <3>3 DEF WorkerInv, LiveRow
    <3>. QED BY <3>2, <3>3
  <2>5. JobsInv' BY <1>1 DEF IInv, JobsInv
  <2>. QED BY <1>1, <1>3, <2>2, <2>3, <2>4, <2>5, CallersStay, Types DEF IInv, TypeOK
<1>. QED BY <1>6, <1>7

\* Saving an outcome touches neither the row's budget nor the other workers.
LEMMA SaveFrame ==
    ASSUME IInv, NEW w \in Workers, worker[w].pc = "save", Step(w, "stats"),
           UNCHANGED <<hook, attempts, queue, caller, alert, tally>>,
           delivery' \in [Deliveries -> DeliveryType],
           \A x \in Deliveries : /\ delivery'[x].row = delivery[x].row
                                 /\ delivery'[x].maxAttempts = delivery[x].maxAttempts,
           \A x \in Deliveries : DeliveryInv(x)'
    PROVE  IInv'
<1>1. worker' \in [Workers -> WorkerType] /\ \A v \in Workers :
         /\ v # w => worker'[v] = worker[v]
         /\ v = w => worker'[v] = [worker[v] EXCEPT !.pc = "stats"]
  BY Types DEF WorkerType, Step
<1>2. \A v \in Workers : WorkerInv(v)'
  <2> SUFFICES ASSUME NEW v \in Workers, worker[v].pc # "idle" PROVE WorkerInv(v)' BY <1>1 DEF WorkerInv
  <2>1. worker[v].job[1] \in Deliveries /\ WorkerInv(v) BY AtWork DEF IInv
  <2>2. CASE v = w BY <1>1, <2>2, Types, <2>1 DEF WorkerType, WorkerInv
  <2>3. CASE v # w BY <1>1, <2>1, <2>3 DEF WorkerInv, LiveRow
  <2>. QED BY <2>2, <2>3
<1>3. JobsInv' BY Types, JobParts DEF IInv, JobsInv, QueueOK
<1>. QED BY <1>1, <1>2, <1>3, CallersStay, Types DEF IInv, TypeOK

LEMMA SaveDeliveredStep == ASSUME IInv, NEW w \in Workers, SaveDelivered(w) PROVE IInv'
<1>0. PICK d \in Deliveries : d = worker[w].job[1] BY AtWork DEF SaveDelivered
<1>1. /\ worker[w].pc = "save" /\ LiveRow(d) /\ worker[w].ok
      /\ delivery' = [delivery EXCEPT ![d].delivered = TRUE, ![d].attempts = NewAttemptCount(w)]
      /\ Step(w, "stats") /\ UNCHANGED <<hook, attempts, queue, caller, alert, tally>>
  BY <1>0 DEF SaveDelivered
<1>2. d \in Deliveries /\ WorkerInv(w) /\ DeliveryInv(d) BY <1>1, AtWork DEF IInv
<1>3. worker[w].attempts \in Nat /\ NewAttemptCount(w) = worker[w].attempts + 1
      /\ NewAttemptCount(w) \in Nat
  BY Types DEF WorkerType, NewAttemptCount
<1>4. delivery' \in [Deliveries -> DeliveryType] /\ \A x \in Deliveries :
         /\ delivery'[x].row = delivery[x].row /\ delivery'[x].hook = delivery[x].hook
         /\ delivery'[x].maxAttempts = delivery[x].maxAttempts
         /\ x # d => delivery'[x] = delivery[x]
         /\ x = d => delivery'[x].delivered /\ delivery'[x].attempts = NewAttemptCount(w)
  BY ZenonT(60), <1>1, <1>2, <1>3, Types DEF DeliveryType
<1>5. delivery[d].maxAttempts \in Nat /\ tally.reopened[d] \in Nat BY <1>2, Types DEF DeliveryType, TallyType
<1>6. worker[w].attempts < delivery[d].maxAttempts + tally.reopened[d] /\ attempts[d].ok >= 1
  BY <1>0, <1>1, <1>2 DEF WorkerInv
<1>7. DeliveryInv(d)' BY <1>1, <1>2, <1>3, <1>4, <1>5, <1>6 DEF LiveRow, DeliveryInv, Settled
<1>8. \A x \in Deliveries : DeliveryInv(x)'
  <2> SUFFICES ASSUME NEW x \in Deliveries, x # d PROVE DeliveryInv(x)' BY <1>7
  <2>1. DeliveryInv(x) /\ delivery'[x] = delivery[x] /\ UNCHANGED <<attempts, tally>> BY <1>1, <1>4 DEF IInv
  <2>. QED BY <2>1 DEF DeliveryInv, LiveRow, Settled
<1>. QED BY <1>1, <1>4, <1>8, SaveFrame

LEMMA SaveFailedStep == ASSUME IInv, NEW w \in Workers, SaveFailed(w) PROVE IInv'
<1>0. PICK d \in Deliveries : d = worker[w].job[1] BY AtWork DEF SaveFailed
<1>1. /\ worker[w].pc = "save" /\ LiveRow(d) /\ ~worker[w].ok
      /\ delivery' = [delivery EXCEPT ![d] = FailedAttempt(w, @)]
      /\ Step(w, "stats") /\ UNCHANGED <<hook, attempts, queue, caller, alert, tally>>
  BY <1>0 DEF SaveFailed
<1>2. d \in Deliveries /\ WorkerInv(w) /\ DeliveryInv(d) BY <1>1, AtWork DEF IInv
<1>3. worker[w].attempts \in Nat /\ NewAttemptCount(w) = worker[w].attempts + 1
      /\ NewAttemptCount(w) \in Nat
  BY Types DEF WorkerType, NewAttemptCount
<1>4. Exhausted(w) \in BOOLEAN /\ (Exhausted(w) <=> NewAttemptCount(w) >= worker[w].maxAttempts)
  BY DEF Exhausted
<1>5. delivery' \in [Deliveries -> DeliveryType] /\ \A x \in Deliveries :
         /\ delivery'[x].row = delivery[x].row /\ delivery'[x].hook = delivery[x].hook
         /\ delivery'[x].maxAttempts = delivery[x].maxAttempts /\ delivery'[x].delivered = delivery[x].delivered
         /\ x # d => delivery'[x] = delivery[x]
         /\ x = d => /\ delivery'[x].attempts = NewAttemptCount(w)
                     /\ delivery'[x].failedPermanently = Exhausted(w)
  BY ZenonT(60), <1>1, <1>2, <1>3, <1>4, Types DEF DeliveryType, FailedAttempt
<1>6. delivery[d].maxAttempts \in Nat /\ tally.reopened[d] \in Nat /\ attempts[d].failed \in Nat
  BY <1>2, Types DEF DeliveryType, TallyType, AttemptsType
<1>7. /\ worker[w].attempts < delivery[d].maxAttempts + tally.reopened[d]
      /\ worker[w].attempts + 1 <= attempts[d].failed /\ worker[w].maxAttempts = delivery[d].maxAttempts
  BY <1>0, <1>1, <1>2 DEF WorkerInv
<1>8. DeliveryInv(d)' BY <1>1, <1>2, <1>3, <1>5, <1>4, <1>6, <1>7 DEF LiveRow, DeliveryInv, Settled
<1>9. \A x \in Deliveries : DeliveryInv(x)'
  <2> SUFFICES ASSUME NEW x \in Deliveries, x # d PROVE DeliveryInv(x)' BY <1>8
  <2>1. DeliveryInv(x) /\ delivery'[x] = delivery[x] /\ UNCHANGED <<attempts, tally>> BY <1>1, <1>5 DEF IInv
  <2>. QED BY <2>1 DEF DeliveryInv, LiveRow, Settled
<1>. QED BY <1>1, <1>5, <1>9, SaveFrame

------------------------------------------------------------------------------
\* The theorems.

\* Every step of every process keeps the inductive invariant.
LEMMA NextIInv == IInv /\ [Next]_vars => IInv'
<1> SUFFICES ASSUME IInv, [Next]_vars PROVE IInv' OBVIOUS
<1>1. CASE UNCHANGED vars BY <1>1, Frame, CallersStay, Types DEF vars, IInv, TypeOK
<1>2. ASSUME NEW c \in Callers, CallerNext(c) PROVE IInv'
  BY <1>2, CountHooksStep, CreateHookStep, DropHookStep, CheckDuplicateStep, CreateDeliveryStep,
     EnqueueStep, ResetForRetryStep, CallerFailsStep, DeleteDeliveriesStep, PingHookStep,
     ReadForRetryStep DEF CallerNext
<1>3. ASSUME NEW w \in Workers, WorkerProceeds(w) \/ HandlerThrows(w) \/ WorkerCrash(w) PROVE IInv'
  BY <1>3, LoadDeliveryStep, SkipDeliveryStep, PostStep, LogAttemptStep, SaveDeliveredStep,
     SaveFailedStep, RecordSuccessStep, RecordAttemptStep, RecordFailureStep, EnqueueRetryStep,
     HandlerThrowsStep, WorkerCrashStep DEF WorkerProceeds
<1>4. ASSUME NEW h \in Hooks, HookNext(h) PROVE IInv'
  BY <1>4, SetActiveStep, RotateSecretStep, MailAlertStep, RecordAlertStep, CooldownElapsesStep
     DEF HookNext
<1>. QED BY <1>1, <1>2, <1>3, <1>4, DispatchStep, JobStallsStep DEF Next

\* IInv holds for ever.
THEOREM Inductive == Spec => []IInv
BY InitIInv, NextIInv, PTL DEF Spec

\* The tables, the queue and the handlers keep their shape.
THEOREM TypeCorrect == Spec => []TypeOK
  BY Inductive, PTL DEF IInv

\* The attempt counter of an undelivered delivery is backed by its log.
THEOREM BackedByLog == Spec => []AttemptsBacked
<1>1. IInv => AttemptsBacked BY DEF IInv, DeliveryInv, AttemptsBacked
<1>. QED BY <1>1, Inductive, PTL

\* No delivery is called delivered without a 2xx, or given up early.
THEOREM EarnedOutcome == Spec => []OutcomeIsEarned
<1>1. IInv => OutcomeIsEarned BY DEF IInv, DeliveryInv, OutcomeIsEarned
<1>. QED BY <1>1, Inductive, PTL

\* Attempts stay within maxAttempts and one per manual retry.
THEOREM WithinBudget == Spec => []RetryBudget
<1>1. IInv => RetryBudget BY DEF IInv, DeliveryInv, RetryBudget
<1>. QED BY <1>1, Inductive, PTL

------------------------------------------------------------------------------
(* The alerts of a streak, while no worker process dies with one on its    *)
(* way.  What is inductive is StreakIsAlerted with the types: a streak     *)
(* grows by one at RecordFailure alone, which sees the cooldown in the     *)
(* same transaction, and an alert on its way is only lost by being sent    *)
(* and recorded.                                                           *)

\* What is said of one endpoint.
Alerted(h) ==
    LiveHook(h) /\ hook[h].streak >= FAILURE_ALERT_THRESHOLD =>
        hook[h].alertSent # "never" \/ alert[h].mailing + alert[h].recording > 0

\* Nothing is said anew of an endpoint whose streak, last alert and alerts on
\* their way stay.
LEMMA AlertedStays ==
    ASSUME NEW h \in Hooks, Alerted(h), alert'[h] = alert[h],
           hook'[h].row = "live" => hook[h].row = "live",
           hook'[h].streak = hook[h].streak, hook'[h].alertSent = hook[h].alertSent
    PROVE  Alerted(h)'
BY DEF Alerted, LiveHook

\* The endpoint stays as it was.
LEMMA HookStays ==
    ASSUME NEW h \in Hooks, Alerted(h), alert'[h] = alert[h], hook'[h] = hook[h]
    PROVE  Alerted(h)'
BY DEF Alerted, LiveHook

\* Steps of requests: a new endpoint has no streak, and a removed one or one
\* that is edited keeps what it had.
LEMMA CreateHookAlerted ==
    ASSUME IInv, NEW c \in Callers, CreateHook(c), NEW h \in Hooks, Alerted(h) PROVE Alerted(h)'
<1> DEFINE new == [NoHook EXCEPT !.row = "live", !.active = TRUE]
<1>1. PICK g \in Hooks : hook' = [hook EXCEPT ![g] = new] BY DEF CreateHook
<1>2. new.streak = 0 BY DEF NoHook
<1> HIDE DEF new
<1>3. UNCHANGED alert BY DEF CreateHook
<1>4. CASE h = g
  <2>1. hook'[h] = new BY <1>1, <1>4, Types
  <2>2. ~(hook'[h].streak >= FAILURE_ALERT_THRESHOLD) BY <1>2, <2>1, ConstantsAssumption
  <2>. QED BY <2>2 DEF Alerted
<1>5. CASE h # g
  <2>1. hook'[h] = hook[h] BY <1>1, <1>5, Types
  <2>. QED BY <1>3, <2>1, HookStays
<1>. QED BY <1>4, <1>5

LEMMA DropHookAlerted ==
    ASSUME IInv, NEW c \in Callers, DropHook(c), NEW h \in Hooks, Alerted(h) PROVE Alerted(h)'
<1>0. PICK g \in Hooks : g = caller[c].hook BY DEF DropHook, IInv, CallerInv, Fit
<1>1. hook' = hook \/ hook' = [hook EXCEPT ![g].row = "deleted"] BY <1>0 DEF DropHook
<1>2. UNCHANGED alert BY DEF DropHook
<1>3. hook'[h].streak = hook[h].streak /\ hook'[h].alertSent = hook[h].alertSent
      /\ (hook'[h].row = "live" => hook[h].row = "live")
  <2>1. CASE hook' = hook BY <2>1
  <2>2. CASE hook' = [hook EXCEPT ![g].row = "deleted"] BY <2>2, Types DEF HookType
  <2>. QED BY <1>1, <2>1, <2>2
<1>. QED BY <1>2, <1>3, AlertedStays

LEMMA SetActiveAlerted ==
    ASSUME IInv, NEW g \in Hooks, SetActive(g), NEW h \in Hooks, Alerted(h) PROVE Alerted(h)'
<1>1. UNCHANGED alert BY DEF SetActive
<1>2. hook' = [hook EXCEPT ![g].active = ~@] BY DEF SetActive
<1>3. hook'[h].streak = hook[h].streak /\ hook'[h].alertSent = hook[h].alertSent
      /\ (hook'[h].row = "live" => hook[h].row = "live")
  BY <1>2, Types DEF HookType
<1>. QED BY <1>1, <1>3, AlertedStays

LEMMA RotateSecretAlerted ==
    ASSUME IInv, NEW g \in Hooks, RotateSecret(g), NEW h \in Hooks, Alerted(h) PROVE Alerted(h)'
<1>1. UNCHANGED alert BY DEF RotateSecret
<1>2. hook' = [hook EXCEPT ![g].secret = @ + 1] BY DEF RotateSecret
<1>3. hook'[h].streak = hook[h].streak /\ hook'[h].alertSent = hook[h].alertSent
      /\ (hook'[h].row = "live" => hook[h].row = "live")
  BY <1>2, Types DEF HookType
<1>. QED BY <1>1, <1>3, AlertedStays

\* A delivered event ends the streak.
LEMMA RecordSuccessAlerted ==
    ASSUME IInv, NEW w \in Workers, RecordSuccess(w), NEW h \in Hooks, Alerted(h) PROVE Alerted(h)'
<1>1. PICK g \in Hooks : g = HookOf(worker[w].job) BY AtWork DEF RecordSuccess
<1>2. hook' = [hook EXCEPT ![g].succeeded = @ + 1, ![g].streak = 0, ![g].alertSent = "never"]
  BY <1>1 DEF RecordSuccess
<1>3. alert' = [alert EXCEPT ![g].mailed = 0] BY <1>1 DEF RecordSuccess
<1>4. CASE h = g
  <2>1. hook'[h].streak = 0 BY <1>2, <1>4, Types DEF HookType
  <2>2. ~(hook'[h].streak >= FAILURE_ALERT_THRESHOLD) BY <2>1, ConstantsAssumption
  <2>. QED BY <2>2 DEF Alerted
<1>5. CASE h # g
  <2>1. hook'[h] = hook[h] BY <1>2, <1>5, Types
  <2>2. alert'[h] = alert[h] BY <1>3, <1>5, Types
  <2>. QED BY <2>1, <2>2, HookStays
<1>. QED BY <1>4, <1>5

\* An attempt that was not the last counts for nothing.
LEMMA RecordAttemptAlerted ==
    ASSUME IInv, NEW w \in Workers, RecordAttempt(w), NEW h \in Hooks, Alerted(h) PROVE Alerted(h)'
<1>1. UNCHANGED alert BY DEF RecordAttempt
<1>2. PICK g \in Hooks : g = HookOf(worker[w].job) BY AtWork DEF RecordAttempt
<1>3. hook' = [hook EXCEPT ![g] = hook[g]] BY <1>2 DEF RecordAttempt, CountFailure
<1>4. hook'[h] = hook[h] BY <1>3, Types
<1>. QED BY <1>1, <1>4, HookStays

\* The last one may bring the streak to the threshold or leave it there: an
\* alert is begun, or was sent within the day.
LEMMA RecordFailureAlerted ==
    ASSUME IInv, NEW w \in Workers, RecordFailure(w), NEW h \in Hooks, Alerted(h) PROVE Alerted(h)'
<1>1. PICK g \in Hooks : g = HookOf(worker[w].job) BY AtWork DEF RecordFailure
<1>2. hook' = [hook EXCEPT ![g] = CountFailure(hook[g], TRUE)] BY <1>1 DEF RecordFailure
<1>3. alert' = IF AlertDue(g) THEN [alert EXCEPT ![g].mailing = @ + 1] ELSE alert BY <1>1 DEF RecordFailure
<1>4. CASE h = g
  <2>1. hook'[h] = CountFailure(hook[h], TRUE) BY <1>2, <1>4, Types
  <2>2. hook[h].streak \in Nat /\ hook[h].failed \in Nat BY Types DEF HookType
  <2>3. hook'[h].streak = hook[h].streak + 1 /\ hook'[h].alertSent = hook[h].alertSent
    BY <2>1, Types DEF CountFailure, HookType
  <2>4. alert[h].mailing \in Nat /\ alert[h].recording \in Nat BY Types DEF AlertType
  <2>5. CASE AlertDue(h)
    <3>1. alert' = [alert EXCEPT ![h].mailing = alert[h].mailing + 1] BY <1>3, <1>4, <2>5
    <3>2. alert'[h].mailing = alert[h].mailing + 1 /\ alert'[h].recording = alert[h].recording
      BY <3>1, Types DEF AlertType
    <3>3. alert'[h].mailing + alert'[h].recording > 0 BY <2>4, <3>2
    <3>. QED BY <3>3 DEF Alerted
  <2>6. CASE ~AlertDue(h)
    <3>1. ~(hook'[h].streak >= FAILURE_ALERT_THRESHOLD) \/ hook'[h].alertSent = "recently"
      BY <2>3, <2>6 DEF AlertDue
    <3>. QED BY <3>1 DEF Alerted
  <2>. QED BY <2>5, <2>6
<1>5. CASE h # g
  <2>1. hook'[h] = hook[h] BY <1>2, <1>5, Types
  <2>2. alert'[h] = alert[h] BY <1>3, <1>5, Types
  <2>. QED BY <2>1, <2>2, HookStays
<1>. QED BY <1>4, <1>5

\* Sending an alert leaves it to be recorded...
LEMMA MailAlertAlerted ==
    ASSUME IInv, NEW g \in Hooks, MailAlert(g), NEW h \in Hooks, Alerted(h) PROVE Alerted(h)'
<1>1. UNCHANGED hook BY DEF MailAlert
<1>2. alert[g].mailing \in Nat /\ alert[g].recording \in Nat BY Types DEF AlertType
<1>3. alert' = [alert EXCEPT ![g].mailing = @ - 1, ![g].recording = @ + 1, ![g].mailed = @ + 1] BY DEF MailAlert
<1>4. CASE h = g
  <2>1. alert'[h].mailing = alert[h].mailing - 1 /\ alert'[h].recording = alert[h].recording + 1
    BY <1>3, <1>4, Types DEF AlertType
  <2>2. alert[h].mailing > 0 BY <1>4 DEF MailAlert
  <2>3. alert'[h].mailing + alert'[h].recording > 0 BY <1>2, <1>4, <2>1, <2>2
  <2>. QED BY <2>3 DEF Alerted
<1>5. CASE h # g
  <2>1. alert'[h] = alert[h] BY <1>3, <1>5, Types
  <2>. QED BY <1>1, <2>1, HookStays
<1>. QED BY <1>4, <1>5

\* ...and recording it sets the date.
LEMMA RecordAlertAlerted ==
    ASSUME IInv, NEW g \in Hooks, RecordAlert(g), NEW h \in Hooks, Alerted(h) PROVE Alerted(h)'
<1>1. alert' = [alert EXCEPT ![g].recording = @ - 1] BY DEF RecordAlert
<1>2. hook' = IF LiveHook(g) THEN [hook EXCEPT ![g].alertSent = "recently"] ELSE hook BY DEF RecordAlert
<1>3. CASE h = g
  <2>1. CASE LiveHook(g)
    <3>1. hook'[h].alertSent = "recently" BY <1>2, <1>3, <2>1, Types DEF HookType
    <3>. QED BY <3>1 DEF Alerted
  <2>2. CASE ~LiveHook(g) BY <1>2, <1>3, <2>2 DEF Alerted, LiveHook
  <2>. QED BY <2>1, <2>2
<1>4. CASE h # g
  <2>1. hook'[h] = hook[h] BY <1>2, <1>4, Types
  <2>2. alert'[h] = alert[h] BY <1>1, <1>4, Types
  <2>. QED BY <2>1, <2>2, HookStays
<1>. QED BY <1>3, <1>4

\* The cooldown passes: an alert was sent, however long ago.
LEMMA CooldownAlerted ==
    ASSUME IInv, NEW g \in Hooks, CooldownElapses(g), NEW h \in Hooks, Alerted(h) PROVE Alerted(h)'
<1>1. hook' = [hook EXCEPT ![g].alertSent = "long ago"] /\ alert' = [alert EXCEPT ![g].mailed = 0]
  BY DEF CooldownElapses
<1>2. CASE h = g
  <2>1. hook'[h].alertSent = "long ago" BY <1>1, <1>2, Types DEF HookType
  <2>. QED BY <2>1 DEF Alerted
<1>3. CASE h # g
  <2>1. hook'[h] = hook[h] /\ alert'[h] = alert[h] BY <1>1, <1>3, Types
  <2>. QED BY <2>1, HookStays
<1>. QED BY <1>2, <1>3

\* Every step, then, except the death of a worker process.
LEMMA NextAlerted ==
    ASSUME IInv, [Next]_vars, "worker_crash" \notin Faults, NEW h \in Hooks, Alerted(h)
    PROVE  Alerted(h)'
<1> DEFINE Same == UNCHANGED <<hook, alert>>
<1>0. CASE Same BY <1>0, HookStays
<1> HIDE DEF Same
<1>1. CASE UNCHANGED vars BY <1>0, <1>1 DEF vars, Same
<1>2. ASSUME NEW c \in Callers, CallerNext(c) PROVE Alerted(h)'
  <2>1. ASSUME \/ CountHooks(c) \/ CheckDuplicate(c) \/ CreateDelivery(c) \/ Enqueue(c)
               \/ ResetForRetry(c) \/ CallerFails(c)
               \/ \E g \in Hooks : DeleteDeliveries(c, g) \/ PingHook(c, g)
               \/ \E d \in Deliveries : ReadForRetry(c, d)
        PROVE Same
    BY <2>1 DEF Same, CountHooks, CheckDuplicate, CreateDelivery, Enqueue, ResetForRetry, CallerFails,
                DeleteDeliveries, PingHook, ReadForRetry
  <2>. QED BY <1>0, <1>2, <2>1, CreateHookAlerted, DropHookAlerted DEF CallerNext
<1>3. ASSUME NEW w \in Workers, WorkerProceeds(w) \/ HandlerThrows(w) \/ WorkerCrash(w) PROVE Alerted(h)'
  <2>1. ASSUME \/ LoadDelivery(w) \/ SkipDelivery(w) \/ Post(w) \/ LogAttempt(w) \/ SaveDelivered(w)
               \/ SaveFailed(w) \/ EnqueueRetry(w) \/ HandlerThrows(w)
        PROVE Same
    BY <2>1 DEF Same, LoadDelivery, SkipDelivery, Post, LogAttempt, SaveDelivered, SaveFailed, EnqueueRetry,
                HandlerThrows
  <2>2. ~WorkerCrash(w) BY DEF WorkerCrash
  <2>. QED BY <1>0, <1>3, <2>1, <2>2, RecordSuccessAlerted, RecordAttemptAlerted, RecordFailureAlerted
           DEF WorkerProceeds
<1>4. ASSUME NEW g \in Hooks, HookNext(g) PROVE Alerted(h)'
  BY <1>4, SetActiveAlerted, RotateSecretAlerted, MailAlertAlerted, RecordAlertAlerted, CooldownAlerted
     DEF HookNext
<1>5. ASSUME NEW e \in Events, Dispatch(e) PROVE Same BY <1>5 DEF Dispatch, Same
<1>6. ASSUME NEW id \in DOMAIN queue, JobStalls(id) PROVE Same BY <1>6 DEF JobStalls, Same
<1>. QED BY <1>0, <1>1, <1>2, <1>3, <1>4, <1>5, <1>6 DEF Next

\* Unless a worker process dies with an alert on its way, an endpoint whose
\* streak is at the threshold has had its alert, or is about to.
THEOREM StreaksAreAlerted ==
    ASSUME "worker_crash" \notin Faults PROVE Spec => []StreakIsAlerted
<1>1. Init => StreakIsAlerted BY DEF Init, StreakIsAlerted, LiveHook, NoHook
<1>2. IInv /\ StreakIsAlerted /\ [Next]_vars => StreakIsAlerted'
  <2>1. StreakIsAlerted <=> \A h \in Hooks : Alerted(h) BY DEF StreakIsAlerted, Alerted
  <2>2. StreakIsAlerted' <=> \A h \in Hooks : Alerted(h)' BY DEF StreakIsAlerted, Alerted
  <2>. QED BY <2>1, <2>2, NextAlerted
<1>. QED BY <1>1, <1>2, Inductive, PTL DEF Spec

------------------------------------------------------------------------------
(* One way for every delivery, while nothing fails and nobody retries by   *)
(* hand.  The chain of a delivery's jobs is inductive with what a worker   *)
(* knows of the row it is at: jobs of a delivery are numbered upwards, the *)
(* last is the only one alive, its number is one more than the attempts on *)
(* record until the worker that has it saves the next, and only that       *)
(* worker changes the row.                                                 *)

\* A job that is alive is the last of its delivery; one that waits is for the
\* next attempt, and one that is active is with the worker that locked it.
JobInv(id) ==
    id \in DOMAIN queue /\ queue[id].state \in {"waiting", "active"} =>
        /\ \A j \in DOMAIN queue : j[1] = id[1] =>
              j[3] <= id[3] /\ (queue[j].state \in {"waiting", "active"} => j = id)
        /\ queue[id].state = "waiting" =>
              ~Settled(id[1]) /\ attempts[id[1]].ok = 0 /\ id[3] = delivery[id[1]].attempts + 1
        /\ queue[id].state = "active" =>
              /\ queue[id].holder \in Workers /\ worker[queue[id].holder].pc # "idle"
              /\ worker[queue[id].holder].job = id

\* What a worker has read is still so until it writes.
HoldInv(w) ==
    LET id == worker[w].job
        d  == id[1]
    IN  worker[w].pc # "idle" =>
          /\ id \in DOMAIN queue /\ queue[id].state = "active" /\ queue[id].holder = w
          /\ id[3] = worker[w].attempts + 1
          /\ worker[w].pc \in {"post", "log", "save"} =>
                ~Settled(d) /\ delivery[d].attempts = worker[w].attempts
          /\ worker[w].pc \in {"stats", "retry"} =>
                /\ delivery[d].attempts = worker[w].attempts + 1
                /\ worker[w].ok => delivery[d].delivered
                /\ ~worker[w].ok => ~delivery[d].delivered /\ (delivery[d].failedPermanently <=> Exhausted(w))
          /\ worker[w].pc \in {"post", "log"} => attempts[d].ok = 0
          /\ worker[w].pc \in {"save", "stats", "retry"} /\ ~worker[w].ok => attempts[d].ok = 0
          /\ worker[w].pc = "retry" => ~worker[w].ok /\ ~Exhausted(w)

\* A request about to enqueue is the first to do so for its delivery.
FirstInv(c) ==
    LET d == caller[c].job[1]
    IN  /\ caller[c].pc # "reset"
        /\ caller[c].pc = "enqueue" =>
              /\ \A id \in DOMAIN queue : id[1] # d
              /\ \A k \in Callers : caller[k].pc = "enqueue" /\ caller[k].job[1] = d => k = c
              /\ ~Settled(d) /\ attempts[d].ok = 0 /\ delivery[d].attempts = 0 /\ caller[c].job[3] = 1

\* A delivery has one outcome, an endpoint while it exists, and a job unless
\* it is settled.
OnItsWay(d) ==
    \/ \E id \in DOMAIN queue : id[1] = d /\ queue[id].state \in {"waiting", "active"}
    \/ \E c \in Callers : caller[c].pc = "enqueue" /\ caller[c].job[1] = d
RowInv(d) ==
    /\ attempts[d].ok <= 1
    /\ delivery[d].row = "none" => attempts[d].ok = 0
    /\ ~(delivery[d].delivered /\ delivery[d].failedPermanently)
    /\ LiveRow(d) => hook[delivery[d].hook].row = "live"
    /\ LiveRow(d) /\ ~Settled(d) => OnItsWay(d)

OneInv ==
    /\ \A id \in JobIds : JobInv(id)
    /\ \A w \in Workers : HoldInv(w)
    /\ \A c \in Callers : FirstInv(c)
    /\ \A d \in Deliveries : RowInv(d)

\* Initially there is nothing.
LEMMA InitOneInv == Init => OneInv
  BY DEF Init, EmptyQueue, OneInv, JobInv, HoldInv, FirstInv, RowInv, IdleWorker, IdleCaller, NoDelivery, LiveRow

\* The jobs of the queue, and the parts of their ids.
LEMMA QueueJobs ==
    ASSUME IInv
    PROVE  /\ DOMAIN queue \subseteq JobIds
           /\ \A id \in DOMAIN queue : queue[id] \in JobType
           /\ \A id \in JobIds : id[1] \in Deliveries /\ id[3] \in Nat \ {0}
BY Types DEF QueueOK, JobIds

\* A delivery some worker is at: no other worker, waiting job or request is.
LEMMA Alone ==
    ASSUME IInv, OneInv, NEW w \in Workers, worker[w].pc # "idle", NEW d, d = worker[w].job[1]
    PROVE  /\ \A v \in Workers : v # w /\ worker[v].pc # "idle" => worker[v].job[1] # d
           /\ \A id \in DOMAIN queue : queue[id].state = "waiting" => id[1] # d
           /\ \A c \in Callers : caller[c].pc = "enqueue" => caller[c].job[1] # d
<1>1. PICK id : id = worker[w].job OBVIOUS
<1>2. id \in DOMAIN queue /\ queue[id].state = "active" /\ queue[id].holder = w /\ id[1] = d
  BY <1>1 DEF OneInv, HoldInv
<1>3. \A j \in DOMAIN queue : j[1] = d /\ queue[j].state \in {"waiting", "active"} => j = id
  BY <1>2, QueueJobs DEF OneInv, JobInv
<1>4. ASSUME NEW v \in Workers, v # w, worker[v].pc # "idle" PROVE worker[v].job[1] # d
  <2>1. worker[v].job \in DOMAIN queue /\ queue[worker[v].job].state = "active"
        /\ queue[worker[v].job].holder = v
    BY <1>4 DEF OneInv, HoldInv
  <2>. QED BY <1>2, <1>3, <1>4, <2>1
<1>5. ASSUME NEW c \in Callers, caller[c].pc = "enqueue" PROVE caller[c].job[1] # d
  BY <1>2, <1>5 DEF OneInv, FirstInv
<1>. QED BY <1>2, <1>3, <1>4, <1>5

\* Steps of requests and endpoints that enqueue nothing.
LEMMA QuietStep ==
    ASSUME IInv, OneInv, UNCHANGED <<delivery, attempts, queue, worker>>,
           \A c \in Callers : \/ caller'[c] = caller[c]
                              \/ caller[c].pc # "enqueue" /\ caller'[c].pc \notin {"enqueue", "reset"},
           \A d \in Deliveries : LiveRow(d) => hook'[delivery[d].hook].row = "live"
    PROVE  OneInv'
<1>1. \A id \in JobIds : JobInv(id)' BY QueueJobs DEF OneInv, JobInv, Settled
<1>2. \A w \in Workers : HoldInv(w)' BY DEF OneInv, HoldInv, Settled, Exhausted, NewAttemptCount
<1>3. \A c \in Callers : FirstInv(c)'
  <2> SUFFICES ASSUME NEW c \in Callers PROVE FirstInv(c)' OBVIOUS
  <2>1. FirstInv(c) BY DEF OneInv
  <2>. QED BY <2>1 DEF FirstInv, Settled
<1>4. \A d \in Deliveries : RowInv(d)'
  <2> SUFFICES ASSUME NEW d \in Deliveries PROVE RowInv(d)' OBVIOUS
  <2>1. RowInv(d) BY DEF OneInv
  <2>2. OnItsWay(d) => OnItsWay(d)' BY DEF OnItsWay
  <2>. QED BY <2>1, <2>2 DEF RowInv, LiveRow, Settled
<1>. QED BY <1>1, <1>2, <1>3, <1>4 DEF OneInv

\* Deleting the deliveries of an endpoint takes them out of every account.
LEMMA DeleteDeliveriesOne ==
    ASSUME IInv, OneInv, NEW c \in Callers, NEW h \in Hooks, DeleteDeliveries(c, h) PROVE OneInv'
<1>1. UNCHANGED <<hook, queue, worker, alert, tally>> /\ caller[c].pc = "idle" BY DEF DeleteDeliveries
<1>2. \A d \in Deliveries :
         /\ delivery'[d].attempts = delivery[d].attempts /\ delivery'[d].delivered = delivery[d].delivered
         /\ delivery'[d].failedPermanently = delivery[d].failedPermanently
         /\ delivery'[d].hook = delivery[d].hook
         /\ delivery'[d].row = "live" => delivery[d].row = "live"
         /\ delivery'[d].row = "none" => delivery[d].row = "none"
         /\ attempts'[d].ok \in {0, attempts[d].ok}
  BY Types DEF DeleteDeliveries, DeliveryType, AttemptsType
<1>3. \A k \in Callers : \/ caller'[k] = caller[k]
                         \/ caller[k].pc # "enqueue" /\ caller'[k].pc \notin {"enqueue", "reset"}
  BY <1>1, Types DEF DeleteDeliveries, Continue, IdleCaller
<1>4. \A id \in JobIds : JobInv(id)' BY <1>1, <1>2, QueueJobs DEF OneInv, JobInv, Settled
<1>5. \A w \in Workers : HoldInv(w)'
  <2> SUFFICES ASSUME NEW w \in Workers, worker[w].pc # "idle" PROVE HoldInv(w)' BY <1>1 DEF HoldInv
  <2>1. HoldInv(w) /\ worker[w].job[1] \in Deliveries BY AtWork DEF OneInv
  <2>. QED BY <1>1, <1>2, <2>1 DEF HoldInv, Settled, Exhausted, NewAttemptCount
<1>6. \A k \in Callers : FirstInv(k)'
  <2> SUFFICES ASSUME NEW k \in Callers PROVE FirstInv(k)' OBVIOUS
  <2>1. FirstInv(k) /\ CallerInv(k) BY DEF OneInv, IInv
  <2>2. caller[k].pc = "enqueue" => caller[k].job[1] \in Deliveries BY <2>1, QueueJobs DEF CallerInv, Fit
  <2>. QED BY <1>1, <1>2, <1>3, <2>1, <2>2 DEF FirstInv, Settled
<1>7. \A d \in Deliveries : RowInv(d)'
  <2> SUFFICES ASSUME NEW d \in Deliveries PROVE RowInv(d)' OBVIOUS
  <2>1. RowInv(d) BY DEF OneInv
  <2>2. OnItsWay(d) => OnItsWay(d)' BY <1>1, <1>3 DEF OnItsWay
  <2>. QED BY <1>1, <1>2, <2>1, <2>2 DEF RowInv, LiveRow, Settled
<1>. QED BY <1>4, <1>5, <1>6, <1>7 DEF OneInv

\* A new delivery has no job yet, and the request that created it will enqueue
\* the first.
LEMMA CreateDeliveryOne ==
    ASSUME IInv, OneInv, NEW c \in Callers, CreateDelivery(c), ~UNCHANGED delivery PROVE OneInv'
<1>1. UNCHANGED <<hook, attempts, queue, worker, alert, tally>> /\ caller[c].pc = "create" BY DEF CreateDelivery
<1>2. PICK k : k = caller[c] OBVIOUS
<1>3. PICK d \in Deliveries :
         /\ delivery[d].row = "none"
         /\ delivery' = [delivery EXCEPT ![d] =
               [NoDelivery EXCEPT !.row = "live", !.hook = k.hook, !.event = k.event,
                                  !.maxAttempts = k.maxAttempts]]
         /\ Continue(c, [k EXCEPT !.pc = "enqueue",
               !.job = <<d, IF k.event = Ping THEN "ping" ELSE "auto", 1>>])
         /\ LiveHook(k.hook)
  BY <1>2 DEF CreateDelivery
<1>4. PICK r : r = [NoDelivery EXCEPT !.row = "live", !.hook = k.hook, !.event = k.event,
                                      !.maxAttempts = k.maxAttempts]
  OBVIOUS
<1>5. PICK q : q = [k EXCEPT !.pc = "enqueue", !.job = <<d, IF k.event = Ping THEN "ping" ELSE "auto", 1>>] OBVIOUS
<1>6. /\ r.row = "live" /\ r.hook = k.hook /\ r.attempts = 0 /\ ~r.delivered /\ ~r.failedPermanently
  BY <1>4 DEF NoDelivery
<1>7. q.pc = "enqueue" /\ q.job[1] = d /\ q.job[3] = 1 BY <1>2, <1>5, Types DEF CallerType
<1>8. \A x \in Deliveries : delivery'[x] = IF x = d THEN r ELSE delivery[x] BY <1>3, <1>4, Types
<1>9. \A x \in Callers : caller'[x] = IF x = c THEN q ELSE caller[x] BY <1>3, <1>5, Types DEF Continue
<1>10. \A id \in DOMAIN queue : id[1] # d BY <1>3 DEF IInv, JobsInv
<1>11. \A w \in Workers : worker[w].pc # "idle" => worker[w].job[1] # d BY <1>3, AtWork
<1>12. \A x \in Callers : caller[x].pc = "enqueue" => caller[x].job[1] # d
  BY <1>3 DEF IInv, CallerInv, Fit
<1>13. attempts[d].ok = 0 BY <1>3 DEF OneInv, RowInv
<1>14. \A id \in JobIds : JobInv(id)'
  <2> SUFFICES ASSUME NEW id \in JobIds, id \in DOMAIN queue PROVE JobInv(id)' BY <1>1 DEF JobInv
  <2>1. JobInv(id) /\ id[1] \in Deliveries /\ delivery'[id[1]] = delivery[id[1]]
    BY <1>8, <1>10, QueueJobs DEF OneInv
  <2>. QED BY <1>1, <2>1 DEF JobInv, Settled
<1>15. \A w \in Workers : HoldInv(w)'
  <2> SUFFICES ASSUME NEW w \in Workers, worker[w].pc # "idle" PROVE HoldInv(w)' BY <1>1 DEF HoldInv
  <2>1. HoldInv(w) /\ worker[w].job[1] \in Deliveries BY AtWork DEF OneInv
  <2>2. delivery'[worker[w].job[1]] = delivery[worker[w].job[1]] BY <1>8, <1>11, <2>1
  <2>. QED BY <1>1, <2>1, <2>2 DEF HoldInv, Settled, Exhausted, NewAttemptCount
<1>16. \A x \in Callers : FirstInv(x)'
  <2> SUFFICES ASSUME NEW x \in Callers PROVE FirstInv(x)' OBVIOUS
  <2>1. CASE x = c
    <3>1. delivery'[d].attempts = 0 /\ ~Settled(d)' BY <1>6, <1>8 DEF Settled
    <3>2. \A y \in Callers : caller'[y].pc = "enqueue" /\ caller'[y].job[1] = d => y = c BY <1>9, <1>12
    <3>. QED BY <1>1, <1>7, <1>9, <1>10, <1>13, <2>1, <3>1, <3>2 DEF FirstInv
  <2>2. CASE x # c
    <3>1. FirstInv(x) /\ CallerInv(x) /\ caller'[x] = caller[x] BY <1>9, <2>2 DEF OneInv, IInv
    <3>2. caller[x].pc = "enqueue" => caller[x].job[1] \in Deliveries BY <3>1, QueueJobs DEF CallerInv, Fit
    <3>3. caller[x].pc = "enqueue" => delivery'[caller[x].job[1]] = delivery[caller[x].job[1]]
      BY <1>8, <1>12, <3>2
    <3>. QED BY <1>1, <1>7, <1>9, <1>12, <3>1, <3>3 DEF FirstInv, Settled
  <2>. QED BY <2>1, <2>2
<1>17. \A x \in Deliveries : RowInv(x)'
  <2> SUFFICES ASSUME NEW x \in Deliveries PROVE RowInv(x)' OBVIOUS
  <2>1. RowInv(x) BY DEF OneInv
  <2>2. CASE x = d
    <3>1. OnItsWay(d)' BY <1>7, <1>9 DEF OnItsWay
    <3>2. delivery'[d] = r BY <1>8
    <3>3. attempts'[d].ok = 0 /\ hook'[delivery'[d].hook].row = "live" /\ delivery'[d].row = "live"
          /\ ~delivery'[d].delivered
      BY <1>1, <1>3, <1>6, <1>13, <3>2 DEF LiveHook
    <3>. QED BY <2>2, <3>1, <3>3 DEF RowInv
  <2>3. CASE x # d
    <3>1. delivery'[x] = delivery[x] BY <1>8, <2>3
    <3>2. OnItsWay(x) => OnItsWay(x)' BY <1>1, <1>9 DEF OnItsWay
    <3>. QED BY <1>1, <2>1, <3>1, <3>2 DEF RowInv, LiveRow, Settled
  <2>. QED BY <2>2, <2>3
<1>. QED BY <1>14, <1>15, <1>16, <1>17 DEF OneInv

\* The first job of a delivery.
LEMMA EnqueueOne == ASSUME IInv, OneInv, NEW c \in Callers, Enqueue(c) PROVE OneInv'
<1>1. UNCHANGED <<hook, delivery, attempts, worker, alert, tally>> /\ caller[c].pc = "enqueue" BY DEF Enqueue
<1>2. PICK id : id = caller[c].job OBVIOUS
<1>3. PICK d : d = id[1] OBVIOUS
<1>4. id \in JobIds /\ d \in Deliveries BY <1>1, <1>2, <1>3, QueueJobs DEF IInv, CallerInv, Fit
<1>5. /\ \A j \in DOMAIN queue : j[1] # d
      /\ \A k \in Callers : caller[k].pc = "enqueue" /\ caller[k].job[1] = d => k = c
      /\ ~Settled(d) /\ attempts[d].ok = 0 /\ delivery[d].attempts = 0 /\ id[3] = 1
  BY <1>1, <1>2, <1>3 DEF OneInv, FirstInv
<1>6. /\ DOMAIN queue' = DOMAIN queue \cup {id}
      /\ \A j \in DOMAIN queue : queue'[j] = queue[j]
      /\ queue'[id].state = "waiting"
  BY <1>2, <1>3, <1>5 DEF Enqueue, Add, Has
<1>7. \A k \in Callers : caller'[k] = IF k = c THEN IdleCaller ELSE caller[k]
  BY Types DEF Enqueue, Done, Continue
<1>8. \A j \in JobIds : JobInv(j)'
  <2> SUFFICES ASSUME NEW j \in JobIds, j \in DOMAIN queue' PROVE JobInv(j)' BY DEF JobInv
  <2>1. CASE j = id BY <1>1, <1>3, <1>5, <1>6, <2>1 DEF JobInv, Settled
  <2>2. CASE j # id
    <3>1. JobInv(j) /\ j \in DOMAIN queue /\ j[1] # d BY <1>5, <1>6, <2>2 DEF OneInv
    <3>. QED BY <1>1, <1>3, <1>6, <3>1 DEF JobInv, Settled
  <2>. QED BY <2>1, <2>2
<1>9. \A w \in Workers : HoldInv(w)'
  <2> SUFFICES ASSUME NEW w \in Workers, worker[w].pc # "idle" PROVE HoldInv(w)' BY <1>1 DEF HoldInv
  <2>1. HoldInv(w) BY DEF OneInv
  <2>. QED BY <1>1, <1>6, <2>1 DEF HoldInv, Settled, Exhausted, NewAttemptCount
<1>10. \A k \in Callers : FirstInv(k)'
  <2> SUFFICES ASSUME NEW k \in Callers PROVE FirstInv(k)' OBVIOUS
  <2>1. CASE k = c BY <1>7, <2>1 DEF FirstInv, IdleCaller
  <2>2. CASE k # c
    <3>1. FirstInv(k) /\ caller'[k] = caller[k] BY <1>7, <2>2 DEF OneInv
    <3>2. caller[k].pc = "enqueue" => caller[k].job[1] # d BY <1>5, <2>2
    <3>3. \A x \in Callers : caller'[x].pc = "enqueue" => caller'[x] = caller[x] /\ caller[x].pc = "enqueue"
      BY <1>7 DEF IdleCaller
    <3>. QED BY <1>1, <1>3, <1>6, <3>1, <3>2, <3>3 DEF FirstInv, Settled
  <2>. QED BY <2>1, <2>2
<1>11. \A x \in Deliveries : RowInv(x)'
  <2> SUFFICES ASSUME NEW x \in Deliveries PROVE RowInv(x)' OBVIOUS
  <2>1. RowInv(x) BY DEF OneInv
  <2>2. CASE x = d
    <3>1. OnItsWay(x)' BY <1>3, <1>6, <2>2 DEF OnItsWay
    <3>. QED BY <1>1, <2>1, <3>1 DEF RowInv, LiveRow, Settled
  <2>3. CASE x # d
    <3>1. OnItsWay(x) => OnItsWay(x)' BY <1>2, <1>3, <1>6, <1>7, <2>3 DEF OnItsWay
    <3>. QED BY <1>1, <2>1, <3>1 DEF RowInv, LiveRow, Settled
  <2>. QED BY <2>2, <2>3
<1>. QED BY <1>8, <1>9, <1>10, <1>11 DEF OneInv

\* A worker's step that changes neither the queue nor the requests: what is
\* said of the others holds if the row it is at is the only one to change.
LEMMA WorkerStepOne ==
    ASSUME IInv, OneInv, NEW w \in Workers, worker[w].pc # "idle", NEW d \in Deliveries, d = worker[w].job[1],
           UNCHANGED <<queue, caller>>,
           \A v \in Workers : v # w => worker'[v] = worker[v],
           worker'[w].pc # "idle", worker'[w].job = worker[w].job,
           \A x \in Deliveries : x # d => delivery'[x] = delivery[x] /\ attempts'[x] = attempts[x],
           \A h \in Hooks : hook[h].row = "live" => hook'[h].row = "live",
           HoldInv(w)', attempts'[d].ok <= 1, ~(delivery'[d].delivered /\ delivery'[d].failedPermanently),
           delivery'[d].row = delivery[d].row, delivery'[d].hook = delivery[d].hook
    PROVE  OneInv'
<1>1. \A id \in JobIds : JobInv(id)'
  <2> SUFFICES ASSUME NEW id \in JobIds, id \in DOMAIN queue PROVE JobInv(id)' BY DEF JobInv
  <2>1. JobInv(id) /\ id[1] \in Deliveries BY QueueJobs DEF OneInv
  <2>2. queue[id].state = "waiting" => id[1] # d BY Alone
  <2>3. queue[id].state = "active" =>
           worker'[queue[id].holder].pc # "idle" /\ worker'[queue[id].holder].job = id
    BY <2>1 DEF JobInv
  <2>. QED BY <2>1, <2>2, <2>3 DEF JobInv, Settled
<1>2. \A v \in Workers : HoldInv(v)'
  <2> SUFFICES ASSUME NEW v \in Workers, v # w, worker[v].pc # "idle" PROVE HoldInv(v)' BY DEF HoldInv
  <2>1. HoldInv(v) /\ worker[v].job[1] \in Deliveries /\ worker[v].job[1] # d BY Alone, AtWork DEF OneInv
  <2>. QED BY <2>1 DEF HoldInv, Settled, Exhausted, NewAttemptCount
<1>3. \A c \in Callers : FirstInv(c)'
  <2> SUFFICES ASSUME NEW c \in Callers PROVE FirstInv(c)' OBVIOUS
  <2>1. FirstInv(c) /\ CallerInv(c) BY DEF OneInv, IInv
  <2>2. caller[c].pc = "enqueue" => caller[c].job[1] \in Deliveries /\ caller[c].job[1] # d
    BY <2>1, QueueJobs, Alone DEF CallerInv, Fit
  <2>. QED BY <2>1, <2>2 DEF FirstInv, Settled
<1>4. \A x \in Deliveries : RowInv(x)'
  <2> SUFFICES ASSUME NEW x \in Deliveries PROVE RowInv(x)' OBVIOUS
  <2>1. RowInv(x) /\ (OnItsWay(x) => OnItsWay(x)') BY DEF OneInv, OnItsWay
  <2>2. delivery[x].row # "none" => delivery[x].hook \in Hooks BY DEF IInv, DeliveryInv
  <2>3. CASE x = d
    <3>1. delivery[d].row # "none" BY AtWork
    <3>2. OnItsWay(d)'
      <4>1. worker[w].job \in DOMAIN queue /\ queue[worker[w].job].state = "active" BY DEF OneInv, HoldInv
      <4>. QED BY <4>1 DEF OnItsWay
    <3>. QED BY <2>1, <2>2, <2>3, <3>1, <3>2 DEF RowInv, LiveRow
  <2>4. CASE x # d BY <2>1, <2>2, <2>4 DEF RowInv, LiveRow, Settled
  <2>. QED BY <2>3, <2>4
<1>. QED BY <1>1, <1>2, <1>3, <1>4 DEF OneInv

\* A worker's job is over and the row it was at is settled, or gone.
LEMMA EndJobOne ==
    ASSUME IInv, OneInv, NEW w \in Workers, worker[w].pc # "idle", NEW outcome \in {"completed", "failed"},
           EndJob(w, outcome), UNCHANGED <<delivery, attempts, caller>>,
           \A h \in Hooks : hook[h].row = "live" => hook'[h].row = "live",
           LiveRow(worker[w].job[1]) => Settled(worker[w].job[1])
    PROVE  OneInv'
<1>1. PICK id : id = worker[w].job OBVIOUS
<1>2. PICK d \in Deliveries : d = id[1] BY <1>1, AtWork
<1>3. id \in DOMAIN queue /\ queue[id].state = "active" /\ queue[id].holder = w
  BY <1>1 DEF OneInv, HoldInv
<1>4. /\ DOMAIN queue' = DOMAIN queue /\ queue'[id].state = outcome
      /\ \A j \in DOMAIN queue : j # id => queue'[j] = queue[j]
  <2>1. queue' = [queue EXCEPT ![id].state = outcome, ![id].holder = "nobody"]
    BY <1>1, <1>3 DEF EndJob, Finish, Active, Has
  <2>2. queue \in [DOMAIN queue -> JobType] BY Types DEF QueueOK
  <2>3. queue[id] \in JobType BY <1>3, QueueJobs
  <2>. QED BY <1>3, <2>1, <2>2, <2>3 DEF JobType
<1>5. \A v \in Workers : worker'[v] = IF v = w THEN IdleWorker ELSE worker[v] BY Types DEF EndJob
<1>6. \A j \in JobIds : JobInv(j)'
  <2> SUFFICES ASSUME NEW j \in JobIds, j \in DOMAIN queue, j # id PROVE JobInv(j)' BY <1>4 DEF JobInv
  <2>1. JobInv(j) /\ queue'[j] = queue[j] BY <1>4 DEF OneInv
  <2>2. queue[j].state = "active" => queue[j].holder \in Workers /\ queue[j].holder # w BY <1>1, <2>1 DEF JobInv
  <2>. QED BY <1>3, <1>4, <1>5, <2>1, <2>2 DEF JobInv, Settled
<1>7. \A v \in Workers : HoldInv(v)'
  <2> SUFFICES ASSUME NEW v \in Workers, v # w, worker[v].pc # "idle" PROVE HoldInv(v)'
    BY <1>5 DEF HoldInv, IdleWorker
  <2>1. HoldInv(v) /\ worker[v].job # id BY <1>1, <1>2, Alone DEF OneInv
  <2>. QED BY <1>4, <1>5, <2>1 DEF HoldInv, Settled, Exhausted, NewAttemptCount
<1>8. \A c \in Callers : FirstInv(c)'
  <2> SUFFICES ASSUME NEW c \in Callers PROVE FirstInv(c)' OBVIOUS
  <2>1. FirstInv(c) BY DEF OneInv
  <2>. QED BY <1>4, <2>1 DEF FirstInv, Settled
<1>9. \A x \in Deliveries : RowInv(x)'
  <2> SUFFICES ASSUME NEW x \in Deliveries PROVE RowInv(x)' OBVIOUS
  <2>1. RowInv(x) BY DEF OneInv
  <2>2. delivery[x].row # "none" => delivery[x].hook \in Hooks BY DEF IInv, DeliveryInv
  <2>3. x # d /\ OnItsWay(x) => OnItsWay(x)' BY <1>2, <1>4 DEF OnItsWay
  <2>. QED BY <1>1, <1>2, <2>1, <2>2, <2>3 DEF RowInv, LiveRow, Settled
<1>. QED BY <1>6, <1>7, <1>8, <1>9 DEF OneInv

\* Taking the one job that waits.
LEMMA LoadDeliveryOne == ASSUME IInv, OneInv, NEW w \in Workers, LoadDelivery(w) PROVE OneInv'
<1>1. PICK id \in DOMAIN queue :
         /\ queue[id].state = "waiting" /\ ~ShouldSkip(id) /\ queue' = Take(queue, id, w)
         /\ worker' = [worker EXCEPT ![w] =
               [pc |-> "post", job |-> id, attempts |-> delivery[id[1]].attempts,
                maxAttempts |-> delivery[id[1]].maxAttempts, ok |-> FALSE]]
  BY DEF LoadDelivery, Taken, Waiting
<1>2. UNCHANGED <<hook, delivery, attempts, caller, alert, tally>> /\ worker[w].pc = "idle" BY DEF LoadDelivery
<1>3. PICK d \in Deliveries : d = id[1] BY QueueJobs
<1>4. id \in JobIds /\ JobInv(id) BY QueueJobs DEF OneInv
<1>5. /\ DOMAIN queue' = DOMAIN queue /\ queue'[id].state = "active" /\ queue'[id].holder = w
      /\ \A j \in DOMAIN queue : j # id => queue'[j] = queue[j]
  <2>1. queue' = [queue EXCEPT ![id].state = "active", ![id].holder = w] BY <1>1 DEF Take
  <2>2. queue \in [DOMAIN queue -> JobType] BY Types DEF QueueOK
  <2>3. queue[id] \in JobType BY QueueJobs
  <2>. QED BY <2>1, <2>2, <2>3 DEF JobType
<1>6. PICK r : r = [pc |-> "post", job |-> id, attempts |-> delivery[d].attempts,
                    maxAttempts |-> delivery[d].maxAttempts, ok |-> FALSE]
  OBVIOUS
<1>7. r.pc = "post" /\ r.job = id /\ r.attempts = delivery[d].attempts BY <1>6
<1>8. \A v \in Workers : worker'[v] = IF v = w THEN r ELSE worker[v] BY <1>1, <1>3, <1>6, Types
<1>9. ~Settled(d) /\ attempts[d].ok = 0 /\ id[3] = delivery[d].attempts + 1 BY <1>1, <1>3, <1>4 DEF JobInv
<1>10. \A j \in JobIds : JobInv(j)'
  <2> SUFFICES ASSUME NEW j \in JobIds, j \in DOMAIN queue PROVE JobInv(j)' BY <1>5 DEF JobInv
  <2>1. JobInv(j) BY DEF OneInv
  <2>2. CASE j = id
    <3>1. \A i \in DOMAIN queue' : i[1] = id[1] =>
             i[3] <= id[3] /\ (queue'[i].state \in {"waiting", "active"} => i = id)
      BY <1>1, <1>4, <1>5 DEF JobInv
    <3>. QED BY <1>5, <1>7, <1>8, <2>2, <3>1 DEF JobInv
  <2>3. CASE j # id
    <3>1. queue'[j] = queue[j] BY <1>5, <2>3
    <3>2. queue[j].state = "active" => queue[j].holder # w BY <1>2, <2>1 DEF JobInv
    <3>3. queue[j].state \in {"waiting", "active"} => j[1] # id[1] BY <1>1, <1>4, <2>3 DEF JobInv
    <3>. QED BY <1>2, <1>5, <1>8, <2>1, <3>1, <3>2, <3>3 DEF JobInv, Settled
  <2>. QED BY <2>2, <2>3
<1>11. \A v \in Workers : HoldInv(v)'
  <2> SUFFICES ASSUME NEW v \in Workers PROVE HoldInv(v)' OBVIOUS
  <2>1. CASE v = w
    <3>1. worker'[v] = r BY <1>8, <2>1
    <3>. QED BY <1>2, <1>3, <1>5, <1>7, <1>9, <2>1, <3>1 DEF HoldInv, Settled
  <2>2. CASE v # w
    <3>1. HoldInv(v) /\ worker'[v] = worker[v] BY <1>8, <2>2 DEF OneInv
    <3>2. worker[v].pc # "idle" => worker[v].job # id BY <1>1, <3>1 DEF HoldInv
    <3>. QED BY <1>2, <1>5, <3>1, <3>2 DEF HoldInv, Settled, Exhausted, NewAttemptCount
  <2>. QED BY <2>1, <2>2
<1>12. \A c \in Callers : FirstInv(c)'
  <2> SUFFICES ASSUME NEW c \in Callers PROVE FirstInv(c)' OBVIOUS
  <2>1. FirstInv(c) BY DEF OneInv
  <2>. QED BY <1>2, <1>5, <2>1 DEF FirstInv, Settled
<1>13. \A x \in Deliveries : RowInv(x)'
  <2> SUFFICES ASSUME NEW x \in Deliveries PROVE RowInv(x)' OBVIOUS
  <2>1. RowInv(x) /\ (OnItsWay(x) => OnItsWay(x)') BY <1>2, <1>5 DEF OneInv, OnItsWay
  <2>. QED BY <1>2, <2>1 DEF RowInv, LiveRow, Settled
<1>. QED BY <1>10, <1>11, <1>12, <1>13 DEF OneInv

\* No job waits for a row that is settled: one is skipped for a deleted row.
LEMMA SkipDeliveryOne == ASSUME IInv, OneInv, NEW w \in Workers, SkipDelivery(w) PROVE OneInv'
<1>1. PICK id \in DOMAIN queue :
         queue[id].state = "waiting" /\ ShouldSkip(id)
         /\ queue' = Finish(Take(queue, id, w), id, w, "completed")
  BY DEF SkipDelivery, Waiting
<1>2. UNCHANGED <<hook, delivery, attempts, worker, caller, alert, tally>> BY DEF SkipDelivery
<1>3. PICK d \in Deliveries : d = id[1] BY QueueJobs
<1>4. JobInv(id) /\ ~LiveRow(d)
  <2>1. JobInv(id) BY QueueJobs DEF OneInv
  <2>. QED BY <1>1, <1>3, <2>1 DEF JobInv, ShouldSkip
<1>5. /\ DOMAIN queue' = DOMAIN queue /\ queue'[id].state = "completed"
      /\ \A j \in DOMAIN queue : j # id => queue'[j] = queue[j]
  <2>1. PICK q : q = Take(queue, id, w) OBVIOUS
  <2>2. q = [queue EXCEPT ![id].state = "active", ![id].holder = w] BY <2>1 DEF Take
  <2>3. queue \in [DOMAIN queue -> JobType] BY Types DEF QueueOK
  <2>4. queue[id] \in JobType BY QueueJobs
  <2>5. DOMAIN q = DOMAIN queue /\ q[id].state = "active" /\ q[id].holder = w
        /\ q \in [DOMAIN queue -> JobType] /\ \A j \in DOMAIN queue : j # id => q[j] = queue[j]
    BY <2>2, <2>3, <2>4 DEF JobType
  <2>6. queue' = [q EXCEPT ![id].state = "completed", ![id].holder = "nobody"]
    BY <1>1, <2>1, <2>5 DEF Finish, Active, Has
  <2>7. q[id] \in JobType BY <2>5
  <2> HIDE <2>2
  <2>. QED BY <2>5, <2>6, <2>7 DEF JobType
<1>6. \A j \in JobIds : JobInv(j)'
  <2> SUFFICES ASSUME NEW j \in JobIds, j \in DOMAIN queue, j # id PROVE JobInv(j)' BY <1>5 DEF JobInv
  <2>1. JobInv(j) /\ queue'[j] = queue[j] BY <1>5 DEF OneInv
  <2>. QED BY <1>2, <1>5, <2>1 DEF JobInv, Settled
<1>7. \A v \in Workers : HoldInv(v)'
  <2> SUFFICES ASSUME NEW v \in Workers, worker[v].pc # "idle" PROVE HoldInv(v)' BY <1>2 DEF HoldInv
  <2>1. HoldInv(v) /\ worker[v].job # id BY <1>1 DEF OneInv, HoldInv
  <2>. QED BY <1>2, <1>5, <2>1 DEF HoldInv, Settled, Exhausted, NewAttemptCount
<1>8. \A c \in Callers : FirstInv(c)'
  <2> SUFFICES ASSUME NEW c \in Callers PROVE FirstInv(c)' OBVIOUS
  <2>1. FirstInv(c) BY DEF OneInv
  <2>. QED BY <1>2, <1>5, <2>1 DEF FirstInv, Settled
<1>9. \A x \in Deliveries : RowInv(x)'
  <2> SUFFICES ASSUME NEW x \in Deliveries PROVE RowInv(x)' OBVIOUS
  <2>1. RowInv(x) BY DEF OneInv
  <2>2. x # d /\ OnItsWay(x) => OnItsWay(x)' BY <1>2, <1>3, <1>5 DEF OnItsWay
  <2>. QED BY <1>2, <1>4, <2>1, <2>2 DEF RowInv, LiveRow, Settled
<1>. QED BY <1>6, <1>7, <1>8, <1>9 DEF OneInv

\* The steps of a worker at its row.
LEMMA PostOne == ASSUME IInv, OneInv, NEW w \in Workers, Post(w) PROVE OneInv'
<1>1. worker[w].pc = "post" /\ UNCHANGED <<hook, delivery, attempts, queue, caller, alert, tally>> BY DEF Post
<1>2. PICK d \in Deliveries : d = worker[w].job[1] BY <1>1, AtWork
<1>3. /\ worker'[w].pc = "log" /\ worker'[w].job = worker[w].job
      /\ worker'[w].attempts = worker[w].attempts /\ \A v \in Workers : v # w => worker'[v] = worker[v]
  BY Types DEF Post, WorkerType
<1>4. HoldInv(w) /\ RowInv(d) BY DEF OneInv
<1>5. HoldInv(w)' BY <1>1, <1>3, <1>4 DEF HoldInv, Settled
<1>. QED BY <1>1, <1>2, <1>3, <1>4, <1>5, WorkerStepOne DEF RowInv

LEMMA LogAttemptOne == ASSUME IInv, OneInv, NEW w \in Workers, LogAttempt(w) PROVE OneInv'
<1>1. /\ worker[w].pc = "log" /\ Step(w, "save")
      /\ UNCHANGED <<hook, delivery, queue, caller, alert, tally>>
  BY DEF LogAttempt
<1>2. PICK d \in Deliveries : d = worker[w].job[1] BY <1>1, AtWork
<1>3. /\ worker'[w].pc = "save" /\ worker'[w].job = worker[w].job /\ worker'[w].ok = worker[w].ok
      /\ worker'[w].attempts = worker[w].attempts /\ \A v \in Workers : v # w => worker'[v] = worker[v]
  BY <1>1, Types DEF Step, WorkerType
<1>4. HoldInv(w) /\ RowInv(d) BY DEF OneInv
<1>5. attempts' = [attempts EXCEPT ![d] = AttemptRow(attempts[d], worker[w].ok)] BY <1>2 DEF LogAttempt
<1>6. PICK r : r = AttemptRow(attempts[d], worker[w].ok) OBVIOUS
<1>7. attempts[d].ok = 0 BY <1>1, <1>2, <1>4 DEF HoldInv
<1>8. r.ok <= 1 /\ (~worker[w].ok => r.ok = 0) BY <1>6, <1>7, Types DEF AttemptRow, AttemptsType
<1>9. \A x \in Deliveries : attempts'[x] = IF x = d THEN r ELSE attempts[x] BY <1>5, <1>6, Types
<1>10. HoldInv(w)' BY <1>1, <1>2, <1>3, <1>4, <1>8, <1>9 DEF HoldInv, Settled
<1>. QED BY <1>1, <1>2, <1>3, <1>4, <1>8, <1>9, <1>10, WorkerStepOne DEF RowInv

LEMMA SaveDeliveredOne == ASSUME IInv, OneInv, NEW w \in Workers, SaveDelivered(w) PROVE OneInv'
<1>1. /\ worker[w].pc = "save" /\ worker[w].ok /\ Step(w, "stats")
      /\ UNCHANGED <<hook, attempts, queue, caller, alert, tally>>
  BY DEF SaveDelivered
<1>2. PICK d \in Deliveries : d = worker[w].job[1] BY <1>1, AtWork
<1>3. /\ worker'[w].pc = "stats" /\ worker'[w].job = worker[w].job /\ worker'[w].ok = worker[w].ok
      /\ worker'[w].attempts = worker[w].attempts /\ \A v \in Workers : v # w => worker'[v] = worker[v]
  BY <1>1, Types DEF Step, WorkerType
<1>4. HoldInv(w) /\ RowInv(d) BY DEF OneInv
<1>5. delivery' = [delivery EXCEPT ![d].delivered = TRUE, ![d].attempts = worker[w].attempts + 1]
  BY <1>2 DEF SaveDelivered, NewAttemptCount
<1>6. /\ \A x \in Deliveries : x # d => delivery'[x] = delivery[x]
      /\ delivery'[d].delivered /\ delivery'[d].attempts = worker[w].attempts + 1
      /\ delivery'[d].failedPermanently = delivery[d].failedPermanently
      /\ delivery'[d].row = delivery[d].row /\ delivery'[d].hook = delivery[d].hook
  BY <1>5, Types DEF DeliveryType
<1>7. ~delivery[d].failedPermanently BY <1>1, <1>2, <1>4 DEF HoldInv, Settled
<1>8. HoldInv(w)' BY <1>1, <1>2, <1>3, <1>4, <1>6 DEF HoldInv
<1>. QED BY <1>1, <1>2, <1>3, <1>4, <1>6, <1>7, <1>8, WorkerStepOne DEF RowInv

LEMMA SaveFailedOne == ASSUME IInv, OneInv, NEW w \in Workers, SaveFailed(w) PROVE OneInv'
<1>1. /\ worker[w].pc = "save" /\ ~worker[w].ok /\ Step(w, "stats")
      /\ UNCHANGED <<hook, attempts, queue, caller, alert, tally>>
  BY DEF SaveFailed
<1>2. PICK d \in Deliveries : d = worker[w].job[1] BY <1>1, AtWork
<1>3. /\ worker'[w].pc = "stats" /\ worker'[w].job = worker[w].job /\ worker'[w].ok = worker[w].ok
      /\ worker'[w].attempts = worker[w].attempts /\ worker'[w].maxAttempts = worker[w].maxAttempts
      /\ \A v \in Workers : v # w => worker'[v] = worker[v]
  BY <1>1, Types DEF Step, WorkerType
<1>4. HoldInv(w) /\ RowInv(d) BY DEF OneInv
<1>5. PICK r : r = FailedAttempt(w, delivery[d]) OBVIOUS
<1>6. \A x \in Deliveries : delivery'[x] = IF x = d THEN r ELSE delivery[x]
  BY <1>2, <1>5, Types DEF SaveFailed
<1>7. /\ r.delivered = delivery[d].delivered /\ r.attempts = worker[w].attempts + 1
      /\ r.failedPermanently = Exhausted(w) /\ r.row = delivery[d].row /\ r.hook = delivery[d].hook
  BY <1>5, Types DEF FailedAttempt, DeliveryType, NewAttemptCount
<1>8. ~delivery[d].delivered BY <1>1, <1>2, <1>4 DEF HoldInv, Settled
<1>9. Exhausted(w)' <=> Exhausted(w) BY <1>3 DEF Exhausted, NewAttemptCount
<1>10. delivery'[d] = r BY <1>6
<1>11. HoldInv(w)' BY <1>1, <1>2, <1>3, <1>4, <1>7, <1>8, <1>9, <1>10 DEF HoldInv
<1>. QED BY <1>1, <1>2, <1>3, <1>4, <1>6, <1>7, <1>8, <1>11, WorkerStepOne DEF RowInv

LEMMA RecordAttemptOne == ASSUME IInv, OneInv, NEW w \in Workers, RecordAttempt(w) PROVE OneInv'
<1>1. /\ worker[w].pc = "stats" /\ ~worker[w].ok /\ ~Exhausted(w) /\ Step(w, "retry")
      /\ UNCHANGED <<delivery, attempts, queue, caller, alert, tally>>
  BY DEF RecordAttempt
<1>2. PICK d \in Deliveries : d = worker[w].job[1] BY <1>1, AtWork
<1>3. /\ worker'[w].pc = "retry" /\ worker'[w].job = worker[w].job /\ worker'[w].ok = worker[w].ok
      /\ worker'[w].attempts = worker[w].attempts /\ worker'[w].maxAttempts = worker[w].maxAttempts
      /\ \A v \in Workers : v # w => worker'[v] = worker[v]
  BY <1>1, Types DEF Step, WorkerType
<1>4. HoldInv(w) /\ RowInv(d) BY DEF OneInv
<1>5. \A h \in Hooks : hook'[h] = hook[h]
  <2>1. PICK g \in Hooks : g = HookOf(worker[w].job) BY <1>1, AtWork
  <2>2. hook' = [hook EXCEPT ![g] = hook[g]] BY <2>1 DEF RecordAttempt, CountFailure
  <2>. QED BY <2>2, Types
<1>6. Exhausted(w)' <=> Exhausted(w) BY <1>3 DEF Exhausted, NewAttemptCount
<1>7. HoldInv(w)' BY <1>1, <1>2, <1>3, <1>4, <1>6 DEF HoldInv
<1>. QED BY <1>1, <1>2, <1>3, <1>4, <1>5, <1>7, WorkerStepOne DEF RowInv

\* The row is settled when its job is over.
LEMMA RecordSuccessOne == ASSUME IInv, OneInv, NEW w \in Workers, RecordSuccess(w) PROVE OneInv'
<1>1. /\ worker[w].pc = "stats" /\ worker[w].ok /\ EndJob(w, "completed")
      /\ UNCHANGED <<delivery, attempts, caller, tally>>
  BY DEF RecordSuccess
<1>2. \A h \in Hooks : hook'[h].row = hook[h].row
  <2>1. PICK g \in Hooks : g = HookOf(worker[w].job) BY <1>1, AtWork
  <2>2. hook' = [hook EXCEPT ![g].succeeded = @ + 1, ![g].streak = 0, ![g].alertSent = "never"]
    BY <2>1 DEF RecordSuccess
  <2>. QED BY <2>2, Types DEF HookType
<1>3. Settled(worker[w].job[1]) BY <1>1 DEF OneInv, HoldInv, Settled
<1>. QED BY <1>1, <1>2, <1>3, EndJobOne

LEMMA RecordFailureOne == ASSUME IInv, OneInv, NEW w \in Workers, RecordFailure(w) PROVE OneInv'
<1>1. /\ worker[w].pc = "stats" /\ ~worker[w].ok /\ Exhausted(w) /\ EndJob(w, "completed")
      /\ UNCHANGED <<delivery, attempts, caller, tally>>
  BY DEF RecordFailure
<1>2. \A h \in Hooks : hook'[h].row = hook[h].row
  <2>1. PICK g \in Hooks : g = HookOf(worker[w].job) BY <1>1, AtWork
  <2>2. PICK r : r = CountFailure(hook[g], TRUE) OBVIOUS
  <2>3. hook' = [hook EXCEPT ![g] = r] BY <2>1, <2>2 DEF RecordFailure
  <2>4. r.row = hook[g].row BY <2>2, Types DEF CountFailure, HookType
  <2>. QED BY <2>3, <2>4, Types
<1>3. Settled(worker[w].job[1]) BY <1>1 DEF OneInv, HoldInv, Settled
<1>. QED BY <1>1, <1>2, <1>3, EndJobOne

\* A handler throws only at a row that is gone: an endpoint stays while one of
\* its deliveries does.
LEMMA HandlerThrowsOne ==
    ASSUME IInv, OneInv, Faults = {}, NEW w \in Workers, HandlerThrows(w) PROVE OneInv'
<1>1. EndJob(w, "failed") /\ UNCHANGED <<hook, delivery, attempts, caller, alert, tally>>
      /\ worker[w].pc # "idle"
  BY DEF HandlerThrows
<1>2. PICK d \in Deliveries : d = worker[w].job[1] BY <1>1, AtWork
<1>3. RowInv(d) BY DEF OneInv
<1>4. ~LiveRow(d) BY <1>2, <1>3 DEF HandlerThrows, LiveHook, HookOf, RowInv
<1>. QED BY <1>1, <1>2, <1>4, EndJobOne

\* The next job of the chain.
LEMMA EnqueueRetryOne == ASSUME IInv, OneInv, NEW w \in Workers, EnqueueRetry(w) PROVE OneInv'
<1>1. /\ worker[w].pc = "retry" /\ UNCHANGED <<hook, delivery, attempts, caller, alert, tally>>
      /\ worker' = [worker EXCEPT ![w] = IdleWorker]
  BY DEF EnqueueRetry
<1>2. PICK id : id = worker[w].job OBVIOUS
<1>3. PICK d \in Deliveries : d = id[1] BY <1>1, <1>2, AtWork
<1>4. /\ id \in DOMAIN queue /\ queue[id].state = "active" /\ queue[id].holder = w
      /\ id[3] = worker[w].attempts + 1 /\ delivery[d].attempts = worker[w].attempts + 1
      /\ ~Settled(d) /\ attempts[d].ok = 0
  BY <1>1, <1>2, <1>3 DEF OneInv, HoldInv, Settled
<1>5. id \in JobIds /\ JobInv(id) /\ worker[w].attempts \in Nat BY <1>4, QueueJobs, Types DEF OneInv, WorkerType
<1>6. PICK next : next = NextJob(w) OBVIOUS
<1>7. next \in JobIds /\ next[1] = d /\ next[3] = worker[w].attempts + 2
  BY <1>2, <1>3, <1>5, <1>6 DEF NextJob, NewAttemptCount, JobIds
<1>8. \A j \in DOMAIN queue : j[1] = d => j[3] < next[3]
  <2>1. \A j \in DOMAIN queue : j[1] = d => j[3] <= id[3] /\ j[3] \in Nat BY <1>3, <1>4, <1>5, QueueJobs DEF JobInv
  <2>. QED BY <1>4, <1>5, <1>7, <2>1
<1>9. next \notin DOMAIN queue BY <1>7, <1>8, <1>5
<1>10. /\ DOMAIN queue' = DOMAIN queue \cup {next} /\ queue'[next].state = "waiting"
       /\ queue'[id].state = "completed"
       /\ \A j \in DOMAIN queue : j # id => queue'[j] = queue[j]
  <2>1. PICK q : q = Add(queue, next, queue[id].data) OBVIOUS
  <2>2. PICK new : new = [state |-> "waiting", stalls |-> 0, holder |-> "nobody", data |-> queue[id].data] OBVIOUS
  <2>3. q = [i \in DOMAIN queue \cup {next} |-> IF i = next THEN new ELSE queue[i]]
    BY <1>9, <2>1, <2>2 DEF Add, Has
  <2>4. /\ DOMAIN q = DOMAIN queue \cup {next} /\ q[next] = new
        /\ \A j \in DOMAIN queue : q[j] = queue[j]
    BY <1>9, <2>3
  <2>5. queue' = Finish(q, id, w, "completed") BY <1>2, <1>6, <2>1 DEF EnqueueRetry
  <2>6. queue[id] \in JobType BY <1>4, QueueJobs
  <2>7. q[id].state = "active" /\ q[id].holder = w BY <1>4, <2>4
  <2>8. queue' = [q EXCEPT ![id].state = "completed", ![id].holder = "nobody"]
    BY <1>4, <2>4, <2>5, <2>7 DEF Finish, Active, Has
  <2>9. /\ DOMAIN queue' = DOMAIN q /\ queue'[id].state = "completed"
        /\ \A j \in DOMAIN q : j # id => queue'[j] = q[j]
    <3>1. PICK r : r = [q[id] EXCEPT !.state = "completed", !.holder = "nobody"] OBVIOUS
    <3>2. q[id] \in JobType /\ id \in DOMAIN q BY <1>4, <2>4, <2>6
    <3>3. r.state = "completed" BY <3>1, <3>2 DEF JobType
    <3>4. q = [i \in DOMAIN q |-> q[i]] BY <2>3
    <3>5. queue' = [q EXCEPT ![id] = r] BY <2>8, <3>1, <3>2, <3>4 DEF JobType
    <3>. QED BY <3>2, <3>3, <3>4, <3>5
  <2>10. new.state = "waiting" BY <2>2
  <2>. QED BY <1>4, <1>9, <2>4, <2>9, <2>10
<1>11. \A v \in Workers : worker'[v] = IF v = w THEN IdleWorker ELSE worker[v] BY <1>1, Types
<1>12. \A j \in JobIds : JobInv(j)'
  <2> SUFFICES ASSUME NEW j \in JobIds, j \in DOMAIN queue', j # id PROVE JobInv(j)' BY <1>10 DEF JobInv
  <2>1. CASE j = next
    <3>1. \A i \in DOMAIN queue' : i[1] = d =>
             i[3] <= next[3] /\ (queue'[i].state \in {"waiting", "active"} => i = next)
      <4> SUFFICES ASSUME NEW i \in DOMAIN queue, i[1] = d, i # next
                   PROVE  i[3] <= next[3] /\ queue'[i].state \notin {"waiting", "active"}
        BY <1>5, <1>7, <1>10
      <4>1. i[3] < next[3] /\ i[3] \in Nat BY <1>8, QueueJobs
      <4>2. i # id => queue[i].state \notin {"waiting", "active"} BY <1>3, <1>4, <1>5 DEF JobInv
      <4>. QED BY <1>5, <1>7, <1>10, <4>1, <4>2
    <3>2. id[3] + 1 = next[3] /\ next[3] = delivery[d].attempts + 1 BY <1>4, <1>5, <1>7
    <3>. QED BY <1>1, <1>4, <1>7, <1>10, <2>1, <3>1, <3>2 DEF JobInv, Settled
  <2>2. CASE j # next
    <3>1. JobInv(j) /\ j \in DOMAIN queue /\ queue'[j] = queue[j] BY <1>10, <2>2 DEF OneInv
    <3>2. queue[j].state \in {"waiting", "active"} => j[1] # d BY <1>3, <1>4, <1>5, <3>1 DEF JobInv
    <3>3. queue[j].state = "active" => queue[j].holder # w BY <1>2, <3>1 DEF JobInv
    <3>. QED BY <1>1, <1>4, <1>7, <1>10, <1>11, <3>1, <3>2, <3>3 DEF JobInv, Settled
  <2>. QED BY <2>1, <2>2
<1>13. \A v \in Workers : HoldInv(v)'
  <2> SUFFICES ASSUME NEW v \in Workers, v # w, worker[v].pc # "idle" PROVE HoldInv(v)'
    BY <1>11 DEF HoldInv, IdleWorker
  <2>1. HoldInv(v) /\ worker[v].job[1] # d BY <1>1, <1>2, <1>3, Alone DEF OneInv
  <2>2. worker[v].job # id BY <1>3, <2>1
  <2>. QED BY <1>1, <1>10, <1>11, <2>1, <2>2 DEF HoldInv, Settled, Exhausted, NewAttemptCount
<1>14. \A c \in Callers : FirstInv(c)'
  <2> SUFFICES ASSUME NEW c \in Callers PROVE FirstInv(c)' OBVIOUS
  <2>1. FirstInv(c) BY DEF OneInv
  <2>2. caller[c].pc = "enqueue" => caller[c].job[1] # d BY <1>1, <1>2, <1>3, Alone
  <2>. QED BY <1>1, <1>7, <1>10, <2>1, <2>2 DEF FirstInv, Settled
<1>15. \A x \in Deliveries : RowInv(x)'
  <2> SUFFICES ASSUME NEW x \in Deliveries PROVE RowInv(x)' OBVIOUS
  <2>1. RowInv(x) BY DEF OneInv
  <2>2. x = d => OnItsWay(x)' BY <1>7, <1>10 DEF OnItsWay
  <2>3. x # d /\ OnItsWay(x) => OnItsWay(x)' BY <1>1, <1>3, <1>10 DEF OnItsWay
  <2>. QED BY <1>1, <2>1, <2>2, <2>3 DEF RowInv, LiveRow, Settled
<1>. QED BY <1>12, <1>13, <1>14, <1>15 DEF OneInv

\* Requests: an endpoint is removed only when no delivery of it is left.
LEMMA CallerOne ==
    ASSUME IInv, OneInv, Faults = {}, MaxRetries = 0, IsFiniteSet(Callers),
           NEW c \in Callers, CallerNext(c)
    PROVE  OneInv'
<1> DEFINE Still == UNCHANGED <<delivery, attempts, queue, worker>>
           Moves(r) == Continue(c, r) /\ caller[c].pc # "enqueue" /\ r.pc \notin {"enqueue", "reset"}
<1>0. \A d \in Deliveries : LiveRow(d) => hook[delivery[d].hook].row = "live" BY DEF OneInv, RowInv
<1>1. ASSUME Still, NEW r, Moves(r),
             \A d \in Deliveries : LiveRow(d) => hook'[delivery[d].hook].row = "live"
      PROVE OneInv'
  <2>1. \A k \in Callers : \/ caller'[k] = caller[k]
                           \/ caller[k].pc # "enqueue" /\ caller'[k].pc \notin {"enqueue", "reset"}
    BY <1>1, Types DEF Continue
  <2>. QED BY <1>1, <2>1, QuietStep
<1>2. IdleCaller.pc = "idle" BY DEF IdleCaller
<1>3. CASE CountHooks(c)
  <2>1. PICK r : r = [IdleCaller EXCEPT !.pc = "newHook"] OBVIOUS
  <2>2. r.pc = "newHook" BY <2>1 DEF IdleCaller
  <2>. QED BY <1>0, <1>1, <1>3, <2>1, <2>2 DEF CountHooks
<1>4. CASE CreateHook(c)
  <2>1. PICK g \in Hooks : hook[g].row = "none"
                           /\ hook' = [hook EXCEPT ![g] = [NoHook EXCEPT !.row = "live", !.active = TRUE]]
    BY <1>4 DEF CreateHook
  <2>2. \A h \in Hooks : h # g => hook'[h] = hook[h] BY <2>1, Types
  <2>3. \A d \in Deliveries : LiveRow(d) => delivery[d].hook \in Hooks BY DEF IInv, DeliveryInv, LiveRow
  <2>4. \A d \in Deliveries : LiveRow(d) => hook'[delivery[d].hook].row = "live" BY <1>0, <2>1, <2>2, <2>3
  <2>. QED BY <1>1, <1>2, <1>4, <2>4 DEF CreateHook, Done
<1>5. CASE DropHook(c)
  <2>1. PICK g \in Hooks : g = caller[c].hook BY <1>5 DEF DropHook, IInv, CallerInv, Fit
  <2>2. \/ UNCHANGED hook
        \/ /\ \A d \in Deliveries : LiveRow(d) => delivery[d].hook # g
           /\ hook' = [hook EXCEPT ![g].row = "deleted"]
    BY <1>5, <2>1 DEF DropHook
  <2>3. \A d \in Deliveries : LiveRow(d) => hook'[delivery[d].hook].row = "live"
    <3>1. CASE UNCHANGED hook BY <1>0, <3>1
    <3>2. CASE /\ \A d \in Deliveries : LiveRow(d) => delivery[d].hook # g
               /\ hook' = [hook EXCEPT ![g].row = "deleted"]
      <4>1. \A h \in Hooks : h # g => hook'[h] = hook[h] BY <3>2, Types
      <4>2. \A d \in Deliveries : LiveRow(d) => delivery[d].hook \in Hooks BY DEF IInv, DeliveryInv, LiveRow
      <4>. QED BY <1>0, <3>2, <4>1, <4>2
    <3>. QED BY <2>2, <3>1, <3>2
  <2>. QED BY <1>1, <1>2, <1>5, <2>3 DEF DropHook, Done
<1>6. CASE CheckDuplicate(c)
  <2>1. PICK r : r = [caller[c] EXCEPT !.pc = "create"] OBVIOUS
  <2>2. r.pc = "create" BY <2>1, Types DEF CallerType
  <2>3. Continue(c, r) \/ Continue(c, IdleCaller) BY <1>6, <2>1 DEF CheckDuplicate, Done
  <2>. QED BY <1>0, <1>1, <1>2, <1>6, <2>2, <2>3 DEF CheckDuplicate
<1>7. CASE CreateDelivery(c)
  <2>1. CASE UNCHANGED delivery
    <3>1. Continue(c, IdleCaller)
      <4> SUFFICES ASSUME LiveHook(caller[c].hook) PROVE FALSE BY <1>7 DEF CreateDelivery, Done
      <4>1. PICK k : k = caller[c] OBVIOUS
      <4>2. PICK d \in Deliveries :
               /\ delivery[d].row = "none"
               /\ delivery' = [delivery EXCEPT ![d] =
                     [NoDelivery EXCEPT !.row = "live", !.hook = k.hook, !.event = k.event,
                                        !.maxAttempts = k.maxAttempts]]
        BY <1>7, <4>1 DEF CreateDelivery
      <4>3. PICK r : r = [NoDelivery EXCEPT !.row = "live", !.hook = k.hook, !.event = k.event,
                                            !.maxAttempts = k.maxAttempts]
        OBVIOUS
      <4>4. r.row = "live" BY <4>3 DEF NoDelivery
      <4>5. delivery'[d] = r BY <4>2, <4>3, Types
      <4>. QED BY <2>1, <4>2, <4>4, <4>5
    <3>. QED BY <1>0, <1>1, <1>2, <1>7, <2>1, <3>1 DEF CreateDelivery
  <2>. QED BY <1>7, <2>1, CreateDeliveryOne
<1>8. CASE ResetForRetry(c) BY <1>8 DEF ResetForRetry, OneInv, FirstInv
<1>9. CASE CallerFails(c) BY <1>9 DEF CallerFails
<1>10. ASSUME NEW h \in Hooks, PingHook(c, h) PROVE OneInv'
  <2>1. PICK r : r = [pc |-> "create", hook |-> h, event |-> Ping, secret |-> hook[h].secret,
                      maxAttempts |-> 1, job |-> NoJob]
    OBVIOUS
  <2>2. r.pc = "create" BY <2>1
  <2>. QED BY <1>0, <1>1, <1>10, <2>1, <2>2 DEF PingHook
<1>11. ASSUME NEW d \in Deliveries, ReadForRetry(c, d) PROVE FALSE
  <2>1. PICK S : S = {k \in Callers : caller[k].pc = "reset" /\ caller[k].job[1] = d} OBVIOUS
  <2>2. S \subseteq Callers BY <2>1
  <2>3. Cardinality(S) \in Nat BY <2>2, FS_Subset, FS_CardinalityType
  <2>4. tally.reopened[d] + Cardinality(S) < 0 BY <1>11, <2>1 DEF ReadForRetry
  <2>5. tally.reopened[d] \in Nat BY Types DEF TallyType
  <2>. QED BY <2>3, <2>4, <2>5
<1>. QED BY <1>3, <1>4, <1>5, <1>6, <1>7, <1>8, <1>9, <1>10, <1>11, EnqueueOne, DeleteDeliveriesOne DEF CallerNext

\* Endpoints that are edited and alerts keep the rows of the endpoints.
LEMMA HookOne == ASSUME IInv, OneInv, NEW h \in Hooks, HookNext(h) PROVE OneInv'
<1>1. UNCHANGED <<delivery, attempts, queue, worker, caller>>
  BY DEF HookNext, SetActive, RotateSecret, MailAlert, RecordAlert, CooldownElapses
<1>2. \A g \in Hooks : hook'[g].row = hook[g].row
  <2>1. CASE SetActive(h) BY <2>1, Types DEF SetActive, HookType
  <2>2. CASE RotateSecret(h) BY <2>2, Types DEF RotateSecret, HookType
  <2>3. CASE MailAlert(h) BY <2>3 DEF MailAlert
  <2>4. CASE RecordAlert(h)
    <3>1. CASE LiveHook(h) BY <2>4, <3>1, Types DEF RecordAlert, HookType
    <3>2. CASE ~LiveHook(h) BY <2>4, <3>2 DEF RecordAlert
    <3>. QED BY <3>1, <3>2
  <2>5. CASE CooldownElapses(h) BY <2>5, Types DEF CooldownElapses, HookType
  <2>. QED BY <2>1, <2>2, <2>3, <2>4, <2>5 DEF HookNext
<1>3. \A d \in Deliveries : LiveRow(d) => delivery[d].hook \in Hooks /\ hook[delivery[d].hook].row = "live"
  BY DEF IInv, DeliveryInv, LiveRow, OneInv, RowInv
<1>. QED BY <1>1, <1>2, <1>3, QuietStep

\* A dispatch starts branches that have enqueued nothing yet.
LEMMA DispatchOne == ASSUME IInv, OneInv, NEW e \in Events, Dispatch(e) PROVE OneInv'
<1> DEFINE r(h) == [pc |-> "check", hook |-> h, event |-> e, secret |-> hook[h].secret,
                    maxAttempts |-> WEBHOOK_MAX_ATTEMPTS, job |-> NoJob]
           targets == {h \in Hooks : LiveHook(h) /\ hook[h].active}
           free    == {c \in Callers : caller[c].pc = "idle"}
<1>1. UNCHANGED <<hook, delivery, attempts, queue, worker, alert>> BY DEF Dispatch
<1>2. PICK branch \in Injection(targets, free) :
         caller' = [c \in Callers |->
            IF \E h \in targets : branch[h] = c
            THEN r(CHOOSE h \in targets : branch[h] = c) ELSE caller[c]]
  BY DEF Dispatch
<1>3. \A h \in targets : branch[h] \in free BY DEF Injection, IsInjective
<1>4. \A h : r(h).pc = "check" OBVIOUS
<1> HIDE DEF r
<1>5. \A c \in Callers : \/ caller'[c] = caller[c]
                         \/ caller[c].pc # "enqueue" /\ caller'[c].pc \notin {"enqueue", "reset"}
  BY <1>2, <1>3, <1>4
<1>6. \A d \in Deliveries : LiveRow(d) => hook[delivery[d].hook].row = "live" BY DEF OneInv, RowInv
<1>. QED BY <1>1, <1>5, <1>6, QuietStep

\* No job stalls: the worker that locked it is at it.
LEMMA NoStall == ASSUME IInv, OneInv, Faults = {}, NEW id \in DOMAIN queue, JobStalls(id) PROVE FALSE
  BY QueueJobs DEF OneInv, JobInv, JobStalls, Active

\* Every step.
LEMMA NextOne ==
    ASSUME IInv, OneInv, [Next]_vars, Faults = {}, MaxRetries = 0, IsFiniteSet(Callers) PROVE OneInv'
<1>1. CASE UNCHANGED vars
  <2>1. \A d \in Deliveries : LiveRow(d) => hook[delivery[d].hook].row = "live" BY DEF OneInv, RowInv
  <2>. QED BY <1>1, <2>1, QuietStep DEF vars
<1>2. ASSUME NEW w \in Workers, WorkerProceeds(w) \/ HandlerThrows(w) \/ WorkerCrash(w) PROVE OneInv'
  <2>1. ~WorkerCrash(w) BY DEF WorkerCrash
  <2>. QED BY <1>2, <2>1, LoadDeliveryOne, SkipDeliveryOne, PostOne, LogAttemptOne, SaveDeliveredOne, SaveFailedOne,
              RecordSuccessOne, RecordAttemptOne, RecordFailureOne, EnqueueRetryOne, HandlerThrowsOne
           DEF WorkerProceeds
<1>. QED BY <1>1, <1>2, CallerOne, DispatchOne, HookOne, NoStall DEF Next

\* What is inductive says what is claimed.
LEMMA OneInvOneWay == ASSUME IInv, OneInv PROVE OneWay
<1>1. ASSUME NEW d \in Deliveries PROVE Cardinality(LiveJobs(d)) <= 1
  <2>1. \A i, j \in LiveJobs(d) : i = j
    BY QueueJobs DEF LiveJobs, Live, Waiting, Active, Has, OneInv, JobInv
  <2>2. CASE LiveJobs(d) = {} BY <2>2, FS_EmptySet
  <2>3. CASE LiveJobs(d) # {}
    <3>1. PICK i : LiveJobs(d) = {i} BY <2>1, <2>3
    <3>2. Cardinality({i}) = 1 BY FS_Singleton
    <3>. QED BY <3>1, <3>2
  <2>. QED BY <2>2, <2>3
<1>2. SingleChain BY <1>1 DEF SingleChain, OneInv, RowInv, LiveRow
<1>3. NeverStranded
  <2> SUFFICES ASSUME NEW d \in Deliveries, LiveRow(d), ~Settled(d)
               PROVE LiveJobs(d) # {} \/ \E c \in Callers : caller[c].pc = "enqueue" /\ caller[c].job[1] = d
    BY DEF NeverStranded
  <2>1. OnItsWay(d) BY DEF OneInv, RowInv
  <2>. QED BY <2>1 DEF OnItsWay, LiveJobs, Live, Waiting, Active, Has
<1>. QED BY <1>2, <1>3 DEF OneWay

\* While nothing fails and nobody retries by hand, a delivery that is not
\* settled is on its way and on one way only, and is accepted once at most.
THEOREM OneWayAlways ==
    ASSUME Faults = {}, MaxRetries = 0, IsFiniteSet(Callers) PROVE Spec => []OneWay
<1>1. IInv /\ OneInv /\ [Next]_vars => OneInv' BY NextOne
<1>2. IInv /\ OneInv => OneWay BY OneInvOneWay
<1>. QED BY <1>1, <1>2, InitOneInv, Inductive, PTL DEF Spec

------------------------------------------------------------------------------
(* The refinement: WebhookDelivery implements DeliveryLedger.  Every step  *)
(* of a worker or a request is a step of the ledger or leaves it alone,    *)
(* whatever fails.                                                         *)

\* What the ledger shows of a delivery depends on its row alone.
RowOutcome(r) ==
    IF r.row = "none" THEN "none"
    ELSE IF r.row = "deleted" THEN "removed"
    ELSE IF r.delivered THEN "delivered"
    ELSE IF r.failedPermanently THEN "failed" ELSE "pending"

LEMMA OutcomeOfRow == Outcome = [d \in Deliveries |-> RowOutcome(delivery[d])]
BY DEF Outcome, RowOutcome

\* The initial tables are the empty ledger.
LEMMA LedgerInitOK == Init => Ledger!LedgerInit
BY OutcomeOfRow DEF Init, Ledger!LedgerInit, RowOutcome, Quota, NoDelivery

\* One delivery's row changes and its quota does not.
LEMMA OneRow ==
    ASSUME IInv, NEW d \in Deliveries, NEW r \in DeliveryType, delivery' = [delivery EXCEPT ![d] = r],
           r.maxAttempts = delivery[d].maxAttempts
    PROVE  /\ Outcome' = [Outcome EXCEPT ![d] = RowOutcome(r)] /\ UNCHANGED Quota
           /\ Outcome[d] = RowOutcome(delivery[d])
<1>1. \A x \in Deliveries : delivery'[x] = IF x = d THEN r ELSE delivery[x] BY Types
<1>2. Outcome' = [x \in Deliveries |-> RowOutcome(delivery'[x])] BY OutcomeOfRow DEF Outcome, RowOutcome
<1>. QED BY <1>1, <1>2, OutcomeOfRow DEF Quota

\* Steps that touch neither table leave the ledger alone.
LEMMA LedgerStays ==
    ASSUME UNCHANGED <<delivery, attempts>> PROVE UNCHANGED Ledger!lvars
BY DEF Ledger!lvars, Outcome, Quota

LEMMA OpenStep ==
    ASSUME IInv, NEW c \in Callers, CreateDelivery(c) PROVE [Ledger!LedgerNext]_(Ledger!lvars)
<1> DEFINE k == caller[c]
<1>1. k \in CallerType /\ k.maxAttempts \in {1, WEBHOOK_MAX_ATTEMPTS} /\ k.hook \in Hooks
      /\ UNCHANGED attempts
  BY Types DEF IInv, CallerInv, Fit, CreateDelivery
<1>2. CASE ~LiveHook(k.hook) BY <1>2, LedgerStays DEF CreateDelivery
<1>3. CASE LiveHook(k.hook)
  <2> DEFINE new == [NoDelivery EXCEPT !.row = "live", !.hook = k.hook, !.event = k.event,
                                       !.maxAttempts = k.maxAttempts]
  <2>1. PICK d \in Deliveries : delivery[d].row = "none" /\ delivery' = [delivery EXCEPT ![d] = new]
    BY <1>3 DEF CreateDelivery
  <2>2. RowOutcome(new) = "pending" /\ new.maxAttempts = k.maxAttempts BY DEF NoDelivery, RowOutcome
  <2> HIDE DEF new
  <2>3. \A x \in Deliveries : delivery'[x] = IF x = d THEN new ELSE delivery[x] BY <2>1, Types
  <2>4. Outcome' = [x \in Deliveries |-> RowOutcome(delivery'[x])] BY OutcomeOfRow DEF Outcome, RowOutcome
  <2>5. Outcome[d] = "none" /\ Outcome' = [Outcome EXCEPT ![d] = "pending"]
    BY <2>1, <2>2, <2>3, <2>4, OutcomeOfRow DEF RowOutcome
  <2>6. Quota' = [Quota EXCEPT ![d] = k.maxAttempts] BY <2>2, <2>3 DEF Quota
  <2>7. Ledger!Open(d, k.maxAttempts) BY <1>1, <2>5, <2>6 DEF Ledger!Open, Ledger!Set
  <2>. QED BY <1>1, <2>7 DEF Ledger!LedgerNext
<1>. QED BY <1>2, <1>3

LEMMA RemoveStep ==
    ASSUME IInv, NEW c \in Callers, NEW h \in Hooks, DeleteDeliveries(c, h)
    PROVE  [Ledger!LedgerNext]_(Ledger!lvars)
<1>1. PICK gone \in SUBSET Deliveries :
         /\ \A d \in gone : LiveRow(d)
         /\ delivery' = [d \in Deliveries |->
               IF d \in gone THEN [delivery[d] EXCEPT !.row = "deleted"] ELSE delivery[d]]
         /\ attempts' = [d \in Deliveries |->
               IF d \in gone THEN [ok |-> 0, failed |-> 0] ELSE attempts[d]]
  BY DEF DeleteDeliveries
<1>2. Outcome' = [x \in Deliveries |-> RowOutcome(delivery'[x])] BY OutcomeOfRow DEF Outcome, RowOutcome
<1>3. \A d \in gone : Outcome[d] \in {"pending", "delivered", "failed"}
  BY <1>1, OutcomeOfRow DEF RowOutcome, LiveRow
<1>4. \A d \in Deliveries :
         RowOutcome(delivery'[d]) = IF d \in gone THEN "removed" ELSE RowOutcome(delivery[d])
  BY <1>1, Types DEF RowOutcome, DeliveryType
<1>5. Outcome' = [d \in Deliveries |-> IF d \in gone THEN "removed" ELSE Outcome[d]] BY <1>2, <1>4, OutcomeOfRow
<1>6. UNCHANGED Quota BY <1>1, Types DEF Quota, DeliveryType
<1>7. Ledger!Remove(gone) BY <1>1, <1>3, <1>5, <1>6 DEF Ledger!Remove
<1>. QED BY <1>7 DEF Ledger!LedgerNext

LEMMA ReopenStep ==
    ASSUME IInv, NEW c \in Callers, ResetForRetry(c) PROVE [Ledger!LedgerNext]_(Ledger!lvars)
<1> DEFINE d == caller[c].job[1]
           r == Reopened(delivery[d])
<1>1. CASE ~LiveRow(d) BY <1>1, LedgerStays DEF ResetForRetry
<1>2. CASE LiveRow(d)
  <2>1. d \in Deliveries BY JobParts DEF ResetForRetry, IInv, CallerInv, Fit
  <2>2. delivery' = [delivery EXCEPT ![d] = r] /\ UNCHANGED attempts BY <1>2 DEF ResetForRetry
  <2>3. r \in DeliveryType /\ r.maxAttempts = delivery[d].maxAttempts
        /\ RowOutcome(r) = IF delivery[d].delivered THEN "delivered" ELSE "pending"
    BY ZenonT(60), <1>2, <2>1, Types DEF DeliveryType, Reopened, RowOutcome, LiveRow
  <2> HIDE DEF r
  <2>4. Outcome' = [Outcome EXCEPT ![d] = RowOutcome(r)] /\ UNCHANGED Quota
        /\ Outcome[d] = RowOutcome(delivery[d])
    BY <2>1, <2>2, <2>3, OneRow
  <2>5. CASE Outcome[d] = "failed" BY <1>2, <2>1, <2>2, <2>3, <2>4, <2>5
       DEF Ledger!LedgerNext, Ledger!Reopen, Ledger!Set, RowOutcome, LiveRow
  <2>6. CASE Outcome[d] # "failed"
    BY <1>2, <2>3, <2>4, <2>6, <2>2, OutcomeOfRow DEF RowOutcome, LiveRow, Ledger!lvars
  <2>. QED BY <2>5, <2>6
<1>. QED BY <1>1, <1>2

LEMMA TryStep ==
    ASSUME IInv, NEW w \in Workers, LogAttempt(w) PROVE [Ledger!LedgerNext]_(Ledger!lvars)
<1> DEFINE d == worker[w].job[1]
<1>1. d \in Deliveries /\ LiveRow(d) /\ UNCHANGED delivery
      /\ attempts' = [attempts EXCEPT ![d] = AttemptRow(@, worker[w].ok)]
  BY AtWork DEF LogAttempt
<1>2. UNCHANGED <<Outcome, Quota>> BY <1>1 DEF Outcome, Quota
<1>3. Outcome[d] \in {"pending", "delivered", "failed"} BY <1>1, OutcomeOfRow DEF RowOutcome, LiveRow
<1> HIDE DEF d
<1>4. \/ attempts' = [attempts EXCEPT ![d].ok = @ + 1]
      \/ attempts' = [attempts EXCEPT ![d].failed = @ + 1]
  BY <1>1 DEF AttemptRow
<1>. QED BY <1>1, <1>2, <1>3, <1>4 DEF Ledger!LedgerNext, Ledger!Try

LEMMA DeliverStep ==
    ASSUME IInv, NEW w \in Workers, SaveDelivered(w) PROVE [Ledger!LedgerNext]_(Ledger!lvars)
<1> DEFINE d == worker[w].job[1]
           r == [delivery[d] EXCEPT !.delivered = TRUE, !.attempts = NewAttemptCount(w)]
<1>1. d \in Deliveries /\ LiveRow(d) /\ UNCHANGED attempts /\ worker[w].ok /\ worker[w].pc = "save"
  BY AtWork DEF SaveDelivered
<1>2. delivery' = [delivery EXCEPT ![d] = r] BY Types, <1>1 DEF SaveDelivered, DeliveryType
<1>3. NewAttemptCount(w) \in Nat BY Types DEF WorkerType, NewAttemptCount
<1>4. r \in DeliveryType /\ r.maxAttempts = delivery[d].maxAttempts /\ RowOutcome(r) = "delivered"
  BY ZenonT(60), <1>1, <1>3, Types DEF DeliveryType, RowOutcome, LiveRow
<1>5. attempts[d].ok >= 1 BY <1>1 DEF IInv, WorkerInv
<1> HIDE DEF d, r
<1>6. Outcome' = [Outcome EXCEPT ![d] = "delivered"] /\ UNCHANGED Quota
      /\ Outcome[d] = RowOutcome(delivery[d])
  BY <1>1, <1>2, <1>4, OneRow
<1>7. Outcome[d] \in {"pending", "delivered", "failed"} BY <1>1, <1>6 DEF RowOutcome, LiveRow
<1>8. CASE Outcome[d] = "delivered" BY <1>1, <1>6, <1>8, OutcomeOfRow DEF Ledger!lvars
<1>9. CASE Outcome[d] # "delivered"
  BY <1>1, <1>5, <1>6, <1>7, <1>9 DEF Ledger!LedgerNext, Ledger!Deliver, Ledger!Set
<1>. QED BY <1>8, <1>9

LEMMA GiveUpStep ==
    ASSUME IInv, NEW w \in Workers, SaveFailed(w) PROVE [Ledger!LedgerNext]_(Ledger!lvars)
<1> DEFINE d == worker[w].job[1]
           r == FailedAttempt(w, delivery[d])
<1>1. d \in Deliveries /\ LiveRow(d) /\ UNCHANGED attempts /\ ~worker[w].ok /\ worker[w].pc = "save"
      /\ delivery' = [delivery EXCEPT ![d] = r]
  BY AtWork DEF SaveFailed
<1>2. worker[w].attempts \in Nat /\ NewAttemptCount(w) = worker[w].attempts + 1
      /\ NewAttemptCount(w) \in Nat
  BY Types DEF WorkerType, NewAttemptCount
<1>3. Exhausted(w) \in BOOLEAN /\ (Exhausted(w) <=> NewAttemptCount(w) >= worker[w].maxAttempts)
  BY DEF Exhausted
<1>4. r \in DeliveryType /\ r.maxAttempts = delivery[d].maxAttempts
      /\ RowOutcome(r) = IF delivery[d].delivered THEN "delivered"
                         ELSE IF Exhausted(w) THEN "failed" ELSE "pending"
  BY ZenonT(60), <1>1, <1>2, <1>3, Types DEF DeliveryType, RowOutcome, LiveRow, FailedAttempt
<1>5. worker[w].attempts + 1 <= attempts[d].failed /\ worker[w].maxAttempts = delivery[d].maxAttempts
  BY <1>1 DEF IInv, WorkerInv
<1>6. attempts[d].failed \in Nat /\ delivery[d].maxAttempts \in Nat /\ Quota[d] = delivery[d].maxAttempts
  BY <1>1, Types DEF AttemptsType, DeliveryType, Quota
<1>7. Exhausted(w) => attempts[d].failed >= Quota[d] BY <1>2, <1>3, <1>5, <1>6
<1> HIDE DEF d, r
<1>8. Outcome' = [Outcome EXCEPT ![d] = RowOutcome(r)] /\ UNCHANGED Quota
      /\ Outcome[d] = RowOutcome(delivery[d])
  BY <1>1, <1>4, OneRow
<1>9. Outcome[d] \in {"pending", "delivered", "failed"}
      /\ (Outcome[d] = "delivered" <=> delivery[d].delivered)
  BY <1>1, <1>8 DEF RowOutcome, LiveRow
<1>10. CASE RowOutcome(r) = Outcome[d] BY <1>1, <1>8, <1>10, OutcomeOfRow DEF Ledger!lvars
<1>11. CASE Outcome[d] = "pending" /\ RowOutcome(r) = "failed"
  BY <1>4, <1>9, <1>11, <1>1, <1>7, <1>8 DEF Ledger!LedgerNext, Ledger!GiveUp, Ledger!Set
<1>12. CASE Outcome[d] = "failed" /\ RowOutcome(r) = "pending"
  BY <1>1, <1>8, <1>12 DEF Ledger!LedgerNext, Ledger!Reopen, Ledger!Set
<1>. QED BY <1>4, <1>9, <1>10, <1>11, <1>12

\* Every step of the system is a step of the ledger or none.
LEMMA LedgerNextOK == IInv /\ [Next]_vars => [Ledger!LedgerNext]_(Ledger!lvars)
<1> SUFFICES ASSUME IInv, [Next]_vars PROVE [Ledger!LedgerNext]_(Ledger!lvars) OBVIOUS
<1>1. CASE UNCHANGED vars BY <1>1, LedgerStays DEF vars
<1>2. ASSUME NEW c \in Callers, CallerNext(c) PROVE [Ledger!LedgerNext]_(Ledger!lvars)
  <2>1. ASSUME NEW h \in Hooks, PingHook(c, h) PROVE UNCHANGED Ledger!lvars BY <2>1, LedgerStays DEF PingHook
  <2>2. ASSUME NEW d \in Deliveries, ReadForRetry(c, d) PROVE UNCHANGED Ledger!lvars
    BY <2>2, LedgerStays DEF ReadForRetry
  <2>3. CASE CountHooks(c) \/ CreateHook(c) \/ DropHook(c) \/ CheckDuplicate(c) \/ Enqueue(c)
             \/ CallerFails(c)
    BY <2>3, LedgerStays
       DEF CountHooks, CreateHook, DropHook, CheckDuplicate, Enqueue, CallerFails
  <2>. QED BY <1>2, <2>1, <2>2, <2>3, OpenStep, ReopenStep, RemoveStep DEF CallerNext
<1>3. ASSUME NEW w \in Workers, WorkerProceeds(w) \/ HandlerThrows(w) \/ WorkerCrash(w)
      PROVE  [Ledger!LedgerNext]_(Ledger!lvars)
  BY LedgerStays, <1>3, TryStep, DeliverStep, GiveUpStep DEF LoadDelivery, SkipDelivery, Post, RecordSuccess,
     RecordAttempt, RecordFailure, EnqueueRetry, HandlerThrows, WorkerCrash, WorkerProceeds
<1>4. ASSUME NEW h \in Hooks, HookNext(h) PROVE UNCHANGED Ledger!lvars BY <1>4, LedgerStays
     DEF HookNext, SetActive, RotateSecret, MailAlert, RecordAlert, CooldownElapses
<1>5. ASSUME NEW e \in Events, Dispatch(e) PROVE UNCHANGED Ledger!lvars BY <1>5, LedgerStays DEF Dispatch
<1>6. ASSUME NEW id \in DOMAIN queue, JobStalls(id) PROVE UNCHANGED Ledger!lvars
  BY <1>6, LedgerStays DEF JobStalls
<1>. QED BY <1>1, <1>2, <1>3, <1>4, <1>5, <1>6 DEF Next

\* Webhook delivery keeps the promises of the ledger.
THEOREM Refinement == Spec => ImplementsLedger
BY Inductive, LedgerInitOK, LedgerNextOK, PTL DEF Spec, ImplementsLedger, Ledger!LedgerSpec
=============================================================================
