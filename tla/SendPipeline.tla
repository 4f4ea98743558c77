---------------------------- MODULE SendPipeline ----------------------------
(***************************************************************************)
(* Transactional mail: accepted, sent at once or scheduled, changed,       *)
(* cancelled.                                                              *)
(*   routes/send/index.ts     POST /send, PATCH and cancel of a message    *)
(*   routes/send/batch.ts     POST /send/batch                             *)
(*   workers/sendWorker.ts    scheduled messages                           *)
(*   lib/sendTransport.ts     SES, then SMTP2GO                            *)
(*                                                                         *)
(* All messages go from one API key to one recipient.  The quota and the   *)
(* counters are those of UsageMeter, the events those of WebhookDelivery;  *)
(* here a message adds one to `usage` when the code starts the increment.  *)
(* Test mode writes nothing, and the content of a mail is left out.  The   *)
(* suppression list changes at any time, with the events of other mail.    *)
(***************************************************************************)
EXTENDS Integers, FiniteSets, BullMQ

CONSTANTS
    Messages,                \* ids of send_messages
    Keys,                    \* idempotency keys
    Senders, SendWorkers,    \* requests under way; slots of the send workers
    SendAttempts,            \* attempts of a send job (lib/queue.ts)
    SendStalls,              \* the worker's maxStalledCount
    MaxRequests, MaxTrouble  \* bounds: requests; how often something goes wrong

NoKey == "no key"
NoMsg == "no row"

ASSUME SendAssumption ==
    /\ SendAttempts \in Nat \ {0} /\ {SendStalls, MaxRequests, MaxTrouble} \subseteq Nat
    /\ {NoKey, NoMsg} \cap (Messages \cup Keys) = {} /\ IsFiniteSet(Messages)
    /\ Senders \cap SendWorkers = {} /\ Messages \cap Keys = {}

VARIABLES
    message,     \* the send_messages table
    sendQueue,   \* the send queue, by message
    act,         \* what each request and each worker slot is doing
    usage,       \* currentMonthSendUsage
    delivered,   \* ghost: mails the providers accepted, by message and by key
    history      \* ghosts and bounds

sendVars == <<message, sendQueue, act, usage, delivered, history>>

Actors == Senders \cup SendWorkers
NoRow  == [status |-> "none", key |-> NoKey, token |-> "null"]
NoAct  == [pc |-> "idle", kind |-> "none", msg |-> NoMsg, key |-> NoKey, tracked |-> FALSE,
           ok |-> FALSE, sent |-> 0]

SendInit ==
    /\ message   = [m \in Messages |-> NoRow]
    /\ sendQueue = EmptyQueue
    /\ act       = [p \in Actors |-> NoAct]
    /\ usage     = 0
    /\ delivered = [of |-> [m \in Messages |-> 0], under |-> [k \in Keys |-> 0],
                    all |-> 0, unrecorded |-> 0]
    /\ history   = [marred |-> [x \in Messages \cup Keys |-> {}], requests |-> 0, trouble |-> 0]

\* Ghosts: what a message, or its key, is the worse for:
\*   unsure    a provider took a mail that the code does not know it took
\*   overlap   its job ran twice at the same time
\*   unqueued  a request ended between the row, or the old job, and the job
\*   gaveUp    its job failed for good
\*   left      a request ended, or a batch item failed, with the row queued
\*   late      it was cancelled when its job or its status had gone on
\*   rowless   a request with the key made no row
SendMarks == {"unsure", "overlap", "unqueued", "gaveUp", "left", "late", "rowless"}
With(p) == {act[p].msg, act[p].key} \cap (Messages \cup Keys)
Marred(X, marks) == [history EXCEPT !.marred = [x \in DOMAIN @ |-> IF x \in X THEN @[x] \cup marks
                                                                   ELSE @[x]]]
SendTrouble(X, marks) ==
    /\ history.trouble < MaxTrouble
    /\ history' = [Marred(X, marks) EXCEPT !.trouble = @ + 1]

ActAt(p, pc) == act[p].pc = pc
Kind(p, K)   == act[p].kind \in K
Goto(p, pc)  == act' = [act EXCEPT ![p].pc = pc]
Return(p)    == act' = [act EXCEPT ![p] = NoAct]

\* Of idle callers, idle slots or unused ids any will do: one stands for all.
AnyIdle(S) == CHOOSE p \in S : ActAt(p, "idle") \/ \A q \in S : ~ActAt(q, "idle")
NewMessage == CHOOSE m \in Messages : message[m].status = "none" \/ \A n \in Messages : message[n].status # "none"

\* A batch goes on with its next item, any other request answers.
ItemOver(p) ==
    act' = [act EXCEPT ![p] = IF Kind(p, {"batch"})
                              THEN [NoAct EXCEPT !.pc = "next", !.kind = "batch", !.sent = act[p].sent]
                              ELSE NoAct]

------------------------------------------------------------------------------
\* POST /send and POST /send/batch.
NeverTaken(k) == FALSE                                           \* mutant
Taken(k) == \E m \in Messages : message[m].key = k /\ k # NoKey

NewRequest == history.requests < MaxRequests /\ history' = [history EXCEPT !.requests = @ + 1]

\* POST /send, at once or scheduled: a request with a known key is answered
\* with the message that has it.
BeginSend(c, kind, k, tracked) ==
    /\ ActAt(c, "idle") /\ c = AnyIdle(Senders) /\ ~Taken(k)
    /\ act' = [act EXCEPT ![c] = [NoAct EXCEPT !.pc = "create", !.kind = kind, !.key = k,
                                              !.tracked = tracked]]
    /\ NewRequest
    /\ UNCHANGED <<message, sendQueue, usage, delivered>>

\* A batch comes to its first item that is not skipped; without one it does
\* nothing.
BeginBatch(c, k) ==
    /\ ActAt(c, "idle") /\ c = AnyIdle(Senders) /\ ~Taken(k)
    /\ act' = [act EXCEPT ![c] = [NoAct EXCEPT !.pc = "create", !.kind = "batch", !.key = k,
                                              !.tracked = TRUE]]
    /\ NewRequest
    /\ UNCHANGED <<message, sendQueue, usage, delivered>>

\* ...and to the next one.
NextItem(c, k) ==
    /\ ActAt(c, "next") /\ ~Taken(k)
    /\ act' = [act EXCEPT ![c].pc = "create", ![c].key = k, ![c].tracked = TRUE]
    /\ NewRequest
    /\ UNCHANGED <<message, sendQueue, usage, delivered>>

\* The messages of the batch are counted when it is through.
EndBatch(c) ==
    /\ ActAt(c, "next")
    /\ usage' = usage + act[c].sent
    /\ Return(c)
    /\ UNCHANGED <<message, sendQueue, delivered, history>>

\* The recipient is on the suppression list, or does not pass verification,
\* or the domain is not there.
Forbidden(c) ==
    /\ ActAt(c, "create")
    /\ ItemOver(c)
    /\ UNCHANGED <<message, sendQueue, usage, delivered, history>>

\* Until the mail is sent the row has 'pending' for its tracking token, and
\* both the token and the key are unique columns.
Token(c) == IF act[c].tracked THEN "pending" ELSE "null"
Conflict(c) ==
    \/ Taken(act[c].key)
    \/ Token(c) = "pending" /\ \E m \in Messages : message[m].token = "pending"
CreateRow(c, m) ==
    /\ ActAt(c, "create") /\ ~Conflict(c) /\ message[m].status = "none" /\ m = NewMessage
    /\ message' = [message EXCEPT ![m] =
          [status |-> IF Kind(c, {"later"}) THEN "scheduled" ELSE "queued",
           key |-> act[c].key, token |-> Token(c)]]
    /\ act' = [act EXCEPT ![c].msg = m, ![c].pc = IF Kind(c, {"later"}) THEN "enqueue" ELSE "ses"]
    /\ UNCHANGED <<sendQueue, usage, delivered, history>>

\* The row is not made: POST /send goes on without one.
NoRowMade(c) ==
    /\ ActAt(c, "create")
    /\ LET marks == IF Kind(c, {"now"}) THEN {"rowless"} ELSE {}
       IN  IF Conflict(c) THEN history' = Marred(With(c), marks) ELSE SendTrouble(With(c), marks)
    /\ IF Kind(c, {"now"}) THEN Goto(c, "ses") ELSE ItemOver(c)
    /\ UNCHANGED <<message, sendQueue, usage, delivered>>

EnqueueSend(c) ==
    /\ ActAt(c, "enqueue")
    /\ sendQueue' = Add(sendQueue, act[c].msg, [attempts |-> 0])
    /\ Return(c)
    /\ UNCHANGED <<message, usage, delivered, history>>

------------------------------------------------------------------------------
\* sendViaTransportWithFallback.  A provider takes the mail or not, and now
\* and then takes it and fails to say so.
Delivered(p) == [of    |-> [m \in Messages |-> delivered.of[m] + IF act[p].msg = m THEN 1 ELSE 0],
              under |-> [k \in Keys |-> delivered.under[k] + IF act[p].key = k THEN 1 ELSE 0],
              all   |-> delivered.all + 1,
              unrecorded |-> delivered.unrecorded + IF act[p].msg = NoMsg THEN 1 ELSE 0]
Takes(p, pc) ==
    /\ ActAt(p, pc)
    /\ delivered' = Delivered(p)
    /\ act'   = [act EXCEPT ![p].pc = "save", ![p].ok = TRUE]
    /\ UNCHANGED <<message, sendQueue, usage, history>>

\* SES says no: SMTP2GO is next, unless it is not there or not allowed; a
\* batch uses SES only, and its row is left as it is.
Refused(p) ==
    /\ ActAt(p, "ses")
    /\ IF Kind(p, {"batch"}) THEN ItemOver(p)
       ELSE act' \in {[act EXCEPT ![p].pc = "fallback"], [act EXCEPT ![p].pc = "save"]}
SesAccepts(p) == Takes(p, "ses")
SesRefuses(p) ==
    /\ Refused(p)
    /\ history' = Marred(With(p), IF Kind(p, {"batch"}) THEN {"left"} ELSE {})
    /\ UNCHANGED <<message, sendQueue, usage, delivered>>
SesTimesOut(p) ==
    /\ Refused(p)
    /\ delivered' = Delivered(p)
    /\ SendTrouble(With(p), {"unsure"} \cup IF Kind(p, {"batch"}) THEN {"left"} ELSE {})
    /\ UNCHANGED <<message, sendQueue, usage>>

FallbackAccepts(p) == Takes(p, "fallback")
FallbackRefuses(p) ==
    /\ ActAt(p, "fallback")
    /\ Goto(p, "save")
    /\ UNCHANGED <<message, sendQueue, usage, delivered, history>>
FallbackTimesOut(p) ==
    /\ ActAt(p, "fallback")
    /\ delivered' = Delivered(p)
    /\ Goto(p, "save")
    /\ SendTrouble(With(p), {"unsure"})
    /\ UNCHANGED <<message, sendQueue, usage>>

------------------------------------------------------------------------------
\* The outcome is written over whatever the row says, and the send counted.
AlwaysSent(p, r) == [r EXCEPT !.status = "sent"]                  \* mutant
SentOnly(p, r)   == [r EXCEPT !.status = IF act[p].ok THEN "sent" ELSE @]   \* mutant
ErrorOut(p, r)   == [r EXCEPT !.status = IF act[p].ok THEN "sent" ELSE "error"]   \* mutant
Outcome(p, r) == [r EXCEPT !.status = IF act[p].ok THEN "sent" ELSE "failed",
                           !.token  = IF act[p].tracked THEN "id" ELSE @]
ChargeAny(p)  == 1                                            \* mutant
Charge(p)     == IF act[p].ok THEN 1 ELSE 0
AfterSave(p) ==
    CASE Kind(p, {"now"})   -> Return(p) /\ usage' = usage + Charge(p)
      [] Kind(p, {"batch"}) -> /\ act' = [act EXCEPT ![p] = [NoAct EXCEPT !.pc = "next",
                                                 !.kind = "batch", !.sent = act[p].sent + 1]]
                               /\ UNCHANGED usage
      [] OTHER              -> Goto(p, "end") /\ UNCHANGED usage
Save(p) ==
    /\ ActAt(p, "save") /\ act[p].msg # NoMsg
    /\ message' = [message EXCEPT ![act[p].msg] = Outcome(p, @)]
    /\ AfterSave(p)
    /\ UNCHANGED <<sendQueue, delivered, history>>

\* A handler that throws: the job is tried again, SendAttempts times in all.
LastAttempt(w) == sendQueue[act[w].msg].data.attempts + 1 >= SendAttempts
OwnsSend(w)        == Active(sendQueue, act[w].msg) /\ sendQueue[act[w].msg].holder = w
ThrowSend(w) ==
    /\ Return(w)
    /\ sendQueue' = IF OwnsSend(w) /\ ~LastAttempt(w) THEN Retry(sendQueue, act[w].msg, w)
                ELSE Finish(sendQueue, act[w].msg, w, "failed")
GivesUp(w) == OwnsSend(w) /\ LastAttempt(w)

\* The update fails: POST /send logs it and goes on, a batch drops the item,
\* the worker throws.
SaveFails(p) ==
    /\ ActAt(p, "save")
    /\ IF act[p].msg = NoMsg THEN UNCHANGED history
       ELSE SendTrouble(With(p), (IF act[p].ok THEN {"unsure"} ELSE {})
                             \cup (IF p \in SendWorkers /\ GivesUp(p) THEN {"gaveUp"} ELSE {})
                             \cup (IF p \in Senders THEN {"left"} ELSE {}))
    /\ CASE Kind(p, {"now"})   -> AfterSave(p) /\ UNCHANGED sendQueue
         [] Kind(p, {"batch"}) -> ItemOver(p) /\ UNCHANGED <<sendQueue, usage>>
         [] OTHER              -> ThrowSend(p) /\ UNCHANGED usage
    /\ UNCHANGED <<message, delivered>>

------------------------------------------------------------------------------
\* processScheduledSend.
StartSend(w) ==
    /\ ActAt(w, "idle") /\ w = AnyIdle(SendWorkers)
    /\ \E m \in Messages :
          /\ Waiting(sendQueue, m)
          /\ sendQueue' = Take(sendQueue, m, w)
          /\ act'   = [act EXCEPT ![w] = [NoAct EXCEPT !.pc = "read", !.kind = "job", !.msg = m,
                                                      !.key = message[m].key]]
    /\ UNCHANGED <<message, usage, delivered, history>>

\* A message that is not scheduled any more is not sent.
AnyStatus(m)      == TRUE                                      \* mutant
StillScheduled(m) == message[m].status = "scheduled"
ReadMessage(w) ==
    /\ ActAt(w, "read")
    /\ IF StillScheduled(act[w].msg)
       THEN Goto(w, "ses") /\ UNCHANGED sendQueue
       ELSE Return(w) /\ sendQueue' = Finish(sendQueue, act[w].msg, w, "completed")
    /\ UNCHANGED <<message, usage, delivered, history>>

ReadFails(w) ==
    /\ ActAt(w, "read")
    /\ ThrowSend(w)
    /\ SendTrouble(With(w), IF GivesUp(w) THEN {"gaveUp"} ELSE {})
    /\ UNCHANGED <<message, usage, delivered>>

\* The send is counted, and the handler returns.
EndJob(w) ==
    /\ ActAt(w, "end")
    /\ usage' = usage + Charge(w)
    /\ sendQueue' = Finish(sendQueue, act[w].msg, w, "completed")
    /\ Return(w)
    /\ UNCHANGED <<message, delivered, history>>

------------------------------------------------------------------------------
\* PATCH /messages/:id and DELETE /messages/:id/cancel, both of a message
\* they find scheduled.
BeginChange(c, kind, m) ==
    /\ ActAt(c, "idle") /\ c = AnyIdle(Senders) /\ message[m].status = "scheduled"
    /\ act' = [act EXCEPT ![c] = [NoAct EXCEPT !.pc = "remove", !.kind = kind, !.msg = m]]
    /\ NewRequest
    /\ UNCHANGED <<message, sendQueue, usage, delivered>>

\* getJob and job.remove(), which throws while a worker has the job's lock.
Locked(m) == Active(sendQueue, m) /\ act[sendQueue[m].holder].msg = m
RemoveJob(c) ==
    LET m == act[c].msg
    IN  /\ ActAt(c, "remove") /\ ~Locked(m)
        /\ sendQueue' = IF Has(sendQueue, m) THEN Discard(sendQueue, m) ELSE sendQueue
        /\ CASE Kind(c, {"cancel"})                       -> Goto(c, "cancelled")
             [] Kind(c, {"patch"}) /\ Has(sendQueue, m)  -> Goto(c, "requeue")
             [] Kind(c, {"patch"}) /\ ~Has(sendQueue, m) -> Return(c)
        /\ history' = Marred({m}, IF Kind(c, {"cancel"}) /\ ~(Waiting(sendQueue, m) /\ StillScheduled(m))
                               THEN {"late"} ELSE {})
        /\ UNCHANGED <<message, usage, delivered>>
RemoveThrows(c) ==
    /\ ActAt(c, "remove") /\ Active(sendQueue, act[c].msg)
    /\ Return(c)
    /\ UNCHANGED <<message, sendQueue, usage, delivered, history>>

\* PATCH enqueues the message again under the same id...
Requeue(c) ==
    /\ ActAt(c, "requeue")
    /\ sendQueue' = Add(sendQueue, act[c].msg, [attempts |-> 0])
    /\ Return(c)
    /\ UNCHANGED <<message, usage, delivered, history>>

\* ...and a cancellation writes its status over whatever the row says.
MarkCancelled(c) ==
    /\ ActAt(c, "cancelled")
    /\ message' = [message EXCEPT ![act[c].msg].status = "cancelled"]
    /\ Return(c)
    /\ UNCHANGED <<sendQueue, usage, delivered, history>>

------------------------------------------------------------------------------
\* A request ends where it is: its process died, or a call threw.
Harm(c) ==
    CASE act[c].pc \in {"enqueue", "requeue", "cancelled"} -> {"unqueued"}
      [] act[c].pc \in {"ses", "fallback"}                -> {"left"}
      [] act[c].pc = "save"                   -> {"left"} \cup (IF act[c].ok THEN {"unsure"} ELSE {})
      [] OTHER                                -> {}
CallerDies(c) ==
    /\ ~ActAt(c, "idle")
    /\ Return(c)
    /\ SendTrouble(With(c), Harm(c))
    /\ UNCHANGED <<message, sendQueue, usage, delivered>>

SendWorkerCrash(w) ==
    /\ ~ActAt(w, "idle")
    /\ Return(w)
    /\ SendTrouble(With(w), IF ActAt(w, "save") /\ act[w].ok THEN {"unsure"} ELSE {})
    /\ UNCHANGED <<message, sendQueue, usage, delivered>>

\* The stalled-job check.
SendStalled(m) ==
    /\ Active(sendQueue, m)
    /\ sendQueue' = Stall(sendQueue, m, SendStalls)
    /\ LET failed == IF sendQueue[m].stalls >= SendStalls THEN {"gaveUp"} ELSE {}
           X      == {m, message[m].key} \cap (Messages \cup Keys)
       IN  IF Locked(m) THEN SendTrouble(X, {"overlap"} \cup failed) ELSE history' = Marred(X, failed)
    /\ UNCHANGED <<message, act, usage, delivered>>

------------------------------------------------------------------------------
CallerProceeds(c) ==
    \/ EndBatch(c) \/ Forbidden(c) \/ NoRowMade(c) \/ EnqueueSend(c)
    \/ \E m \in Messages : CreateRow(c, m)
    \/ RemoveJob(c) \/ RemoveThrows(c) \/ Requeue(c) \/ MarkCancelled(c)

Transport(p) ==
    \/ SesAccepts(p) \/ SesRefuses(p) \/ FallbackAccepts(p) \/ FallbackRefuses(p) \/ Save(p)

WorkerProceeds(w) == StartSend(w) \/ ReadMessage(w) \/ EndJob(w)

SendNext ==
    \/ \E c \in Senders, k \in Keys \cup {NoKey} :
          \/ BeginSend(c, "later", k, FALSE) \/ BeginBatch(c, k) \/ NextItem(c, k)
          \/ \E tracked \in BOOLEAN : BeginSend(c, "now", k, tracked)
    \/ \E c \in Senders, m \in Messages, kind \in {"patch", "cancel"} : BeginChange(c, kind, m)
    \/ \E c \in Senders : CallerProceeds(c) \/ CallerDies(c)
    \/ \E p \in Actors : Transport(p) \/ SesTimesOut(p) \/ FallbackTimesOut(p) \/ SaveFails(p)
    \/ \E w \in SendWorkers : WorkerProceeds(w) \/ ReadFails(w) \/ SendWorkerCrash(w)
    \/ \E m \in Messages : SendStalled(m)

SendSpec == SendInit /\ [][SendNext]_sendVars

\* A request and a handler that began go on (the providers' calls end), a free
\* slot takes a waiting job, and BullMQ looks for stalled ones.
SendFairness ==
    /\ WF_sendVars(\E c \in Senders : CallerProceeds(c) \/ Transport(c))
    /\ WF_sendVars(\E w \in SendWorkers : WorkerProceeds(w) \/ Transport(w))
    /\ WF_sendVars(\E m \in Messages : SendStalled(m))

SendFairSpec == SendSpec /\ SendFairness

------------------------------------------------------------------------------
\* Properties.

MessageType == [status : {"none", "queued", "scheduled", "sent", "failed", "cancelled"},
            key : Keys \cup {NoKey}, token : {"null", "pending", "id"}]
SendJobType == [state : {"waiting", "active", "completed", "failed"}, stalls : Nat,
            holder : SendWorkers \cup {"nobody"}, data : [attempts : Nat]]
ActType == [pc : {"idle", "next", "create", "enqueue", "read", "ses", "fallback",
                  "save", "end", "remove", "requeue", "cancelled"},
            kind : {"none", "now", "later", "batch", "job", "patch", "cancel"},
            msg : Messages \cup {NoMsg}, key : Keys \cup {NoKey}, tracked : BOOLEAN,
            ok : BOOLEAN, sent : Nat]

\* The rows, jobs and handlers have the shape the code gives them.
SendTypeOK ==
    /\ message \in [Messages -> MessageType]
    /\ DOMAIN sendQueue \subseteq Messages /\ sendQueue \in [DOMAIN sendQueue -> SendJobType]
    /\ act \in [Actors -> ActType]
    /\ usage \in Nat

SparedOf(x, marks) == history.marred[x] \cap marks = {}

\* "Cancelled ..., or already processed by a prior attempt ... -- either way,
\* sending again would be wrong": a message is mailed once, through retries,
\* PATCHes and cancellations that race its job, unless nobody can know
\* whether a provider took it or two workers have the job.
SentOnce == \A m \in Messages : SparedOf(m, {"unsure", "overlap"}) => delivered.of[m] <= 1

\* One idempotency key, one mail: whatever failed before, whichever route the
\* retry takes, and also if two requests look for the key at the same time,
\* unless one went on without its row.
KeySentOnce ==
    \A k \in Keys : SparedOf(k, {"unsure", "overlap", "rowless"}) => delivered.under[k] <= 1

\* Both: by message and by key.
NotSentTwice == SentOnce /\ KeySentOnce

\* The status of a message is true: sent ones were mailed, failed and
\* cancelled ones were not and are not any more.
StatusIsTrue ==
    \A m \in Messages :
        /\ message[m].status = "sent" => delivered.of[m] >= 1
        /\ message[m].status \in {"failed", "cancelled"} /\ SparedOf(m, {"unsure", "overlap", "late"})
              => delivered.of[m] = 0

\* Nothing is counted that no provider took, and in the end, if nothing went
\* wrong, every mail is.
CountedAsSent ==
    /\ usage <= delivered.all
    /\ history.trouble = 0 /\ (\A p \in Actors : ActAt(p, "idle")) => usage = delivered.all

\* All three: what the tables tell of the messages.
AccountsAreTrue == SendTypeOK /\ StatusIsTrue /\ CountedAsSent

\* "Create DB record first so we get the real ID for tracking tokens": as long
\* as the database works, a mail has a row.
EveryMailRecorded == history.trouble = 0 => delivered.unrecorded = 0

\* A message that was accepted is sent, failed or cancelled in the end, unless
\* the request that had it ended half-way, its job failed for good, or it was
\* an item of a batch that SES refused.
MessagesSettle ==
    \A m \in Messages :
        []<>(\/ message[m].status \notin {"queued", "scheduled"}
             \/ ~SparedOf(m, {"unqueued", "gaveUp", "left"}))
=============================================================================
