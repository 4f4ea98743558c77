------------------------------ MODULE Campaign -------------------------------
(***************************************************************************)
(* Campaigns: one mail to every subscriber of some lists, in chunks.       *)
(*   routes/campaigns/index.ts   send, cancel, resume, delete, retarget    *)
(*   workers/campaignWorker.ts   processCampaign                           *)
(*                                                                         *)
(* One key, one audience: the contacts of the lists and segments, in the   *)
(* order the database returns them.  Subjects and their A/B variants,      *)
(* bodies, the send window and the pause between chunks are left out, and  *)
(* so is the bounce-rate pause: no code ever changes bounceCount.  What is *)
(* left of the send quota is read anew for each chunk and depends on       *)
(* whatever else the key sends: any number here.  A status write of a      *)
(* route commits after its job is enqueued; both are one step here, since  *)
(* a worker only asks whether the status is 'cancelled'.                   *)
(***************************************************************************)
EXTENDS Integers, Sequences, FiniteSets, BullMQ

CONSTANTS
    Campaigns,
    Created,                 \* the campaigns of POST /campaigns; others are retargets
    Audience,                \* the subscribers, a sequence without repetition
    Callers, Workers,        \* requests under way; slots of the campaign workers
    CHUNK_SIZE,              \* 50 in the code
    CampaignAttempts,        \* attempts of a campaign job (lib/queue.ts)
    MaxStalledCount,         \* the worker's maxStalledCount
    MaxResumes, MaxEvents    \* bounds: resumes of a campaign; what the callers do and
                             \* what goes wrong, which counts double

Recipients == {Audience[i] : i \in DOMAIN Audience}
\* Of some recipients, the first n in the order of the audience.
Before(r, s) == \E i, k \in DOMAIN Audience : i < k /\ Audience[i] = r /\ Audience[k] = s
First(n, R)  == {r \in R : Cardinality({s \in R : Before(s, r)}) < n}
Jobs       == Campaigns \X (0..MaxResumes)
NoJob      == <<"no campaign", 0>>

ASSUME CampaignAssumption ==
    /\ Audience \in Seq(Recipients) /\ \A i, k \in DOMAIN Audience : Audience[i] = Audience[k] => i = k
    /\ {CHUNK_SIZE, CampaignAttempts} \subseteq Nat \ {0}
    /\ {MaxStalledCount, MaxResumes, MaxEvents} \subseteq Nat
    /\ Created \subseteq Campaigns /\ Callers \cap Workers = {} /\ NoJob \notin Jobs
    /\ IsFiniteSet(Workers)

VARIABLES
    campaign,     \* the campaigns table
    rows,         \* campaign_recipients: the statuses of the rows of an address,
                  \* which has one more row for every run that lists it
    queue,        \* the campaign queue
    suppressed,   \* the suppression list
    run,          \* what each worker slot is doing
    request,      \* routes between reading the status and writing it
    mails,        \* ghost: mails the providers took, by campaign and recipient
    tally         \* ghosts and bounds

vars == <<campaign, rows, queue, suppressed, run, request, mails, tally>>

NoCampaign == [status |-> "none", excluded |-> {}, sentCount |-> 0]
NoChunk    == [send |-> {}, mark |-> {}]
\* A run lists its recipients; `left` are those of the chunks to come.
IdleRun    == [pc |-> "idle", job |-> NoJob, list |-> {}, left |-> {}, chunk |-> NoChunk,
               sent |-> 0]
NoRequest  == [pc |-> "idle", of |-> "none"]
Zero       == [c \in Campaigns |-> 0]

Init ==
    /\ campaign   = [c \in Campaigns |-> NoCampaign]
    /\ rows       = [c \in Campaigns |-> [r \in Recipients |-> {}]]
    /\ queue      = EmptyQueue
    /\ suppressed = {}
    /\ run        = [w \in Workers |-> IdleRun]
    /\ request    = [p \in Callers |-> NoRequest]
    /\ mails      = [c \in Campaigns |-> [r \in Recipients |-> 0]]
    /\ tally      = [marred |-> [c \in Campaigns |-> {}], resumes |-> Zero,
                     inHand |-> Zero, events |-> 0, trouble |-> 0]

\* Ghosts: what a campaign is the worse for:
\*   rerun        a run began when another had mailed someone, or was under way
\*   relisted     a run began when another had made rows, or was under way
\*   lost         what became of a mail or a row could not be written down
\*   cut          the quota left only a part of a chunk
\*   overwritten  a status was written over 'cancelled'
\*   jobless      it is 'sending', and its job had ended or was removed
\*   gaveUp       its job failed for good
Marks == {"rerun", "relisted", "lost", "cut", "overwritten", "jobless", "gaveUp"}
Mark(t, c, marks) == [t EXCEPT !.marred[c] = @ \cup marks]
Spend(cost, t)    == tally.events + cost <= MaxEvents /\ tally' = [t EXCEPT !.events = @ + cost]
Event(t)          == Spend(1, t)
Mishap(t)         == Spend(2, [t EXCEPT !.trouble = @ + 1])
Trouble(c, marks) == Mishap(Mark(tally, c, marks))

Row(c)      == campaign[c].status \notin {"none", "deleted"}
If(b, mark) == IF b THEN {mark} ELSE {}
Over(c)     == If(campaign[c].status = "cancelled", "overwritten")

------------------------------------------------------------------------------
\* The routes.  POST /campaigns, and POST /campaigns/:id/retarget of a
\* campaign that was sent: those who did not open it are excluded.
CreateCampaign(c) ==
    /\ c \in Created /\ campaign[c].status = "none"
    /\ campaign' = [campaign EXCEPT ![c].status = "draft"]
    /\ UNCHANGED <<rows, queue, suppressed, run, request, mails, tally>>

Retarget(c, new, openers) ==
    LET nonOpeners == {r \in Recipients : "sent" \in rows[c][r]} \ openers
    IN  /\ campaign[c].status = "sent" /\ nonOpeners # {}
        /\ new \notin Created /\ campaign[new].status = "none"
        /\ campaign' = [campaign EXCEPT ![new] = [NoCampaign EXCEPT !.status = "draft",
                                                                     !.excluded = nonOpeners]]
        /\ Spend(2, tally)
        /\ UNCHANGED <<rows, queue, suppressed, run, request, mails>>

\* What each route asks of the status it finds, and what it then writes.
Allowed == [send   |-> {"draft", "scheduled"}, cancel |-> {"scheduled", "sending"},
            resume |-> {"paused_quota"},       delete |-> {"draft", "cancelled"}]
Misspelt == [send   |-> {"scheduled", "sending"}, cancel |-> {"canceled"},      \* mutant
             resume |-> {"sending"},              delete |-> {"deleted"}]
Written == [send   |-> {"scheduled", "sending"}, cancel |-> {"cancelled"},
            resume |-> {"sending"},              delete |-> {"deleted"}]
ReadStatus(p, route, c) ==
    /\ request[p].pc = "idle" /\ campaign[c].status \in Allowed[route]
    /\ request' = [request EXCEPT ![p] = [pc |-> route, of |-> c]]
    /\ IF route = "send" /\ \A q \in Callers : request[q].pc = "idle"
       THEN UNCHANGED tally ELSE Event(tally)
    /\ UNCHANGED <<campaign, rows, queue, suppressed, run, mails>>

At(p, route, c) == request[p] = [pc |-> route, of |-> c]
Answer(p)       == request' = [request EXCEPT ![p] = NoRequest]
Write(c, s)     == campaign' = [campaign EXCEPT ![c].status = s]

\* send enqueues a job under the campaign's own id, resume one of its own.
\* cancel looks only for the first, and cannot remove a job that runs.
SameJob(c)   == <<c, 0>>                                         \* mutant
ResumeJob(c) == <<c, tally.resumes[c] + 1>>
Requeued(route, c) ==
    CASE route = "send"   -> Add(queue, <<c, 0>>, [attempts |-> 0])
      [] route = "resume" -> Add(queue, ResumeJob(c), [attempts |-> 0])
      [] route = "cancel" /\ Waiting(queue, <<c, 0>>) -> Discard(queue, <<c, 0>>)
      [] OTHER -> queue

\* Ghosts: what a run of c has in hand, which is what a cancelled campaign may
\* still mail; what a route does to the marks.
InHand(w, c) == IF run[w].job[1] = c THEN run[w].chunk.send ELSE {}
InHands(c)   == UNION {{w} \X InHand(w, c) : w \in Workers}
Judged(t, route, c) ==
    CASE route = "send" ->
            Mark(t, c, Over(c) \cup If(Has(queue, <<c, 0>>) /\ ~Live(queue, <<c, 0>>), "jobless"))
      [] route = "resume" -> Mark(t, c, Over(c))
      [] route = "cancel" -> [t EXCEPT !.inHand[c] = Cardinality(InHands(c))]
      [] route = "delete" -> [t EXCEPT !.inHand[c] = @ + CHUNK_SIZE * Cardinality(Workers)]
      [] OTHER -> t
Counted(route, c) == [tally EXCEPT !.resumes[c] = @ + IF route = "resume" THEN 1 ELSE 0]

Commit(p, route, c) ==
    /\ At(p, route, c) /\ Row(c)
    /\ route = "resume" => tally.resumes[c] < MaxResumes
    /\ \E s \in Written[route] : Write(c, s)
    /\ queue' = Requeued(route, c)
    /\ rows'  = IF route = "delete" THEN [rows EXCEPT ![c] = [r \in Recipients |-> {}]] ELSE rows
    /\ tally' = Judged(Counted(route, c), route, c)
    /\ Answer(p)
    /\ UNCHANGED <<suppressed, run, mails>>

\* The transaction is rolled back after the queue was changed.
Rollback(p, route, c) ==
    /\ At(p, route, c)
    /\ route = "resume" => tally.resumes[c] < MaxResumes
    /\ queue' = Requeued(route, c)
    /\ Mishap(Mark(Counted(route, c), c, If(route = "cancel" /\ queue' # queue, "jobless")))
    /\ Answer(p)
    /\ UNCHANGED <<campaign, rows, suppressed, run, mails>>

\* The write finds no row, or fails before the queue is changed.
RequestFails(p, c) ==
    /\ request[p].pc # "idle" /\ request[p].of = c
    /\ IF Row(c) THEN Trouble(c, {}) ELSE UNCHANGED tally
    /\ Answer(p)
    /\ UNCHANGED <<campaign, rows, queue, suppressed, run, mails>>

------------------------------------------------------------------------------
\* processCampaign.
Of(w)        == run[w].job[1]
In(w, pc)    == run[w].pc = pc
Go(w, pc)    == run' = [run EXCEPT ![w].pc = pc]
Leave(w)     == run' = [run EXCEPT ![w] = IdleRun]
Done(w)      == Leave(w) /\ queue' = Finish(queue, run[w].job, w, "completed")
Owns(w)      == Active(queue, run[w].job) /\ queue[run[w].job].holder = w
LastTry(w)   == queue[run[w].job].data.attempts + 1 >= CampaignAttempts
Throw(w) ==
    /\ Leave(w)
    /\ queue' = IF Owns(w) /\ ~LastTry(w) THEN Retry(queue, run[w].job, w)
                ELSE Finish(queue, run[w].job, w, "failed")
GaveUp(w)    == If(Owns(w) /\ LastTry(w), "gaveUp")

StartJob(w) ==
    /\ In(w, "idle")
    /\ \E j \in Jobs :
          /\ Waiting(queue, j)
          /\ queue' = Take(queue, j, w)
          /\ run'   = [run EXCEPT ![w] = [IdleRun EXCEPT !.pc = "load", !.job = j]]
    /\ UNCHANGED <<campaign, rows, suppressed, request, mails, tally>>

\* A campaign that is gone or cancelled is not sent.
LoadCampaign(w) ==
    /\ In(w, "load")
    /\ IF Row(Of(w)) /\ campaign[Of(w)].status # "cancelled"
       THEN Go(w, "begin") /\ UNCHANGED queue
       ELSE Done(w)
    /\ UNCHANGED <<campaign, rows, suppressed, request, mails, tally>>

\* Any other is, whatever its status became since.
MarkSending(w) ==
    /\ In(w, "begin") /\ Row(Of(w))
    /\ Write(Of(w), "sending")
    /\ Go(w, "resolve")
    /\ tally' = Mark(tally, Of(w), Over(Of(w)))
    /\ UNCHANGED <<rows, queue, suppressed, request, mails>>

\* A write of the status that ends the run.
EndAs(w, s) ==
    /\ Row(Of(w))
    /\ Write(Of(w), s)
    /\ Done(w)
    /\ UNCHANGED <<rows, suppressed, request, mails>>

\* No list, or a recipient that the key does not own (any more).
RefuseAudience(w) ==
    /\ In(w, "resolve")
    /\ EndAs(w, "failed")
    /\ Event(Mark(tally, Of(w), Over(Of(w))))

\* Everyone in the audience is listed, those who were mailed before too, and
\* gets another row.
Listed(c) == Recipients \ (suppressed \cup campaign[c].excluded)
CreateRows(w) ==
    LET c == Of(w)
        busy == \E v \in Workers \ {w} : run[v].list # {} /\ Of(v) = c
    IN  /\ In(w, "resolve") /\ Row(c)
        /\ run'  = [run EXCEPT ![w].pc = "check", ![w].list = Listed(c), ![w].left = Listed(c)]
        /\ rows' = [rows EXCEPT ![c] = [r \in Recipients |-> @[r] \cup If(r \in Listed(c), "pending")]]
        /\ tally' = Mark(tally, c, If(busy \/ \E r \in Recipients : mails[c][r] > 0, "rerun")
                                   \cup If(busy \/ \E r \in Recipients : rows[c][r] # {}, "relisted"))
        /\ UNCHANGED <<campaign, queue, suppressed, request, mails>>

\* Before each chunk the status is read, then the quota, then (but for the
\* first chunk) the suppression list: three reads in a row that are one step
\* here, since what others write between them concerns one of them only.
NextChunk(w)  == In(w, "check") /\ run[w].left # {}
LastChunk(w)  == In(w, "check") /\ run[w].left = {}
NotStopped(c) == FALSE                                           \* mutant
Stopped(c)    == campaign[c].status = "cancelled"

StopCancelled(w) ==
    /\ NextChunk(w) /\ Stopped(Of(w))
    /\ Done(w)
    /\ UNCHANGED <<campaign, rows, suppressed, request, mails, tally>>

NoQuota(w) ==
    /\ NextChunk(w) /\ ~Stopped(Of(w))
    /\ EndAs(w, "paused_quota")
    /\ Event(Mark(tally, Of(w), Over(Of(w))))

\* The next chunk, as far as the quota allows, without those suppressed since
\* the run began; their rows are told, if the write succeeds.
Slice(w, size) == First(size, run[w].left)
Recheck(w)     == IF run[w].left # run[w].list THEN suppressed ELSE {}
RewriteAll(c, R, s) ==                                           \* mutant
    [rows EXCEPT ![c] = [r \in Recipients |-> IF R # {} /\ @[r] # {} THEN {s} ELSE @[r]]]
Rewrite(c, R, s) == [rows EXCEPT ![c] = [r \in Recipients |->
                        IF r \in R /\ @[r] # {} THEN {s} ELSE @[r]]]
TakeChunk(w, remaining, told) ==
    LET all     == Slice(w, CHUNK_SIZE)
        allowed == Slice(w, IF remaining < CHUNK_SIZE THEN remaining ELSE CHUNK_SIZE)
        dropped == allowed \cap Recheck(w)
    IN  /\ NextChunk(w) /\ ~Stopped(Of(w))
        /\ run' = [run EXCEPT ![w].pc = "send", ![w].chunk.send = allowed \ dropped]
        /\ rows' = IF told THEN Rewrite(Of(w), dropped, "suppressed") ELSE rows
        /\ IF told THEN tally' = Mark(tally, Of(w), If(allowed # all, "cut"))
           ELSE dropped # {} /\ Trouble(Of(w), {"lost"} \cup If(allowed # all, "cut"))
        /\ UNCHANGED <<campaign, queue, suppressed, request, mails>>

\* The recipients of a chunk, at the same time: each is handed to a transport,
\* and its row says what came of it.
Mailed(w, r) == mails' = [mails EXCEPT ![Of(w)][r] = @ + 1]
Accounted(w, r) ==
    [tally EXCEPT !.inHand[Of(w)] =
        IF campaign[Of(w)].status \in {"cancelled", "deleted"} /\ "overwritten" \notin tally.marred[Of(w)]
        THEN @ - 1 ELSE @]
Accepts(w, r) ==
    /\ r \in run[w].chunk.send
    /\ run' = [run EXCEPT ![w].chunk.send = @ \ {r}, ![w].chunk.mark = @ \cup {r}]
    /\ Mailed(w, r)
    /\ tally' = Accounted(w, r)
    /\ UNCHANGED <<campaign, rows, queue, suppressed, request>>
MarkSent(w, r) ==
    /\ r \in run[w].chunk.mark
    /\ rows' = Rewrite(Of(w), {r}, "sent")
    /\ run'  = [run EXCEPT ![w].chunk.mark = @ \ {r}, ![w].sent = @ + 1]
    /\ UNCHANGED <<campaign, queue, suppressed, request, mails, tally>>
Refuses(w, r) ==
    /\ r \in run[w].chunk.send
    /\ rows' = Rewrite(Of(w), {r}, "failed")
    /\ run'  = [run EXCEPT ![w].chunk.send = @ \ {r}]
    /\ UNCHANGED <<campaign, queue, suppressed, request, mails, tally>>

\* What came of a mail could not be told, or not be written down: the provider
\* took it and did not say so, or the row could not be changed.
LosesTrack(w, r, taken, s) ==
    /\ \/ r \in run[w].chunk.mark /\ taken
       \/ r \in run[w].chunk.send /\ (taken \/ s = "as it was")
    /\ IF taken /\ r \in run[w].chunk.send
       THEN Mailed(w, r) /\ Mishap(Mark(Accounted(w, r), Of(w), {"lost"}))
       ELSE UNCHANGED mails /\ Trouble(Of(w), {"lost"})
    /\ run'  = [run EXCEPT ![w].chunk = [send |-> @.send \ {r}, mark |-> @.mark \ {r}]]
    /\ rows' = IF s = "failed" THEN Rewrite(Of(w), {r}, "failed") ELSE rows
    /\ UNCHANGED <<campaign, queue, suppressed, request>>

\* The chunk is through: progress is saved, and the sends are charged to the key.
StepShort(w) == run[w].left \ Slice(w, CHUNK_SIZE - 1)           \* mutant
StepLong(w)  == run[w].left \ Slice(w, CHUNK_SIZE + 1)           \* mutant
Step(w)      == run[w].left \ Slice(w, CHUNK_SIZE)
SaveProgress(w) ==
    /\ In(w, "send") /\ run[w].chunk = NoChunk /\ Row(Of(w))
    /\ campaign' = [campaign EXCEPT ![Of(w)].sentCount = run[w].sent]
    /\ run'  = [run EXCEPT ![w].pc = "check", ![w].left = Step(w)]
    /\ UNCHANGED <<rows, queue, suppressed, request, mails, tally>>

\* The end, if nothing stopped the loop.
MarkCampaignSent(w) ==
    /\ LastChunk(w) /\ Row(Of(w))
    /\ campaign' = [campaign EXCEPT ![Of(w)].status = "sent", ![Of(w)].sentCount = run[w].sent]
    /\ Done(w)
    /\ tally' = Mark(tally, Of(w), Over(Of(w)))
    /\ UNCHANGED <<rows, suppressed, request, mails>>

\* A call to the database throws: it fails, or the row is not there.
CallThrows(w) ==
    /\ ~In(w, "idle") /\ run[w].chunk = NoChunk
    /\ Throw(w)
    /\ IF Row(Of(w)) THEN Trouble(Of(w), GaveUp(w))
       ELSE /\ run[w].pc \in {"begin", "resolve", "send"} \/ LastChunk(w)
            /\ tally' = Mark(tally, Of(w), GaveUp(w))
    /\ UNCHANGED <<campaign, rows, suppressed, request, mails>>

WorkerCrash(w) ==
    /\ ~In(w, "idle")
    /\ Leave(w)
    /\ Trouble(Of(w), If(run[w].chunk # NoChunk, "lost"))
    /\ UNCHANGED <<campaign, rows, queue, suppressed, request, mails>>

\* The stalled-job check; the lock of a live worker's job may lapse too.
JobStalls(j) ==
    /\ Active(queue, j)
    /\ queue' = Stall(queue, j, MaxStalledCount)
    /\ LET marks == If(queue[j].stalls >= MaxStalledCount, "gaveUp")
       IN  IF run[queue[j].holder].job = j THEN Trouble(j[1], marks) ELSE tally' = Mark(tally, j[1], marks)
    /\ UNCHANGED <<campaign, rows, suppressed, run, request, mails>>

------------------------------------------------------------------------------
\* The rest of the system: a recipient is suppressed.
Suppress(r) ==
    /\ r \notin suppressed
    /\ suppressed' = suppressed \cup {r}
    /\ Event(tally)
    /\ UNCHANGED <<campaign, rows, queue, run, request, mails>>

------------------------------------------------------------------------------
Answers(p, c) == (\E route \in DOMAIN Allowed : Commit(p, route, c)) \/ RequestFails(p, c)

SendsMail(w, r) == Accepts(w, r) \/ MarkSent(w, r) \/ Refuses(w, r)

Works(w) ==
    \/ StartJob(w) \/ LoadCampaign(w) \/ MarkSending(w) \/ CreateRows(w)
    \/ StopCancelled(w) \/ \E remaining \in 1..CHUNK_SIZE : TakeChunk(w, remaining, TRUE)
    \/ SaveProgress(w) \/ MarkCampaignSent(w) \/ CallThrows(w)
    \/ \E r \in Recipients : SendsMail(w, r)

Strays(w) ==
    \/ RefuseAudience(w) \/ NoQuota(w) \/ WorkerCrash(w)
    \/ \E remaining \in 1..CHUNK_SIZE : TakeChunk(w, remaining, FALSE)
    \/ \E r \in Recipients, taken \in BOOLEAN, s \in {"failed", "as it was"} :
          LosesTrack(w, r, taken, s)

Next ==
    \/ \E c \in Campaigns : CreateCampaign(c)
    \/ \E c, new \in Campaigns, openers \in SUBSET Recipients : Retarget(c, new, openers)
    \/ \E p \in Callers, c \in Campaigns :
          \/ \E route \in DOMAIN Allowed : ReadStatus(p, route, c) \/ Rollback(p, route, c)
          \/ Answers(p, c)
    \/ \E w \in Workers : Works(w) \/ Strays(w)
    \/ \E j \in Jobs : JobStalls(j)
    \/ \E r \in Recipients : Suppress(r)

Spec == Init /\ [][Next]_vars

\* Handlers and requests that began go on, a free slot takes a waiting job, and
\* BullMQ looks for stalled ones.
Fairness ==
    /\ \A w \in Workers : WF_vars(Works(w))
    /\ \A p \in Callers : WF_vars(\E c \in Campaigns : Answers(p, c))
    /\ WF_vars(\E j \in Jobs : JobStalls(j))

FairSpec == Spec /\ Fairness

------------------------------------------------------------------------------
\* Properties.

Status == {"none", "draft", "scheduled", "sending", "sent", "failed", "cancelled", "paused_quota",
           "deleted"}

\* Statuses, rows and runs have the shape the code gives them.
TypeOK ==
    /\ campaign \in [Campaigns -> [status : Status, excluded : SUBSET Recipients, sentCount : Nat]]
    /\ rows \in [Campaigns -> [Recipients -> SUBSET {"pending", "sent", "failed", "suppressed"}]]
    /\ DOMAIN queue \subseteq Jobs /\ suppressed \subseteq Recipients
    /\ \A w \in Workers :
          /\ run[w].pc \in {"idle", "load", "begin", "resolve", "check", "send"}
          /\ run[w].job \in Jobs \cup {NoJob} /\ run[w].left \subseteq run[w].list
          /\ run[w].list \subseteq Recipients /\ run[w].sent \in 0..Cardinality(run[w].list)

Spared(c, marks) == tally.marred[c] \cap marks = {}

\* A campaign mails each recipient once, through every race, failure and
\* cancellation, unless it is run again: by a resume, a retry of its job, a
\* stalled job or a lost lock.
MailedOnce == \A c \in Campaigns : Spared(c, {"rerun"}) => \A r \in Recipients : mails[c][r] <= 1

\* The recipient rows are true: who is 'sent' was mailed, who is 'failed' or
\* 'suppressed' was not.
RowsAreTrue ==
    \A c \in Campaigns, r \in Recipients :
        /\ "sent" \in rows[c][r] => mails[c][r] > 0
        /\ Spared(c, {"relisted", "lost"}) /\ rows[c][r] \cap {"failed", "suppressed"} # {}
              => mails[c][r] = 0

\* A campaign called 'sent' left nobody waiting, and its count is that of its
\* recipients, unless the quota cut a chunk.
SentIsComplete ==
    \A c \in Campaigns :
        campaign[c].status = "sent" /\ Spared(c, {"relisted", "lost", "cut"}) =>
            /\ \A r \in Recipients : "pending" \notin rows[c][r]
            /\ campaign[c].sentCount = Cardinality({r \in Recipients : "sent" \in rows[c][r]})

\* All three: what the tables tell of a campaign.
RecordsAreTrue == TypeOK /\ RowsAreTrue /\ SentIsComplete

\* A cancelled campaign mails nobody but those in hand when it was cancelled,
\* unless its status is overwritten: by a run that was about to begin, or a
\* request that read it before.  Deleting it lets each run take one chunk more,
\* for the status of a campaign that is gone is not 'cancelled'.
CancelStopsRuns == \A c \in Campaigns : tally.inHand[c] >= 0

\* A campaign that is being sent is sent, paused, cancelled or failed in the
\* end, unless its job failed for good or was never there.
Settles ==
    \A c \in Campaigns :
        []<>(campaign[c].status # "sending" \/ ~Spared(c, {"gaveUp", "jobless"}))

\* resume "re-queues the campaign worker to continue sending to remaining
\* pending recipients": nobody is mailed again.
ResumeContinues ==
    \A c \in Campaigns : tally.trouble = 0 => \A r \in Recipients : mails[c][r] <= 1
=============================================================================
