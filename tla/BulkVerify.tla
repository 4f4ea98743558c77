----------------------------- MODULE BulkVerify -----------------------------
(***************************************************************************)
(* Bulk verification jobs: a CSV is uploaded, a worker creates one row per *)
(* line, verifies the unique ones chunk by chunk, marks the job completed, *)
(* charges the key and announces the result.                               *)
(*   routes/bulk-jobs/index.ts   POST /bulk-jobs                           *)
(*   workers/bulkWorker.ts       processBulkJob, failJob, stall recovery   *)
(*   plugins/usageMeter.ts       the monthly counter of the key            *)
(*                                                                         *)
(* All jobs belong to one API key and upload files of the same shape.  The *)
(* four verdicts count alike and are one here ("verified"); a row on which *)
(* the engine threw is an "error".  Every `await` on the database, Redis   *)
(* or the engine ends a step.  A job is run again when its worker dies or  *)
(* loses its lock, and resumes from the rows it finds.                     *)
(***************************************************************************)
EXTENDS Integers, FiniteSets, BullMQ

CONSTANTS
    Jobs,                     \* bulk job ids, one upload each
    Workers,                  \* slots of the bulk worker processes
    FileRows, DuplicateRows,  \* rowIndex of the lines; those that repeat an earlier one
    CREATE_BATCH, EMAIL_CONCURRENCY, PROGRESS_FLUSH_INTERVAL,   \* bulkWorker.ts
    PlanLimit,                \* getPlanLimit of the key
    MaxStalledCount,          \* the worker's maxStalledCount
    MaxTrouble                \* bound of the model: how often something goes wrong

ASSUME ConstantsAssumption ==
    /\ IsFiniteSet(FileRows) /\ FileRows \subseteq Nat /\ DuplicateRows \subseteq FileRows
    /\ {CREATE_BATCH, EMAIL_CONCURRENCY, PROGRESS_FLUSH_INTERVAL} \subseteq Nat \ {0}
    /\ {PlanLimit, MaxStalledCount, MaxTrouble} \subseteq Nat
    /\ "none" \notin Jobs

VARIABLES
    job,        \* the bulk_jobs table
    rows,       \* the bulk_job_emails table
    usage,      \* currentMonthUsage of the key
    queue,      \* the BullMQ queue continuum:bulk
    request,    \* POST /bulk-jobs of every job
    worker,     \* what each worker slot is doing
    failing,    \* jobs a 'failed' listener is about to mark
    recovery,   \* stall recoveries of starting processes
    tally       \* ghosts: charged per job, what went wrong with it, how often anything did

vars == <<job, rows, usage, queue, request, worker, failing, recovery, tally>>

------------------------------------------------------------------------------
\* Two runs of a job may both find no rows and both create them, so a row is
\* a line of the file and the run that created it.
Runs == 0 .. MaxStalledCount
Rows == FileRows \X Runs

UniqueRows == FileRows \ DuplicateRows
IsUnique(r) == r[1] \in UniqueRows
Processed(s) == s \in {"verified", "error"}

Present(j) == {r \in Rows : rows[j][r] # "absent"}
Done(j)    == {r \in Rows : IsUnique(r) /\ Processed(rows[j][r])}
Pending(j) == {r \in Rows : IsUnique(r) /\ rows[j][r] = "new"}

\* The first n of a set of rows, by rowIndex.
Before(r, s) == r[1] < s[1] \/ (r[1] = s[1] /\ r[2] < s[2])
First(n, R)  == {r \in R : Cardinality({s \in R : Before(s, r)}) < n}

NoRecord    == [status |-> "none", processed |-> 0, errors |-> 0, webhookSent |-> FALSE]
IdleWorker  == [pc |-> "idle", job |-> "none", run |-> 0, todo |-> {}, updates |-> {},
                processed |-> 0, errors |-> 0]

Init ==
    /\ job      = [j \in Jobs |-> NoRecord]
    /\ rows     = [j \in Jobs |-> [r \in Rows |-> "absent"]]
    /\ usage    = 0
    /\ queue    = EmptyQueue
    /\ request  = [j \in Jobs |-> [pc |-> "idle", used |-> 0]]
    /\ worker   = [w \in Workers |-> IdleWorker]
    /\ failing  = {}
    /\ recovery = {}
    /\ tally    = [charged |-> [j \in Jobs |-> 0], marred |-> [j \in Jobs |-> {}],
                 trouble |-> 0]

\* Something goes wrong; `marks` is what the job is the worse for:
\*   creating  a run ended between two batches of its rows
\*   charged   a run ended after it charged the key
\*   overlap   a run lost its lock and goes on next to its replacement
\*   free      the charge failed
\*   unheard   the process died before its 'failed' listener was done
\*   recovered a starting process took the job for one of a dead process
Marks == {"creating", "charged", "overlap", "free", "unheard", "recovered"}
Trouble(J, marks) ==
    /\ tally.trouble < MaxTrouble
    /\ tally' = [tally EXCEPT !.trouble = @ + 1,
                              !.marred = [j \in Jobs |-> IF j \in J THEN @[j] \cup marks ELSE @[j]]]

------------------------------------------------------------------------------
\* requireAuth loads the key; requireMonthlyQuota lets it pass.
ReadKey(j) ==
    /\ request[j].pc = "idle"
    /\ usage < PlanLimit
    /\ request' = [request EXCEPT ![j] = [pc |-> "create", used |-> usage]]
    /\ UNCHANGED <<job, rows, usage, queue, worker, failing, recovery, tally>>

\* The file is uploaded and parsed, must fit in the quota, and is recorded.
FitsQuota(used) == used + Cardinality(UniqueRows) <= PlanLimit
CreateJob(j) ==
    /\ request[j].pc = "create"
    /\ IF FitsQuota(request[j].used)
       THEN /\ job'     = [job EXCEPT ![j].status = "pending"]
            /\ request' = [request EXCEPT ![j].pc = "enqueue"]
       ELSE /\ request' = [request EXCEPT ![j].pc = "done"]
            /\ UNCHANGED job
    /\ UNCHANGED <<rows, usage, queue, worker, failing, recovery, tally>>

\* bulkQueue.add
EnqueueJob(j) ==
    /\ request[j].pc = "enqueue"
    /\ queue'   = Add(queue, j, "bulk")
    /\ request' = [request EXCEPT ![j].pc = "done"]
    /\ UNCHANGED <<job, rows, usage, worker, failing, recovery, tally>>

\* The upload, the insert or the enqueue fails; a row already made stays.
RequestFails(j) ==
    /\ request[j].pc \in {"create", "enqueue"}
    /\ request' = [request EXCEPT ![j].pc = "done"]
    /\ Trouble({}, {})
    /\ UNCHANGED <<job, rows, usage, queue, worker, failing, recovery>>

------------------------------------------------------------------------------
Step(w, pc) == worker' = [worker EXCEPT ![w].pc = pc]

EndJob(w, outcome) ==
    /\ worker' = [worker EXCEPT ![w] = IdleWorker]
    /\ queue'  = Finish(queue, worker[w].job, w, outcome)

\* A worker takes the job and marks it processing, whatever its status.
StartJob(w) ==
    /\ worker[w].pc = "idle"
    /\ \E j \in Jobs :
          /\ Waiting(queue, j)
          /\ queue'  = Take(queue, j, w)
          /\ job'    = [job EXCEPT ![j].status = "processing"]
          /\ worker' = [worker EXCEPT ![w] =
                [IdleWorker EXCEPT !.pc = "load", !.job = j, !.run = queue[j].stalls]]
    /\ UNCHANGED <<rows, usage, request, failing, recovery, tally>>

\* The CSV cannot be downloaded or has no rows: failJob, and the handler
\* returns.
DownloadFails(w) ==
    /\ worker[w].pc = "load"
    /\ job' = [job EXCEPT ![worker[w].job].status = "failed"]
    /\ EndJob(w, "completed")
    /\ Trouble({}, {})
    /\ UNCHANGED <<rows, usage, request, failing, recovery>>

NoRows(j)   == Present(j) = {}

\* Rows of an earlier run are taken as they are; the counters are seeded from
\* the processed ones.
ToVerify(j)   == Pending(j)
SeedLess(j)   == Cardinality(Done(j)) - 1             \* mutant
SeedUnique(j) == Cardinality({r \in Present(j) : IsUnique(r)})   \* mutant
Seed(j)       == Cardinality(Done(j))
LoadRows(w) ==
    LET j == worker[w].job
    IN  /\ worker[w].pc \in {"load", "reload"}
        /\ worker' = [worker EXCEPT ![w] =
              IF NoRows(j)
              THEN [@ EXCEPT !.pc = "create", !.todo = FileRows \X {worker[w].run}]
              ELSE [@ EXCEPT !.pc = "verify", !.todo = ToVerify(j), !.processed = Seed(j),
                             !.errors = Cardinality({r \in Done(j) : rows[j][r] = "error"})]]
        /\ UNCHANGED <<job, rows, usage, queue, request, failing, recovery, tally>>

\* createMany, a batch per transaction; then the rows are read back.
ShortBatch(todo) == First(CREATE_BATCH - 1, todo)     \* mutant
Batch(todo)      == First(CREATE_BATCH, todo)
CreateBatch(w) ==
    LET j     == worker[w].job
        batch == Batch(worker[w].todo)
        left  == worker[w].todo \ First(CREATE_BATCH, worker[w].todo)
    IN  /\ worker[w].pc = "create"
        /\ rows'   = [rows EXCEPT ![j] = [r \in Rows |-> IF r \in batch THEN "new" ELSE @[r]]]
        /\ worker' = [worker EXCEPT ![w].todo = left,
                                    ![w].pc = IF left = {} THEN "reload" ELSE "create"]
        /\ UNCHANGED <<job, usage, queue, request, failing, recovery, tally>>

\* The next EMAIL_CONCURRENCY rows are verified.  They are written when there
\* are enough, or with the last chunk (processedCount === totalToVerify), so
\* the flush after the loop has nothing left to write.
VerifyChunk(w) ==
    LET chunk == First(EMAIL_CONCURRENCY, worker[w].todo)
        left  == worker[w].todo \ chunk
    IN  /\ worker[w].pc = "verify" /\ worker[w].todo # {}
        /\ \E bad \in SUBSET chunk :
              LET updates == worker[w].updates \cup (bad \X {"error"})
                                                  \cup ((chunk \ bad) \X {"verified"})
                  flush   == Cardinality(updates) >= PROGRESS_FLUSH_INTERVAL \/ left = {}
              IN  worker' = [worker EXCEPT ![w] =
                        [worker[w] EXCEPT !.todo = left, !.updates = updates,
                                          !.processed = @ + Cardinality(chunk),
                                          !.errors = @ + Cardinality(bad),
                                          !.pc = IF flush THEN "flush" ELSE "verify"]]
        /\ UNCHANGED <<job, rows, usage, queue, request, failing, recovery, tally>>

\* flushRowUpdates: one transaction for all of them.
FlushRows(w) ==
    LET j == worker[w].job
    IN  /\ worker[w].pc = "flush"
        /\ rows'   = [rows EXCEPT ![j] = [r \in Rows |->
                         IF \E s \in {"verified", "error"} : <<r, s>> \in worker[w].updates
                         THEN CHOOSE s \in {"verified", "error"} : <<r, s>> \in worker[w].updates
                         ELSE @[r]]]
        /\ worker' = [worker EXCEPT ![w].pc = "progress", ![w].updates = {}]
        /\ UNCHANGED <<job, usage, queue, request, failing, recovery, tally>>

\* The job's counters, in a transaction of their own.
SaveProgress(w) ==
    LET j == worker[w].job
    IN  /\ worker[w].pc = "progress"
        /\ job' = [job EXCEPT ![j].processed = worker[w].processed, ![j].errors = worker[w].errors]
        /\ Step(w, "verify")
        /\ UNCHANGED <<rows, usage, queue, request, failing, recovery, tally>>

\* The export is built and uploaded or not, and the job is completed.
CompletedOnly(w, r) == [r EXCEPT !.status = "completed"]      \* mutant
Completed(w, r) == [r EXCEPT !.status = "completed", !.processed = worker[w].processed,
                             !.errors = worker[w].errors]
MarkCompleted(w) ==
    /\ worker[w].pc = "verify" /\ worker[w].todo = {}
    /\ job' = [job EXCEPT ![worker[w].job] = Completed(w, @)]
    /\ Step(w, "charge")
    /\ UNCHANGED <<rows, usage, queue, request, failing, recovery, tally>>

\* incrementUsageBy(processedCount); an error of it is only logged.
ChargeAll(w)      == Cardinality(Present(worker[w].job))       \* mutant
AmountToCharge(w) == worker[w].processed
Charge(w) ==
    /\ worker[w].pc = "charge"
    /\ \/ /\ usage' = usage + AmountToCharge(w)
          /\ tally' = [tally EXCEPT !.charged[worker[w].job] = @ + AmountToCharge(w)]
       \/ Trouble({worker[w].job}, {"free"}) /\ UNCHANGED usage
    /\ Step(w, "notify")
    /\ UNCHANGED <<job, rows, queue, request, failing, recovery>>

\* dispatchBulkCompleteWebhooks, then the job is over.
Notify(w) ==
    /\ worker[w].pc = "notify"
    /\ job' = [job EXCEPT ![worker[w].job].webhookSent = TRUE]
    /\ EndJob(w, "completed")
    /\ UNCHANGED <<rows, usage, request, failing, recovery, tally>>

\* A database call of the handler throws: the job has attempts: 1, so it
\* fails, and the 'failed' listener is called if this worker still owned it.
HandlerThrows(w) ==
    /\ worker[w].pc \notin {"idle", "charge"}
    /\ EndJob(w, "failed")
    /\ Trouble({}, {})
    /\ failing' = IF queue[worker[w].job].holder = w THEN failing \cup {worker[w].job} ELSE failing
    /\ UNCHANGED <<job, rows, usage, request, recovery>>

\* A worker process dies...
Harm(w) == CASE worker[w].pc = "create" -> {"creating"}
             [] worker[w].pc = "notify" -> {"charged"}
             [] OTHER -> {}
WorkerCrash(w) ==
    /\ worker[w].pc # "idle"
    /\ worker' = [worker EXCEPT ![w] = IdleWorker]
    /\ Trouble({worker[w].job}, Harm(w))
    /\ UNCHANGED <<job, rows, usage, queue, request, failing, recovery>>

\* ...or one that runs a listener or a recovery.
ListenerDies ==
    /\ failing # {} \/ recovery # {}
    /\ failing' = {} /\ recovery' = {}
    /\ Trouble(failing, {"unheard"})
    /\ UNCHANGED <<job, rows, usage, queue, request, worker>>

\* The stalled-job check: back to waiting, or failed for good and announced.
StallFails(j) == queue[j].stalls >= MaxStalledCount
JobStalls(j) ==
    /\ Active(queue, j)
    /\ IF worker[queue[j].holder].job = j THEN Trouble({j}, {"overlap"}) ELSE UNCHANGED tally
    /\ queue'   = Stall(queue, j, MaxStalledCount)
    /\ failing' = IF StallFails(j) THEN failing \cup {j} ELSE failing
    /\ UNCHANGED <<job, rows, usage, request, worker, recovery>>

\* The 'failed' listener: failJob.
NotFailed(r) == r                                             \* mutant
Failed(r)    == [r EXCEPT !.status = "failed"]
FailJob(j) ==
    /\ j \in failing
    /\ job'     = [job EXCEPT ![j] = Failed(@)]
    /\ failing' = failing \ {j}
    /\ UNCHANGED <<rows, usage, queue, request, worker, recovery, tally>>

------------------------------------------------------------------------------
\* recoverStalledJobs of a starting process: the jobs that have been
\* processing for 30 minutes, which any of them may have been...
WorkerStarts ==
    \E J \in SUBSET {j \in Jobs : job[j].status = "processing"} :
        /\ J # {}
        /\ recovery' = recovery \cup (J \X {"reset"})
        /\ Trouble(J, {"recovered"})
        /\ UNCHANGED <<job, rows, usage, queue, request, worker, failing>>

\* ...are set back to pending...
ResetStalled(j) ==
    /\ <<j, "reset">> \in recovery
    /\ job'      = [job EXCEPT ![j].status = "pending"]
    /\ recovery' = (recovery \ {<<j, "reset">>}) \cup {<<j, "add">>}
    /\ UNCHANGED <<rows, usage, queue, request, worker, failing, tally>>

\* ...and enqueued under the same job id.
ReenqueueStalled(j) ==
    /\ <<j, "add">> \in recovery
    /\ queue'    = Add(queue, j, "bulk")
    /\ recovery' = recovery \ {<<j, "add">>}
    /\ UNCHANGED <<job, rows, usage, request, worker, failing, tally>>

------------------------------------------------------------------------------
WorkerProceeds(w) ==
    \/ StartJob(w) \/ LoadRows(w) \/ CreateBatch(w) \/ VerifyChunk(w) \/ FlushRows(w)
    \/ SaveProgress(w) \/ MarkCompleted(w) \/ Charge(w) \/ Notify(w)

JobNext(j) ==
    \/ ReadKey(j) \/ CreateJob(j) \/ EnqueueJob(j) \/ RequestFails(j)
    \/ JobStalls(j) \/ FailJob(j) \/ ResetStalled(j) \/ ReenqueueStalled(j)

Next ==
    \/ \E j \in Jobs : JobNext(j)
    \/ \E w \in Workers : WorkerProceeds(w) \/ DownloadFails(w) \/ HandlerThrows(w) \/ WorkerCrash(w)
    \/ WorkerStarts \/ ListenerDies

Spec == Init /\ [][Next]_vars

\* Node runs pending continuations, BullMQ hands out waiting jobs and looks
\* for stalled ones, a listener and a recovery that began go on.
Fairness ==
    /\ \A w \in Workers : WF_vars(WorkerProceeds(w))
    /\ \A j \in Jobs : /\ WF_vars(CreateJob(j) \/ EnqueueJob(j)) /\ WF_vars(JobStalls(j))
                       /\ WF_vars(FailJob(j))
                       /\ WF_vars(ResetStalled(j) \/ ReenqueueStalled(j))

FairSpec == Spec /\ Fairness

------------------------------------------------------------------------------
\* Properties.

RecordType == [status : {"none", "pending", "processing", "completed", "failed"},
               processed : Nat, errors : Nat, webhookSent : BOOLEAN]
QueueType  == [state : {"waiting", "active", "completed", "failed"}, stalls : Nat,
               holder : Workers \cup {"nobody"}, data : {"bulk"}]
WorkerType == [pc : {"idle", "load", "reload", "create", "verify", "flush", "progress",
                     "charge", "notify"},
               job : Jobs \cup {"none"}, run : Nat, todo : SUBSET Rows,
               updates : SUBSET (Rows \X {"verified", "error"}), processed : Nat, errors : Nat]

\* Every table, job and handler has the shape the code gives it.
TypeOK ==
    /\ job      \in [Jobs -> RecordType]
    /\ rows     \in [Jobs -> [Rows -> {"absent", "new", "verified", "error"}]]
    /\ usage    \in Nat
    /\ DOMAIN queue \subseteq Jobs /\ queue \in [DOMAIN queue -> QueueType]
    /\ request  \in [Jobs -> [pc : {"idle", "create", "enqueue", "done"}, used : Nat]]
    /\ worker   \in [Workers -> WorkerType]
    /\ failing  \subseteq Jobs
    /\ recovery \subseteq Jobs \X {"reset", "add"}
    /\ tally    \in [charged : [Jobs -> Nat], marred : [Jobs -> SUBSET Marks], trouble : Nat]

\* No run of j is under way or can still begin, and no failure is unheard of.
Over(j) ==
    /\ ~(Has(queue, j) /\ Live(queue, j)) /\ \A w \in Workers : worker[w].job # j
    /\ j \notin failing

\* Nothing of this kind happened to j.
Spared(j, marks) == tally.marred[j] \cap marks = {}

\* A completed job reports exactly what is in its rows, however often it was
\* interrupted, run again and resumed, as long as its runs did not overlap.
CountersMatchRows ==
    \A j \in Jobs : job[j].status = "completed" /\ Spared(j, {"overlap"}) =>
        /\ job[j].processed = Cardinality(Done(j))
        /\ job[j].errors = Cardinality({r \in Done(j) : rows[j][r] = "error"})

\* Whatever died, stalled, threw or ran twice at the same time: the progress
\* shown and the amount charged never claim a row whose verdict is not stored.
Reported(w) == worker[w].pc \in {"progress", "charge"}
ProgressBacked ==
    /\ \A j \in Jobs : job[j].processed <= Cardinality(Done(j))
    /\ \A w \in Workers : Reported(w) => worker[w].processed <= Cardinality(Done(worker[w].job))

\* A completed job has one row for every line of the file, all unique ones
\* processed ("the worker ... pre-creates the email rows (batched) before it
\* starts verifying"), unless a run was cut off while it made them.
Complete(j) ==
    /\ \A l \in FileRows : \E r \in Present(j) : r[1] = l
    /\ \A r, s \in Present(j) : r[1] = s[1] => r = s
    /\ Pending(j) = {}
CompletedIsComplete ==
    \A j \in Jobs : job[j].status = "completed" /\ Spared(j, {"overlap", "creating"}) => Complete(j)

\* All three: what the tables tell of a job and its rows.
CompletedIsTrue == TypeOK /\ CountersMatchRows /\ CompletedIsComplete

\* The same without the exception, as the comment on the resumption has it
\* ("a reclaim continues rather than restarting"): a job whose only worker
\* died is complete when it is completed.
ResumedIsComplete ==
    \A j \in Jobs : job[j].status = "completed" /\ Spared(j, {"overlap"}) => Complete(j)

\* The unique rows of a job are charged once, not again when it is resumed
\* ("skipped instead of re-charged and re-verified"), and are charged when it
\* is over: unless a run ended between the charge and its own end, or the
\* charge or the listener of a failed job failed.
ChargedOnce ==
    \A j \in Jobs : Spared(j, {"overlap", "charged", "creating"}) =>
        /\ tally.charged[j] <= Cardinality(UniqueRows)
        /\ job[j].status = "completed" /\ Over(j) /\ Spared(j, {"free", "unheard"})
              => tally.charged[j] = Cardinality(UniqueRows)

\* Every job that reached the queue is completed or failed in the end, and
\* stays so, unless a 'failed' listener died with its process or a starting
\* process took the job over.
Settles ==
    \A j \in Jobs : <>[](\/ ~Has(queue, j) \/ ~Spared(j, {"unheard", "recovered"})
                         \/ job[j].status \in {"completed", "failed"})
=============================================================================
