-------------------------- MODULE BulkVerify_proofs --------------------------
(***************************************************************************)
(* What the tables of the bulk worker tell is true, for every number of    *)
(* jobs, workers, rows, batches, stalls and accidents: the progress shown  *)
(* is backed by stored verdicts, a completed job is whole and its counters *)
(* are right, and its rows are charged once.                               *)
(*                                                                         *)
(* The argument goes in layers, each an inductive invariant relative to    *)
(* the ones before it: the types; every run of a job has a number of its   *)
(* own and creates only rows of that number; what a worker has in its      *)
(* hands; that a job whose lock was never lost has one worker; and then,   *)
(* job by job, the counters, the rows and the charge.                      *)
(***************************************************************************)
EXTENDS BulkVerify, FiniteSetTheorems, TLAPS

------------------------------------------------------------------------------
(* The invariant. *)

\* The rows whose verdict a worker x has yet to store, and the errors among them.
Verdicts == {"verified", "error"}
Upd(x) == {r \in Rows : \E s \in Verdicts : <<r, s>> \in x.updates}
Bad(x) == {r \in Rows : <<r, "error">> \in x.updates}
\* The stored errors of a job.
Errors(j) == {r \in Done(j) : rows[j][r] = "error"}

\* Types, and what an idle slot and a live job of the queue look like.
TypeInv ==
    /\ TypeOK
    /\ \A w \in Workers :
          /\ worker[w].pc = "idle" => worker[w] = IdleWorker
          /\ worker[w].pc # "idle" => worker[w].job \in Jobs /\ worker[w].run \in Runs
    /\ \A j \in DOMAIN queue : Live(queue, j) => queue[j].stalls <= MaxStalledCount

\* Run k of j has begun: a run that waits has not.
Begun(j, k) == Has(queue, j) /\ k <= queue[j].stalls /\ (Waiting(queue, j) => k < queue[j].stalls)
\* Runs of a job have different numbers, and so have the rows they create.
RunsInv ==
    /\ \A w \in Workers : worker[w].pc # "idle" => Begun(worker[w].job, worker[w].run)
    /\ \A v, w \in Workers :
          v # w /\ worker[v].pc # "idle" /\ worker[v].job = worker[w].job => worker[v].run # worker[w].run
    /\ \A j \in Jobs : \A r \in Present(j) : Begun(j, r[2])

\* The steps in which a worker counts, and the ones after it loaded the rows.
Counting == {"verify", "flush", "progress", "charge"}
\* What worker w has in its hands: rows of its run that it has not created yet,
\* or unique rows that it has not verified or not stored yet; what it counted
\* is stored or about to be.
Hands(x) ==
    /\ x.pc = "load" => \A r \in Present(x.job) : r[2] # x.run
    /\ x.pc = "create" => /\ x.todo \subseteq FileRows \X {x.run}
                          /\ \A l \in FileRows : <<l, x.run>> \in x.todo <=> <<l, x.run>> \notin Present(x.job)
    /\ x.pc = "reload" => FileRows \X {x.run} \subseteq Present(x.job)
    /\ x.pc \in Counting =>
          /\ x.todo \cup Upd(x) \subseteq {r \in Present(x.job) : IsUnique(r)}
          /\ x.todo \cap Upd(x) = {}
          /\ \A r \in Rows : ~(<<r, "verified">> \in x.updates /\ <<r, "error">> \in x.updates)
          /\ x.processed <= Cardinality((Done(x.job) \cup Upd(x)) \ x.todo)
    /\ x.updates # {} => x.pc = "flush" \/ (x.pc = "verify" /\ x.todo # {})
    /\ x.pc = "charge" => x.todo = {}
HandsInv == (\A w \in Workers : worker[w].pc # "idle" => Hands(worker[w]))
            /\ \A j \in Jobs : job[j].processed <= Cardinality(Done(j))

\* A job whose lock was never lost has one worker, which holds the lock.
SoleInv ==
    \A j \in Jobs : Spared(j, {"overlap"}) =>
        \A w \in Workers : worker[w].job = j => Active(queue, j) /\ queue[j].holder = w

\* Its worker counts right, and so does the job when it is completed.
Right(x) ==
    x.pc \in Counting =>
        /\ Pending(x.job) = x.todo \cup Upd(x) /\ x.processed = Cardinality(Done(x.job) \cup Upd(x))
        /\ x.errors = Cardinality(Errors(x.job) \cup Bad(x))
Counted(j) ==
    Spared(j, {"overlap"}) =>
        /\ \A w \in Workers : worker[w].job = j => Right(worker[w])
        /\ job[j].status = "completed" =>
              /\ job[j].processed = Cardinality(Done(j)) /\ job[j].errors = Cardinality(Errors(j))
              /\ Pending(j) = {}
              /\ \A w \in Workers : worker[w].job = j => worker[w].pc \in {"charge", "notify"}

\* All rows of one run are there, and no others.
Whole(j) == \E k \in Runs : Present(j) = FileRows \X {k}
\* The rows of a job none of whose runs was cut off while it created them.
Made(j) ==
    Spared(j, {"overlap", "creating"}) =>
        /\ \A w \in Workers : worker[w].job = j =>
              /\ worker[w].pc = "create" => Present(j) = (FileRows \X {worker[w].run}) \ worker[w].todo
              /\ worker[w].pc \notin {"load", "create"} => Whole(j)
        /\ Live(queue, j) /\ (\A w \in Workers : worker[w].job = j => worker[w].pc # "create")
              => Present(j) = {} \/ Whole(j)
        /\ job[j].status = "completed" => Whole(j)

\* The charge of a job none of whose runs was cut off after it.
Charges(j) ==
    Spared(j, {"overlap", "creating", "charged"}) =>
        /\ tally.charged[j] \in {0, Cardinality(UniqueRows)}
        /\ (Live(queue, j) \/ ~Has(queue, j)) /\ (\A w \in Workers : worker[w].job = j => worker[w].pc # "notify")
              => tally.charged[j] = 0
        /\ Spared(j, {"free"}) /\ (\E w \in Workers : worker[w].job = j /\ worker[w].pc = "notify")
              => tally.charged[j] = Cardinality(UniqueRows)
        /\ Spared(j, {"free", "unheard"}) /\ job[j].status = "completed" /\ Over(j)
              => tally.charged[j] = Cardinality(UniqueRows)
BooksInv == \A j \in Jobs : Counted(j) /\ Made(j) /\ Charges(j)

IInv == TypeInv /\ RunsInv /\ HandsInv /\ SoleInv /\ BooksInv

------------------------------------------------------------------------------
(* Finite sets, and the operators of the queue. *)

\* The rows of a job are finitely many.
LEMMA RowsFinite == IsFiniteSet(Rows) /\ \A R \in SUBSET Rows : IsFiniteSet(R) /\ Cardinality(R) \in Nat
<1>1. IsFiniteSet(FileRows) /\ IsFiniteSet(Runs) BY ConstantsAssumption, FS_Interval DEF Runs
<1>2. IsFiniteSet(Rows) BY <1>1, FS_Product DEF Rows
<1> QED  BY <1>2, FS_Subset, FS_CardinalityType

\* A part of the rows has no more members than the whole.
LEMMA Fewer == ASSUME NEW S \in SUBSET Rows, NEW R \in SUBSET S PROVE Cardinality(R) <= Cardinality(S)
BY RowsFinite, FS_Subset

\* The rows of two sets that do not meet.
LEMMA Sum ==
    ASSUME NEW R \in SUBSET Rows, NEW S \in SUBSET Rows, R \cap S = {}
    PROVE  Cardinality(R \cup S) = Cardinality(R) + Cardinality(S)
<1>1. IsFiniteSet(R) /\ IsFiniteSet(S) /\ Cardinality(R) \in Nat /\ Cardinality(S) \in Nat BY RowsFinite
<1>2. Cardinality(R \cup S) = Cardinality(R) + Cardinality(S) - Cardinality(R \cap S) BY <1>1, FS_Union
<1>3. Cardinality(R \cap S) = 0 BY FS_EmptySet
<1> QED  BY <1>1, <1>2, <1>3

\* The queue of the jobs.
QueueIs(q) == DOMAIN q \subseteq Jobs /\ q \in [DOMAIN q -> QueueType]

\* Adding a job that is remembered does nothing; a new one waits.
LEMMA Adds ==
    ASSUME NEW q, QueueIs(q), NEW j \in Jobs, NEW p, p = Add(q, j, "bulk")
    PROVE  /\ QueueIs(p)
           /\ \A i : Has(p, i) <=> Has(q, i) \/ i = j
           /\ \A i \in DOMAIN q : p[i] = q[i]
           /\ ~Has(q, j) => p[j] = [state |-> "waiting", stalls |-> 0, holder |-> "nobody", data |-> "bulk"]
  BY DEF Add, Has, QueueIs, QueueType

\* A worker takes a waiting job.
LEMMA Takes ==
    ASSUME NEW q, QueueIs(q), NEW j \in Jobs, Waiting(q, j), NEW w \in Workers, NEW p, p = Take(q, j, w)
    PROVE  /\ QueueIs(p) /\ DOMAIN p = DOMAIN q
           /\ \A i \in DOMAIN q \ {j} : p[i] = q[i]
           /\ p[j].state = "active" /\ p[j].stalls = q[j].stalls /\ p[j].holder = w
  BY DEF Waiting, Has, QueueIs, QueueType, Take

\* The job is over if the worker still holds it.
LEMMA Finishes ==
    ASSUME NEW q, QueueIs(q), NEW j \in Jobs, NEW w \in Workers, NEW how \in {"completed", "failed"},
           NEW p, p = Finish(q, j, w, how)
    PROVE  /\ QueueIs(p) /\ DOMAIN p = DOMAIN q
           /\ \A i \in DOMAIN q \ {j} : p[i] = q[i]
           /\ Active(q, j) /\ q[j].holder = w => p[j].state = how /\ p[j].stalls = q[j].stalls
           /\ ~(Active(q, j) /\ q[j].holder = w) => p = q
  BY DEF Active, Has, QueueIs, QueueType, Finish

\* The lock of an active job lapses: it waits again, or is given up.
LEMMA Stalls ==
    ASSUME NEW q, QueueIs(q), NEW j \in Jobs, Active(q, j), NEW p, p = Stall(q, j, MaxStalledCount)
    PROVE  /\ QueueIs(p) /\ DOMAIN p = DOMAIN q
           /\ \A i \in DOMAIN q \ {j} : p[i] = q[i]
           /\ p[j].stalls = q[j].stalls + 1
           /\ q[j].stalls < MaxStalledCount => p[j].state = "waiting"
           /\ ~(q[j].stalls < MaxStalledCount) => p[j].state = "failed"
<1>1. j \in DOMAIN q /\ q[j] \in QueueType /\ q[j].state = "active" BY DEF Active, Has, QueueIs
<1>2. PICK s \in {"waiting", "failed"} :
         s = IF q[j].stalls < MaxStalledCount THEN "waiting" ELSE "failed"
    OBVIOUS
<1>3. PICK n \in Nat : n = q[j].stalls BY <1>1 DEF QueueType
<1>4. PICK r : r = [state |-> s, stalls |-> n + 1, holder |-> "nobody", data |-> q[j].data] OBVIOUS
<1>5. r \in QueueType BY <1>1, <1>4 DEF QueueType
<1>a. q \in [DOMAIN q -> QueueType] BY DEF QueueIs
<1>b. PICK z : z = [state |-> s, stalls |-> n, holder |-> q[j].holder, data |-> q[j].data] OBVIOUS
<1>c. [q[j] EXCEPT !.state = s] = z BY <1>b, <1>1, <1>3 DEF QueueType
<1>d. PICK v : v = [state |-> s, stalls |-> n + 1, holder |-> q[j].holder, data |-> q[j].data] OBVIOUS
<1>m. [z EXCEPT !.stalls = n + 1] = v BY <1>b, <1>d
<1>e. [v EXCEPT !.holder = "nobody"] = r BY <1>d, <1>4
<1>f. PICK x : x = [q EXCEPT ![j].state = s] OBVIOUS
<1>g. x = [q EXCEPT ![j] = z] BY <1>a, <1>c, <1>f, <1>1
<1>h. PICK y : y = [x EXCEPT ![j].stalls = n + 1] OBVIOUS
<1>k. y = [q EXCEPT ![j] = v] BY <1>a, <1>g, <1>h, <1>m, <1>1
<1>l. [y EXCEPT ![j].holder = "nobody"] = [q EXCEPT ![j] = r] BY <1>a, <1>k, <1>e, <1>1
<1>6. p = [q EXCEPT ![j] = r] BY <1>f, <1>h, <1>l, <1>1, <1>2, <1>3 DEF Stall
<1>7. DOMAIN p = DOMAIN q /\ p[j] = r /\ \A i \in DOMAIN q \ {j} : p[i] = q[i] BY <1>1, <1>6 DEF QueueIs
<1>8. p[j].stalls = n + 1 /\ p[j].state = s BY <1>4, <1>7
<1>9. QueueIs(p) BY <1>5, <1>6, <1>7 DEF QueueIs
<1> QED  BY <1>2, <1>3, <1>7, <1>8, <1>9

------------------------------------------------------------------------------
(* What the actions do, field by field. *)

\* Only worker w moves; only the record of job j changes; only its rows do.
Only(w)     == worker' \in [Workers -> WorkerType] /\ \A v \in Workers \ {w} : worker'[v] = worker[v]
JobOnly(j)  == job' \in [Jobs -> RecordType] /\ \A i \in Jobs \ {j} : job'[i] = job[i]
RowsOnly(j) == /\ rows' \in [Jobs -> [Rows -> {"absent", "new", "verified", "error"}]]
               /\ \A i \in Jobs \ {j} : rows'[i] = rows[i]
\* The worker's record keeps everything but its place in the handler.
Same(y, x)  == /\ y.job = x.job /\ y.run = x.run /\ y.todo = x.todo /\ y.updates = x.updates
               /\ y.processed = x.processed /\ y.errors = x.errors
TallyType == [charged : [Jobs -> Nat], marred : [Jobs -> SUBSET Marks], trouble : Nat]

\* The shapes of a worker's and of a job's record.
LEMMA Shapes ==
    ASSUME TypeInv
    PROVE  /\ worker \in [Workers -> WorkerType] /\ job \in [Jobs -> RecordType]
           /\ rows \in [Jobs -> [Rows -> {"absent", "new", "verified", "error"}]]
           /\ QueueIs(queue) /\ tally \in TallyType
           /\ request \in [Jobs -> [pc : {"idle", "create", "enqueue", "done"}, used : Nat]]
           /\ usage \in Nat /\ failing \subseteq Jobs /\ recovery \subseteq Jobs \X {"reset", "add"}
BY DEF TypeInv, TypeOK, QueueIs, TallyType

\* A worker that moved has what it was given.
LEMMA Sets ==
    ASSUME worker \in [Workers -> WorkerType], NEW w \in Workers, NEW y \in WorkerType,
           worker' = [worker EXCEPT ![w] = y]
    PROVE  Only(w) /\ worker'[w] = y
BY DEF Only

\* A worker's place in the handler changes and nothing else.
LEMMA Steps ==
    ASSUME worker \in [Workers -> WorkerType], NEW w \in Workers, NEW pc,
           pc \in {"load", "reload", "create", "verify", "flush", "progress", "charge", "notify"}, Step(w, pc)
    PROVE  Only(w) /\ worker'[w].pc = pc /\ Same(worker'[w], worker[w])
<1>1. PICK x \in WorkerType : x = worker[w] OBVIOUS
<1>2. PICK y : y = [x EXCEPT !.pc = pc] OBVIOUS
<1>3. y \in WorkerType /\ y.pc = pc /\ Same(y, x) BY <1>2 DEF WorkerType, Same
<1>4. worker' = [worker EXCEPT ![w] = y] BY <1>1, <1>2 DEF Step
<1> QED  BY <1>1, <1>3, <1>4, Sets

\* The record of an idle slot.
LEMMA IdleShape == IdleWorker \in WorkerType /\ IdleWorker.pc = "idle" /\ IdleWorker.job = "none"
BY DEF IdleWorker, WorkerType

\* A status changes and nothing else of the job.
LEMMA Statuses ==
    ASSUME job \in [Jobs -> RecordType], NEW j \in Jobs, NEW s,
           s \in {"pending", "processing", "completed", "failed"},
           job' = [job EXCEPT ![j].status = s]
    PROVE  /\ JobOnly(j) /\ job'[j].status = s
           /\ job'[j].processed = job[j].processed /\ job'[j].errors = job[j].errors
  BY DEF RecordType, JobOnly

\* Something went wrong: the jobs it concerns are marked, nothing is charged.
LEMMA Troubles ==
    ASSUME tally \in TallyType, NEW J \in SUBSET Jobs, NEW M \in SUBSET Marks, Trouble(J, M)
    PROVE  /\ tally' \in TallyType /\ tally'.charged = tally.charged
           /\ \A j \in Jobs : tally'.marred[j] = IF j \in J THEN tally.marred[j] \cup M ELSE tally.marred[j]
<1>1. PICK n \in Nat : n = tally.trouble BY DEF TallyType
<1>2. PICK m \in [Jobs -> SUBSET Marks] : m = tally.marred BY DEF TallyType
<1>3. PICK k : k = [j \in Jobs |-> IF j \in J THEN m[j] \cup M ELSE m[j]] OBVIOUS
<1>4. k \in [Jobs -> SUBSET Marks] BY <1>3
<1>5. PICK z : z = [tally EXCEPT !.trouble = n + 1] OBVIOUS
<1>6. z = [charged |-> tally.charged, marred |-> m, trouble |-> n + 1] BY <1>2, <1>5 DEF TallyType
<1>7. tally' = [z EXCEPT !.marred = k] BY <1>1, <1>2, <1>3, <1>5, <1>6 DEF Trouble
<1>8. tally' = [charged |-> tally.charged, marred |-> k, trouble |-> n + 1] BY <1>6, <1>7
<1> QED  BY <1>2, <1>3, <1>4, <1>8 DEF TallyType

\* The handler is over: the slot is free and the queue told.
LEMMA Ends ==
    ASSUME TypeInv, NEW w \in Workers, worker[w].pc # "idle", NEW how \in {"completed", "failed"}, EndJob(w, how)
    PROVE  /\ Only(w) /\ worker'[w] = IdleWorker /\ worker[w].job \in Jobs
           /\ QueueIs(queue') /\ DOMAIN queue' = DOMAIN queue
           /\ \A i \in DOMAIN queue \ {worker[w].job} : queue'[i] = queue[i]
           /\ Active(queue, worker[w].job) /\ queue[worker[w].job].holder = w
                 => queue'[worker[w].job].state = how /\ queue'[worker[w].job].stalls = queue[worker[w].job].stalls
           /\ ~(Active(queue, worker[w].job) /\ queue[worker[w].job].holder = w) => queue' = queue
<1>1. Only(w) /\ worker'[w] = IdleWorker BY Shapes, IdleShape, Sets DEF EndJob
<1>2. worker[w].job \in Jobs BY DEF TypeInv
<1>3. PICK p : p = queue' OBVIOUS
<1>4. p = Finish(queue, worker[w].job, w, how) BY <1>3 DEF EndJob
<1> HIDE DEF TypeInv
<1> QED  BY <1>1, <1>2, <1>3, <1>4, Shapes, Finishes

\* A worker takes a waiting job.
LEMMA Starts ==
    ASSUME TypeInv, NEW w \in Workers, StartJob(w)
    PROVE  /\ worker[w].pc = "idle"
           /\ \E j \in Jobs :
                 /\ Waiting(queue, j) /\ j \in DOMAIN queue /\ queue[j].stalls \in Runs
                 /\ QueueIs(queue') /\ DOMAIN queue' = DOMAIN queue
                 /\ \A i \in DOMAIN queue \ {j} : queue'[i] = queue[i]
                 /\ queue'[j].state = "active" /\ queue'[j].stalls = queue[j].stalls /\ queue'[j].holder = w
                 /\ JobOnly(j) /\ job'[j].status = "processing"
                 /\ job'[j].processed = job[j].processed /\ job'[j].errors = job[j].errors /\ Only(w)
                 /\ worker'[w].pc = "load" /\ worker'[w].job = j /\ worker'[w].run = queue[j].stalls
                 /\ worker'[w].todo = {} /\ worker'[w].updates = {}
<1>1. PICK j \in Jobs :
         /\ Waiting(queue, j) /\ queue' = Take(queue, j, w) /\ job' = [job EXCEPT ![j].status = "processing"]
         /\ worker' = [worker EXCEPT ![w] =
               [IdleWorker EXCEPT !.pc = "load", !.job = j, !.run = queue[j].stalls]]
    BY DEF StartJob
<1>2. j \in DOMAIN queue /\ queue[j] \in QueueType /\ queue[j].stalls \in Nat /\ queue[j].stalls <= MaxStalledCount
  BY <1>1 DEF Waiting, Has, Live, TypeInv, TypeOK, QueueType
<1>3. queue[j].stalls \in Runs BY <1>2, ConstantsAssumption DEF Runs
<1>4. PICK y : y = [pc |-> "load", job |-> j, run |-> queue[j].stalls, todo |-> {},
                    updates |-> {}, processed |-> 0, errors |-> 0]
    OBVIOUS
<1>5. y \in WorkerType BY <1>2, <1>4 DEF WorkerType
<1>6. [IdleWorker EXCEPT !.pc = "load", !.job = j, !.run = queue[j].stalls] = y
    <2>1. PICK a : a = [IdleWorker EXCEPT !.pc = "load"] OBVIOUS
    <2>2. a = [pc |-> "load", job |-> "none", run |-> 0, todo |-> {},
               updates |-> {}, processed |-> 0, errors |-> 0]
        BY <2>1 DEF IdleWorker
    <2>3. PICK b : b = [a EXCEPT !.job = j] OBVIOUS
    <2>4. b = [pc |-> "load", job |-> j, run |-> 0, todo |-> {},
               updates |-> {}, processed |-> 0, errors |-> 0]
        BY <2>2, <2>3
    <2>5. [b EXCEPT !.run = queue[j].stalls] = y BY <2>4, <1>4
    <2> QED  BY <2>1, <2>3, <2>5
<1>7. worker' = [worker EXCEPT ![w] = y] BY <1>1, <1>6
<1>8. worker \in [Workers -> WorkerType] /\ job \in [Jobs -> RecordType] /\ QueueIs(queue) BY Shapes
<1>9. Only(w) /\ worker'[w] = y BY <1>5, <1>7, <1>8, Sets
<1>10. /\ JobOnly(j) /\ job'[j].status = "processing"
       /\ job'[j].processed = job[j].processed /\ job'[j].errors = job[j].errors
    BY <1>1, <1>8, Statuses
<1>11. PICK p : p = queue' OBVIOUS
<1>12. /\ QueueIs(p) /\ DOMAIN p = DOMAIN queue /\ \A i \in DOMAIN queue \ {j} : p[i] = queue[i]
       /\ p[j].state = "active" /\ p[j].stalls = queue[j].stalls /\ p[j].holder = w
    BY <1>1, <1>8, <1>11, Takes
<1>13. worker[w].pc = "idle" BY DEF StartJob
<1>14. /\ worker'[w].pc = "load" /\ worker'[w].job = j /\ worker'[w].run = queue[j].stalls
       /\ worker'[w].todo = {} /\ worker'[w].updates = {}
    BY <1>4, <1>9
<1> QED  BY <1>1, <1>2, <1>3, <1>9, <1>10, <1>11, <1>12, <1>13, <1>14

\* A set of rows, and the part that comes first, the batch or the chunk.
LEMMA Firsts == ASSUME NEW n, NEW R PROVE First(n, R) \subseteq R
BY DEF First

\* The rows are loaded: they are created if there are none, or else verified.
LEMMA Loads ==
    ASSUME TypeInv, NEW w \in Workers, LoadRows(w), NEW j, j = worker[w].job
    PROVE  /\ j \in Jobs /\ worker[w].pc \in {"load", "reload"} /\ Only(w)
           /\ worker'[w].job = j /\ worker'[w].run = worker[w].run /\ worker'[w].updates = worker[w].updates
           /\ NoRows(j) => worker'[w].pc = "create" /\ worker'[w].todo = FileRows \X {worker[w].run}
           /\ ~NoRows(j) => /\ worker'[w].pc = "verify" /\ worker'[w].todo = Pending(j)
                            /\ worker'[w].processed = Cardinality(Done(j))
                            /\ worker'[w].errors = Cardinality(Errors(j))
<1>1. PICK x \in WorkerType : x = worker[w] BY Shapes
<1>2. worker[w].pc \in {"load", "reload"} /\ j \in Jobs /\ x.run \in Runs BY <1>1 DEF LoadRows, TypeInv
<1>3. CASE NoRows(j) BY <1>2, <1>1, <1>3, Shapes, Sets DEF Rows, WorkerType, LoadRows
<1>4. CASE ~NoRows(j)
    <2>1. PICK t \in SUBSET Rows : t = Pending(j) BY DEF Pending
    <2>2. Done(j) \in SUBSET Rows /\ Errors(j) \in SUBSET Rows BY DEF Done, Errors
    <2>3. PICK n \in Nat, e \in Nat : n = Cardinality(Done(j)) /\ e = Cardinality(Errors(j)) BY <2>2, RowsFinite
    <2>4. PICK y : y = [x EXCEPT !.pc = "verify", !.todo = t, !.processed = n, !.errors = e] OBVIOUS
    <2>5. /\ y \in WorkerType /\ y.pc = "verify" /\ y.todo = t /\ y.processed = n /\ y.errors = e
          /\ y.job = x.job /\ y.run = x.run /\ y.updates = x.updates
        BY <2>4 DEF WorkerType
    <2>6. worker' = [worker EXCEPT ![w] = y]
        BY <1>1, <1>4, <2>1, <2>3, <2>4, Shapes DEF LoadRows, ToVerify, Seed, Errors
    <2>7. Only(w) /\ worker'[w] = y BY <2>5, <2>6, Shapes, Sets
    <2> QED  BY <1>1, <1>2, <1>4, <2>1, <2>3, <2>5, <2>7
<1> QED  BY <1>3, <1>4

\* A batch of rows is created.
LEMMA Creates ==
    ASSUME TypeInv, NEW w \in Workers, CreateBatch(w), NEW j, j = worker[w].job
    PROVE  /\ j \in Jobs /\ worker[w].pc = "create" /\ Only(w) /\ RowsOnly(j)
           /\ Batch(worker[w].todo) \subseteq worker[w].todo
           /\ \A r \in Rows : rows'[j][r] = IF r \in Batch(worker[w].todo) THEN "new" ELSE rows[j][r]
           /\ worker'[w].todo = worker[w].todo \ Batch(worker[w].todo)
           /\ worker'[w].pc = IF worker'[w].todo = {} THEN "reload" ELSE "create"
           /\ worker'[w].job = j /\ worker'[w].run = worker[w].run /\ worker'[w].updates = worker[w].updates
<1>1. PICK x \in WorkerType : x = worker[w] BY Shapes
<1>2. worker[w].pc = "create" /\ j \in Jobs BY DEF CreateBatch, TypeInv
<1>3. PICK b : b = Batch(x.todo) OBVIOUS
<1>4. b \subseteq x.todo BY <1>3, Firsts DEF Batch
<1>5. PICK t \in SUBSET Rows : t = x.todo \ b BY DEF WorkerType
<1>6. PICK pc \in {"reload", "create"} : pc = IF t = {} THEN "reload" ELSE "create" OBVIOUS
<1>7. PICK f : f = [worker EXCEPT ![w].todo = t] OBVIOUS
<1>8. PICK z : z = [x EXCEPT !.todo = t] OBVIOUS
<1>9. f = [worker EXCEPT ![w] = z] BY <1>1, <1>7, <1>8, Shapes
<1>10. PICK y : y = [z EXCEPT !.pc = pc] OBVIOUS
<1>11. /\ y \in WorkerType /\ y.pc = pc /\ y.todo = t /\ y.job = x.job /\ y.run = x.run /\ y.updates = x.updates
    BY <1>8, <1>10 DEF WorkerType
<1>12. worker' = [f EXCEPT ![w].pc = pc] BY <1>1, <1>3, <1>5, <1>6, <1>7 DEF CreateBatch, Batch
<1>13. worker' = [worker EXCEPT ![w] = y] BY <1>1, <1>9, <1>10, <1>12, Shapes
<1>14. Only(w) /\ worker'[w] = y BY <1>11, <1>13, Shapes, Sets
<1>15. PICK q : q = [r \in Rows |-> IF r \in b THEN "new" ELSE rows[j][r]] OBVIOUS
<1>16. q \in [Rows -> {"absent", "new", "verified", "error"}] BY <1>2, <1>15, Shapes
<1>17. rows' = [rows EXCEPT ![j] = q] BY <1>1, <1>2, <1>3, <1>15, Shapes DEF CreateBatch
<1>18. RowsOnly(j) /\ \A r \in Rows : rows'[j][r] = IF r \in b THEN "new" ELSE rows[j][r]
    BY <1>2, <1>15, <1>16, <1>17, Shapes DEF RowsOnly
<1> QED  BY <1>1, <1>2, <1>3, <1>4, <1>5, <1>6, <1>11, <1>14, <1>18

\* From x to y, a worker verified a chunk, some of its rows without success.
Verified(x, y, chunk, bad) ==
    /\ y.job = x.job /\ y.run = x.run /\ y.todo = x.todo \ chunk
    /\ y.updates = x.updates \cup (bad \X {"error"}) \cup ((chunk \ bad) \X {"verified"})
    /\ y.processed = x.processed + Cardinality(chunk) /\ y.errors = x.errors + Cardinality(bad)
    /\ y.pc \in {"flush", "verify"} /\ (y.pc = "verify" => y.todo # {})

\* A chunk is verified.
LEMMA Verifies ==
    ASSUME TypeInv, NEW w \in Workers, VerifyChunk(w)
    PROVE  /\ worker[w].job \in Jobs /\ worker[w].pc = "verify" /\ worker[w].todo # {} /\ Only(w)
           /\ worker'[w].job = worker[w].job /\ worker'[w].run = worker[w].run
           /\ worker'[w].pc \in {"flush", "verify"}
           /\ \E chunk \in SUBSET worker[w].todo : \E bad \in SUBSET chunk :
                 Verified(worker[w], worker'[w], chunk, bad)
<1>1. PICK x \in WorkerType : x = worker[w] BY Shapes
<1>2. worker[w].pc = "verify" /\ worker[w].todo # {} /\ worker[w].job \in Jobs BY DEF VerifyChunk, TypeInv
<1>3. PICK c : c = First(EMAIL_CONCURRENCY, x.todo) OBVIOUS
<1>4. c \in SUBSET x.todo /\ c \in SUBSET Rows BY <1>3, Firsts DEF WorkerType
<1>5. PICK t \in SUBSET Rows : t = x.todo \ c BY DEF WorkerType
<1>6. PICK bad \in SUBSET c :
         \E u : /\ u = x.updates \cup (bad \X {"error"}) \cup ((c \ bad) \X {"verified"})
                /\ worker' = [worker EXCEPT ![w] =
                      [worker[w] EXCEPT !.todo = t, !.updates = u,
                                !.processed = @ + Cardinality(c), !.errors = @ + Cardinality(bad),
                                !.pc = IF Cardinality(u) >= PROGRESS_FLUSH_INTERVAL \/ t = {}
                                       THEN "flush" ELSE "verify"]]
    BY <1>1, <1>3, <1>5 DEF VerifyChunk
<1>7. PICK u : /\ u = x.updates \cup (bad \X {"error"}) \cup ((c \ bad) \X {"verified"})
               /\ worker' = [worker EXCEPT ![w] =
                      [worker[w] EXCEPT !.todo = t, !.updates = u,
                                !.processed = @ + Cardinality(c), !.errors = @ + Cardinality(bad),
                                !.pc = IF Cardinality(u) >= PROGRESS_FLUSH_INTERVAL \/ t = {}
                                       THEN "flush" ELSE "verify"]]
    BY <1>6
<1>8. PICK n \in Nat, e \in Nat : n = x.processed + Cardinality(c) /\ e = x.errors + Cardinality(bad)
    BY <1>4, RowsFinite DEF WorkerType
<1>9. PICK pc \in {"flush", "verify"} :
         pc = IF Cardinality(u) >= PROGRESS_FLUSH_INTERVAL \/ t = {} THEN "flush" ELSE "verify"
    BY Zenon
<1>10. u \in SUBSET (Rows \X Verdicts) BY <1>4, <1>7 DEF WorkerType, Verdicts
<1>11. PICK y : y = [x EXCEPT !.todo = t, !.updates = u, !.processed = n, !.errors = e, !.pc = pc] OBVIOUS
<1>12. /\ y \in WorkerType /\ y.pc = pc /\ y.todo = t /\ y.job = x.job /\ y.run = x.run
       /\ y.updates = u /\ y.processed = n /\ y.errors = e
    BY <1>10, <1>11 DEF WorkerType, Verdicts
<1>13. worker' = [worker EXCEPT ![w] = [x EXCEPT !.todo = t, !.updates = u, !.processed = x.processed + Cardinality(c),
                                !.errors = x.errors + Cardinality(bad),
                                !.pc = IF Cardinality(u) >= PROGRESS_FLUSH_INTERVAL \/ t = {}
                                       THEN "flush" ELSE "verify"]]
    BY <1>1, <1>7, Shapes, Zenon
<1>14. worker' = [worker EXCEPT ![w] = y] BY <1>8, <1>9, <1>11, <1>13, Zenon
<1>15. Only(w) /\ worker'[w] = y BY <1>12, <1>14, Shapes, Sets
<1>16. pc = "verify" => t # {} BY <1>9
<1>17. Verified(x, y, c, bad) BY <1>5, <1>7, <1>8, <1>9, <1>12, <1>16 DEF Verified
<1> QED  BY <1>1, <1>2, <1>4, <1>12, <1>15, <1>17

\* The verdicts in the worker's hands are stored.
LEMMA Flushes ==
    ASSUME TypeInv, NEW w \in Workers, FlushRows(w), NEW j, j = worker[w].job
    PROVE  /\ j \in Jobs /\ worker[w].pc = "flush" /\ Only(w) /\ RowsOnly(j)
           /\ worker'[w].pc = "progress" /\ worker'[w].updates = {}
           /\ worker'[w].job = j /\ worker'[w].run = worker[w].run /\ worker'[w].todo = worker[w].todo
           /\ worker'[w].processed = worker[w].processed /\ worker'[w].errors = worker[w].errors
           /\ \A r \in Rows \ Upd(worker[w]) : rows'[j][r] = rows[j][r]
           /\ \A r \in Upd(worker[w]) : rows'[j][r] \in Verdicts /\ <<r, rows'[j][r]>> \in worker[w].updates
<1>1. PICK x \in WorkerType : x = worker[w] BY Shapes
<1>2. worker[w].pc = "flush" /\ j \in Jobs BY DEF FlushRows, TypeInv
<1>3. PICK f : f = [worker EXCEPT ![w].pc = "progress"] OBVIOUS
<1>4. PICK z : z = [x EXCEPT !.pc = "progress"] OBVIOUS
<1>5. f = [worker EXCEPT ![w] = z] BY <1>1, <1>3, <1>4, Shapes
<1>6. PICK y : y = [z EXCEPT !.updates = {}] OBVIOUS
<1>7. y \in WorkerType /\ y.pc = "progress" /\ y.updates = {} /\ y.job = x.job /\ y.run = x.run
      /\ y.todo = x.todo /\ y.processed = x.processed /\ y.errors = x.errors
    BY <1>4, <1>6 DEF WorkerType
<1>8. worker' = [f EXCEPT ![w].updates = {}] BY <1>1, <1>3 DEF FlushRows
<1>9. worker' = [worker EXCEPT ![w] = y] BY <1>1, <1>5, <1>6, <1>8, Shapes
<1>10. Only(w) /\ worker'[w] = y BY <1>7, <1>9, Shapes, Sets
<1>11. PICK q : q = [r \in Rows |-> IF \E s \in Verdicts : <<r, s>> \in x.updates
                                    THEN CHOOSE s \in Verdicts : <<r, s>> \in x.updates
                                    ELSE rows[j][r]]
    OBVIOUS
<1>12. \A r \in Upd(x) : q[r] \in Verdicts /\ <<r, q[r]>> \in x.updates
    <2> SUFFICES ASSUME NEW r \in Upd(x) PROVE q[r] \in Verdicts /\ <<r, q[r]>> \in x.updates OBVIOUS
    <2>1. r \in Rows /\ \E s \in Verdicts : <<r, s>> \in x.updates BY DEF Upd
    <2>2. q[r] = CHOOSE s \in Verdicts : <<r, s>> \in x.updates BY <1>11, <2>1
    <2> QED  BY <2>1, <2>2
<1>13. \A r \in Rows \ Upd(x) : q[r] = rows[j][r] BY <1>11 DEF Upd
<1>14. q \in [Rows -> {"absent", "new", "verified", "error"}] BY <1>2, Shapes, <1>12, <1>13, <1>11 DEF Verdicts
<1>15. rows' = [rows EXCEPT ![j] = q] BY <1>1, <1>2, <1>11, Shapes DEF FlushRows, Verdicts
<1>16. RowsOnly(j) /\ rows'[j] = q BY <1>2, <1>14, <1>15, Shapes DEF RowsOnly
<1> QED  BY <1>1, <1>2, <1>7, <1>10, <1>12, <1>13, <1>16

\* The job's counters are set to the worker's.
LEMMA Saves ==
    ASSUME TypeInv, NEW w \in Workers, SaveProgress(w), NEW j, j = worker[w].job
    PROVE  /\ j \in Jobs /\ worker[w].pc = "progress" /\ Only(w) /\ JobOnly(j)
           /\ worker'[w].pc = "verify" /\ Same(worker'[w], worker[w])
           /\ job'[j].status = job[j].status /\ job'[j].processed = worker[w].processed
<1>1. PICK n \in Nat, e \in Nat : n = worker[w].processed /\ e = worker[w].errors BY Shapes DEF WorkerType
<1>2. worker[w].pc = "progress" /\ j \in Jobs BY DEF SaveProgress, TypeInv
<1>3. PICK r \in RecordType : r = job[j] BY <1>2, Shapes
<1>4. PICK f : f = [job EXCEPT ![j].processed = n] OBVIOUS
<1>5. PICK z : z = [r EXCEPT !.processed = n] OBVIOUS
<1>6. f = [job EXCEPT ![j] = z] BY <1>3, <1>4, <1>5, Shapes
<1>7. PICK y : y = [z EXCEPT !.errors = e] OBVIOUS
<1>8. y \in RecordType /\ y.status = r.status /\ y.processed = n BY <1>5, <1>7 DEF RecordType
<1>9. job' = [f EXCEPT ![j].errors = e] BY <1>1, <1>4 DEF SaveProgress
<1>10. job' = [job EXCEPT ![j] = y] BY <1>2, <1>6, <1>7, <1>9, Shapes
<1>11. JobOnly(j) /\ job'[j] = y BY <1>2, <1>8, <1>10, Shapes DEF JobOnly
<1>12. Only(w) /\ worker'[w].pc = "verify" /\ Same(worker'[w], worker[w]) BY Shapes, Steps DEF SaveProgress
<1> QED  BY <1>1, <1>2, <1>3, <1>8, <1>11, <1>12

\* The job is completed, with the worker's counters.
LEMMA Completes ==
    ASSUME TypeInv, NEW w \in Workers, MarkCompleted(w), NEW j, j = worker[w].job
    PROVE  /\ j \in Jobs /\ worker[w].pc = "verify" /\ worker[w].todo = {} /\ Only(w) /\ JobOnly(j)
           /\ worker'[w].pc = "charge" /\ Same(worker'[w], worker[w])
           /\ job'[j].status = "completed" /\ job'[j].processed = worker[w].processed
           /\ job'[j].errors = worker[w].errors
<1>1. PICK n \in Nat, e \in Nat : n = worker[w].processed /\ e = worker[w].errors BY Shapes DEF WorkerType
<1>2. worker[w].pc = "verify" /\ worker[w].todo = {} /\ j \in Jobs BY DEF MarkCompleted, TypeInv
<1>3. PICK r \in RecordType : r = job[j] BY <1>2, Shapes
<1>4. PICK y : y = [r EXCEPT !.status = "completed", !.processed = n, !.errors = e] OBVIOUS
<1>5. y \in RecordType /\ y.status = "completed" /\ y.processed = n /\ y.errors = e BY <1>4 DEF RecordType
<1>6. job' = [job EXCEPT ![j] = y] BY <1>1, <1>3, <1>4, Shapes DEF MarkCompleted, Completed
<1>7. JobOnly(j) /\ job'[j] = y BY <1>2, <1>5, <1>6, Shapes DEF JobOnly
<1>8. Only(w) /\ worker'[w].pc = "charge" /\ Same(worker'[w], worker[w]) BY Shapes, Steps DEF MarkCompleted
<1> QED  BY <1>1, <1>2, <1>5, <1>7, <1>8

\* The key is charged what the worker counted, or the charge fails.
LEMMA ChargesIt ==
    ASSUME TypeInv, NEW w \in Workers, Charge(w), NEW j, j = worker[w].job
    PROVE  /\ j \in Jobs /\ worker[w].pc = "charge" /\ Only(w)
           /\ worker'[w].pc = "notify" /\ Same(worker'[w], worker[w]) /\ tally' \in TallyType /\ usage' \in Nat
           /\ \/ /\ tally'.marred = tally.marred /\ tally'.charged[j] = tally.charged[j] + worker[w].processed
                 /\ \A i \in Jobs \ {j} : tally'.charged[i] = tally.charged[i]
              \/ /\ tally'.charged = tally.charged
                 /\ \A i \in Jobs : tally'.marred[i] = IF i = j THEN tally.marred[i] \cup {"free"} ELSE tally.marred[i]
<1>1. PICK n \in Nat : n = worker[w].processed BY Shapes DEF WorkerType
<1>2. worker[w].pc = "charge" /\ j \in Jobs BY DEF Charge, TypeInv
<1>3. Only(w) /\ worker'[w].pc = "notify" /\ Same(worker'[w], worker[w]) BY Shapes, Steps DEF Charge
<1>4. CASE usage' = usage + AmountToCharge(w) /\ tally' = [tally EXCEPT !.charged[worker[w].job] = @ + AmountToCharge(w)]
    <2>1. PICK c \in [Jobs -> Nat] : c = tally.charged BY Shapes DEF TallyType
    <2>2. PICK d : d = [c EXCEPT ![j] = c[j] + n] OBVIOUS
    <2>3. d \in [Jobs -> Nat] /\ d[j] = c[j] + n /\ \A i \in Jobs \ {j} : d[i] = c[i] BY <1>2, <2>2
    <2>4. tally' = [tally EXCEPT !.charged = d] BY <1>1, <1>4, <2>1, <2>2 DEF AmountToCharge
    <2>5. tally' = [charged |-> d, marred |-> tally.marred, trouble |-> tally.trouble]
        BY <2>4, Shapes DEF TallyType
    <2>6. tally' \in TallyType /\ tally'.charged = d /\ tally'.marred = tally.marred
        BY <2>3, <2>5, Shapes DEF TallyType
    <2>7. usage' \in Nat BY <1>1, <1>4, Shapes DEF AmountToCharge
    <2> QED  BY <1>1, <1>2, <1>3, <2>1, <2>3, <2>6, <2>7
<1>5. CASE Trouble({worker[w].job}, {"free"}) /\ UNCHANGED usage
    <2>1. {j} \in SUBSET Jobs /\ {"free"} \in SUBSET Marks BY <1>2 DEF Marks
    <2>2. /\ tally' \in TallyType /\ tally'.charged = tally.charged
          /\ \A i \in Jobs : tally'.marred[i] = IF i \in {j} THEN tally.marred[i] \cup {"free"} ELSE tally.marred[i]
        BY <1>5, <2>1, Shapes, Troubles
    <2>3. usage' \in Nat BY <1>5, Shapes
    <2> QED  BY <1>2, <1>3, <2>2, <2>3
<1> QED  BY <1>4, <1>5 DEF Charge

------------------------------------------------------------------------------
(* The types. *)

\* What the requests and the tables have to be after a step.
RequestType == [Jobs -> [pc : {"idle", "create", "enqueue", "done"}, used : Nat]]
Tables == /\ job' \in [Jobs -> RecordType] /\ usage' \in Nat /\ request' \in RequestType
          /\ rows' \in [Jobs -> [Rows -> {"absent", "new", "verified", "error"}]]
          /\ failing' \subseteq Jobs /\ recovery' \subseteq Jobs \X {"reset", "add"} /\ tally' \in TallyType
Hand(x) == /\ x.pc = "idle" => x = IdleWorker
           /\ x.pc # "idle" => x.job \in Jobs /\ x.run \in Runs
Lives(q) == QueueIs(q) /\ \A j \in DOMAIN q : q[j].state \in {"waiting", "active"} => q[j].stalls <= MaxStalledCount

\* The type invariant in these words.
LEMMA TypesAre == TypeInv <=> /\ TypeOK /\ (\A w \in Workers : Hand(worker[w])) /\ Lives(queue)
BY DEF TypeInv, TypeOK, Hand, Lives, QueueIs, Live, Waiting, Active, Has

\* One worker moves, the queue may change.
LEMMA TypesKept ==
    ASSUME TypeInv, Tables, Lives(queue'), UNCHANGED worker \/ \E w \in Workers : Only(w) /\ Hand(worker'[w])
    PROVE  TypeInv'
<1>1. \A w \in Workers : Hand(worker[w]) BY TypesAre
<1>2. worker' \in [Workers -> WorkerType] BY Shapes DEF Only
<1>3. \A w \in Workers : Hand(worker'[w])
    <2>1. CASE UNCHANGED worker BY <1>1, <2>1
    <2>2. ASSUME NEW w \in Workers, Only(w), Hand(worker'[w]) PROVE \A v \in Workers : Hand(worker'[v])
        <3> SUFFICES ASSUME NEW v \in Workers PROVE Hand(worker'[v]) OBVIOUS
        <3>1. CASE v = w BY <2>2, <3>1
        <3>2. CASE v # w BY <2>2, <3>2, <1>1 DEF Only
        <3> QED  BY <3>1, <3>2
    <2> QED  BY <2>1, <2>2
<1>4. TypeOK' BY <1>2 DEF TypeOK, Tables, RequestType, Lives, QueueIs, TallyType
<1>5. (\A w \in Workers : Hand(worker[w]))' BY <1>3 DEF Hand
<1>6. Lives(queue)' BY DEF Lives, QueueIs
<1> QED  BY <1>4, <1>5, <1>6 DEF TypeInv, Hand, Lives, QueueIs, Live, Waiting, Active, Has

\* A request gets on.
LEMMA Requests ==
    ASSUME request \in RequestType, NEW j \in Jobs, NEW pc \in {"idle", "create", "enqueue", "done"},
           request' = [request EXCEPT ![j].pc = pc]
    PROVE  request' \in RequestType
  BY DEF RequestType

\* Every step keeps the types.
LEMMA TypeStep == TypeInv /\ [Next]_vars => TypeInv'
<1> SUFFICES ASSUME TypeInv, [Next]_vars PROVE TypeInv' OBVIOUS
<1>t. /\ worker \in [Workers -> WorkerType] /\ job \in [Jobs -> RecordType] /\ usage \in Nat
      /\ rows \in [Jobs -> [Rows -> {"absent", "new", "verified", "error"}]]
      /\ request \in RequestType /\ tally \in TallyType
      /\ failing \subseteq Jobs /\ recovery \subseteq Jobs \X {"reset", "add"}
    BY Shapes DEF RequestType
<1>q. Lives(queue) /\ QueueIs(queue) BY TypesAre DEF Lives
<1>w. \A w \in Workers : Hand(worker[w]) BY TypesAre
<1>i. Hand(IdleWorker) BY DEF Hand, IdleWorker
<1>1. ASSUME NEW j \in Jobs, ReadKey(j) PROVE TypeInv'
  BY <1>1, <1>t, <1>q, TypesKept DEF ReadKey, RequestType, Tables
<1>2. ASSUME NEW j \in Jobs, CreateJob(j) PROVE TypeInv'
  BY <1>t, <1>2, Requests, Statuses, <1>q, TypesKept DEF CreateJob, JobOnly, Tables
<1>a. ASSUME NEW j \in Jobs, queue' = Add(queue, j, "bulk") PROVE Lives(queue')
  BY <1>a, <1>q, Adds, ConstantsAssumption DEF Has, Lives
<1>3. ASSUME NEW j \in Jobs, EnqueueJob(j) PROVE TypeInv'
  BY <1>t, <1>3, Requests, <1>a, TypesKept DEF EnqueueJob, Tables
<1>4. ASSUME NEW j \in Jobs, RequestFails(j) PROVE TypeInv'
  BY <1>t, <1>4, Requests, Troubles, <1>q, TypesKept DEF RequestFails, Tables
<1>5. ASSUME NEW j \in Jobs, JobStalls(j) PROVE TypeInv'
    <2>1. PICK p : p = queue' OBVIOUS
    <2>2. /\ QueueIs(p) /\ DOMAIN p = DOMAIN queue /\ \A i \in DOMAIN queue \ {j} : p[i] = queue[i]
          /\ p[j].stalls = queue[j].stalls + 1
          /\ queue[j].stalls < MaxStalledCount => p[j].state = "waiting"
          /\ ~(queue[j].stalls < MaxStalledCount) => p[j].state = "failed"
        BY <1>5, <1>q, <2>1, Stalls DEF JobStalls
    <2>3. queue[j].stalls \in Nat /\ j \in DOMAIN queue
        BY <1>5, <1>q DEF JobStalls, Active, Has, QueueIs, QueueType
    <2>4. Lives(p) BY <1>q, <2>2, <2>3, ConstantsAssumption DEF Lives
    <2>5. tally' \in TallyType BY <1>5, <1>t, Troubles DEF Marks, JobStalls
    <2>6. Tables BY <1>5, <1>t, <2>5 DEF JobStalls, Tables
    <2> QED  BY <1>5, <2>1, <2>4, <2>6, TypesKept DEF JobStalls
<1>6. ASSUME NEW j \in Jobs, FailJob(j) \/ ResetStalled(j) PROVE TypeInv'
    <2>1. job' \in [Jobs -> RecordType]
    BY <1>t, Statuses, <1>6 DEF RecordType, FailJob, Failed, ResetStalled, JobOnly
    <2>2. recovery' \subseteq Jobs \X {"reset", "add"} /\ failing' \subseteq Jobs
        BY <1>6, <1>t DEF FailJob, ResetStalled
    <2>3. Tables /\ Lives(queue') BY <1>6, <1>t, <1>q, <2>1, <2>2 DEF FailJob, ResetStalled, Tables
    <2> QED  BY <1>6, <2>3, TypesKept DEF FailJob, ResetStalled
<1>7. ASSUME NEW j \in Jobs, ReenqueueStalled(j) PROVE TypeInv'
  BY <1>7, <1>t, <1>a, TypesKept DEF ReenqueueStalled, Tables
<1>8. ASSUME NEW w \in Workers, StartJob(w) PROVE TypeInv'
    <2>1. PICK j \in Jobs :
             /\ queue[j].stalls \in Runs /\ j \in DOMAIN queue /\ Waiting(queue, j)
             /\ QueueIs(queue') /\ DOMAIN queue' = DOMAIN queue
             /\ \A i \in DOMAIN queue \ {j} : queue'[i] = queue[i]
             /\ queue'[j].state = "active" /\ queue'[j].stalls = queue[j].stalls /\ JobOnly(j) /\ Only(w)
             /\ worker'[w].pc = "load" /\ worker'[w].job = j /\ worker'[w].run = queue[j].stalls
        BY <1>8, Starts
    <2>2. Lives(queue') BY <1>q, <2>1 DEF Lives, Waiting
    <2>3. Hand(worker'[w]) BY <2>1 DEF Hand
    <2>4. Tables BY <1>8, <1>t, <2>1 DEF StartJob, Tables, JobOnly
    <2> QED  BY <2>1, <2>2, <2>3, <2>4, TypesKept
<1>9. ASSUME NEW w \in Workers, LoadRows(w) PROVE TypeInv'
  BY <1>9, Loads, <1>t, <1>q, <1>w, TypesKept DEF LoadRows, Tables, Hand
<1>10. ASSUME NEW w \in Workers, CreateBatch(w) PROVE TypeInv'
    <2>1. Only(w) /\ worker'[w].pc # "idle" /\ worker'[w].job = worker[w].job /\ worker'[w].run = worker[w].run
          /\ worker[w].pc # "idle" /\ RowsOnly(worker[w].job)
        BY <1>10, Creates
    <2>2. Tables /\ Lives(queue') BY <1>10, <2>1, <1>t, <1>q DEF CreateBatch, Tables, RowsOnly
    <2>3. Hand(worker'[w]) BY <1>w, <2>1 DEF Hand
    <2> QED  BY <2>1, <2>2, <2>3, TypesKept
<1>11. ASSUME NEW w \in Workers, VerifyChunk(w) PROVE TypeInv'
  BY <1>11, Verifies, <1>t, <1>q, <1>w, TypesKept DEF VerifyChunk, Tables, Hand
<1>12. ASSUME NEW w \in Workers, FlushRows(w) PROVE TypeInv'
  BY <1>12, Flushes, <1>t, <1>q, <1>w, TypesKept DEF FlushRows, Tables, RowsOnly, Hand
<1>13. ASSUME NEW w \in Workers, SaveProgress(w) \/ MarkCompleted(w) PROVE TypeInv'
  BY <1>13, Saves, Completes, <1>t, <1>q, <1>w, TypesKept DEF SaveProgress, MarkCompleted, Tables, JobOnly,
     Hand, Same
<1>14. ASSUME NEW w \in Workers, Charge(w) PROVE TypeInv'
  BY <1>14, ChargesIt, <1>t, <1>q, <1>w, TypesKept DEF Charge, Tables, Hand, Same
<1>e. ASSUME NEW w \in Workers, worker[w].pc # "idle", NEW how \in {"completed", "failed"}, EndJob(w, how)
      PROVE  Only(w) /\ Hand(worker'[w]) /\ Lives(queue') /\ worker[w].job \in Jobs
  BY <1>e, Ends, <1>q, <1>i DEF Lives
<1>15. ASSUME NEW w \in Workers, Notify(w) PROVE TypeInv'
  BY <1>15, <1>e, <1>t, TypesKept DEF Notify, RecordType, Tables
<1>16. ASSUME NEW w \in Workers, DownloadFails(w) PROVE TypeInv'
  BY <1>16, <1>e, <1>t, Statuses, Troubles, TypesKept DEF DownloadFails, JobOnly, Tables
<1>17. ASSUME NEW w \in Workers, HandlerThrows(w) PROVE TypeInv'
    <2>1. worker[w].pc # "idle" /\ EndJob(w, "failed") BY <1>17 DEF HandlerThrows
    <2>2. Only(w) /\ Hand(worker'[w]) /\ Lives(queue') /\ worker[w].job \in Jobs BY <1>e, <2>1
    <2>3. tally' \in TallyType BY <1>17, <1>t, Troubles DEF HandlerThrows
    <2>4. failing' \subseteq Jobs BY <1>17, <1>t, <2>2 DEF HandlerThrows
    <2>5. Tables BY <1>17, <1>t, <2>3, <2>4 DEF HandlerThrows, Tables
    <2> QED  BY <2>2, <2>5, TypesKept
<1>18. ASSUME NEW w \in Workers, WorkerCrash(w) PROVE TypeInv'
    <2>1. Only(w) /\ worker'[w] = IdleWorker BY <1>18, <1>t, Sets, IdleShape DEF WorkerCrash
    <2>2. worker[w].job \in Jobs BY <1>18, <1>w DEF WorkerCrash, Hand
    <2>3. Harm(w) \in SUBSET Marks /\ {worker[w].job} \in SUBSET Jobs BY <2>2 DEF Harm, Marks
    <2>4. tally' \in TallyType BY <1>18, <1>t, <2>3, Troubles DEF WorkerCrash
    <2>5. Tables /\ Lives(queue') BY <1>18, <1>t, <1>q, <2>4 DEF WorkerCrash, Tables
    <2> QED  BY <1>i, <2>1, <2>5, TypesKept
<1>19. CASE WorkerStarts BY <1>19, <1>t, Troubles, <1>q, TypesKept DEF WorkerStarts, Marks, Tables
<1>20. CASE ListenerDies BY <1>t, <1>20, Troubles, <1>q, TypesKept DEF Marks, ListenerDies, Tables
<1>21. CASE UNCHANGED vars BY <1>21, <1>t, <1>q, TypesKept DEF vars, Tables
<1> QED  BY <1>1, <1>2, <1>3, <1>4, <1>5, <1>6, <1>7, <1>8, <1>9, <1>10, <1>11, <1>12, <1>13, <1>14, <1>15,
            <1>16, <1>17, <1>18, <1>19, <1>20, <1>21 DEF Next, JobNext, WorkerProceeds

------------------------------------------------------------------------------
(* What no step undoes. *)

\* A step of worker w.
Acts(w) == WorkerProceeds(w) \/ DownloadFails(w) \/ HandlerThrows(w) \/ WorkerCrash(w)

\* The place of a worker after its step: it takes a job, goes on with its own, or is idle.
LEMMA Moves ==
    ASSUME TypeInv, NEW w \in Workers, Acts(w)
    PROVE  /\ Only(w)
           /\ \/ StartJob(w)
              \/ /\ worker[w].pc # "idle" /\ worker[w].job \in Jobs
                 /\ \/ worker'[w] = IdleWorker
                    \/ worker'[w].pc # "idle" /\ worker'[w].job = worker[w].job /\ worker'[w].run = worker[w].run
  BY Starts, Loads, Creates, Verifies, Flushes, Saves, Completes, ChargesIt, Ends, Shapes, Sets, IdleShape DEF
     Same, Notify, DownloadFails, HandlerThrows, WorkerCrash, TypeInv, Acts, WorkerProceeds

\* The rest of the system leaves the workers and the rows alone.
LEMMA Others ==
    ASSUME [Next]_vars PROVE UNCHANGED <<worker, rows>> \/ \E w \in Workers : Acts(w)
BY DEF Next, Acts, JobNext, ReadKey, CreateJob, EnqueueJob, RequestFails, JobStalls, FailJob, ResetStalled,
       ReenqueueStalled, WorkerStarts, ListenerDies, vars

\* Rows are changed by the creation of a batch and by the flush.
LEMMA RowSteps ==
    ASSUME [Next]_vars PROVE UNCHANGED rows \/ \E w \in Workers : CreateBatch(w) \/ FlushRows(w)
BY DEF Next, JobNext, WorkerProceeds, ReadKey, CreateJob, EnqueueJob, RequestFails, JobStalls, FailJob,
       ResetStalled, ReenqueueStalled, WorkerStarts, ListenerDies, vars, StartJob, LoadRows, VerifyChunk,
       SaveProgress, MarkCompleted, Charge, Notify, DownloadFails, HandlerThrows, WorkerCrash

\* A remembered job stays remembered; it goes back to waiting only with one more stall.
LEMMA QueueMoves ==
    ASSUME TypeInv, [Next]_vars, NEW j \in DOMAIN queue
    PROVE  /\ j \in DOMAIN queue' /\ queue[j].stalls \in Nat
           /\ \/ queue'[j] = queue[j]
              \/ queue'[j].state # "waiting" /\ queue'[j].stalls = queue[j].stalls
              \/ queue'[j].stalls = queue[j].stalls + 1
<1>q. QueueIs(queue) BY Shapes
<1>j. j \in Jobs /\ queue[j].stalls \in Nat BY <1>q DEF QueueIs, QueueType
<1>p. PICK p : p = queue' OBVIOUS
<1>1. CASE UNCHANGED queue BY <1>1, <1>j
<1>2. ASSUME NEW i \in Jobs, queue' = Add(queue, i, "bulk") PROVE j \in DOMAIN queue' /\ queue'[j] = queue[j]
  BY <1>2, <1>p, <1>q, Adds DEF Has
<1>3. ASSUME NEW i \in Jobs, JobStalls(i)
      PROVE  j \in DOMAIN queue' /\ (queue'[j] = queue[j] \/ queue'[j].stalls = queue[j].stalls + 1)
  BY <1>3, <1>p, <1>q, Stalls DEF JobStalls
<1>4. ASSUME NEW w \in Workers, StartJob(w)
      PROVE  /\ j \in DOMAIN queue'
             /\ \/ queue'[j] = queue[j]
                \/ queue'[j].state # "waiting" /\ queue'[j].stalls = queue[j].stalls
  BY <1>4, Starts
<1>5. ASSUME NEW w \in Workers, worker[w].pc # "idle", NEW how \in {"completed", "failed"}, EndJob(w, how)
      PROVE  /\ j \in DOMAIN queue'
             /\ \/ queue'[j] = queue[j]
                \/ queue'[j].state # "waiting" /\ queue'[j].stalls = queue[j].stalls
  BY <1>5, Ends DEF TypeInv
<1>6. ASSUME NEW w \in Workers, Acts(w)
      PROVE  /\ j \in DOMAIN queue'
             /\ \/ queue'[j] = queue[j]
                \/ queue'[j].state # "waiting" /\ queue'[j].stalls = queue[j].stalls
  BY <1>4, <1>5, <1>6 DEF Notify, DownloadFails, HandlerThrows, Acts, WorkerProceeds, LoadRows, CreateBatch,
     VerifyChunk, FlushRows, SaveProgress, MarkCompleted, Charge, WorkerCrash
<1>7. ASSUME NEW i \in Jobs, JobNext(i)
      PROVE  j \in DOMAIN queue' /\ (queue'[j] = queue[j] \/ queue'[j].stalls = queue[j].stalls + 1)
  BY <1>3, <1>2, <1>7 DEF EnqueueJob, ReenqueueStalled, JobNext, ReadKey, CreateJob, RequestFails, FailJob,
     ResetStalled
<1>8. CASE WorkerStarts \/ ListenerDies \/ UNCHANGED vars BY <1>8, <1>1 DEF WorkerStarts, ListenerDies, vars
<1>9. (\E w \in Workers : Acts(w)) \/ (\E i \in Jobs : JobNext(i)) \/ WorkerStarts \/ ListenerDies \/ UNCHANGED vars
    BY DEF Next, Acts
<1> QED  BY <1>6, <1>7, <1>8, <1>9, <1>j

\* A run that has begun has begun for good.
LEMMA BegunStays ==
    ASSUME TypeInv, [Next]_vars, NEW j \in Jobs, NEW k \in Nat, Begun(j, k) PROVE Begun(j, k)'
  BY QueueMoves DEF Begun, Has, Waiting

\* Rows that are there stay, stored verdicts stay, and a row that appears is
\* one of the batch of the run that creates it.
LEMMA RowsStay ==
    ASSUME TypeInv, HandsInv, [Next]_vars, NEW j \in Jobs
    PROVE  /\ Present(j) \subseteq Present(j)' /\ Done(j) \subseteq Done(j)'
           /\ \A r \in Present(j)' \ Present(j) :
                 \E w \in Workers : /\ worker[w].pc = "create" /\ worker[w].job = j
                                    /\ r \in worker[w].todo /\ r[2] = worker[w].run
<1>t. rows \in [Jobs -> [Rows -> {"absent", "new", "verified", "error"}]] BY Shapes
<1>1. CASE rows'[j] = rows[j] BY <1>1 DEF Present, Done
<1>2. ASSUME NEW w \in Workers, CreateBatch(w), worker[w].job = j
      PROVE  /\ Present(j) \subseteq Present(j)' /\ Done(j) \subseteq Done(j)'
             /\ \A r \in Present(j)' \ Present(j) :
                   worker[w].pc = "create" /\ r \in worker[w].todo /\ r[2] = worker[w].run
    <2>1. /\ worker[w].pc = "create" /\ Batch(worker[w].todo) \subseteq worker[w].todo
          /\ \A r \in Rows : rows'[j][r] = IF r \in Batch(worker[w].todo) THEN "new" ELSE rows[j][r]
        BY <1>2, Creates
    <2>2. /\ worker[w].todo \subseteq FileRows \X {worker[w].run}
          /\ \A l \in FileRows : <<l, worker[w].run>> \in worker[w].todo <=> <<l, worker[w].run>> \notin Present(j)
        BY <1>2, <2>1 DEF HandsInv, Hands
    <2>3. \A r \in worker[w].todo : r \notin Present(j) /\ r[2] = worker[w].run BY <2>2
    <2> QED  BY <2>1, <2>3 DEF Present, Done, Processed
<1>3. ASSUME NEW w \in Workers, FlushRows(w), worker[w].job = j
      PROVE  Present(j) = Present(j)' /\ Done(j) \subseteq Done(j)'
    <2>1. /\ worker[w].pc = "flush"
          /\ \A r \in Rows \ Upd(worker[w]) : rows'[j][r] = rows[j][r]
          /\ \A r \in Upd(worker[w]) : rows'[j][r] \in Verdicts
        <3>1. FlushRows(w) /\ j = worker[w].job BY <1>3
        <3>2. /\ worker[w].pc = "flush"
              /\ \A r \in Rows \ Upd(worker[w]) : rows'[j][r] = rows[j][r]
              /\ \A r \in Upd(worker[w]) : rows'[j][r] \in Verdicts /\ <<r, rows'[j][r]>> \in worker[w].updates
            BY <3>1, Flushes
        <3> QED  BY <3>2
    <2>2. Upd(worker[w]) \subseteq {r \in Present(j) : IsUnique(r)} BY <1>3, <2>1 DEF HandsInv, Hands, Counting
    <2> QED  BY <2>1, <2>2 DEF Present, Done, Processed, Verdicts
<1>4. ASSUME NEW w \in Workers, CreateBatch(w) \/ FlushRows(w), worker[w].job # j PROVE rows'[j] = rows[j]
    BY <1>4, Creates, Flushes DEF RowsOnly
<1> QED  BY <1>1, <1>2, <1>3, <1>4, RowSteps

------------------------------------------------------------------------------
(* The runs have numbers of their own. *)

\* A worker at work before the step, or one that takes a job in it.
LEMMA AtWork ==
    ASSUME TypeInv, [Next]_vars, NEW v \in Workers, worker'[v].pc # "idle"
    PROVE  \/ worker[v].pc # "idle" /\ worker'[v].job = worker[v].job /\ worker'[v].run = worker[v].run
           \/ StartJob(v)
<1>1. CASE UNCHANGED worker BY <1>1
<1>2. ASSUME NEW w \in Workers, Acts(w)
      PROVE  \/ worker[v].pc # "idle" /\ worker'[v].job = worker[v].job /\ worker'[v].run = worker[v].run
             \/ StartJob(v)
  BY <1>2, Moves, IdleShape DEF Only
<1> QED  BY <1>1, <1>2, Others

\* Only one worker takes a job.
LEMMA OneStarts ==
    ASSUME TypeInv, NEW v \in Workers, StartJob(v), NEW u \in Workers, u # v PROVE worker'[u] = worker[u]
  BY Starts DEF Only

\* Every step keeps the numbers of the runs apart.
LEMMA RunsStep == TypeInv /\ RunsInv /\ HandsInv /\ [Next]_vars => RunsInv'
<1> SUFFICES ASSUME TypeInv, RunsInv, HandsInv, [Next]_vars PROVE RunsInv' OBVIOUS
<1>n. \A w \in Workers : worker[w].pc # "idle" => worker[w].job \in Jobs /\ worker[w].run \in Nat
    BY DEF TypeInv, Runs
<1>1. ASSUME NEW w \in Workers, worker'[w].pc # "idle" PROVE Begun(worker[w].job, worker[w].run)'
  BY <1>n, BegunStays, Starts, <1>1, AtWork DEF RunsInv, Begun, Has, Waiting, Runs
<1>2. ASSUME NEW v \in Workers, StartJob(v), NEW u \in Workers, u # v, worker[u].pc # "idle",
             worker[u].job = worker'[v].job
      PROVE  worker[u].run # worker'[v].run
  BY <1>2, Starts, <1>n DEF RunsInv, Begun, Runs
<1>3. ASSUME NEW v \in Workers, NEW u \in Workers, v # u, worker'[v].pc # "idle", worker'[u].pc # "idle",
             worker'[v].job = worker'[u].job
      PROVE  worker'[v].run # worker'[u].run
  BY <1>3, OneStarts, <1>2, AtWork DEF RunsInv
<1>4. \A v, u \in Workers :
         v # u /\ worker'[v].pc # "idle" /\ worker'[v].job = worker'[u].job => worker'[v].run # worker'[u].run
    <2> SUFFICES ASSUME NEW v \in Workers, NEW u \in Workers, v # u, worker'[v].pc # "idle",
                        worker'[v].job = worker'[u].job
                 PROVE  worker'[v].run # worker'[u].run
        OBVIOUS
    <2>1. worker'[u].pc # "idle" BY TypeStep, IdleShape, ConstantsAssumption DEF TypeInv
    <2> QED  BY <1>3, <2>1
<1>5. ASSUME NEW j \in Jobs, NEW r \in Present(j)' PROVE Begun(j, r[2])'
  BY RowsStay, BegunStays DEF Present, Rows, Runs, RunsInv
<1> QED  BY <1>1, <1>4, <1>5 DEF RunsInv

------------------------------------------------------------------------------
(* What the workers have in their hands. *)

\* The parts of a worker's hands, by the step it is at.
LEMMA HandsOf ==
    ASSUME TypeInv, HandsInv, NEW w \in Workers, worker[w].pc # "idle"
    PROVE  Hands(worker[w]) /\ worker[w] \in WorkerType /\ worker[w].job \in Jobs /\ worker[w].run \in Runs
BY Shapes DEF TypeInv, HandsInv

\* A worker that does not move keeps what it has: the rows it looks after are
\* not touched by the runs of other numbers.
LEMMA HandsStay ==
    ASSUME TypeInv, RunsInv, HandsInv, [Next]_vars, NEW v \in Workers, worker[v].pc # "idle",
           worker'[v] = worker[v], ~CreateBatch(v)
    PROVE  Hands(worker[v])'
<1>1. PICK x \in WorkerType : x = worker[v] BY Shapes
<1>2. PICK j \in Jobs : j = x.job BY <1>1, HandsOf
<1>3. Hands(x) /\ x.run \in Runs /\ x.pc # "idle" BY <1>1, HandsOf
<1>4. Present(j) \subseteq Present(j)' /\ Done(j) \subseteq Done(j)' BY RowsStay
<1>5. ASSUME NEW r \in Present(j)', r[2] = x.run PROVE r \in Present(j)
    <2> SUFFICES ASSUME r \notin Present(j) PROVE FALSE OBVIOUS
    <2>1. PICK w \in Workers : /\ worker[w].pc = "create" /\ worker[w].job = j
                               /\ r \in worker[w].todo /\ r[2] = worker[w].run
        BY RowsStay
    <2>2. w = v BY <1>1, <1>2, <1>5, <2>1 DEF RunsInv
    <2>3. UNCHANGED rows
        <3>1. CASE UNCHANGED <<worker, rows>> BY <3>1
        <3>2. ASSUME NEW u \in Workers, CreateBatch(u) PROVE FALSE
            <4>1. worker[u].pc = "create" /\ u # v /\ worker'[u].todo = worker[u].todo \ Batch(worker[u].todo)
                BY <3>2, Creates
            <4>2. RowsOnly(worker[u].job) /\ worker[u].job \in Jobs
                  /\ \A q \in Rows : rows'[worker[u].job][q] # rows[worker[u].job][q] => q \in worker[u].todo
                BY <3>2, Creates
            <4>3. worker[u].todo \subseteq FileRows \X {worker[u].run} BY <4>1, HandsOf DEF Hands
            <4>4. r \in Rows /\ rows'[j][r] # "absent" /\ rows[j][r] = "absent" BY DEF Present
            <4>5. worker[u].job = j /\ r[2] = worker[u].run BY <4>2, <4>3, <4>4 DEF RowsOnly
            <4> QED  BY <1>1, <1>2, <1>5, <4>1, <4>5 DEF RunsInv
        <3>3. ASSUME NEW u \in Workers, FlushRows(u) PROVE FALSE
            <4>1. /\ worker[u].pc = "flush" /\ RowsOnly(worker[u].job) /\ worker[u].job \in Jobs
                  /\ \A q \in Rows \ Upd(worker[u]) : rows'[worker[u].job][q] = rows[worker[u].job][q]
                BY <3>3, Flushes
            <4>2. Upd(worker[u]) \subseteq Present(worker[u].job) BY <4>1, HandsOf DEF Hands, Counting
            <4>3. r \in Rows /\ rows'[j][r] # "absent" /\ rows[j][r] = "absent" BY DEF Present
            <4>4. worker[u].job = j BY <4>1, <4>3 DEF RowsOnly
            <4>5. r \in Upd(worker[u]) BY <4>1, <4>3, <4>4
            <4> QED  BY <4>2, <4>3, <4>4, <4>5 DEF Present
        <3> QED  BY <3>2, <3>3, RowSteps
    <2> QED  BY <2>3 DEF Present
<1>6. Done(j)' \subseteq Rows BY DEF Done
<1>7. Hands(x)'
    <2>1. x.pc = "load" => \A r \in Present(j)' : r[2] # x.run BY <1>2, <1>3, <1>5 DEF Hands
    <2>2. x.pc = "create" => /\ x.todo \subseteq FileRows \X {x.run}
                             /\ \A l \in FileRows : <<l, x.run>> \in x.todo <=> <<l, x.run>> \notin Present(j)'
        <3> SUFFICES ASSUME x.pc = "create", NEW l \in FileRows
                     PROVE  <<l, x.run>> \in x.todo <=> <<l, x.run>> \notin Present(j)'
            BY <1>3 DEF Hands
        <3>1. <<l, x.run>> \in x.todo <=> <<l, x.run>> \notin Present(j) BY <1>2, <1>3 DEF Hands
        <3>2. <<l, x.run>> \in Present(j)' => <<l, x.run>> \in Present(j) BY <1>5
        <3> QED  BY <1>4, <3>1, <3>2
    <2>3. x.pc = "reload" => FileRows \X {x.run} \subseteq Present(j)' BY <1>2, <1>3, <1>4 DEF Hands
    <2>4. x.pc \in Counting =>
            /\ x.todo \cup Upd(x) \subseteq {r \in Present(j)' : IsUnique(r)}
            /\ x.todo \cap Upd(x) = {}
            /\ \A r \in Rows : ~(<<r, "verified">> \in x.updates /\ <<r, "error">> \in x.updates)
            /\ x.processed <= Cardinality((Done(j)' \cup Upd(x)) \ x.todo)
        <3> SUFFICES ASSUME x.pc \in Counting
                     PROVE  /\ x.todo \cup Upd(x) \subseteq {r \in Present(j)' : IsUnique(r)}
                            /\ x.processed <= Cardinality((Done(j)' \cup Upd(x)) \ x.todo)
            BY <1>3 DEF Hands
        <3>1. x.todo \cup Upd(x) \subseteq {r \in Present(j) : IsUnique(r)}
              /\ x.processed <= Cardinality((Done(j) \cup Upd(x)) \ x.todo)
            BY <1>2, <1>3 DEF Hands
        <3>2. PICK S \in SUBSET Rows : S = (Done(j)' \cup Upd(x)) \ x.todo BY <1>6 DEF Upd
        <3>6. PICK R \in SUBSET S : R = (Done(j) \cup Upd(x)) \ x.todo BY <1>4, <3>2
        <3>3. Cardinality(R) <= Cardinality(S) /\ Cardinality(R) \in Nat /\ Cardinality(S) \in Nat
            BY Fewer, RowsFinite
        <3>4. x.processed \in Nat BY DEF WorkerType
        <3>5. x.processed <= Cardinality((Done(j)' \cup Upd(x)) \ x.todo) BY <3>1, <3>2, <3>3, <3>4, <3>6
        <3> QED  BY <1>4, <3>1, <3>5
    <2>5. /\ x.updates # {} => x.pc = "flush" \/ (x.pc = "verify" /\ x.todo # {})
          /\ x.pc = "charge" => x.todo = {}
        BY <1>3 DEF Hands
    <2> QED  BY <1>2, <2>1, <2>2, <2>3, <2>4, <2>5 DEF Hands
<1> QED  BY <1>1, <1>7

\* What a worker counted is at most what is stored of it and what it holds.
HandsFacts(x) ==
    /\ x.todo \cup Upd(x) \subseteq {r \in Present(x.job) : IsUnique(r)}
    /\ x.todo \cap Upd(x) = {}
    /\ \A r \in Rows : ~(<<r, "verified">> \in x.updates /\ <<r, "error">> \in x.updates)
    /\ x.processed <= Cardinality((Done(x.job) \cup Upd(x)) \ x.todo)

\* No updates, no rows of theirs.
LEMMA NoUpd == \A x : x.updates = {} => Upd(x) = {} /\ Bad(x) = {}
BY DEF Upd, Bad

\* The rows in hand after a chunk is verified.
Grown(x, y, chunk, bad) == Upd(y) = Upd(x) \cup chunk /\ Bad(y) = Bad(x) \cup bad
\* A chunk that is verified adds its rows to those in hand.
LEMMA UpdGrows ==
    ASSUME NEW x, NEW y, NEW chunk \in SUBSET Rows, NEW bad \in SUBSET chunk,
           y.updates = x.updates \cup (bad \X {"error"}) \cup ((chunk \ bad) \X {"verified"})
    PROVE  Grown(x, y, chunk, bad)
<1>1. \A r \in Rows : <<r, "error">> \in y.updates <=> <<r, "error">> \in x.updates \/ r \in bad
    <2> SUFFICES ASSUME NEW r \in Rows
                 PROVE  <<r, "error">> \in y.updates <=> <<r, "error">> \in x.updates \/ r \in bad
        OBVIOUS
    <2>1. PICK t : t = <<r, "error">> OBVIOUS
    <2>2. t \in bad \X {"error"} <=> r \in bad BY <2>1
    <2>3. t \notin (chunk \ bad) \X {"verified"} BY <2>1
    <2> QED  BY <2>1, <2>2, <2>3
<1>2. \A r \in Rows : <<r, "verified">> \in y.updates <=> <<r, "verified">> \in x.updates \/ r \in chunk \ bad
    <2> SUFFICES ASSUME NEW r \in Rows
                 PROVE  <<r, "verified">> \in y.updates <=> <<r, "verified">> \in x.updates \/ r \in chunk \ bad
        OBVIOUS
    <2>1. PICK t : t = <<r, "verified">> OBVIOUS
    <2>2. t \in (chunk \ bad) \X {"verified"} <=> r \in chunk \ bad BY <2>1
    <2>3. t \notin bad \X {"error"} BY <2>1
    <2> QED  BY <2>1, <2>2, <2>3
<1>3. \A z : Upd(z) = {r \in Rows : <<r, "verified">> \in z.updates \/ <<r, "error">> \in z.updates}
    BY DEF Upd, Verdicts
<1>4. Upd(y) = Upd(x) \cup chunk
    <2>1. \A r \in Rows : r \in Upd(y) <=> r \in Upd(x) \/ r \in chunk BY <1>1, <1>2, <1>3
    <2>2. Upd(y) \subseteq Rows /\ Upd(x) \subseteq Rows BY DEF Upd
    <2> QED  BY <2>1, <2>2
<1>5. Bad(y) = Bad(x) \cup bad BY <1>1 DEF Bad
<1> QED  BY <1>4, <1>5 DEF Grown

\* Taking the job, loading the rows, creating a batch.
LEMMA HandsFirst ==
    ASSUME TypeInv, RunsInv, HandsInv, NEW w \in Workers, StartJob(w) \/ LoadRows(w) \/ CreateBatch(w)
    PROVE  Hands(worker[w])'
<1>1. CASE StartJob(w)
    <2>1. PICK j \in Jobs : /\ j \in DOMAIN queue /\ queue[j].stalls \in Runs /\ Waiting(queue, j)
                            /\ worker'[w].pc = "load" /\ worker'[w].job = j /\ worker'[w].run = queue[j].stalls
                            /\ worker'[w].updates = {}
        BY <1>1, Starts
    <2>2. UNCHANGED rows BY <1>1 DEF StartJob
    <2>3. \A r \in Present(j)' : r[2] # queue[j].stalls
        <3> SUFFICES ASSUME NEW r \in Present(j) PROVE r[2] # queue[j].stalls BY <2>2 DEF Present
        <3>1. Begun(j, r[2]) BY DEF RunsInv
        <3>2. r[2] < queue[j].stalls /\ r[2] \in Nat /\ queue[j].stalls \in Nat
            BY <2>1, <3>1 DEF Begun, Present, Rows, Runs
        <3> QED  BY <3>2
    <2> QED  BY <2>1, <2>3 DEF Hands, Counting
<1>2. CASE LoadRows(w)
    <2>1. PICK j \in Jobs : j = worker[w].job /\ worker[w].pc \in {"load", "reload"} BY <1>2, Loads
    <2>2. /\ worker'[w].job = j /\ worker'[w].run = worker[w].run /\ worker'[w].updates = worker[w].updates
          /\ NoRows(j) => worker'[w].pc = "create" /\ worker'[w].todo = FileRows \X {worker[w].run}
          /\ ~NoRows(j) => /\ worker'[w].pc = "verify" /\ worker'[w].todo = Pending(j)
                           /\ worker'[w].processed = Cardinality(Done(j))
        BY <1>2, <2>1, Loads
    <2>3. worker[w].updates = {} BY <2>1, HandsOf DEF Hands
    <2>4. UNCHANGED rows BY <1>2 DEF LoadRows
    <2>5. Present(j)' = Present(j) /\ Done(j)' = Done(j) BY <2>4 DEF Present, Done
    <2>6. CASE NoRows(j) BY <2>2, <2>5, <2>6, <2>3 DEF NoRows, Hands, Counting
    <2>7. CASE ~NoRows(j)
        <3>1. Upd(worker'[w]) = {} BY <2>2, <2>3, NoUpd
        <3>2. Pending(j) \subseteq {r \in Present(j) : IsUnique(r)} /\ Done(j) \ Pending(j) = Done(j)
            BY DEF Pending, Present, Done, Processed
        <3>3. (Done(j) \cup Upd(worker'[w])) \ worker'[w].todo = Done(j) BY <2>2, <2>7, <3>1, <3>2
        <3>4. Cardinality(Done(j)) \in Nat BY RowsFinite DEF Done
        <3>5. worker'[w].processed <= Cardinality((Done(j) \cup Upd(worker'[w])) \ worker'[w].todo)
            BY <2>2, <2>7, <3>3, <3>4
        <3> QED  BY <2>2, <2>3, <2>5, <2>7, <3>1, <3>2, <3>5 DEF Hands, Counting
    <2> QED  BY <2>6, <2>7
<1>3. CASE CreateBatch(w)
    <2>1. PICK j \in Jobs : j = worker[w].job /\ worker[w].pc = "create" BY <1>3, Creates
    <2>2. PICK B : B = Batch(worker[w].todo) OBVIOUS
    <2>3. /\ B \subseteq worker[w].todo
          /\ \A r \in Rows : rows'[j][r] = IF r \in B THEN "new" ELSE rows[j][r]
          /\ worker'[w].todo = worker[w].todo \ B
          /\ worker'[w].pc = IF worker'[w].todo = {} THEN "reload" ELSE "create"
          /\ worker'[w].job = j /\ worker'[w].run = worker[w].run /\ worker'[w].updates = worker[w].updates
        BY <1>3, <2>1, <2>2, Creates
    <2>4. /\ worker[w].updates = {} /\ worker[w].todo \subseteq FileRows \X {worker[w].run}
          /\ worker[w].run \in Runs
          /\ \A l \in FileRows : <<l, worker[w].run>> \in worker[w].todo <=> <<l, worker[w].run>> \notin Present(j)
        BY <2>1, HandsOf DEF Hands
    <2>5. Present(j)' = Present(j) \cup B BY <2>3, <2>4 DEF Rows, Present
    <2>6. \A l \in FileRows : <<l, worker[w].run>> \in worker'[w].todo <=> <<l, worker[w].run>> \notin Present(j)'
        BY <2>3, <2>4, <2>5
    <2>7. worker'[w].pc = "create" \/ (worker'[w].pc = "reload" /\ worker'[w].todo = {}) BY <2>3
    <2>8. worker'[w].pc = "reload" => FileRows \X {worker[w].run} \subseteq Present(j)'
        <3> SUFFICES ASSUME worker'[w].pc = "reload", NEW r \in FileRows \X {worker[w].run} PROVE r \in Present(j)'
            OBVIOUS
        <3>1. PICK l \in FileRows : r = <<l, worker[w].run>> OBVIOUS
        <3> QED  BY <2>6, <2>7, <3>1
    <2>9. worker'[w].todo \subseteq FileRows \X {worker'[w].run} BY <2>3, <2>4
    <2> QED  BY <2>3, <2>4, <2>6, <2>7, <2>8, <2>9 DEF Hands, Counting
<1> QED  BY <1>1, <1>2, <1>3

\* Verifying a chunk and storing the verdicts.
LEMMA HandsThen ==
    ASSUME TypeInv, HandsInv, [Next]_vars, NEW w \in Workers, VerifyChunk(w) \/ FlushRows(w)
    PROVE  Hands(worker[w])'
<1>1. CASE VerifyChunk(w)
    <2>1. PICK j \in Jobs : j = worker[w].job /\ worker[w].pc = "verify" BY <1>1, Verifies
    <2>2. PICK chunk \in SUBSET worker[w].todo : \E bad \in SUBSET chunk :
              Verified(worker[w], worker'[w], chunk, bad)
        BY <1>1, Verifies
    <2>3. PICK bad \in SUBSET chunk : Verified(worker[w], worker'[w], chunk, bad) BY <2>2
    <2>4. PICK x \in WorkerType : x = worker[w] BY Shapes
    <2>5. HandsFacts(x) BY <2>1, <2>4, HandsOf DEF Hands, Counting, HandsFacts
    <2>6. UNCHANGED rows BY <1>1 DEF VerifyChunk
    <2>7. Present(j)' = Present(j) /\ Done(j)' = Done(j) /\ Done(j) \subseteq Rows BY <2>6 DEF Present, Done
    <2>8. PICK y : y = worker'[w] OBVIOUS
    <2>9. chunk \in SUBSET Rows /\ chunk \subseteq x.todo BY <2>4 DEF WorkerType
    <2>10. Upd(y) = Upd(x) \cup chunk
        <3>1. y.updates = x.updates \cup (bad \X {"error"}) \cup ((chunk \ bad) \X {"verified"})
            BY <2>3, <2>4, <2>8 DEF Verified
        <3>2. Grown(x, y, chunk, bad) BY <2>9, <3>1, UpdGrows
        <3> QED  BY <3>2 DEF Grown
    <2>11. y.todo = x.todo \ chunk BY <2>3, <2>4, <2>8 DEF Verified
    <2>12. /\ y.todo \cup Upd(y) \subseteq {r \in Present(j) : IsUnique(r)}
           /\ y.todo \cap Upd(y) = {}
        BY <2>1, <2>4, <2>5, <2>9, <2>10, <2>11 DEF HandsFacts
    <2>13. \A r \in Rows : ~(<<r, "verified">> \in y.updates /\ <<r, "error">> \in y.updates)
        <3> SUFFICES ASSUME NEW r \in Rows, <<r, "verified">> \in y.updates, <<r, "error">> \in y.updates PROVE FALSE
            OBVIOUS
        <3>1. <<r, "verified">> \in x.updates \/ r \in chunk \ bad BY <2>3, <2>4, <2>8 DEF Verified
        <3>2. <<r, "error">> \in x.updates \/ r \in bad BY <2>3, <2>4, <2>8 DEF Verified
        <3>3. r \in chunk => <<r, "verified">> \notin x.updates /\ <<r, "error">> \notin x.updates
            BY <2>5, <2>9 DEF HandsFacts, Upd, Verdicts
        <3>4. ~(<<r, "verified">> \in x.updates /\ <<r, "error">> \in x.updates) BY <2>5 DEF HandsFacts
        <3> QED  BY <3>1, <3>2, <3>3, <3>4
    <2>14. y.processed <= Cardinality((Done(j) \cup Upd(y)) \ y.todo)
        <3>1. PICK R \in SUBSET Rows : R = (Done(j) \cup Upd(x)) \ x.todo BY <2>7 DEF Upd
        <3>2. PICK S \in SUBSET Rows : S = (Done(j) \cup Upd(y)) \ y.todo BY <2>7 DEF Upd
        <3>3. R \cap chunk = {} /\ R \cup chunk \in SUBSET S BY <2>9, <2>10, <2>11, <3>1, <3>2
        <3>4. Cardinality(R \cup chunk) = Cardinality(R) + Cardinality(chunk) BY <2>9, <3>3, Sum
        <3>5. Cardinality(R \cup chunk) <= Cardinality(S) BY <3>3, Fewer
        <3>6. x.processed <= Cardinality(R) BY <2>1, <2>4, <2>5, <3>1 DEF HandsFacts
        <3>7. y.processed = x.processed + Cardinality(chunk) BY <2>3, <2>4, <2>8 DEF Verified
        <3>8. x.processed \in Nat /\ Cardinality(R) \in Nat /\ Cardinality(S) \in Nat /\ Cardinality(chunk) \in Nat
            BY <2>9, RowsFinite DEF WorkerType
        <3>9. y.processed <= Cardinality(S) BY <3>4, <3>5, <3>6, <3>7, <3>8
        <3> QED  BY <3>2, <3>9
    <2>15. y.job = j /\ y.pc \in {"flush", "verify"} /\ (y.pc = "verify" => y.todo # {})
        BY <2>1, <2>3, <2>8 DEF Verified
    <2> QED  BY <2>7, <2>8, <2>12, <2>13, <2>14, <2>15 DEF Hands, Counting
<1>2. CASE FlushRows(w)
    <2>1. PICK j \in Jobs : j = worker[w].job /\ worker[w].pc = "flush" BY <1>2, Flushes
    <2>2. PICK x \in WorkerType : x = worker[w] BY Shapes
    <2>3. HandsFacts(x) BY <2>1, <2>2, HandsOf DEF Hands, Counting, HandsFacts
    <2>4. PICK y : y = worker'[w] OBVIOUS
    <2>5. /\ y.pc = "progress" /\ y.updates = {} /\ y.job = j /\ y.todo = x.todo /\ y.processed = x.processed
    BY <1>2, Flushes, <2>1, <2>2, <2>4
    <2>6. \A r \in Upd(x) : rows'[j][r] \in Verdicts BY <1>2, <2>1, Flushes, <2>2
    <2>7. Present(j) \subseteq Present(j)' /\ Done(j) \subseteq Done(j)' BY RowsStay
    <2>8. Upd(x) \subseteq Done(j)' /\ Done(j)' \subseteq Rows
        BY <2>3, <2>6 DEF HandsFacts, Done, Processed, Verdicts, Upd
    <2>9. Upd(y) = {} BY <2>5, NoUpd
    <2>10. y.processed <= Cardinality((Done(j)' \cup Upd(y)) \ y.todo)
    BY <2>8, <2>5, <2>7, Fewer, RowsFinite, <2>1, <2>2, <2>3 DEF Upd, HandsFacts, WorkerType
    <2>11. y.todo \subseteq {r \in Present(j)' : IsUnique(r)} BY <2>1, <2>2, <2>3, <2>5, <2>7 DEF HandsFacts
    <2> QED  BY <2>4, <2>5, <2>9, <2>10, <2>11 DEF Hands, Counting
<1> QED  BY <1>1, <1>2

\* Saving the counters, completing the job and charging the key.
LEMMA HandsLast ==
    ASSUME TypeInv, HandsInv, NEW w \in Workers, SaveProgress(w) \/ MarkCompleted(w) \/ Charge(w)
    PROVE  /\ Hands(worker[w])'
           /\ ~Charge(w) => worker[w].processed <= Cardinality(Done(worker[w].job)) /\ worker[w].updates = {}
<1>1. PICK x \in WorkerType : x = worker[w] BY Shapes
<1>2. PICK y : y = worker'[w] OBVIOUS
<1>3. UNCHANGED rows BY DEF SaveProgress, MarkCompleted, Charge
<1>4. /\ x.pc # "idle" /\ Same(y, x)
      /\ \/ x.pc = "progress" /\ y.pc = "verify" /\ SaveProgress(w)
         \/ x.pc = "verify" /\ y.pc = "charge" /\ x.todo = {} /\ MarkCompleted(w)
         \/ x.pc = "charge" /\ y.pc = "notify" /\ Charge(w)
    BY <1>1, <1>2, Saves, Completes, ChargesIt
<1>5. Hands(x) /\ x.job \in Jobs BY <1>1, <1>4, HandsOf
<1>6. HandsFacts(x) /\ x.updates = {} BY <1>4, <1>5 DEF Hands, Counting, HandsFacts
<1>7. Upd(x) = {} /\ Upd(y) = {} BY <1>4, <1>6, NoUpd DEF Same
<1>8. \A j : Present(j)' = Present(j) /\ Done(j)' = Done(j) BY <1>3 DEF Present, Done
<1>9. HandsFacts(x)' BY <1>6, <1>8 DEF HandsFacts
<1>10. Hands(y)' BY <1>4, <1>6, <1>7, <1>9 DEF HandsFacts, Hands, Counting, Same
<1>11. x.processed <= Cardinality(Done(x.job)) BY <1>7, Fewer, RowsFinite, <1>6 DEF Done, HandsFacts, WorkerType
<1> QED  BY <1>1, <1>2, <1>6, <1>10, <1>11

\* The counters and the status of a job: only its workers change the counters,
\* and only they complete it.
LEMMA JobMoves ==
    ASSUME TypeInv, [Next]_vars, NEW j \in Jobs
    PROVE  \/ /\ job'[j].processed = job[j].processed /\ job'[j].errors = job[j].errors
              /\ job'[j].status = "completed" => job[j].status = "completed"
           \/ \E w \in Workers : worker[w].job = j /\ (SaveProgress(w) \/ MarkCompleted(w))
<1>t. job \in [Jobs -> RecordType] BY Shapes
<1>1. ASSUME NEW i \in Jobs, NEW s \in {"pending", "processing", "completed", "failed"},
             job' = [job EXCEPT ![i].status = s], s # "completed"
      PROVE  /\ job'[j].processed = job[j].processed /\ job'[j].errors = job[j].errors
             /\ job'[j].status = "completed" => job[j].status = "completed"
  BY <1>1, <1>t, Statuses DEF JobOnly
<1>2. ASSUME NEW i \in Jobs, JobNext(i)
      PROVE  /\ job'[j].processed = job[j].processed /\ job'[j].errors = job[j].errors
             /\ job'[j].status = "completed" => job[j].status = "completed"
  BY <1>1, <1>2 DEF CreateJob, ResetStalled, FailJob, Failed, JobNext, ReadKey, EnqueueJob, RequestFails,
     JobStalls, ReenqueueStalled
<1>3. ASSUME NEW w \in Workers, Acts(w)
      PROVE  \/ /\ job'[j].processed = job[j].processed /\ job'[j].errors = job[j].errors
                /\ job'[j].status = "completed" => job[j].status = "completed"
             \/ worker[w].job = j /\ (SaveProgress(w) \/ MarkCompleted(w))
    <2>1. CASE StartJob(w) BY <2>1, <1>1 DEF StartJob
    <2>2. CASE DownloadFails(w) BY <2>2, <1>1 DEF DownloadFails, TypeInv
    <2>3. CASE Notify(w) BY <2>3, <1>t DEF Notify, TypeInv, RecordType
    <2>4. CASE SaveProgress(w) \/ MarkCompleted(w) BY <2>4, Saves, Completes DEF JobOnly
    <2>5. CASE ~(StartJob(w) \/ DownloadFails(w) \/ Notify(w) \/ SaveProgress(w) \/ MarkCompleted(w))
    BY <1>3, <2>5 DEF Acts, WorkerProceeds, LoadRows, CreateBatch, VerifyChunk, FlushRows, Charge, HandlerThrows,
       WorkerCrash
    <2> QED  BY <2>1, <2>2, <2>3, <2>4, <2>5
<1>4. CASE WorkerStarts \/ ListenerDies \/ UNCHANGED vars BY <1>4 DEF WorkerStarts, ListenerDies, vars
<1>5. (\E w \in Workers : Acts(w)) \/ (\E i \in Jobs : JobNext(i)) \/ WorkerStarts \/ ListenerDies \/ UNCHANGED vars
    BY DEF Next, Acts
<1> QED  BY <1>2, <1>3, <1>4, <1>5

\* Every step keeps the workers' hands in order and the progress backed.
LEMMA HandsStep == TypeInv /\ RunsInv /\ HandsInv /\ [Next]_vars => HandsInv'
<1> SUFFICES ASSUME TypeInv, RunsInv, HandsInv, [Next]_vars PROVE HandsInv' OBVIOUS
<1>1. ASSUME NEW v \in Workers, worker'[v].pc # "idle" PROVE Hands(worker[v])'
    <2>1. CASE StartJob(v) \/ LoadRows(v) \/ CreateBatch(v) BY <2>1, HandsFirst
    <2>2. CASE VerifyChunk(v) \/ FlushRows(v) BY <2>2, HandsThen
    <2>3. CASE SaveProgress(v) \/ MarkCompleted(v) \/ Charge(v) BY <2>3, HandsLast
    <2>4. CASE Notify(v) \/ DownloadFails(v) \/ HandlerThrows(v) \/ WorkerCrash(v)
    BY Ends, Shapes, Sets, IdleShape, <2>4, <1>1 DEF Notify, DownloadFails, HandlerThrows, WorkerCrash
    <2>5. CASE ~Acts(v)
        <3>1. worker'[v] = worker[v]
            <4>1. ASSUME NEW w \in Workers, Acts(w) PROVE worker'[v] = worker[v] BY <2>5, <4>1, Moves DEF Only
            <4> QED  BY <4>1, Others
        <3>2. ~CreateBatch(v) BY <2>5 DEF Acts, WorkerProceeds
        <3> QED  BY <1>1, <3>1, <3>2, HandsStay
    <2> QED  BY <2>1, <2>2, <2>3, <2>4, <2>5 DEF Acts, WorkerProceeds
<1>2. ASSUME NEW j \in Jobs PROVE job'[j].processed <= Cardinality(Done(j)')
    <2>1. PICK S \in SUBSET Rows : S = Done(j)' BY DEF Done
    <2>2. PICK R \in SUBSET S : R = Done(j) BY <2>1, RowsStay
    <2>3. Cardinality(R) <= Cardinality(S) /\ Cardinality(R) \in Nat /\ Cardinality(S) \in Nat
        BY Fewer, RowsFinite
    <2>4. CASE job'[j].processed = job[j].processed BY <2>2, Shapes, <2>1, <2>3, <2>4 DEF HandsInv, RecordType
    <2>5. ASSUME NEW w \in Workers, worker[w].job = j, SaveProgress(w) \/ MarkCompleted(w)
          PROVE  job'[j].processed <= Cardinality(Done(j)')
        <3>1. job'[worker[w].job].processed = worker[w].processed BY <2>5, Saves, Completes
        <3>2. ~Charge(w) BY <2>5 DEF SaveProgress, MarkCompleted, Charge
        <3>3. worker[w].processed <= Cardinality(Done(worker[w].job)) BY <2>5, <3>2, HandsLast
        <3>4. worker[w].processed \in Nat BY Shapes DEF WorkerType
        <3> QED  BY <2>1, <2>2, <2>3, <2>5, <3>1, <3>3, <3>4
    <2> QED  BY <2>4, <2>5, JobMoves
<1> QED  BY <1>1, <1>2 DEF HandsInv

------------------------------------------------------------------------------
(* One worker to a job whose lock was never lost. *)

\* What happened to a job is not forgotten; only its worker charges it.
LEMMA TallyMoves ==
    ASSUME TypeInv, [Next]_vars, NEW j \in Jobs
    PROVE  /\ tally.marred[j] \subseteq tally'.marred[j]
           /\ tally'.charged[j] = tally.charged[j] \/ \E w \in Workers : worker[w].job = j /\ Charge(w)
<1>1. CASE UNCHANGED tally BY <1>1
<1>2. ASSUME NEW J \in SUBSET Jobs, NEW M \in SUBSET Marks, Trouble(J, M)
      PROVE  tally.marred[j] \subseteq tally'.marred[j] /\ tally'.charged[j] = tally.charged[j]
    <2>1. tally \in TallyType BY Shapes
    <2>2. /\ tally'.charged = tally.charged
          /\ \A i \in Jobs : tally'.marred[i] = IF i \in J THEN tally.marred[i] \cup M ELSE tally.marred[i]
        BY <1>2, <2>1, Troubles
    <2>3. tally'.marred[j] = IF j \in J THEN tally.marred[j] \cup M ELSE tally.marred[j] BY <2>2
    <2> QED  BY <2>2, <2>3
<1>3. ASSUME NEW w \in Workers, Charge(w)
      PROVE  /\ tally.marred[j] \subseteq tally'.marred[j]
             /\ tally'.charged[j] = tally.charged[j] \/ worker[w].job = j
    <2>1. PICK i \in Jobs : i = worker[w].job BY <1>3, ChargesIt
    <2>2. \/ /\ tally'.marred = tally.marred /\ tally'.charged[i] = tally.charged[i] + worker[w].processed
             /\ \A k \in Jobs \ {i} : tally'.charged[k] = tally.charged[k]
          \/ /\ tally'.charged = tally.charged
             /\ \A k \in Jobs : tally'.marred[k] = IF k = i THEN tally.marred[k] \cup {"free"} ELSE tally.marred[k]
        BY <1>3, <2>1, ChargesIt
    <2>3. CASE tally'.marred = tally.marred /\ \A k \in Jobs \ {i} : tally'.charged[k] = tally.charged[k]
        BY <2>1, <2>3
    <2>4. CASE /\ tally'.charged = tally.charged
               /\ \A k \in Jobs : tally'.marred[k] = IF k = i THEN tally.marred[k] \cup {"free"} ELSE tally.marred[k]
    BY <2>4
    <2> QED  BY <2>2, <2>3, <2>4
<1>4. ASSUME NEW w \in Workers, WorkerCrash(w)
      PROVE  tally.marred[j] \subseteq tally'.marred[j] /\ tally'.charged[j] = tally.charged[j]
  BY <1>4, <1>2 DEF WorkerCrash, TypeInv, Harm, Marks
<1>5. CASE WorkerStarts BY <1>5, <1>2 DEF WorkerStarts, Marks
<1>6. CASE ListenerDies BY <1>6, Shapes, <1>2 DEF ListenerDies, Marks
<1>7. ASSUME NEW i \in Jobs, JobStalls(i)
      PROVE  tally.marred[j] \subseteq tally'.marred[j] /\ tally'.charged[j] = tally.charged[j]
  BY <1>1, <1>2, <1>7 DEF Marks, JobStalls
<1>8. CASE Trouble({}, {}) BY <1>8, <1>2
<1>9. \/ UNCHANGED tally \/ Trouble({}, {}) \/ WorkerStarts \/ ListenerDies
      \/ (\E w \in Workers : Charge(w) \/ WorkerCrash(w)) \/ \E i \in Jobs : JobStalls(i)
    BY DEF Next, JobNext, WorkerProceeds, ReadKey, CreateJob, EnqueueJob, RequestFails, FailJob,
       ResetStalled, ReenqueueStalled, vars, StartJob, LoadRows, CreateBatch, VerifyChunk, FlushRows,
       SaveProgress, MarkCompleted, Notify, DownloadFails, HandlerThrows
<1> QED  BY <1>1, <1>3, <1>4, <1>5, <1>6, <1>7, <1>8, <1>9

\* An active job changes in the queue when its lock lapses or its holder is over.
LEMMA QueueKeeps ==
    ASSUME TypeInv, [Next]_vars, NEW j \in DOMAIN queue, queue[j].state = "active"
    PROVE  \/ j \in DOMAIN queue' /\ queue'[j] = queue[j]
           \/ JobStalls(j)
           \/ \E w \in Workers : /\ worker[w].job = j /\ queue[j].holder = w /\ worker'[w] = IdleWorker
                                 /\ Notify(w) \/ DownloadFails(w) \/ HandlerThrows(w)
<1>q. QueueIs(queue) /\ j \in Jobs BY Shapes DEF QueueIs
<1>p. PICK p : p = queue' OBVIOUS
<1>1. CASE UNCHANGED queue BY <1>1
<1>2. ASSUME NEW i \in Jobs, queue' = Add(queue, i, "bulk") PROVE j \in DOMAIN queue' /\ queue'[j] = queue[j]
  BY <1>2, <1>p, <1>q, Adds DEF Has
<1>3. ASSUME NEW i \in Jobs, JobStalls(i), i # j PROVE j \in DOMAIN queue' /\ queue'[j] = queue[j]
  BY <1>3, <1>p, <1>q, Stalls DEF JobStalls
<1>4. ASSUME NEW w \in Workers, StartJob(w) PROVE j \in DOMAIN queue' /\ queue'[j] = queue[j]
  BY <1>4, Starts DEF Waiting
<1>5. ASSUME NEW w \in Workers, worker[w].pc # "idle", NEW how \in {"completed", "failed"}, EndJob(w, how)
      PROVE  \/ j \in DOMAIN queue' /\ queue'[j] = queue[j]
             \/ worker[w].job = j /\ queue[j].holder = w /\ worker'[w] = IdleWorker
  BY <1>5, Ends DEF TypeInv
<1>6. ASSUME NEW w \in Workers, Acts(w)
      PROVE  \/ j \in DOMAIN queue' /\ queue'[j] = queue[j]
             \/ /\ worker[w].job = j /\ queue[j].holder = w /\ worker'[w] = IdleWorker
                /\ Notify(w) \/ DownloadFails(w) \/ HandlerThrows(w)
  BY <1>4, <1>5, <1>6 DEF Notify, DownloadFails, HandlerThrows, Acts, WorkerProceeds, LoadRows, CreateBatch,
     VerifyChunk, FlushRows, SaveProgress, MarkCompleted, Charge, WorkerCrash
<1>7. ASSUME NEW i \in Jobs, JobNext(i) PROVE (j \in DOMAIN queue' /\ queue'[j] = queue[j]) \/ JobStalls(j)
  BY <1>3, <1>2, <1>7 DEF EnqueueJob, ReenqueueStalled, JobNext, ReadKey, CreateJob, RequestFails, FailJob,
     ResetStalled
<1>8. CASE WorkerStarts \/ ListenerDies \/ UNCHANGED vars BY <1>8 DEF WorkerStarts, ListenerDies, vars
<1>9. (\E w \in Workers : Acts(w)) \/ (\E i \in Jobs : JobNext(i)) \/ WorkerStarts \/ ListenerDies \/ UNCHANGED vars
    BY DEF Next, Acts
<1> QED  BY <1>6, <1>7, <1>8, <1>9

\* A lock that lapses under its worker's hands leaves its mark.
LEMMA Overlaps ==
    ASSUME TypeInv, NEW j \in Jobs, JobStalls(j), worker[queue[j].holder].job = j
    PROVE  "overlap" \in tally'.marred[j]
<1>1. Trouble({j}, {"overlap"}) /\ {j} \in SUBSET Jobs /\ {"overlap"} \in SUBSET Marks BY DEF JobStalls, Marks
<1>2. tally \in TallyType BY Shapes
<1>3. \A i \in Jobs : tally'.marred[i] = IF i \in {j} THEN tally.marred[i] \cup {"overlap"} ELSE tally.marred[i]
    BY <1>1, <1>2, Troubles
<1>4. tally'.marred[j] = tally.marred[j] \cup {"overlap"} BY <1>3
<1> QED  BY <1>4

\* Every step keeps one worker to a job whose lock was never lost.
LEMMA SoleStep == TypeInv /\ SoleInv /\ [Next]_vars => SoleInv'
<1> SUFFICES ASSUME TypeInv, SoleInv, [Next]_vars PROVE SoleInv' OBVIOUS
<1>1. ASSUME NEW j \in Jobs, "overlap" \notin tally'.marred[j], NEW v \in Workers, worker'[v].job = j
      PROVE  j \in DOMAIN queue' /\ queue'[j].state = "active" /\ queue'[j].holder = v
    <2>1. worker'[v].pc # "idle" BY TypeStep, <1>1, IdleShape, ConstantsAssumption DEF TypeInv
    <2>2. "overlap" \notin tally.marred[j] BY <1>1, TallyMoves
    <2>3. CASE worker[v].job = j
        <3>1. j \in DOMAIN queue /\ queue[j].state = "active" /\ queue[j].holder = v
            BY <2>2, <2>3 DEF SoleInv, Spared, Active, Has
        <3>2. ~JobStalls(j) BY <1>1, <2>3, <3>1, Overlaps
        <3>3. ASSUME NEW w \in Workers, queue[j].holder = w, worker'[w] = IdleWorker PROVE FALSE
            BY <2>1, <3>1, <3>3, IdleShape
        <3> QED  BY <3>1, <3>2, <3>3, QueueKeeps
    <2>4. CASE StartJob(v) BY <2>4, Starts, <1>1
    <2> QED  BY <1>1, <2>1, <2>3, <2>4, AtWork
<1> QED  BY <1>1 DEF SoleInv, Spared, Active, Has

------------------------------------------------------------------------------
(* The books of a job: its counters, its rows, its charge. *)

Books(j) == Counted(j) /\ Made(j) /\ Charges(j)

\* What a job is spared after the step it was spared before.
LEMMA SparedBefore ==
    ASSUME TypeInv, [Next]_vars, NEW j \in Jobs, NEW M, Spared(j, M)' PROVE Spared(j, M)
  BY TallyMoves DEF Spared

\* A job spared more is spared each.
LEMMA SparedParts ==
    \A j : /\ Spared(j, {"overlap", "creating"}) => Spared(j, {"overlap"})
           /\ Spared(j, {"overlap", "creating", "charged"}) => Spared(j, {"overlap", "creating"})
           /\ Spared(j, {"free", "unheard"}) => Spared(j, {"free"})
BY DEF Spared

\* The rows of a job the step leaves alone.
LEMMA RowsSame ==
    ASSUME NEW j \in Jobs, rows'[j] = rows[j]
    PROVE  /\ Present(j)' = Present(j) /\ Done(j)' = Done(j) /\ Pending(j)' = Pending(j)
           /\ Errors(j)' = Errors(j) /\ (Whole(j)' <=> Whole(j))
BY DEF Present, Done, Pending, Errors, Whole

\* A step that does not touch the job, its rows and its workers keeps its books.
LEMMA BooksStay ==
    ASSUME TypeInv, RunsInv, [Next]_vars, NEW j \in Jobs, Books(j), rows'[j] = rows[j],
           \A v \in Workers : worker[v].job = j \/ worker'[v].job = j => worker'[v] = worker[v],
           job'[j].processed = job[j].processed, job'[j].errors = job[j].errors,
           job'[j].status = "completed" => job[j].status = "completed",
           tally'.charged[j] = tally.charged[j],
           (Live(queue, j) \/ ~Has(queue, j))' => Live(queue, j) \/ ~Has(queue, j),
           Spared(j, {"free", "unheard"})' /\ job'[j].status = "completed" /\ Over(j)' => Over(j)
    PROVE  Books(j)'
<1>1. /\ Present(j)' = Present(j) /\ Done(j)' = Done(j) /\ Pending(j)' = Pending(j)
      /\ Errors(j)' = Errors(j) /\ (Whole(j)' <=> Whole(j))
    BY RowsSame
<1>2. \A v \in Workers : /\ worker'[v].job = j => worker[v].job = j /\ worker'[v] = worker[v]
                         /\ worker[v].job = j => worker'[v].job = j /\ worker'[v] = worker[v]
    OBVIOUS
<1>3. Counted(j)'
    <2> SUFFICES ASSUME Spared(j, {"overlap"})'
                 PROVE  /\ \A w \in Workers : worker'[w].job = j => Right(worker[w])'
                        /\ job'[j].status = "completed" =>
                              /\ job'[j].processed = Cardinality(Done(j)')
                              /\ job'[j].errors = Cardinality(Errors(j)') /\ Pending(j)' = {}
                              /\ \A w \in Workers : worker'[w].job = j => worker'[w].pc \in {"charge", "notify"}
        BY DEF Counted
    <2>1. Spared(j, {"overlap"}) BY SparedBefore
    <2>2. \A w \in Workers : worker'[w].job = j => Right(worker[w])'
        <3> SUFFICES ASSUME NEW w \in Workers, worker'[w].job = j PROVE Right(worker[w])' OBVIOUS
        <3>1. PICK x : x = worker[w] OBVIOUS
        <3>2. x = worker'[w] /\ x.job = j BY <1>2, <3>1
        <3>3. Right(x) BY <1>2, <2>1, <3>1 DEF Books, Counted
        <3>4. Right(x)' BY <1>1, <3>2, <3>3 DEF Right
        <3> QED  BY <3>2, <3>4
    <2> QED  BY <1>1, <1>2, <2>1, <2>2 DEF Books, Counted
<1>4. Made(j)'
    <2> SUFFICES ASSUME Spared(j, {"overlap", "creating"})'
                 PROVE  /\ \A w \in Workers : worker'[w].job = j =>
                              /\ worker'[w].pc = "create"
                                    => Present(j)' = (FileRows \X {worker'[w].run}) \ worker'[w].todo
                              /\ worker'[w].pc \notin {"load", "create"} => Whole(j)'
                        /\ Live(queue, j)' /\ (\A w \in Workers : worker'[w].job = j => worker'[w].pc # "create")
                              => Present(j)' = {} \/ Whole(j)'
                        /\ job'[j].status = "completed" => Whole(j)'
        BY DEF Made
    <2>1. Spared(j, {"overlap", "creating"}) BY SparedBefore
    <2>2. ~Has(queue, j) => Present(j) = {} BY DEF RunsInv, Begun
    <2> QED  BY <1>1, <1>2, <2>1, <2>2 DEF Books, Made
<1>5. Charges(j)'
    <2> SUFFICES ASSUME Spared(j, {"overlap", "creating", "charged"})'
                 PROVE  /\ tally'.charged[j] \in {0, Cardinality(UniqueRows)}
                        /\ (Live(queue, j) \/ ~Has(queue, j))'
                              /\ (\A w \in Workers : worker'[w].job = j => worker'[w].pc # "notify")
                              => tally'.charged[j] = 0
                        /\ Spared(j, {"free"})' /\ (\E w \in Workers : worker'[w].job = j /\ worker'[w].pc = "notify")
                              => tally'.charged[j] = Cardinality(UniqueRows)
                        /\ Spared(j, {"free", "unheard"})' /\ job'[j].status = "completed" /\ Over(j)'
                              => tally'.charged[j] = Cardinality(UniqueRows)
        BY DEF Charges
    <2>1. Spared(j, {"overlap", "creating", "charged"}) BY SparedBefore
    <2>2. Spared(j, {"free"})' => Spared(j, {"free"}) BY SparedBefore
    <2>3. Spared(j, {"free", "unheard"})' => Spared(j, {"free", "unheard"}) BY SparedBefore
    <2> QED  BY <1>2, <2>1, <2>2, <2>3 DEF Books, Charges
<1> QED  BY <1>3, <1>4, <1>5 DEF Books

\* The worker of a job whose lock was never lost holds it, alone.
LEMMA Alone ==
    ASSUME SoleInv, NEW j \in Jobs, Spared(j, {"overlap"}), NEW w \in Workers, worker[w].job = j
    PROVE  /\ Active(queue, j) /\ Live(queue, j) /\ queue[j].holder = w
           /\ \A v \in Workers : worker[v].job = j => v = w
BY DEF SoleInv, Live

\* The same after the step.
LEMMA AloneAfter ==
    ASSUME TypeInv, SoleInv, [Next]_vars, NEW j \in Jobs, Spared(j, {"overlap"})',
           NEW w \in Workers, worker'[w].job = j
    PROVE  /\ Live(queue, j)' /\ ~Over(j)'
           /\ \A v \in Workers : worker'[v].job = j => v = w
  BY SoleStep DEF SoleInv, Live, Over

\* A job that waits has no worker, unless a run of it lost its lock.
LEMMA NoneYet ==
    ASSUME SoleInv, NEW j \in Jobs, Spared(j, {"overlap"}), Waiting(queue, j), NEW w \in Workers
    PROVE  worker[w].job # j
BY DEF SoleInv, Waiting, Active

\* Until the worker has charged the key, nothing was charged.
LEMMA ChargesOwn ==
    ASSUME TypeInv, SoleInv, [Next]_vars, NEW j \in Jobs, Charges(j), NEW w \in Workers,
           worker'[w].job = j, worker'[w].pc # "notify", tally'.charged[j] = tally.charged[j],
           \/ worker[w].job = j /\ worker[w].pc # "notify"
           \/ Waiting(queue, j)
    PROVE  Charges(j)'
<1> SUFFICES ASSUME Spared(j, {"overlap", "creating", "charged"})'
             PROVE  /\ tally'.charged[j] = 0 /\ ~Over(j)'
                    /\ \A v \in Workers : worker'[v].job = j => worker'[v].pc # "notify"
    BY DEF Charges
<1>1. Spared(j, {"overlap", "creating", "charged"}) BY SparedBefore
<1>2. Spared(j, {"overlap"}) /\ Spared(j, {"overlap"})' BY SparedBefore DEF Spared
<1>3. Live(queue, j) /\ \A v \in Workers : worker[v].job = j => worker[v].pc # "notify"
  BY <1>2, Alone, NoneYet DEF Live
<1>4. tally.charged[j] = 0 BY <1>1, <1>3 DEF Charges
<1> QED  BY <1>2, <1>4, AloneAfter

\* The counters and the rows of a job with one worker, from what holds of it.
LEMMA CountedOwn ==
    ASSUME TypeInv, SoleInv, [Next]_vars, NEW j \in Jobs, NEW w \in Workers, worker'[w].job = j,
           Spared(j, {"overlap"})' => Right(worker[w])',
           Spared(j, {"overlap"})' /\ job'[j].status = "completed" =>
              /\ job'[j].processed = Cardinality(Done(j)') /\ job'[j].errors = Cardinality(Errors(j)')
              /\ Pending(j)' = {} /\ worker'[w].pc \in {"charge", "notify"}
    PROVE  Counted(j)'
  BY AloneAfter DEF Counted

\* The rows likewise.
LEMMA MadeOwn ==
    ASSUME TypeInv, SoleInv, [Next]_vars, NEW j \in Jobs, NEW w \in Workers, worker'[w].job = j,
           Spared(j, {"overlap", "creating"})' =>
              /\ worker'[w].pc = "create" => Present(j)' = (FileRows \X {worker'[w].run}) \ worker'[w].todo
              /\ worker'[w].pc = "load" => Present(j)' = {} \/ Whole(j)'
              /\ worker'[w].pc \notin {"load", "create"} => Whole(j)'
              /\ job'[j].status = "completed" => Whole(j)'
    PROVE  Made(j)'
  BY AloneAfter DEF Spared, Made

\* A worker that goes on with its job: what the rows of it are.
LEMMA MadeHere ==
    ASSUME SoleInv, NEW j \in Jobs, Made(j), Spared(j, {"overlap", "creating"}), NEW w \in Workers, worker[w].job = j
    PROVE  /\ worker[w].pc = "create" => Present(j) = (FileRows \X {worker[w].run}) \ worker[w].todo
           /\ worker[w].pc # "create" => Present(j) = {} \/ Whole(j)
           /\ worker[w].pc \notin {"load", "create"} => Whole(j)
  BY SparedParts, Alone DEF Made

\* Taking the job.
LEMMA StartBooks ==
    ASSUME TypeInv, SoleInv, [Next]_vars, NEW w \in Workers, StartJob(w), NEW j \in Jobs, worker'[w].job = j, Books(j)
    PROVE  Books(j)'
<1>1. /\ Waiting(queue, j) /\ worker'[w].pc = "load" /\ job'[j].status = "processing" BY Starts
<1>2. UNCHANGED <<rows, tally>> BY DEF StartJob
<1>3. Present(j)' = Present(j) /\ (Whole(j)' <=> Whole(j)) BY <1>2, RowsSame
<1>4. Counted(j)' BY <1>1, CountedOwn DEF Right, Counting
<1>5. Made(j)'
    <2>1. ASSUME Spared(j, {"overlap", "creating"})' PROVE Present(j)' = {} \/ Whole(j)'
    BY <2>1, SparedBefore, <1>1, SparedParts, NoneYet, <1>3 DEF Books, Made, Live
    <2> QED  BY <1>1, <2>1, MadeOwn
<1>6. Charges(j)' BY <1>1, <1>2, ChargesOwn DEF Books
<1> QED  BY <1>4, <1>5, <1>6 DEF Books

\* Loading the rows.
LEMMA LoadBooks ==
    ASSUME TypeInv, HandsInv, SoleInv, [Next]_vars, NEW w \in Workers, LoadRows(w), NEW j \in Jobs,
           worker[w].job = j, Books(j)
    PROVE  Books(j)'
<1>1. /\ worker[w].pc \in {"load", "reload"}
      /\ worker'[w].job = j /\ worker'[w].run = worker[w].run /\ worker'[w].updates = worker[w].updates
      /\ NoRows(j) => worker'[w].pc = "create" /\ worker'[w].todo = FileRows \X {worker[w].run}
      /\ ~NoRows(j) => /\ worker'[w].pc = "verify" /\ worker'[w].todo = Pending(j)
                       /\ worker'[w].processed = Cardinality(Done(j))
                       /\ worker'[w].errors = Cardinality(Errors(j))
    BY Loads
<1>2. UNCHANGED <<rows, tally, job>> BY DEF LoadRows
<1>3. /\ Present(j)' = Present(j) /\ Done(j)' = Done(j) /\ Pending(j)' = Pending(j)
      /\ Errors(j)' = Errors(j) /\ (Whole(j)' <=> Whole(j))
    BY <1>2, RowsSame
<1>4. worker[w].updates = {} BY <1>1, HandsOf DEF Hands
<1>5. Spared(j, {"overlap"})' => job'[j].status # "completed" BY SparedBefore, <1>1, <1>2 DEF Books, Counted
<1>6. Counted(j)' BY <1>1, <1>4, NoUpd, <1>3, <1>5, CountedOwn DEF Right, Counting
<1>7. Made(j)'
    <2>1. ASSUME Spared(j, {"overlap", "creating"})'
          PROVE  /\ worker'[w].pc = "create" => Present(j)' = (FileRows \X {worker'[w].run}) \ worker'[w].todo
                 /\ worker'[w].pc = "verify" => Whole(j)'
    BY <2>1, SparedBefore, <1>1, MadeHere, <1>3 DEF Books, NoRows
    <2>2. Spared(j, {"overlap", "creating"})' => job'[j].status # "completed" BY <1>5 DEF Spared
    <2>3. worker'[w].pc \in {"create", "verify"} BY <1>1
    <2> QED  BY <1>1, <2>1, <2>2, <2>3, MadeOwn
<1>8. Charges(j)' BY <1>1, <1>2, ChargesOwn DEF Books
<1> QED  BY <1>6, <1>7, <1>8 DEF Books

\* Creating a batch.
LEMMA CreateBooks ==
    ASSUME TypeInv, HandsInv, SoleInv, [Next]_vars, NEW w \in Workers, CreateBatch(w), NEW j \in Jobs,
           worker[w].job = j, Books(j)
    PROVE  Books(j)'
<1>1. PICK B : B = Batch(worker[w].todo) OBVIOUS
<1>2. /\ worker[w].pc = "create" /\ B \subseteq worker[w].todo
      /\ \A r \in Rows : rows'[j][r] = IF r \in B THEN "new" ELSE rows[j][r]
      /\ worker'[w].todo = worker[w].todo \ B
      /\ worker'[w].pc = IF worker'[w].todo = {} THEN "reload" ELSE "create"
      /\ worker'[w].job = j /\ worker'[w].run = worker[w].run
    BY <1>1, Creates
<1>3. UNCHANGED <<tally, job>> BY DEF CreateBatch
<1>4. worker[w].todo \subseteq FileRows \X {worker[w].run} /\ worker[w].run \in Runs BY <1>2, HandsOf DEF Hands
<1>5. worker'[w].pc = "create" \/ (worker'[w].pc = "reload" /\ worker'[w].todo = {}) BY <1>2
<1>6. Spared(j, {"overlap"})' => job'[j].status # "completed" BY SparedBefore, <1>2, <1>3 DEF Books, Counted
<1>7. Counted(j)' BY <1>5, <1>2, <1>6, CountedOwn DEF Right, Counting
<1>8. Made(j)'
    <2>1. ASSUME Spared(j, {"overlap", "creating"})'
          PROVE  Present(j)' = (FileRows \X {worker'[w].run}) \ worker'[w].todo
    BY <2>1, SparedBefore, <1>2, MadeHere, <1>4 DEF Books, Rows, Present
    <2>2. Spared(j, {"overlap", "creating"})' => job'[j].status # "completed" BY <1>6 DEF Spared
    <2>3. ASSUME Spared(j, {"overlap", "creating"})', worker'[w].pc = "reload" PROVE Whole(j)'
    BY <1>2, <1>5, <2>1, <2>3, <1>4 DEF Whole
    <2> QED  BY <1>2, <1>5, <2>1, <2>2, <2>3, MadeOwn
<1>9. Charges(j)' BY <1>2, <1>3, <1>5, ChargesOwn DEF Books
<1> QED  BY <1>7, <1>8, <1>9 DEF Books

\* Verifying a chunk.
LEMMA VerifyBooks ==
    ASSUME TypeInv, HandsInv, SoleInv, [Next]_vars, NEW w \in Workers, VerifyChunk(w), NEW j \in Jobs,
           worker[w].job = j, Books(j)
    PROVE  Books(j)'
<1>1. PICK chunk \in SUBSET worker[w].todo : \E bad \in SUBSET chunk :
          Verified(worker[w], worker'[w], chunk, bad)
    BY Verifies
<1>2. PICK bad \in SUBSET chunk : Verified(worker[w], worker'[w], chunk, bad) BY <1>1
<1>3. PICK x \in WorkerType : x = worker[w] BY Shapes
<1>4. PICK y : y = worker'[w] OBVIOUS
<1>5. x.pc = "verify" /\ x.job = j /\ y.job = j /\ y.pc \in {"flush", "verify"} BY <1>3, <1>4, Verifies
<1>6. UNCHANGED <<rows, tally, job>> BY DEF VerifyChunk
<1>7. /\ Present(j)' = Present(j) /\ Done(j)' = Done(j) /\ Pending(j)' = Pending(j)
      /\ Errors(j)' = Errors(j) /\ (Whole(j)' <=> Whole(j))
    BY <1>6, RowsSame
<1>8. HandsFacts(x) BY <1>3, <1>5, HandsOf DEF Hands, Counting, HandsFacts
<1>9. /\ chunk \in SUBSET Rows /\ chunk \subseteq x.todo /\ y.todo = x.todo \ chunk
      /\ y.processed = x.processed + Cardinality(chunk) /\ y.errors = x.errors + Cardinality(bad)
      /\ y.updates = x.updates \cup (bad \X {"error"}) \cup ((chunk \ bad) \X {"verified"})
    BY <1>2, <1>3, <1>4 DEF Verified, WorkerType
<1>10. Upd(y) = Upd(x) \cup chunk /\ Bad(y) = Bad(x) \cup bad
    <2>1. chunk \in SUBSET Rows /\ chunk \subseteq x.todo BY <1>9
    <2>2. y.updates = x.updates \cup (bad \X {"error"}) \cup ((chunk \ bad) \X {"verified"}) BY <1>9
    <2>3. Grown(x, y, chunk, bad) BY <2>1, <2>2, UpdGrows
    <2> QED  BY <2>3 DEF Grown
<1>11. Spared(j, {"overlap"})' => job'[j].status # "completed"
  BY SparedBefore, <1>3, <1>5, <1>6 DEF Books, Counted
<1>12. ASSUME Spared(j, {"overlap"})' PROVE Right(y)'
    <2>1. Spared(j, {"overlap"}) BY <1>12, SparedBefore
    <2>2. /\ Pending(j) = x.todo \cup Upd(x) /\ x.processed = Cardinality(Done(j) \cup Upd(x))
          /\ x.errors = Cardinality(Errors(j) \cup Bad(x))
        BY <1>3, <1>5, <2>1 DEF Books, Counted, Right, Counting
    <2>3. Pending(j) = y.todo \cup Upd(y) BY <1>9, <1>10, <2>2
    <2>4. Pending(j) \cap Done(j) = {} BY DEF Pending, Done, Processed
    <2>5. Errors(j) \subseteq Done(j) /\ Bad(x) \subseteq Upd(x) /\ Done(j) \subseteq Rows /\ Upd(x) \subseteq Rows
        BY DEF Errors, Bad, Upd, Verdicts, Done
    <2>6. chunk \cap (Done(j) \cup Upd(x)) = {} BY <1>8, <1>9, <2>2, <2>4 DEF HandsFacts
    <2>7. y.processed = Cardinality(Done(j) \cup Upd(y)) BY <1>9, <2>5, <2>6, Sum, <1>10, <2>2
    <2>8. y.errors = Cardinality(Errors(j) \cup Bad(y)) BY <2>5, <2>6, <1>9, Sum, <1>10, <2>2
    <2> QED  BY <1>5, <1>7, <2>3, <2>7, <2>8 DEF Right
<1>13. Counted(j)' BY <1>4, <1>5, <1>11, <1>12, CountedOwn
<1>14. Made(j)'
    <2>1. ASSUME Spared(j, {"overlap", "creating"})' PROVE Whole(j)'
    BY <2>1, SparedBefore, <1>3, <1>5, <1>7, MadeHere DEF Books
    <2> QED  BY <1>4, <1>5, <2>1, MadeOwn
<1>15. Charges(j)' BY <1>3, <1>4, <1>5, <1>6, ChargesOwn DEF Books
<1> QED  BY <1>13, <1>14, <1>15 DEF Books

\* Storing the verdicts.
LEMMA FlushBooks ==
    ASSUME TypeInv, HandsInv, SoleInv, [Next]_vars, NEW w \in Workers, FlushRows(w), NEW j \in Jobs,
           worker[w].job = j, Books(j)
    PROVE  Books(j)'
<1>1. PICK x \in WorkerType : x = worker[w] BY Shapes
<1>2. PICK y : y = worker'[w] OBVIOUS
<1>3. /\ x.pc = "flush" /\ y.pc = "progress" /\ y.updates = {} /\ x.job = j /\ y.job = j
      /\ y.todo = x.todo /\ y.processed = x.processed /\ y.errors = x.errors
  BY Flushes, <1>1, <1>2
<1>4. /\ \A r \in Rows \ Upd(x) : rows'[j][r] = rows[j][r]
      /\ \A r \in Upd(x) : rows'[j][r] \in Verdicts /\ <<r, rows'[j][r]>> \in x.updates
  BY Flushes, <1>1
<1>5. UNCHANGED <<tally, job>> BY DEF FlushRows
<1>6. HandsFacts(x) BY <1>1, <1>3, HandsOf DEF Hands, Counting, HandsFacts
<1>7. Upd(x) \subseteq {r \in Present(j) : IsUnique(r)} /\ Upd(x) \subseteq Rows
    BY <1>3, <1>6 DEF HandsFacts, Upd
<1>8. Present(j)' = Present(j) BY <1>4, <1>7 DEF Present, Verdicts
<1>9. Whole(j)' <=> Whole(j) BY <1>8 DEF Whole
<1>10. Done(j)' = Done(j) \cup Upd(x) BY <1>4, <1>7 DEF Processed, Verdicts, Done
<1>11. Spared(j, {"overlap"})' => job'[j].status # "completed"
  BY SparedBefore, <1>1, <1>3, <1>5 DEF Books, Counted
<1>12. ASSUME Spared(j, {"overlap"})' PROVE Right(y)'
    <2>1. Spared(j, {"overlap"}) BY <1>12, SparedBefore
    <2>2. /\ Pending(j) = x.todo \cup Upd(x) /\ x.processed = Cardinality(Done(j) \cup Upd(x))
          /\ x.errors = Cardinality(Errors(j) \cup Bad(x))
        BY <1>1, <1>3, <2>1 DEF Books, Counted, Right, Counting
    <2>3. Pending(j)' = Pending(j) \ Upd(x) BY <1>4 DEF Verdicts, Pending
    <2>4. Pending(j)' = y.todo BY <1>3, <1>6, <2>2, <2>3 DEF HandsFacts
    <2>5. Errors(j)' = Errors(j) \cup Bad(x)
        <3>1. \A r \in Upd(x) : rows'[j][r] = "error" <=> r \in Bad(x)
            <4> SUFFICES ASSUME NEW r \in Upd(x) PROVE rows'[j][r] = "error" <=> r \in Bad(x) OBVIOUS
            <4>1. r \in Rows /\ ~(<<r, "verified">> \in x.updates /\ <<r, "error">> \in x.updates)
                BY <1>6, <1>7 DEF HandsFacts
            <4>2. rows'[j][r] = "error" \/ rows'[j][r] = "verified" BY <1>4 DEF Verdicts
            <4>3. <<r, rows'[j][r]>> \in x.updates BY <1>4
            <4> QED  BY <4>1, <4>2, <4>3 DEF Bad
        <3>2. Bad(x) \subseteq Upd(x) BY DEF Bad, Upd, Verdicts
        <3>3. \A r \in Upd(x) : rows[j][r] = "new" BY <2>2 DEF Pending
        <3>4. \A r \in Rows : rows'[j][r] = "error" <=> rows[j][r] = "error" \/ r \in Bad(x)
            <4> SUFFICES ASSUME NEW r \in Rows PROVE rows'[j][r] = "error" <=> rows[j][r] = "error" \/ r \in Bad(x)
                OBVIOUS
            <4>1. CASE r \in Upd(x) BY <3>1, <3>3, <4>1
            <4>2. CASE r \notin Upd(x) BY <1>4, <3>2, <4>2
            <4> QED  BY <4>1, <4>2
        <3>5. \A i : Errors(i) = {r \in Rows : IsUnique(r) /\ rows[i][r] = "error"}
            BY DEF Errors, Done, Processed
        <3>6. Errors(j)' = {r \in Rows : IsUnique(r) /\ rows'[j][r] = "error"} BY DEF Errors, Done, Processed
        <3> QED  BY <1>7, <3>2, <3>4, <3>5, <3>6
    <2>6. Upd(y) = {} /\ Bad(y) = {} BY <1>3, NoUpd
    <2> QED  BY <1>3, <1>10, <2>2, <2>4, <2>5, <2>6 DEF Right
<1>13. Counted(j)' BY <1>2, <1>3, <1>11, <1>12, CountedOwn
<1>14. Made(j)'
    <2>1. ASSUME Spared(j, {"overlap", "creating"})' PROVE Whole(j)'
    BY <2>1, SparedBefore, <1>1, <1>3, <1>9, MadeHere DEF Books
    <2> QED  BY <1>2, <1>3, <2>1, MadeOwn
<1>15. Charges(j)' BY <1>1, <1>2, <1>3, <1>5, ChargesOwn DEF Books
<1> QED  BY <1>13, <1>14, <1>15 DEF Books

\* Saving the counters, and completing the job.
LEMMA CompleteBooks ==
    ASSUME TypeInv, HandsInv, SoleInv, [Next]_vars, NEW w \in Workers, SaveProgress(w) \/ MarkCompleted(w),
           NEW j \in Jobs, worker[w].job = j, Books(j)
    PROVE  Books(j)'
<1>1. PICK x \in WorkerType : x = worker[w] BY Shapes
<1>2. PICK y : y = worker'[w] OBVIOUS
<1>3. /\ x.job = j /\ Same(y, x) /\ x.pc \in Counting /\ y.pc \in {"verify", "charge"} /\ x.pc \in {"progress", "verify"}
      /\ \/ y.pc = "verify" /\ x.pc = "progress" /\ job'[j].status = job[j].status
         \/ /\ y.pc = "charge" /\ x.pc = "verify" /\ x.todo = {} /\ job'[j].processed = x.processed
            /\ job'[j].errors = x.errors
  BY <1>1, <1>2, Saves, Completes DEF Counting
<1>4. UNCHANGED <<rows, tally>> BY DEF SaveProgress, MarkCompleted
<1>5. /\ Present(j)' = Present(j) /\ Done(j)' = Done(j) /\ Pending(j)' = Pending(j)
      /\ Errors(j)' = Errors(j) /\ (Whole(j)' <=> Whole(j))
    BY <1>4, RowsSame
<1>6. y.job = j /\ y.todo = x.todo /\ y.updates = x.updates /\ y.processed = x.processed /\ y.errors = x.errors
    BY <1>3 DEF Same
<1>7. Upd(y) = Upd(x) /\ Bad(y) = Bad(x) BY <1>6 DEF Upd, Bad
<1>8. x.todo = {} /\ x.pc = "verify" => Upd(x) = {} /\ Bad(x) = {} BY <1>1, <1>3, HandsOf, NoUpd DEF Hands
<1>9. Spared(j, {"overlap"})' =>
         /\ Pending(j) = x.todo \cup Upd(x) /\ x.processed = Cardinality(Done(j) \cup Upd(x))
         /\ x.errors = Cardinality(Errors(j) \cup Bad(x))
    <2> SUFFICES ASSUME Spared(j, {"overlap"})'
                 PROVE  /\ Pending(j) = x.todo \cup Upd(x) /\ x.processed = Cardinality(Done(j) \cup Upd(x))
                        /\ x.errors = Cardinality(Errors(j) \cup Bad(x))
        OBVIOUS
    <2>1. Spared(j, {"overlap"}) BY SparedBefore
    <2> QED  BY <1>1, <1>3, <2>1 DEF Books, Counted, Right
<1>10. Counted(j)'
    <2>1. Spared(j, {"overlap"})' => Right(y)' BY <1>5, <1>6, <1>7, <1>9 DEF Right
    <2>2. ASSUME Spared(j, {"overlap"})', job'[j].status = "completed"
          PROVE  /\ job'[j].processed = Cardinality(Done(j)') /\ job'[j].errors = Cardinality(Errors(j)')
                 /\ Pending(j)' = {} /\ y.pc \in {"charge", "notify"}
    BY <2>2, SparedBefore, <1>1, <1>3, <1>5, <1>8, <1>9 DEF Books, Counted
    <2> QED  BY <1>2, <1>6, <2>1, <2>2, CountedOwn
<1>11. Made(j)'
    <2>1. ASSUME Spared(j, {"overlap", "creating"})' PROVE Whole(j)'
    BY <2>1, SparedBefore, <1>1, <1>3, <1>5, MadeHere DEF Books
    <2> QED  BY <1>2, <1>3, <1>6, <2>1, MadeOwn
<1>12. Charges(j)' BY <1>1, <1>2, <1>3, <1>6, <1>4, ChargesOwn DEF Books
<1> QED  BY <1>10, <1>11, <1>12 DEF Books

\* The unique rows of one run are as many as the unique lines of the file.
LEMMA UniqueOf ==
    ASSUME TypeInv, NEW j \in Jobs, Whole(j), Pending(j) = {}
    PROVE  Cardinality(Done(j)) = Cardinality(UniqueRows)
<1>1. PICK k \in Runs : Present(j) = FileRows \X {k} BY DEF Whole
<1> DEFINE D == UniqueRows \X {k}
<1>2. D \subseteq Done(j)
    <2> SUFFICES ASSUME NEW r \in D PROVE r \in Done(j) OBVIOUS
    <2>1. r \in FileRows \X {k} /\ r[1] \in UniqueRows BY DEF UniqueRows
    <2>2. r \in Rows /\ rows[j][r] # "absent" /\ IsUnique(r) BY <1>1, <2>1 DEF Present, IsUnique
    <2>3. rows[j][r] # "new" BY <2>2 DEF Pending
    <2>4. rows[j][r] \in {"absent", "new", "verified", "error"} BY <2>2, Shapes
    <2> QED  BY <2>2, <2>3, <2>4 DEF Done, Processed
<1>3. Done(j) \subseteq D
    <2> SUFFICES ASSUME NEW r \in Done(j) PROVE r \in D OBVIOUS
    <2>1. r \in Rows /\ IsUnique(r) /\ rows[j][r] # "absent" BY DEF Done, Processed
    <2>2. r \in FileRows \X {k} /\ r[1] \in UniqueRows BY <1>1, <2>1 DEF Present, IsUnique
    <2> QED  BY <2>2
<1>4. IsFiniteSet(UniqueRows) /\ Cardinality(UniqueRows) \in Nat
    BY ConstantsAssumption, FS_Subset, FS_CardinalityType DEF UniqueRows
<1>5. IsFiniteSet({k}) /\ Cardinality({k}) = 1 BY FS_Singleton
<1>6. Cardinality(D) = Cardinality(UniqueRows) * 1 BY <1>4, <1>5, FS_Product
<1>7. Done(j) = D BY <1>2, <1>3
<1> QED  BY <1>4, <1>6, <1>7

\* Charging the key: what is charged is every unique row of the job, once.
LEMMA ChargeBooks ==
    ASSUME TypeInv, HandsInv, SoleInv, [Next]_vars, NEW w \in Workers, Charge(w), NEW j \in Jobs,
           worker[w].job = j, Books(j)
    PROVE  Books(j)'
<1>1. PICK x \in WorkerType : x = worker[w] BY Shapes
<1>2. PICK y : y = worker'[w] OBVIOUS
<1>3. /\ x.pc = "charge" /\ y.pc = "notify" /\ x.job = j /\ y.job = j /\ tally' \in TallyType
      /\ \/ tally'.charged[j] = tally.charged[j] + x.processed
         \/ tally'.charged[j] = tally.charged[j] /\ "free" \in tally'.marred[j]
  BY ChargesIt, <1>1, <1>2 DEF Same
<1>4. UNCHANGED <<job, rows>> BY DEF Charge
<1>5. /\ Present(j)' = Present(j) /\ Done(j)' = Done(j) /\ Pending(j)' = Pending(j)
      /\ Errors(j)' = Errors(j) /\ (Whole(j)' <=> Whole(j))
    BY <1>4, RowsSame
<1>6. Counted(j)'
    <2>1. Right(y)' BY <1>3 DEF Right, Counting
    <2>2. ASSUME Spared(j, {"overlap"})', job'[j].status = "completed"
          PROVE  /\ job'[j].processed = Cardinality(Done(j)') /\ job'[j].errors = Cardinality(Errors(j)')
                 /\ Pending(j)' = {}
    BY <2>2, SparedBefore, <1>4, <1>5 DEF Books, Counted
    <2> QED  BY <1>2, <1>3, <2>1, <2>2, CountedOwn
<1>7. Spared(j, {"overlap", "creating"}) => Whole(j) BY <1>1, <1>3, MadeHere DEF Books
<1>8. Made(j)' BY <1>5, <1>7, SparedBefore, <1>2, <1>3, MadeOwn
<1>9. Charges(j)'
    <2> SUFFICES ASSUME Spared(j, {"overlap", "creating", "charged"})'
                 PROVE  /\ tally'.charged[j] \in {0, Cardinality(UniqueRows)} /\ ~Over(j)'
                        /\ Spared(j, {"free"})' => tally'.charged[j] = Cardinality(UniqueRows)
        BY <1>2, <1>3 DEF Charges
    <2>1. Spared(j, {"overlap", "creating", "charged"}) BY SparedBefore
    <2>2. Spared(j, {"overlap", "creating"}) /\ Spared(j, {"overlap"}) BY <2>1, SparedParts
    <2>3. Spared(j, {"overlap"})' BY DEF Spared
    <2>4. ~Over(j)' BY <1>2, <1>3, <2>3, AloneAfter
    <2>5. Live(queue, j) /\ \A v \in Workers : worker[v].job = j => v = w BY <2>2, Alone
    <2>6. tally.charged[j] = 0 BY <1>1, <1>3, <2>1, <2>5 DEF Books, Charges
    <2>7. x.processed = Cardinality(UniqueRows)
        <3>1. x.todo = {} /\ x.updates = {} BY <1>1, <1>3, HandsOf DEF Hands
        <3>2. Upd(x) = {} BY <3>1, NoUpd
        <3>3. Pending(j) = x.todo \cup Upd(x) /\ x.processed = Cardinality(Done(j) \cup Upd(x))
            BY <1>1, <1>3, <2>2 DEF Books, Counted, Right, Counting
        <3>4. Pending(j) = {} /\ x.processed = Cardinality(Done(j)) BY <3>1, <3>2, <3>3
        <3>5. Cardinality(Done(j)) = Cardinality(UniqueRows) BY <1>7, <2>2, <3>4, UniqueOf
        <3> QED  BY <3>4, <3>5
    <2>8. x.processed \in Nat BY <1>1 DEF WorkerType
    <2>9. CASE tally'.charged[j] = tally.charged[j] + x.processed BY <2>6, <2>8, <2>9, <2>4, <2>7
    <2>10. CASE tally'.charged[j] = tally.charged[j] /\ "free" \in tally'.marred[j]
        BY <2>4, <2>6, <2>10 DEF Spared
    <2> QED  BY <1>3, <2>9, <2>10
<1> QED  BY <1>6, <1>8, <1>9 DEF Books

\* A worker is over with its job.
LEMMA EndOwn ==
    ASSUME TypeInv, SoleInv, [Next]_vars, NEW w \in Workers, worker[w].pc # "idle", Only(w),
           worker'[w] = IdleWorker, NEW j \in Jobs, worker[w].job = j, Books(j), UNCHANGED rows,
           Spared(j, {"overlap", "creating"})' /\ Live(queue, j)' => worker[w].pc # "create",
           Spared(j, {"overlap", "creating", "charged"})' /\ Live(queue, j)' => worker[w].pc # "notify",
           Spared(j, {"overlap", "creating", "charged"})' /\ job'[j].status = "completed" /\ Over(j)'
               => worker[w].pc = "notify"
    PROVE  Books(j)'
<1>1. /\ Present(j)' = Present(j) /\ Done(j)' = Done(j) /\ Pending(j)' = Pending(j)
      /\ Errors(j)' = Errors(j) /\ (Whole(j)' <=> Whole(j))
    BY RowsSame
<1>2. ASSUME NEW v \in Workers, SaveProgress(v) \/ MarkCompleted(v) \/ Charge(v) PROVE FALSE
  BY Saves, Completes, ChargesIt, <1>2, IdleShape DEF Only
<1>3. /\ job'[j].processed = job[j].processed /\ job'[j].errors = job[j].errors
      /\ job'[j].status = "completed" => job[j].status = "completed"
    BY <1>2, JobMoves
<1>4. tally'.charged[j] = tally.charged[j] BY <1>2, TallyMoves
<1>5. ASSUME Spared(j, {"overlap"})'
      PROVE  /\ Spared(j, {"overlap"}) /\ Live(queue, j) /\ Has(queue, j)'
             /\ (\A v \in Workers : worker[v].job = j => v = w) /\ \A v \in Workers : worker'[v].job # j
    <2>1. Spared(j, {"overlap"}) BY <1>5, SparedBefore
    <2>2. Live(queue, j) /\ \A v \in Workers : worker[v].job = j => v = w BY <2>1, Alone
    <2>3. j \in DOMAIN queue BY <2>2 DEF Live, Waiting, Active, Has
    <2>4. j \in DOMAIN queue' BY <2>3, QueueMoves
    <2>5. ASSUME NEW v \in Workers, worker'[v].job = j PROVE FALSE
    BY <2>5, IdleShape, ConstantsAssumption, <2>2 DEF Only
    <2> QED  BY <2>1, <2>2, <2>4, <2>5 DEF Has
<1>6. Counted(j)' BY <1>1, <1>3, <1>5 DEF Books, Counted
<1>7. Made(j)'
    <2> SUFFICES ASSUME Spared(j, {"overlap", "creating"})'
                 PROVE  /\ \A v \in Workers : worker'[v].job # j
                        /\ Live(queue, j)' => Present(j)' = {} \/ Whole(j)'
                        /\ job'[j].status = "completed" => Whole(j)'
        BY DEF Made
    <2>1. Spared(j, {"overlap", "creating"}) BY SparedBefore
    <2>2. Spared(j, {"overlap"})' BY DEF Spared
    <2>3. worker[w].pc # "create" => Present(j) = {} \/ Whole(j) BY <2>1, MadeHere DEF Books
    <2>4. job[j].status = "completed" => Whole(j) BY <2>1 DEF Books, Made
    <2> QED  BY <1>1, <1>3, <1>5, <2>2, <2>3, <2>4
<1>8. Charges(j)'
    <2> SUFFICES ASSUME Spared(j, {"overlap", "creating", "charged"})'
                 PROVE  /\ tally'.charged[j] \in {0, Cardinality(UniqueRows)}
                        /\ \A v \in Workers : worker'[v].job # j
                        /\ Live(queue, j)' \/ ~Has(queue, j)' => tally'.charged[j] = 0
                        /\ Spared(j, {"free", "unheard"})' /\ job'[j].status = "completed" /\ Over(j)'
                              => tally'.charged[j] = Cardinality(UniqueRows)
        BY DEF Charges
    <2>1. Spared(j, {"overlap", "creating", "charged"}) BY SparedBefore
    <2>2. Spared(j, {"overlap"})' BY DEF Spared
    <2>3. tally.charged[j] \in {0, Cardinality(UniqueRows)} BY <2>1 DEF Books, Charges
    <2>4. worker[w].pc # "notify" => tally.charged[j] = 0 BY <1>5, <2>1, <2>2 DEF Books, Charges
    <2>5. Spared(j, {"free", "unheard"})' /\ worker[w].pc = "notify" => tally.charged[j] = Cardinality(UniqueRows)
    BY SparedBefore, SparedParts, <2>1 DEF Books, Charges
    <2> QED  BY <1>4, <1>5, <2>2, <2>3, <2>4, <2>5
<1> QED  BY <1>6, <1>7, <1>8 DEF Books

\* The ends of a handler.
LEMMA EndBooks ==
    ASSUME TypeInv, SoleInv, [Next]_vars, NEW w \in Workers,
           Notify(w) \/ DownloadFails(w) \/ HandlerThrows(w), NEW j \in Jobs,
           worker[w].job = j, Books(j)
    PROVE  Books(j)'
<1>1. PICK how \in {"completed", "failed"} : worker[w].pc # "idle" /\ EndJob(w, how)
    BY DEF Notify, DownloadFails, HandlerThrows
<1>2. /\ Only(w) /\ worker'[w] = IdleWorker
      /\ Active(queue, j) /\ queue[j].holder = w => queue'[j].state = how
  BY <1>1, Ends
<1>3. UNCHANGED rows BY DEF Notify, DownloadFails, HandlerThrows
<1>4. Spared(j, {"overlap"})' => ~Live(queue, j)' /\ queue[j].holder = w
  BY SparedBefore, Alone, <1>2 DEF Live, Waiting, Active
<1>5. Spared(j, {"overlap", "creating"})' \/ Spared(j, {"overlap", "creating", "charged"})' => Spared(j, {"overlap"})'
    BY DEF Spared
<1>6. Spared(j, {"overlap"})' /\ job'[j].status = "completed" /\ Over(j)' => worker[w].pc = "notify"
  BY Shapes, Statuses, <1>4 DEF Notify, DownloadFails, HandlerThrows, Over
<1> QED  BY <1>1, <1>2, <1>3, <1>4, <1>5, <1>6, EndOwn

\* A worker dies.
LEMMA CrashBooks ==
    ASSUME TypeInv, SoleInv, [Next]_vars, NEW w \in Workers, WorkerCrash(w), NEW j \in Jobs,
           worker[w].job = j, Books(j)
    PROVE  Books(j)'
<1>1. worker[w].pc # "idle" /\ Only(w) /\ worker'[w] = IdleWorker BY Shapes, Sets, IdleShape DEF WorkerCrash
<1>2. UNCHANGED <<rows, queue>> BY DEF WorkerCrash
<1>3. tally'.marred[j] = tally.marred[j] \cup Harm(w)
    <2>1. {j} \in SUBSET Jobs /\ Harm(w) \in SUBSET Marks BY DEF Harm, Marks
    <2>2. PICK J \in SUBSET Jobs, M \in SUBSET Marks : J = {j} /\ M = Harm(w) BY <2>1
    <2>3. Trouble(J, M) /\ tally \in TallyType BY <2>2, Shapes DEF WorkerCrash
    <2>4. \A i \in Jobs : tally'.marred[i] = IF i \in J THEN tally.marred[i] \cup M ELSE tally.marred[i]
        BY <2>3, Troubles
    <2>5. tally'.marred[j] = IF j \in J THEN tally.marred[j] \cup M ELSE tally.marred[j] BY <2>4
    <2> QED  BY <2>2, <2>5
<1>4. Spared(j, {"overlap", "creating"})' => worker[w].pc # "create" BY <1>3 DEF Harm, Spared
<1>5. Spared(j, {"overlap", "creating", "charged"})' => worker[w].pc # "notify" BY <1>3 DEF Harm, Spared
<1>6. Spared(j, {"overlap", "creating", "charged"})' => ~Over(j)'
    <2>1. Spared(j, {"overlap", "creating", "charged"})' => Spared(j, {"overlap"})' BY DEF Spared
    <2>2. Spared(j, {"overlap"})' => Live(queue, j) BY SparedBefore, Alone
    <2>3. Live(queue, j) => Live(queue, j)' /\ Has(queue, j)' BY <1>2 DEF Live, Has, Waiting, Active
    <2> QED  BY <2>1, <2>2, <2>3 DEF Over
<1> QED  BY <1>1, <1>2, <1>4, <1>5, <1>6, EndOwn

\* A job of the queue that no worker has: one that is over stays, one that
\* waits stays or is taken.
LEMMA QueueRests ==
    ASSUME TypeInv, [Next]_vars, NEW j \in DOMAIN queue, queue[j].state # "active"
    PROVE  /\ j \in DOMAIN queue'
           /\ queue'[j] = queue[j] \/ (queue[j].state = "waiting" /\ queue'[j].state = "active")
<1>q. QueueIs(queue) /\ j \in Jobs BY Shapes DEF QueueIs
<1>p. PICK p : p = queue' OBVIOUS
<1>1. CASE UNCHANGED queue BY <1>1
<1>2. ASSUME NEW i \in Jobs, queue' = Add(queue, i, "bulk") PROVE j \in DOMAIN queue' /\ queue'[j] = queue[j]
  BY <1>2, <1>p, <1>q, Adds DEF Has
<1>3. ASSUME NEW i \in Jobs, JobStalls(i) PROVE j \in DOMAIN queue' /\ queue'[j] = queue[j]
  BY <1>3, <1>p, <1>q, Stalls DEF JobStalls, Active
<1>4. ASSUME NEW w \in Workers, StartJob(w)
      PROVE  /\ j \in DOMAIN queue'
             /\ queue'[j] = queue[j] \/ (queue[j].state = "waiting" /\ queue'[j].state = "active")
  BY <1>4, Starts DEF Waiting
<1>5. ASSUME NEW w \in Workers, worker[w].pc # "idle", NEW how \in {"completed", "failed"}, EndJob(w, how)
      PROVE  j \in DOMAIN queue' /\ queue'[j] = queue[j]
  BY <1>5, Ends DEF TypeInv, Active
<1>6. ASSUME NEW w \in Workers, Acts(w)
      PROVE  /\ j \in DOMAIN queue'
             /\ queue'[j] = queue[j] \/ (queue[j].state = "waiting" /\ queue'[j].state = "active")
  BY <1>4, <1>5, <1>6 DEF Notify, DownloadFails, HandlerThrows, Acts, WorkerProceeds, LoadRows, CreateBatch,
     VerifyChunk, FlushRows, SaveProgress, MarkCompleted, Charge, WorkerCrash
<1>7. ASSUME NEW i \in Jobs, JobNext(i) PROVE j \in DOMAIN queue' /\ queue'[j] = queue[j]
  BY <1>3, <1>2, <1>7 DEF EnqueueJob, ReenqueueStalled, JobNext, ReadKey, CreateJob, RequestFails, FailJob,
     ResetStalled
<1>8. CASE WorkerStarts \/ ListenerDies \/ UNCHANGED vars BY <1>8 DEF WorkerStarts, ListenerDies, vars
<1>9. (\E w \in Workers : Acts(w)) \/ (\E i \in Jobs : JobNext(i)) \/ WorkerStarts \/ ListenerDies \/ UNCHANGED vars
    BY DEF Next, Acts
<1> QED  BY <1>6, <1>7, <1>8, <1>9

\* A lock that lapsed: the job waits again, or is announced as failed.
LEMMA StallsTo ==
    ASSUME TypeInv, NEW j \in Jobs, JobStalls(j) PROVE Live(queue, j)' \/ j \in failing'
<1>q. QueueIs(queue) BY Shapes
<1>p. PICK p : p = queue' OBVIOUS
<1>1. p = Stall(queue, j, MaxStalledCount) /\ Active(queue, j) /\ j \in DOMAIN queue
    BY <1>p DEF JobStalls, Active, Has
<1>2. CASE StallFails(j) BY <1>2 DEF JobStalls
<1>3. CASE ~StallFails(j)
    <2>1. queue[j].stalls \in Nat /\ MaxStalledCount \in Nat
        BY <1>q, <1>1, ConstantsAssumption DEF QueueIs, QueueType
    <2>2. queue[j].stalls < MaxStalledCount BY <1>3, <2>1 DEF StallFails
    <2>3. Waiting(p, j) BY <1>q, <1>1, <2>2, Stalls DEF Waiting, Has, Active
    <2> QED  BY <1>p, <2>3 DEF Live, Waiting, Has
<1> QED  BY <1>2, <1>3

\* A failure that is announced is marked, or its listener died.
LEMMA FailureStays ==
    ASSUME TypeInv, [Next]_vars, NEW j \in Jobs, j \in failing
    PROVE  j \in failing' \/ job'[j].status # "completed" \/ "unheard" \in tally'.marred[j]
<1>1. CASE failing \subseteq failing' BY <1>1
<1>2. ASSUME NEW i \in Jobs, FailJob(i) PROVE j \in failing' \/ job'[j].status # "completed"
  BY Shapes, <1>2 DEF FailJob, Failed, RecordType
<1>3. CASE ListenerDies
    <2>1. Trouble(failing, {"unheard"}) /\ failing \in SUBSET Jobs /\ {"unheard"} \in SUBSET Marks /\ tally \in TallyType
        BY <1>3, Shapes DEF ListenerDies, Marks
    <2>2. \A i \in Jobs : tally'.marred[i] = IF i \in failing THEN tally.marred[i] \cup {"unheard"} ELSE tally.marred[i]
        BY <2>1, Troubles
    <2>3. tally'.marred[j] = tally.marred[j] \cup {"unheard"} BY <2>2
    <2> QED  BY <2>3
<1>4. (failing \subseteq failing') \/ (\E i \in Jobs : FailJob(i)) \/ ListenerDies
    BY DEF Next, JobNext, WorkerProceeds, ReadKey, CreateJob, EnqueueJob, RequestFails, JobStalls, ResetStalled,
       ReenqueueStalled, WorkerStarts, vars, StartJob, LoadRows, CreateBatch, VerifyChunk, FlushRows,
       SaveProgress, MarkCompleted, Charge, Notify, DownloadFails, HandlerThrows, WorkerCrash
<1> QED  BY <1>1, <1>2, <1>3, <1>4

\* What a worker does with its own job.
LEMMA OwnBooks ==
    ASSUME TypeInv, HandsInv, SoleInv, [Next]_vars, NEW w \in Workers, Acts(w), NEW j \in Jobs,
           worker[w].job = j \/ worker'[w].job = j, Books(j)
    PROVE  Books(j)'
  BY IdleShape, ConstantsAssumption, StartBooks, Moves, LoadBooks, CreateBooks, VerifyBooks, FlushBooks,
     CompleteBooks, ChargeBooks, EndBooks, CrashBooks DEF StartJob, TypeInv, Acts, WorkerProceeds

\* What the rest of the system does with it.
LEMMA OtherBooks ==
    ASSUME TypeInv, RunsInv, [Next]_vars, NEW j \in Jobs, Books(j),
           \A w \in Workers : Acts(w) => worker[w].job # j /\ worker'[w].job # j
    PROVE  Books(j)'
<1>1. /\ \A w \in Workers : CreateBatch(w) \/ FlushRows(w) \/ SaveProgress(w) \/ MarkCompleted(w) \/ Charge(w)
                            \/ Notify(w) \/ DownloadFails(w) \/ HandlerThrows(w) => worker[w].job # j
    BY DEF Acts, WorkerProceeds
<1>2. rows'[j] = rows[j]
    <2>1. ASSUME NEW w \in Workers, CreateBatch(w) \/ FlushRows(w) PROVE rows'[j] = rows[j]
    BY <1>1, <2>1, Creates, Flushes DEF RowsOnly
    <2> QED  BY <2>1, RowSteps
<1>3. \A v \in Workers : worker[v].job = j \/ worker'[v].job = j => worker'[v] = worker[v]
    <2>1. ASSUME NEW w \in Workers, Acts(w), NEW v \in Workers, worker[v].job = j \/ worker'[v].job = j
          PROVE  worker'[v] = worker[v]
    BY <2>1, Moves DEF Only
    <2> QED  BY <2>1, Others
<1>4. /\ job'[j].processed = job[j].processed /\ job'[j].errors = job[j].errors
      /\ job'[j].status = "completed" => job[j].status = "completed"
    BY <1>1, JobMoves
<1>5. tally'.charged[j] = tally.charged[j] BY <1>1, TallyMoves
<1>6. (Live(queue, j) \/ ~Has(queue, j))' => Live(queue, j) \/ ~Has(queue, j)
    <2> SUFFICES ASSUME Has(queue, j), ~Live(queue, j) PROVE Has(queue, j)' /\ ~Live(queue, j)' OBVIOUS
    <2>1. j \in DOMAIN queue /\ queue[j].state # "active" /\ queue[j].state # "waiting"
        BY DEF Has, Live, Waiting, Active
    <2>2. j \in DOMAIN queue' /\ queue'[j] = queue[j] BY <2>1, QueueRests
    <2> QED  BY <2>1, <2>2 DEF Has, Live, Waiting, Active
<1>7. Live(queue, j) => Live(queue, j)' \/ j \in failing'
    <2> SUFFICES ASSUME Live(queue, j) PROVE Live(queue, j)' \/ j \in failing' OBVIOUS
    <2>1. j \in DOMAIN queue BY DEF Has, Live, Waiting, Active
    <2>2. CASE queue[j].state = "waiting" BY <2>2, <2>1, QueueRests DEF Has, Live, Waiting, Active
    <2>3. CASE queue[j].state = "active"
        <3>1. CASE j \in DOMAIN queue' /\ queue'[j] = queue[j] BY <2>3, <3>1 DEF Has, Live, Waiting, Active
        <3>2. CASE JobStalls(j) BY <3>2, StallsTo
        <3>3. ASSUME NEW w \in Workers, worker[w].job = j, Notify(w) \/ DownloadFails(w) \/ HandlerThrows(w)
              PROVE  FALSE
            BY <1>1, <3>3
        <3> QED  BY <2>1, <2>3, <3>1, <3>2, <3>3, QueueKeeps
    <2> QED  BY <2>2, <2>3 DEF Live, Waiting, Active
<1>8. Spared(j, {"free", "unheard"})' /\ job'[j].status = "completed" /\ Over(j)' => Over(j)
    <2> SUFFICES ASSUME Spared(j, {"free", "unheard"})', job'[j].status = "completed", Over(j)' PROVE Over(j)
        OBVIOUS
    <2>1. j \notin failing' /\ ~(Has(queue, j) /\ Live(queue, j))' /\ \A w \in Workers : worker'[w].job # j
        BY DEF Over
    <2>2. j \notin failing BY <2>1, FailureStays DEF Spared
    <2>3. \A w \in Workers : worker[w].job # j BY <1>3, <2>1
    <2>4. ~Live(queue, j) BY <1>7, <2>1 DEF Live, Waiting, Active
    <2> QED  BY <2>2, <2>3, <2>4 DEF Over
<1> QED  BY <1>2, <1>3, <1>4, <1>5, <1>6, <1>8, BooksStay

\* Every step keeps the books of every job.
LEMMA BooksStep == TypeInv /\ RunsInv /\ HandsInv /\ SoleInv /\ BooksInv /\ [Next]_vars => BooksInv'
<1> SUFFICES ASSUME TypeInv, RunsInv, HandsInv, SoleInv, BooksInv, [Next]_vars, NEW j \in Jobs PROVE Books(j)'
    BY DEF BooksInv, Books
<1>1. Books(j) BY DEF BooksInv, Books
<1>2. ASSUME NEW w \in Workers, Acts(w), worker[w].job = j \/ worker'[w].job = j PROVE Books(j)'
    BY <1>1, <1>2, OwnBooks
<1> QED  BY <1>1, <1>2, OtherBooks

------------------------------------------------------------------------------
(* The theorems. *)

\* The system begins as the invariant has it: nothing uploaded, nothing charged.
LEMMA Begins == Init => IInv
<1> SUFFICES ASSUME Init PROVE IInv OBVIOUS
<1>1. \A w \in Workers : worker[w] = IdleWorker /\ worker[w].pc = "idle" /\ worker[w].job = "none"
    BY IdleShape DEF Init
<1>2. \A j \in Jobs : /\ Present(j) = {} /\ Done(j) = {} /\ job[j].processed = 0 /\ job[j].status = "none"
                      /\ ~Has(queue, j) /\ ~Live(queue, j) /\ tally.charged[j] = 0
    BY DEF Init, Present, Done, Processed, NoRecord, EmptyQueue, Has, Live, Waiting, Active
<1>3. TypeInv BY IdleShape, <1>1 DEF NoRecord, RecordType, Init, EmptyQueue, TypeInv, TypeOK
<1>4. RunsInv BY <1>1, <1>2 DEF RunsInv
<1>5. HandsInv BY <1>1, <1>2, FS_EmptySet DEF HandsInv
<1>6. SoleInv BY <1>1, ConstantsAssumption DEF SoleInv
<1>7. BooksInv
    <2> SUFFICES ASSUME NEW j \in Jobs PROVE Counted(j) /\ Made(j) /\ Charges(j) BY DEF BooksInv
    <2>1. \A w \in Workers : worker[w].job # j BY <1>1, ConstantsAssumption
    <2> QED  BY <1>2, <2>1 DEF Counted, Made, Charges
<1> QED  BY <1>3, <1>4, <1>5, <1>6, <1>7 DEF IInv

\* The invariant is inductive.
LEMMA Holds == IInv /\ [Next]_vars => IInv'
BY TypeStep, RunsStep, HandsStep, SoleStep, BooksStep DEF IInv

\* It holds from the first state on.
LEMMA Always == Spec => []IInv
BY Begins, Holds, PTL DEF Spec

\* The progress shown and the amount about to be charged never claim a row
\* whose verdict is not stored: the counter a worker carries runs ahead of
\* the rows only between the verification of a chunk and its flush.
LEMMA Backed == IInv => ProgressBacked
<1> SUFFICES ASSUME IInv, NEW w \in Workers, Reported(w)
             PROVE  worker[w].processed <= Cardinality(Done(worker[w].job))
    BY DEF IInv, HandsInv, ProgressBacked
<1>1. TypeInv /\ HandsInv BY DEF IInv
<1>2. PICK x \in WorkerType : x = worker[w] BY <1>1, Shapes
<1>3. x.pc \in {"progress", "charge"} BY <1>2 DEF Reported
<1>4. Hands(x) BY <1>1, <1>2, <1>3, HandsOf
<1>5. x.updates = {} /\ x.processed <= Cardinality((Done(x.job) \cup Upd(x)) \ x.todo)
    BY <1>3, <1>4 DEF Hands, Counting
<1>6. Upd(x) = {} BY <1>5, NoUpd
<1>7. PICK S \in SUBSET Rows : S = Done(x.job) BY DEF Done
<1>8. PICK R \in SUBSET S : R = (Done(x.job) \cup Upd(x)) \ x.todo BY <1>6, <1>7
<1>9. Cardinality(R) <= Cardinality(S) /\ Cardinality(R) \in Nat /\ Cardinality(S) \in Nat BY Fewer, RowsFinite
<1> QED  BY <1>2, <1>5, <1>7, <1>8, <1>9 DEF WorkerType

\* The progress shown is backed by stored verdicts, whatever died, stalled,
\* threw or ran twice: flushRowUpdates commits before the counters are saved.
THEOREM ProgressAlwaysBacked == Spec => []ProgressBacked
BY Always, Backed, PTL

\* A completed job is whole and its counters match its rows, unless two runs
\* of it overlapped or one was cut off while it created the rows.
THEOREM CompletedAlwaysTrue == Spec => []CompletedIsTrue
<1>1. ASSUME IInv, NEW j \in Jobs, job[j].status = "completed", Spared(j, {"overlap", "creating"}) PROVE Complete(j)
    <2>1. Pending(j) = {} BY <1>1, SparedParts DEF IInv, BooksInv, Counted
    <2>2. Whole(j) BY <1>1 DEF IInv, BooksInv, Made
    <2>3. PICK k \in Runs : Present(j) = FileRows \X {k} BY <2>2 DEF Whole
    <2>4. ASSUME NEW l \in FileRows PROVE \E r \in Present(j) : r[1] = l
        <3>1. <<l, k>> \in Present(j) BY <2>3
        <3> QED  BY <3>1
    <2>5. \A r, s \in Present(j) : r[1] = s[1] => r = s BY <2>3
    <2> QED  BY <2>1, <2>4, <2>5 DEF Complete
<1>2. IInv => CountersMatchRows BY DEF IInv, BooksInv, Counted, CountersMatchRows, Errors
<1>3. IInv => CompletedIsTrue BY <1>1, <1>2 DEF CompletedIsTrue, CompletedIsComplete, IInv, TypeInv
<1> QED  BY <1>3, Always, PTL

\* The unique rows of a job are charged once, however often it is resumed, and
\* are charged when it is over: unless a run ended between the charge and its
\* own end, was cut off while it created rows, or overlapped another, or the
\* charge or the listener of a failed job failed.
THEOREM ChargedAlwaysOnce == Spec => []ChargedOnce
<1>1. ASSUME IInv, NEW j \in Jobs, Spared(j, {"overlap", "charged", "creating"})
      PROVE  /\ tally.charged[j] <= Cardinality(UniqueRows)
             /\ job[j].status = "completed" /\ Over(j) /\ Spared(j, {"free", "unheard"})
                   => tally.charged[j] = Cardinality(UniqueRows)
  BY <1>1, ConstantsAssumption, FS_Subset, FS_CardinalityType DEF Spared, IInv, BooksInv, UniqueRows, Charges
<1>2. IInv => ChargedOnce BY <1>1 DEF ChargedOnce
<1> QED  BY <1>2, Always, PTL
==============================================================================
