-------------------------- MODULE Monitor_proofs --------------------------
(***************************************************************************)
(* A monitor is checked by one worker at a time; each worker checks, and   *)
(* charges, at most once for every time it was asked to; a change is told; *)
(* the quota is overrun by less than a chunk per worker; and a monitor     *)
(* pauses only after enough failures in a row: for any number of monitors, *)
(* workers, rechecks and requests.                                         *)
(*                                                                         *)
(* The parts of the invariant: types; what a worker has listed, and how    *)
(* many it checks at once (WorkInv); while no lock was outlived, whoever   *)
(* is inside holds it (LockInv); what is gone is not due (GoneInv); the    *)
(* charges still to come are covered by what was asked (AskedInv); the row *)
(* a check is about (RowInv); the checks past the quota (PassedInv); and   *)
(* the failures counted in the table and by those about to store one       *)
(* (FailureInv).                                                           *)
(***************************************************************************)
EXTENDS Monitor, FiniteSetTheorems, TLAPS

------------------------------------------------------------------------------
(* The inductive invariant. *)

\* Types: what a monitor's last verdict may be, the tables, the jobs, what each
\* worker does, the ghosts.
Verdicts    == Statuses \cup {NoStatus}
MonitorType == [exists : BOOLEAN, active : BOOLEAN, paused : BOOLEAN, notify : BOOLEAN,
                last : Verdicts, failures : Nat]
RowType     == [previous : Verdicts, new : Statuses, notify : BOOLEAN, webhookSent : BOOLEAN, told : Nat]
CheckType   == [pc : CheckPc, last : Verdicts, notify : BOOLEAN, new : Verdicts, row : Nat, failures : Nat]
JobType     == [state : {"waiting", "active", "completed", "failed"}, stalls : Nat,
                holder : Workers \cup {"nobody"}, data : [monitor : Monitors, attempts : Nat]]
WorkerType  == [kind : {"idle", "tick", "recheck"}, id : Rechecks \cup {"none"},
                todo : SUBSET (Monitors \X Monitors)]
RequestType == [pc : {"idle", "write", "done"}, monitor : Monitors \cup {"none"}, found : BOOLEAN]
TallyType   == [asked : [Monitors -> Nat], charged : [Workers -> [Monitors -> Nat]],
                errors : [Monitors -> Nat], marred : [Monitors -> SUBSET Marks], times : Nat, events : Nat]
IsQueue(q)  == DOMAIN q \subseteq Rechecks /\ q \in [DOMAIN q -> JobType]
TableTypes ==
    /\ monitor \in [Monitors -> MonitorType] /\ checks \in [Monitors -> Seq(RowType)] /\ usage \in Nat
    /\ locks \in [Monitors -> Workers \cup {Free}] /\ tally \in TallyType
FlowTypes ==
    /\ IsQueue(queue) /\ worker \in [Workers -> WorkerType]
    /\ check \in [Workers -> [Monitors -> CheckType]] /\ request \in [Requests -> RequestType]
    /\ \A r \in Requests : request[r].pc = "write" => request[r].monitor \in Monitors
    /\ \A w \in Workers : worker[w].kind = "recheck" => worker[w].id \in DOMAIN queue
    /\ \A w \in Workers, m \in Monitors :
          check[w][m].pc \in {"charge", "record", "update"} => check[w][m].new \in Statuses
TypeInv == TableTypes /\ FlowTypes

\* Monitors are in the order they became due in; a worker's list is in that
\* order; what is listed waits, and no more than a chunk is being checked.
Idle(w, m) == check[w][m].pc = "none"
Busy(w)    == {m \in Monitors : check[w][m].pc \notin {"none", "listed"}}
Work(w) ==
    /\ IsOrder(worker[w].todo)
    /\ \A m \in Monitors : m \in Listed(worker[w].todo) <=> check[w][m].pc = "listed"
    /\ worker[w].kind # "tick" => worker[w].todo = {}
    /\ worker[w].kind = "idle" => \A m \in Monitors : Idle(w, m)
    /\ worker[w].kind = "recheck" => \A m, n \in Busy(w) : m = n
    /\ IsFiniteSet(Busy(w)) /\ Cardinality(Busy(w)) <= MONITOR_CONCURRENCY
WorkInv == IsOrder(due) /\ \A w \in Workers : Work(w)

\* A lock nobody outlived is held by whoever is inside.
LockInv == \A m \in Monitors, w \in Workers :
    Spared(m, {"slow"}) /\ InsideLock(w, m) => locks[m] = w

\* A monitor that is gone is not due and has no rows.
GoneInv == \A m \in Monitors : ~Exists(m) => ~IsDue(m) /\ checks[m] = << >>

\* The charges of a worker, and the one it may still make, are covered by
\* what was asked, the waiting jobs aside.
Jobs(m) == {id \in DOMAIN queue : queue[id].state = "waiting" /\ queue[id].data.monitor = m}
Owed(w, m) ==
    IF check[w][m].pc \in {"listed", "lock", "quota", "verify", "charge"} THEN 1
    ELSE IF check[w][m].pc \in {"record", "update", "saveFailure"} THEN 0
    ELSE IF IsDue(m) THEN 1 ELSE 0
AskedInv == \A m \in Monitors :
    /\ IsFiniteSet(Jobs(m))
    /\ Spared(m, {"again"}) =>
          \A w \in Workers : tally.charged[w][m] + Owed(w, m) + Cardinality(Jobs(m)) <= tally.asked[m]

\* The row of a check that has stored one, and who is about to tell of it.
Row(w, m) ==
    check[w][m].pc \in {"update", "dispatch"} =>
        /\ check[w][m].row \in DOMAIN checks[m] /\ checks[m][check[w][m].row].previous = check[w][m].last
        /\ checks[m][check[w][m].row].new = check[w][m].new
        /\ checks[m][check[w][m].row].notify = check[w][m].notify
RowInv == (\A w \in Workers, m \in Monitors : Row(w, m)) /\ ChangesTold

\* The checks past the quota that have not charged yet.
Passed == {z \in Workers \X Monitors : check[z[1]][z[2]].pc \in {"verify", "charge"}}
PassedInv ==
    /\ IsFiniteSet(Passed)
    /\ usage + Cardinality(Passed) <= PlanLimit + Cardinality(Workers) * MONITOR_CONCURRENCY - 1

\* No failure is counted that did not happen since the last success.
FailureInv == \A m \in Monitors : Spared(m, {"slow"}) =>
    /\ monitor[m].failures <= tally.errors[m]
    /\ \A w \in Workers : At(w, m, "saveFailure") => check[w][m].failures + 1 <= tally.errors[m]

IInv == TypeInv /\ WorkInv /\ LockInv /\ GoneInv /\ AskedInv /\ RowInv /\ PassedInv /\ FailureInv

------------------------------------------------------------------------------
(* Orders and their beginnings. *)

\* A part of an order is one, of those it is restricted to.
LEMMA AmongOrder ==
    ASSUME NEW o, IsOrder(o), NEW S \in SUBSET Monitors
    PROVE  IsOrder(Among(o, S)) /\ Listed(Among(o, S)) = Listed(o) \cap S
  BY DEF Listed, Among, IsOrder

\* A monitor that becomes due comes last.
LEMMA DueNowOrder ==
    ASSUME NEW m \in Monitors, IsOrder(due) PROVE IsOrder(DueNow(m)) /\ Listed(DueNow(m)) = Listed(due) \cup {m}
<1> DEFINE D == NotDue(m)
<1>1. IsOrder(D) /\ Listed(D) = Listed(due) \ {m} BY AmongOrder DEF NotDue, Listed
<1>2. \A k, n : <<k, n>> \in DueNow(m) <=> \/ <<k, n>> \in D
                                           \/ n = m /\ (k = m \/ k \in Listed(due))
    BY DEF DueNow
<1>3. D \subseteq (Listed(due) \ {m}) \X (Listed(due) \ {m}) BY <1>1 DEF IsOrder
<1>4. \A k, n : <<k, n>> \in D => k # m /\ n # m /\ k \in Listed(due) /\ n \in Listed(due) BY <1>3
<1> HIDE DEF D
<1>5. Listed(DueNow(m)) = Listed(due) \cup {m} BY <1>2, <1>1 DEF Listed
<1>6. DueNow(m) \subseteq Listed(DueNow(m)) \X Listed(DueNow(m))
    <2>1. ASSUME NEW p \in DueNow(m) PROVE p \in Listed(DueNow(m)) \X Listed(DueNow(m))
    BY <1>1, <1>5, <2>1 DEF IsOrder, DueNow, D
    <2> QED  BY <2>1
<1>7. \A k, n \in Listed(due) \cup {m} : <<k, n>> \in DueNow(m) \/ <<n, k>> \in DueNow(m)
    BY <1>1, <1>2 DEF IsOrder
<1>8. \A k, n \in Listed(due) \cup {m} : <<k, n>> \in DueNow(m) /\ <<n, k>> \in DueNow(m) => k = n
    BY <1>1, <1>2, <1>4 DEF IsOrder
<1>9. \A k, n, j \in Listed(due) \cup {m} : <<k, n>> \in DueNow(m) /\ <<n, j>> \in DueNow(m) => <<k, j>> \in DueNow(m)
    BY <1>1, <1>2, <1>4 DEF IsOrder
<1> QED  BY <1>5, <1>6, <1>7, <1>8, <1>9 DEF IsOrder

\* Whoever is among the first n is listed, and there are at most n of them:
\* their places in the order are different.
LEMMA Few ==
    ASSUME NEW o, IsOrder(o), NEW n \in Nat
    PROVE  /\ Earliest(o, n) \subseteq Listed(o)
           /\ IsFiniteSet(Earliest(o, n)) /\ Cardinality(Earliest(o, n)) <= n
<1> DEFINE E == Earliest(o, n)
           Upto(m) == {k \in Monitors : <<k, m>> \in o}
           f == [m \in E |-> Cardinality(Upto(m))]
<1>1. \A m \in Monitors : IsFiniteSet(Upto(m)) /\ Cardinality(Upto(m)) \in Nat
    BY FS_Subset, FS_CardinalityType, MonitorAssumption
<1>2. E \subseteq Listed(o)
    <2>1. ASSUME NEW m \in E PROVE m \in Listed(o)
        <3>1. m \in Monitors /\ Cardinality(Upto(m)) \in 1..n BY DEF Earliest
        <3>2. PICK S : S = Upto(m) OBVIOUS
        <3>3. Cardinality(S) # 0 BY <3>1, <3>2
        <3>4. S # {} BY <3>3, FS_EmptySet
        <3> QED  BY <3>1, <3>2, <3>4 DEF IsOrder, Listed
    <2> QED  BY <2>1
<1>3. f \in [E -> 1..n] BY DEF Earliest
<1>4. ASSUME NEW k \in E, NEW m \in E, <<k, m>> \in o, Cardinality(Upto(k)) = Cardinality(Upto(m)) PROVE k = m
    <2>1. k \in Listed(o) /\ m \in Listed(o) /\ k \in Monitors /\ m \in Monitors BY <1>2 DEF Listed
    <2>2. Upto(k) \subseteq Upto(m) BY <1>4, <2>1 DEF IsOrder, Listed
    <2>3. Upto(k) = Upto(m) BY <1>1, <1>4, <2>1, <2>2, FS_Subset
    <2>4. m \in Upto(m) BY <2>1 DEF Listed
    <2> QED  BY <1>4, <2>1, <2>3, <2>4 DEF IsOrder
<1>5. \A k, m \in E : f[k] = f[m] => k = m
    <2> SUFFICES ASSUME NEW k \in E, NEW m \in E, f[k] = f[m] PROVE k = m OBVIOUS
    <2>1. Cardinality(Upto(k)) = Cardinality(Upto(m)) OBVIOUS
    <2>2. <<k, m>> \in o \/ <<m, k>> \in o BY <1>2 DEF IsOrder
    <2> QED  BY <1>4, <2>1, <2>2
<1>6. f \in Injection(E, 1..n) BY <1>3, <1>5 DEF Injection, IsInjective
<1>7. IsFiniteSet(1..n) /\ Cardinality(1..n) = n BY FS_Interval
<1> QED  BY <1>2, <1>6, <1>7, FS_Injection

\* Sets of at most C monitors, one set per worker, are at most C times as
\* many as there are workers.
LEMMA Chunks ==
    ASSUME NEW C \in Nat, NEW B \in [Workers -> SUBSET Monitors],
           \A w \in Workers : IsFiniteSet(B[w]) /\ Cardinality(B[w]) <= C,
           NEW P, P \subseteq {z \in Workers \X Monitors : z[2] \in B[z[1]]}
    PROVE  IsFiniteSet(P) /\ Cardinality(P) <= Cardinality(Workers) * C
<1>1. ASSUME NEW w \in Workers PROVE \E g \in [B[w] -> 1..C] : \A k, m \in B[w] : g[k] = g[m] => k = m
    <2>1. PICK c \in Nat : c = Cardinality(B[w]) /\ c <= C BY FS_CardinalityType
    <2>2. IsFiniteSet(1..c) /\ Cardinality(1..c) = c BY <2>1, FS_Interval
    <2>3. ExistsBijection(B[w], 1..c) BY <2>1, <2>2, FS_SameCardinalityBij
    <2>4. PICK g \in Bijection(B[w], 1..c) : TRUE BY <2>3 DEF ExistsBijection
    <2>5. g \in [B[w] -> 1..c] /\ \A k, m \in B[w] : g[k] = g[m] => k = m
        BY <2>4 DEF Bijection, Injection, IsInjective
    <2>6. g \in [B[w] -> 1..C] BY <2>1, <2>5
    <2> QED  BY <2>5, <2>6
<1> DEFINE G == [w \in Workers |-> CHOOSE g \in [B[w] -> 1..C] : \A k, m \in B[w] : g[k] = g[m] => k = m]
<1>2. \A w \in Workers : G[w] \in [B[w] -> 1..C] /\ \A k, m \in B[w] : G[w][k] = G[w][m] => k = m BY <1>1
<1> HIDE DEF G
<1> DEFINE h == [z \in P |-> <<z[1], G[z[1]][z[2]]>>]
<1>3. h \in [P -> Workers \X (1..C)] BY <1>2
<1>4. \A y, z \in P : h[y] = h[z] => y = z BY <1>2
<1>5. h \in Injection(P, Workers \X (1..C)) BY <1>3, <1>4 DEF Injection, IsInjective
<1>6. IsFiniteSet(1..C) /\ Cardinality(1..C) = C BY FS_Interval
<1>7. IsFiniteSet(Workers \X (1..C)) /\ Cardinality(Workers \X (1..C)) = Cardinality(Workers) * C
    BY <1>6, FS_Product, MonitorAssumption
<1> QED  BY <1>5, <1>7, FS_Injection

------------------------------------------------------------------------------
(* The ghosts, field by field. *)

\* What the ghosts of the next state are.
Tells(asked, charged, errors, marred) ==
    /\ tally' \in TallyType /\ tally'.asked = asked /\ tally'.charged = charged
    /\ tally'.errors = errors /\ tally'.marred = marred

\* A tally of the right type whose named fields are these.
LEMMA Telling ==
    ASSUME NEW t \in TallyType
    PROVE  /\ t.asked \in [Monitors -> Nat] /\ t.charged \in [Workers -> [Monitors -> Nat]]
           /\ t.errors \in [Monitors -> Nat] /\ t.marred \in [Monitors -> SUBSET Marks]
           /\ t.times \in Nat /\ t.events \in Nat
           /\ t = [asked |-> t.asked, charged |-> t.charged, errors |-> t.errors, marred |-> t.marred,
                   times |-> t.times, events |-> t.events]
BY DEF TallyType

\* Replacing the fields of a tally one at a time.
LEMMA Replacing ==
    ASSUME NEW t \in TallyType
    PROVE  /\ \A x \in [Monitors -> Nat] :
                 /\ [t EXCEPT !.asked = x] \in TallyType /\ [t EXCEPT !.asked = x].asked = x
                 /\ [t EXCEPT !.asked = x].charged = t.charged /\ [t EXCEPT !.asked = x].errors = t.errors
                 /\ [t EXCEPT !.asked = x].marred = t.marred
           /\ \A x \in [Monitors -> Nat] :
                 /\ [t EXCEPT !.errors = x] \in TallyType /\ [t EXCEPT !.errors = x].errors = x
                 /\ [t EXCEPT !.errors = x].charged = t.charged /\ [t EXCEPT !.errors = x].asked = t.asked
                 /\ [t EXCEPT !.errors = x].marred = t.marred
           /\ \A x \in [Workers -> [Monitors -> Nat]] :
                 /\ [t EXCEPT !.charged = x] \in TallyType /\ [t EXCEPT !.charged = x].charged = x
                 /\ [t EXCEPT !.charged = x].errors = t.errors /\ [t EXCEPT !.charged = x].asked = t.asked
                 /\ [t EXCEPT !.charged = x].marred = t.marred
BY DEF TallyType

\* An event by which m is marked.
LEMMA Marking ==
    ASSUME tally \in TallyType, NEW m \in Monitors, NEW marks \in SUBSET Marks
    PROVE  /\ Marred(m, marks) \in TallyType
           /\ Marred(m, marks).asked = tally.asked /\ Marred(m, marks).charged = tally.charged
           /\ Marred(m, marks).errors = tally.errors
           /\ Marred(m, marks).marred = [tally.marred EXCEPT ![m] = @ \cup marks]
<1>1. PICK t \in TallyType : t = tally OBVIOUS
<1>2. PICK x \in [Monitors -> SUBSET Marks] : x = [t.marred EXCEPT ![m] = @ \cup marks] BY DEF TallyType
<1>3. PICK n \in Nat : n = t.events + 1 BY DEF TallyType
<1>4. Marred(m, marks) = [t EXCEPT !.events = n, !.marred = x] BY <1>1, <1>2, <1>3 DEF Marred, TallyType
<1>5. PICK u : u = Marred(m, marks) OBVIOUS
<1>6. u = [t EXCEPT !.events = n, !.marred = x] BY <1>4, <1>5
<1>7. /\ u \in TallyType /\ u.marred = x /\ u.charged = t.charged /\ u.asked = t.asked /\ u.errors = t.errors
    BY <1>6 DEF TallyType
<1> QED  BY <1>1, <1>2, <1>5, <1>7

------------------------------------------------------------------------------
(* What a step of a check changes. *)

\* The checks of other workers, and of other monitors, are as they were.
Others(w, m) ==
    /\ check' \in [Workers -> [Monitors -> CheckType]]
    /\ \A v \in Workers, n \in Monitors : v # w \/ n # m => check'[v][n] = check[v][n]

\* The check of m by w is now y.
Becomes(w, m, y) == Others(w, m) /\ check'[w][m] = y /\ y \in CheckType

\* Replacing one check.
LEMMA Replaced ==
    ASSUME check \in [Workers -> [Monitors -> CheckType]], NEW w \in Workers, NEW m \in Monitors,
           NEW y \in CheckType, check' = [check EXCEPT ![w][m] = y]
    PROVE  Becomes(w, m, y)
BY DEF Becomes, Others

\* The check as it was, at another place.
LEMMA Going ==
    ASSUME check \in [Workers -> [Monitors -> CheckType]], NEW w \in Workers, NEW m \in Monitors,
           NEW pc \in CheckPc, Goto(w, m, pc)
    PROVE  \E y \in CheckType :
              /\ Becomes(w, m, y) /\ y.pc = pc
              /\ y.last = check[w][m].last /\ y.notify = check[w][m].notify /\ y.new = check[w][m].new
              /\ y.row = check[w][m].row /\ y.failures = check[w][m].failures
<1>1. PICK c \in CheckType : c = check[w][m] OBVIOUS
<1>2. PICK y : y = [c EXCEPT !.pc = pc] OBVIOUS
<1>3. y \in CheckType BY <1>2 DEF CheckType
<1>4. check' = [check EXCEPT ![w][m] = y] BY <1>1, <1>2 DEF Goto
<1>5. Becomes(w, m, y) BY <1>3, <1>4, Replaced
<1>6. /\ y.pc = pc /\ y.last = c.last /\ y.notify = c.notify /\ y.new = c.new
      /\ y.row = c.row /\ y.failures = c.failures
    BY <1>2 DEF CheckType
<1> QED  BY <1>1, <1>3, <1>5, <1>6

\* A check that is not running.
LEMMA NotChecking == NoCheck \in CheckType /\ NoCheck.pc = "none"
BY DEF NoCheck, CheckType, CheckPc, Verdicts

\* The check as the tick or the recheck takes it from the table.
LEMMA Taking ==
    ASSUME TypeInv, NEW m \in Monitors, NEW pc \in CheckPc
    PROVE  Snapshot(m, pc) \in CheckType /\ Snapshot(m, pc).pc = pc
  BY DEF TypeInv, TableTypes, FlowTypes, MonitorType, Snapshot, NoCheck, Verdicts, CheckType

------------------------------------------------------------------------------
(* The queue of rechecks. *)

\* Only the job id changes, to one of these states, and not what it is about.
Only(q, r, id, states) ==
    /\ IsQueue(r) /\ DOMAIN r = DOMAIN q /\ r[id].state \in states
    /\ \A i \in DOMAIN q : r[i].data.monitor = q[i].data.monitor /\ (i # id => r[i] = q[i])

\* Replacing one job.
LEMMA Setting ==
    ASSUME NEW q, IsQueue(q), NEW id \in DOMAIN q, NEW j \in JobType,
           j.data.monitor = q[id].data.monitor, NEW r, r = [q EXCEPT ![id] = j]
    PROVE  Only(q, r, id, {j.state})
BY DEF Only, IsQueue

\* A job is taken by w.
LEMMA Took ==
    ASSUME NEW q, IsQueue(q), NEW id \in DOMAIN q, NEW w \in Workers, NEW r, r = Take(q, id, w)
    PROVE  Only(q, r, id, {"active"})
<1>1. PICK j \in JobType : j = q[id] BY DEF IsQueue
<1>2. PICK k : k = [j EXCEPT !.state = "active", !.holder = w] OBVIOUS
<1>3. k \in JobType /\ k.data = j.data /\ k.state = "active" BY <1>2 DEF JobType
<1>4. r = [q EXCEPT ![id] = k] BY <1>1, <1>2 DEF Take, IsQueue
<1> QED  BY <1>1, <1>3, <1>4, Setting

\* A job ends, if w still holds it.
LEMMA Finished ==
    ASSUME NEW q, IsQueue(q), NEW id \in DOMAIN q, NEW w \in Workers,
           NEW outcome \in {"completed", "failed"}, NEW r, r = Finish(q, id, w, outcome)
    PROVE  Only(q, r, id, {q[id].state, outcome})
<1>1. PICK j \in JobType : j = q[id] BY DEF IsQueue
<1>2. CASE r = q BY <1>2 DEF Only
<1>3. CASE r # q BY <1>1, <1>3, Setting DEF JobType, Finish, IsQueue, Only
<1> QED  BY <1>2, <1>3

\* A job is tried again.
LEMMA Retried ==
    ASSUME IsQueue(queue), NEW id \in DOMAIN queue, NEW r, r = Again(id) PROVE Only(queue, r, id, {"waiting"})
<1>1. PICK j \in JobType : j = queue[id] BY DEF IsQueue
<1>2. PICK e \in [monitor : Monitors, attempts : Nat] : e = j.data BY DEF JobType
<1>3. PICK d \in [monitor : Monitors, attempts : Nat] : d = [e EXCEPT !.attempts = e.attempts + 1]
    <2>1. e.attempts + 1 \in Nat OBVIOUS
    <2>2. [e EXCEPT !.attempts = e.attempts + 1] \in [monitor : Monitors, attempts : Nat] BY <2>1
    <2> QED  BY <2>2
<1>7. d.monitor = e.monitor BY <1>3
<1>4. PICK k : k = [j EXCEPT !.state = "waiting", !.holder = "nobody", !.data = d] OBVIOUS
<1>5. k \in JobType /\ k.data = d /\ k.state = "waiting" BY <1>4 DEF JobType
<1>6. r = [queue EXCEPT ![id] = k] BY <1>1, <1>2, <1>3, <1>4 DEF Again, IsQueue, JobType
<1> QED  BY <1>1, <1>2, <1>5, <1>6, <1>7, Setting

\* The worker of a job dies.
LEMMA Stalled ==
    ASSUME IsQueue(queue), NEW id \in DOMAIN queue, NEW r, r = Stall(queue, id, MaxStalledCount)
    PROVE  Only(queue, r, id, {"waiting", "failed"})
<1>1. PICK j \in JobType : j = queue[id] BY DEF IsQueue
<1>2. PICK s \in {"waiting", "failed"} :
         s = IF j.state = "active" /\ j.stalls < MaxStalledCount THEN "waiting" ELSE "failed"
    OBVIOUS
<1>3. PICK n \in Nat : n = j.stalls + 1 BY DEF JobType
<1>4. PICK k : k = [j EXCEPT !.state = s, !.stalls = n, !.holder = "nobody"] OBVIOUS
<1>5. k \in JobType /\ k.data = j.data /\ k.state = s BY <1>4 DEF JobType
<1>6. r = [queue EXCEPT ![id] = k] BY <1>1, <1>2, <1>3, <1>4 DEF Stall, IsQueue, JobType
<1>7. Only(queue, r, id, {k.state}) BY <1>1, <1>5, <1>6, Setting
<1> QED  BY <1>5, <1>7 DEF Only

\* A job is enqueued.
LEMMA Added ==
    ASSUME IsQueue(queue), NEW id \in Rechecks \ DOMAIN queue, NEW m \in Monitors,
           NEW r, r = Add(queue, id, [monitor |-> m, attempts |-> 1])
    PROVE  /\ IsQueue(r) /\ DOMAIN r = DOMAIN queue \cup {id}
           /\ \A i \in DOMAIN queue : r[i] = queue[i]
           /\ r[id].state = "waiting" /\ r[id].data.monitor = m
BY DEF Add, Has, IsQueue, JobType

------------------------------------------------------------------------------
(* The steps of a check. *)

\* The check of m by w goes on from one call to another; the rest of what it
\* holds stays.
Walks(w, m, from, to) ==
    /\ check[w][m].pc = from /\ Others(w, m) /\ check'[w][m].pc = to /\ UNCHANGED <<worker, queue, request>>
\* And it keeps what it has read and found.
Keeps(w, m) ==
    /\ check'[w][m].last = check[w][m].last /\ check'[w][m].notify = check[w][m].notify
    /\ check'[w][m].new = check[w][m].new /\ check'[w][m].row = check[w][m].row

\* It ends, and with it the recheck, which may wait to be tried again.
Ends(w, m) ==
    /\ check[w][m].pc \in {"lock", "unlock", "unlockThrow", "delete", "deleteThrow"}
    /\ Others(w, m) /\ check'[w][m].pc = "none" /\ UNCHANGED <<monitor, due, checks, usage, request>>
    /\ IF worker[w].kind = "recheck"
       THEN /\ worker' = [worker EXCEPT ![w] = IdleWorker]
            /\ Only(queue, queue', worker[w].id, {queue[worker[w].id].state, "waiting", "completed", "failed"})
       ELSE UNCHANGED <<worker, queue>>
    /\ Tells(AskedAgain(w), tally.charged, tally.errors, tally.marred)

\* Going on without anything new.
LEMMA Walking ==
    ASSUME TypeInv, NEW w \in Workers, NEW m \in Monitors, NEW to \in CheckPc, Goto(w, m, to),
           UNCHANGED <<worker, queue, request>>, NEW from, check[w][m].pc = from
    PROVE  Walks(w, m, from, to) /\ Keeps(w, m)
  BY Going DEF TypeInv, TableTypes, FlowTypes, Walks, Keeps, Becomes

\* What a recheck asks again for.
LEMMA Asking ==
    ASSUME TypeInv, NEW w \in Workers PROVE AskedAgain(w) \in [Monitors -> Nat]
  BY DEF TypeInv, TableTypes, FlowTypes, TallyType, AskedAgain

\* The end of a check.
LEMMA Ending ==
    ASSUME TypeInv, NEW w \in Workers, NEW m \in Monitors, NEW throws, EndCheck(w, m, throws),
           check[w][m].pc \in {"lock", "unlock", "unlockThrow", "delete", "deleteThrow"},
           UNCHANGED <<monitor, due, checks, usage, request>>
    PROVE  Ends(w, m)
<1>1. Becomes(w, m, NoCheck) BY NotChecking, Replaced DEF EndCheck, TypeInv, TableTypes, FlowTypes
<1>2. ASSUME worker[w].kind = "recheck"
      PROVE  /\ worker' = [worker EXCEPT ![w] = IdleWorker]
             /\ Only(queue, queue', worker[w].id, {queue[worker[w].id].state, "waiting", "completed", "failed"})
    <2>1. PICK id \in DOMAIN queue : id = worker[w].id BY <1>2 DEF TypeInv, TableTypes, FlowTypes
    <2>2. IsQueue(queue) BY DEF TypeInv, TableTypes, FlowTypes
    <2>3. worker' = [worker EXCEPT ![w] = IdleWorker] BY <1>2 DEF EndCheck
    <2>4. queue' = Again(id) \/ \E o \in {"completed", "failed"} : queue' = Finish(queue, id, w, o)
        BY <1>2, <2>1 DEF EndCheck
    <2>5. Only(queue, queue', id, {queue[id].state, "waiting", "completed", "failed"})
        <3>1. CASE queue' = Again(id) BY <2>2, <3>1, Retried DEF Only
        <3>2. CASE \E o \in {"completed", "failed"} : queue' = Finish(queue, id, w, o)
      BY <3>2, <2>2, Finished DEF Only
        <3> QED  BY <2>4, <3>1, <3>2
    <2> QED  BY <2>1, <2>3, <2>5
<1>3. ASSUME worker[w].kind # "recheck" PROVE UNCHANGED <<worker, queue>> BY <1>3 DEF EndCheck
<1>4. Tells(AskedAgain(w), tally.charged, tally.errors, tally.marred)
  BY Asking, Replacing DEF TypeInv, TableTypes, FlowTypes, EndCheck, Tells
<1> QED  BY <1>1, <1>2, <1>3, <1>4, NotChecking DEF Ends, Becomes, EndCheck

\* The steps that read, or write no table but their own.
LEMMA LockWalks ==
    ASSUME TypeInv, NEW w \in Workers, NEW m \in Monitors, Lock(w, m)
    PROVE  Walks(w, m, "lock", "quota") /\ Keeps(w, m)
BY Walking DEF Lock, At, CheckPc

\* The quota is read: a check is made only while it is not used up.
LEMMA ReadQuotaWalks ==
    ASSUME TypeInv, NEW w \in Workers, NEW m \in Monitors, ReadQuota(w, m)
    PROVE  \E pc \in {"reschedule", "verify"} :
              Walks(w, m, "quota", pc) /\ Keeps(w, m) /\ (pc = "verify" => ~OverQuota)
  BY Walking DEF ReadQuota, CheckPc, At

\* Over the quota the monitor is put off, and the lock given back.
LEMMA RescheduleWalks ==
    ASSUME TypeInv, NEW w \in Workers, NEW m \in Monitors, Reschedule(w, m)
    PROVE  Walks(w, m, "reschedule", "unlock") /\ Keeps(w, m)
BY Walking DEF Reschedule, At, CheckPc

\* The probe answers with one of the statuses.
LEMMA VerifyWalks ==
    ASSUME TypeInv, NEW w \in Workers, NEW m \in Monitors, Verify(w, m)
    PROVE  Walks(w, m, "verify", "charge") /\ check'[w][m].new \in Statuses
<1>1. PICK s \in Statuses : check' = [check EXCEPT ![w][m].pc = "charge", ![w][m].new = s] BY DEF Verify
<1>2. PICK c \in CheckType : c = check[w][m] BY DEF TypeInv, TableTypes, FlowTypes
<1>3. PICK y : y = [c EXCEPT !.pc = "charge", !.new = s] OBVIOUS
<1>4. y \in CheckType /\ y.pc = "charge" /\ y.new = s BY <1>3 DEF CheckType, CheckPc, Verdicts
<1>5. check' = [check EXCEPT ![w][m] = y] BY <1>1, <1>2, <1>3 DEF TypeInv, TableTypes, FlowTypes, CheckType
<1>6. Becomes(w, m, y) BY <1>4, <1>5, Replaced DEF TypeInv, TableTypes, FlowTypes
<1> QED  BY <1>4, <1>6 DEF Verify, Walks, Becomes, At

\* The charge is counted.
LEMMA ChargeWalks ==
    ASSUME TypeInv, NEW w \in Workers, NEW m \in Monitors, Charge(w, m)
    PROVE  /\ Walks(w, m, "charge", "record") /\ Keeps(w, m)
           /\ Tells(tally.asked, [tally.charged EXCEPT ![w][m] = @ + 1], tally.errors, tally.marred)
<1>1. Walks(w, m, "charge", "record") /\ Keeps(w, m) BY Walking DEF Charge, At, CheckPc
<1>2. PICK t \in TallyType : t = tally BY DEF TypeInv, TableTypes, FlowTypes
<1>3. PICK x \in [Workers -> [Monitors -> Nat]] : x = [t.charged EXCEPT ![w][m] = @ + 1]
    <2>1. PICK c \in [Workers -> [Monitors -> Nat]] : c = t.charged BY DEF TallyType
    <2>2. c[w][m] + 1 \in Nat OBVIOUS
    <2>3. [c EXCEPT ![w][m] = c[w][m] + 1] \in [Workers -> [Monitors -> Nat]] BY <2>2
    <2> QED  BY <2>1, <2>3
<1>4. tally' = [t EXCEPT !.charged = x] BY <1>2, <1>3 DEF Charge, TallyType
<1>5. Tells(t.asked, x, t.errors, t.marred) BY <1>4, Replacing DEF Tells
<1> QED  BY <1>1, <1>2, <1>3, <1>5

\* The row is stored at the end of the table.
LEMMA RecordWalks ==
    ASSUME TypeInv, NEW w \in Workers, NEW m \in Monitors, Record(w, m)
    PROVE  /\ Walks(w, m, "record", "update")
           /\ check'[w][m].last = check[w][m].last /\ check'[w][m].notify = check[w][m].notify
           /\ check'[w][m].new = check[w][m].new /\ check'[w][m].row = Len(checks[m]) + 1
           /\ \E r \in RowType : /\ checks' = [checks EXCEPT ![m] = Append(@, r)]
                                 /\ r.previous = check[w][m].last /\ r.new = check[w][m].new
                                 /\ r.notify = check[w][m].notify
<1>1. PICK c \in CheckType : c = check[w][m] /\ c.new \in Statuses
    BY DEF TypeInv, TableTypes, FlowTypes, Record, At
<1>2. PICK n \in Nat : n = Len(checks[m]) + 1 BY DEF TypeInv, TableTypes, FlowTypes
<1>3. PICK y : y = [c EXCEPT !.pc = "update", !.row = n] OBVIOUS
<1>4. y \in CheckType /\ y.pc = "update" /\ y.row = n /\ y.last = c.last /\ y.notify = c.notify /\ y.new = c.new
    BY <1>3 DEF CheckType, CheckPc
<1>5. check' = [check EXCEPT ![w][m] = y]
    BY <1>1, <1>2, <1>3 DEF Record, TypeInv, TableTypes, FlowTypes, CheckType
<1>6. Becomes(w, m, y) BY <1>4, <1>5, Replaced DEF TypeInv, TableTypes, FlowTypes
<1>7. PICK b \in BOOLEAN, z \in Nat : b = FALSE /\ z = 0 OBVIOUS
<1>8. PICK r : r = [previous |-> c.last, new |-> c.new, notify |-> c.notify, webhookSent |-> b, told |-> z]
    OBVIOUS
<1>9. r \in RowType /\ r.previous = c.last /\ r.new = c.new /\ r.notify = c.notify
    BY <1>1, <1>8 DEF RowType, CheckType
<1>10. checks' = [checks EXCEPT ![m] = Append(@, r)] BY <1>1, <1>7, <1>8 DEF Record
<1> QED  BY <1>1, <1>2, <1>4, <1>6, <1>9, <1>10 DEF Record, Walks, Becomes, At

\* The monitor gets its status, and is not due.
LEMMA UpdateWalks ==
    ASSUME TypeInv, NEW w \in Workers, NEW m \in Monitors, Update(w, m)
    PROVE  /\ \E pc \in {"dispatch", "unlock"} :
                 Walks(w, m, "update", pc) /\ Keeps(w, m) /\ (pc = "unlock" => ~MustNotify(check[w][m]))
           /\ Tells(tally.asked, tally.charged, [tally.errors EXCEPT ![m] = 0], tally.marred)
  BY Walking, Replacing DEF Update, CheckPc, At, TypeInv, TableTypes, FlowTypes, TallyType, Tells

\* The webhook is dispatched, or is not.
LEMMA DispatchWalks ==
    ASSUME TypeInv, NEW w \in Workers, NEW m \in Monitors, Dispatch(w, m)
    PROVE  Walks(w, m, "dispatch", "mark") /\ Keeps(w, m)
BY Walking DEF Dispatch, At, CheckPc

\* After the row is marked as sent the lock is given back.
LEMMA MarkSentWalks ==
    ASSUME TypeInv, NEW w \in Workers, NEW m \in Monitors, MarkSent(w, m)
    PROVE  Walks(w, m, "mark", "unlock") /\ Keeps(w, m)
BY Walking DEF MarkSent, At, CheckPc

\* After a failure is stored the lock is given back.
LEMMA SaveFailureWalks ==
    ASSUME TypeInv, NEW w \in Workers, NEW m \in Monitors, SaveFailure(w, m)
    PROVE  Walks(w, m, "saveFailure", "unlock") /\ Keeps(w, m)
BY Walking DEF SaveFailure, At, CheckPc

\* Where the failure cannot be stored either, the check throws.
LEMMA SaveFailureFailsWalks ==
    ASSUME TypeInv, NEW w \in Workers, NEW m \in Monitors, SaveFailureFails(w, m)
    PROVE  Walks(w, m, "saveFailure", "unlockThrow") /\ Keeps(w, m)
BY Walking DEF SaveFailureFails, At, CheckPc

\* The failures so far are read.
LEMMA CheckFailsWalks ==
    ASSUME TypeInv, NEW w \in Workers, NEW m \in Monitors, CheckFails(w, m)
    PROVE  /\ \E pc \in {"quota", "reschedule", "verify", "record", "update", "mark"} :
                 Walks(w, m, pc, "saveFailure")
           /\ check'[w][m].failures = IF Exists(m) THEN monitor[m].failures ELSE 0
<1>1. PICK n \in Nat : n = IF Exists(m) THEN monitor[m].failures ELSE 0
    BY DEF TypeInv, TableTypes, FlowTypes, MonitorType
<1>2. PICK c \in CheckType : c = check[w][m] BY DEF TypeInv, TableTypes, FlowTypes
<1>3. PICK y : y = [c EXCEPT !.pc = "saveFailure", !.failures = n] OBVIOUS
<1>4. y \in CheckType /\ y.pc = "saveFailure" /\ y.failures = n BY <1>3 DEF CheckType, CheckPc
<1>5. check' = [check EXCEPT ![w][m] = y]
    BY <1>1, <1>2, <1>3 DEF CheckFails, TypeInv, TableTypes, FlowTypes, CheckType
<1>6. Becomes(w, m, y) BY <1>4, <1>5, Replaced DEF TypeInv, TableTypes, FlowTypes
<1>7. check[w][m].pc \in {"quota", "reschedule", "verify", "record", "update", "mark"}
    BY DEF CheckFails, FailsAt, GoneAt
<1> QED  BY <1>1, <1>4, <1>6, <1>7 DEF CheckFails, Walks, Becomes

\* The lock is given back, and the check ends; or it was not ours any more.
LEMMA UnlockWalks ==
    ASSUME TypeInv, NEW w \in Workers, NEW m \in Monitors, Unlock(w, m)
    PROVE  \/ /\ Holds(locks, m, w) /\ Keeps(w, m) /\ UNCHANGED tally
              /\ \/ Walks(w, m, "unlock", "delete")
                 \/ Walks(w, m, "unlockThrow", "deleteThrow")
           \/ ~Holds(locks, m, w) /\ Ends(w, m)
  BY Walking, Ending DEF Unlock, At, CheckPc

\* A check ends at once where somebody else has the lock.
LEMMA SkipLockedEnds ==
    ASSUME TypeInv, NEW w \in Workers, NEW m \in Monitors, SkipLocked(w, m) PROVE Ends(w, m)
BY Ending DEF SkipLocked, At

\* A check ends when it has given the lock back.
LEMMA DeleteLockEnds ==
    ASSUME TypeInv, NEW w \in Workers, NEW m \in Monitors, DeleteLock(w, m) PROVE Ends(w, m)
BY Ending DEF DeleteLock

------------------------------------------------------------------------------
(* The steps of a worker. *)

\* What w checks is now f; the checks of the others are as they were.
Turns(w, f) ==
    /\ check' \in [Workers -> [Monitors -> CheckType]] /\ check'[w] = f
    /\ \A v \in Workers : v # w => check'[v] = check[v]

\* The job of w is now x.
Hires(w, x) == x \in WorkerType /\ worker' = [worker EXCEPT ![w] = x]

\* A tick lists what is due, with what the table said of it.
LEMMA TickStarts ==
    ASSUME TypeInv, NEW w \in Workers, StartTick(w)
    PROVE  /\ \E x \in WorkerType : Hires(w, x) /\ x.kind = "tick" /\ x.todo = Batch
           /\ Turns(w, [m \in Monitors |-> IF m \in Listed(Batch) THEN Snapshot(m, "listed") ELSE NoCheck])
<1>1. \A m \in Monitors : Snapshot(m, "listed") \in CheckType BY Taking DEF CheckPc
<1>2. PICK f \in [Monitors -> CheckType] :
         f = [m \in Monitors |-> IF m \in Listed(Batch) THEN Snapshot(m, "listed") ELSE NoCheck]
    BY <1>1, NotChecking
<1>3. Turns(w, f) BY <1>2 DEF StartTick, Turns, TypeInv, TableTypes, FlowTypes
<1>4. Batch \subseteq Monitors \X Monitors BY DEF Batch, Among, Earliest
<1>5. PICK x : x = [kind |-> "tick", id |-> "none", todo |-> Batch] OBVIOUS
<1>6. x \in WorkerType /\ x.kind = "tick" /\ x.todo = Batch BY <1>4, <1>5 DEF WorkerType
<1>7. worker' = [worker EXCEPT ![w] = x] BY <1>5 DEF StartTick
<1> QED  BY <1>2, <1>3, <1>6, <1>7 DEF Hires

\* The next chunk of a tick: the earliest of its list go to their lock.
LEMMA ChunkStarts ==
    ASSUME TypeInv, NEW w \in Workers, StartChunk(w)
    PROVE  LET chunk == Earliest(worker[w].todo, MONITOR_CONCURRENCY)
           IN  /\ \E x \in WorkerType : /\ Hires(w, x) /\ x.kind = "tick"
                                        /\ x.todo = Among(worker[w].todo, Monitors \ chunk)
               /\ \E f \in [Monitors -> CheckType] :
                     /\ Turns(w, f)
                     /\ \A m \in Monitors : IF m \in chunk THEN f[m].pc = "lock" ELSE f[m] = check[w][m]
<1> DEFINE chunk == Earliest(worker[w].todo, MONITOR_CONCURRENCY)
<1>1. PICK c \in [Monitors -> CheckType] : c = check[w] BY DEF TypeInv, TableTypes, FlowTypes
<1>2. PICK f : f = [m \in Monitors |-> IF m \in chunk THEN [c[m] EXCEPT !.pc = "lock"] ELSE c[m]] OBVIOUS
<1>3. ASSUME NEW m \in Monitors
      PROVE  f[m] \in CheckType /\ IF m \in chunk THEN f[m].pc = "lock" ELSE f[m] = c[m]
  BY <1>2 DEF CheckType, CheckPc
<1>4. f \in [Monitors -> CheckType] BY <1>2, <1>3
<1>5. check' = [check EXCEPT ![w] = f] BY <1>1, <1>2 DEF StartChunk, TypeInv, TableTypes, FlowTypes
<1>6. Turns(w, f) BY <1>4, <1>5 DEF Turns, TypeInv, TableTypes, FlowTypes
<1>7. PICK z \in WorkerType : z = worker[w] BY DEF TypeInv, TableTypes, FlowTypes
<1>8. PICK x : x = [z EXCEPT !.todo = Among(z.todo, Monitors \ chunk)] OBVIOUS
<1>9. x \in WorkerType /\ x.kind = z.kind /\ x.todo = Among(z.todo, Monitors \ chunk)
    BY <1>8 DEF WorkerType, Among
<1>10. worker' = [worker EXCEPT ![w] = x] BY <1>7, <1>8 DEF StartChunk, TypeInv, TableTypes, FlowTypes
<1>11. z.kind = "tick" BY <1>7 DEF StartChunk
<1> QED  BY <1>1, <1>3, <1>4, <1>6, <1>7, <1>9, <1>10, <1>11 DEF Hires

\* A worker without a job.
LEMMA NotWorking == IdleWorker \in WorkerType /\ IdleWorker.kind = "idle" /\ IdleWorker.todo = {}
BY DEF IdleWorker, WorkerType

\* A recheck is taken from the queue: it is over at once, or the monitor is at
\* its lock.
LEMMA RecheckStarts ==
    ASSUME TypeInv, NEW w \in Workers, NEW id \in Rechecks, StartRecheck(w, id)
    PROVE  /\ worker[w].kind = "idle" /\ id \in DOMAIN queue /\ queue[id].state = "waiting"
           /\ \/ /\ UNCHANGED <<worker, check>> /\ Only(queue, queue', id, {"active", "completed"})
              \/ /\ Only(queue, queue', id, {"active"})
                 /\ \E x \in WorkerType : /\ Hires(w, x) /\ x.kind = "recheck" /\ x.id = id /\ x.todo = {}
                 /\ \E y \in CheckType : Becomes(w, queue[id].data.monitor, y) /\ y.pc = "lock"
<1>1. worker[w].kind = "idle" /\ id \in DOMAIN queue /\ queue[id].state = "waiting" /\ IsQueue(queue)
    BY DEF StartRecheck, Waiting, Has, TypeInv, TableTypes, FlowTypes
<1>2. PICK m \in Monitors : m = queue[id].data.monitor BY <1>1 DEF IsQueue, JobType
<1>3. CASE monitor[m].active
    <2>1. Only(queue, queue', id, {"active"}) BY <1>1, <1>2, <1>3, Took DEF StartRecheck
    <2>2. PICK x : x = [IdleWorker EXCEPT !.kind = "recheck", !.id = id] OBVIOUS
    <2>3. x = [kind |-> "recheck", id |-> id, todo |-> {}] BY <2>2 DEF IdleWorker
    <2>4. x \in WorkerType /\ x.kind = "recheck" /\ x.id = id /\ x.todo = {} BY <2>3 DEF WorkerType
    <2>5. Hires(w, x) BY <1>2, <1>3, <2>2, <2>4 DEF StartRecheck, Hires
    <2>6. PICK y \in CheckType : y = Snapshot(m, "lock") /\ y.pc = "lock" BY Taking DEF CheckPc
    <2>7. check' = [check EXCEPT ![w][m] = y] BY <1>2, <1>3, <2>6 DEF StartRecheck
    <2>8. Becomes(w, m, y) BY <2>7, Replaced DEF TypeInv, TableTypes, FlowTypes
    <2> QED  BY <1>1, <1>2, <2>1, <2>4, <2>5, <2>6, <2>8
<1>4. CASE ~monitor[m].active
    <2>1. PICK q : q = Take(queue, id, w) OBVIOUS
    <2>2. Only(queue, q, id, {"active"}) BY <1>1, <2>1, Took
    <2>3. IsQueue(q) /\ id \in DOMAIN q /\ queue' = Finish(q, id, w, "completed")
        BY <1>1, <1>2, <1>4, <2>1, <2>2 DEF Only, StartRecheck
    <2>4. Only(q, queue', id, {q[id].state, "completed"}) BY <2>3, Finished
    <2>5. Only(queue, queue', id, {"active", "completed"}) BY <1>1, <2>2, <2>4 DEF Only
    <2>6. UNCHANGED <<worker, check>> BY <1>2, <1>4 DEF StartRecheck
    <2> QED  BY <1>1, <2>5, <2>6
<1> QED  BY <1>3, <1>4

\* Whoever dies leaves its job to be found.
LEMMA Dying ==
    ASSUME TypeInv, NEW w \in Workers, WorkerCrash(w)
    PROVE  /\ Hires(w, IdleWorker) /\ Turns(w, [m \in Monitors |-> NoCheck])
           /\ IF worker[w].kind = "recheck"
              THEN Only(queue, queue', worker[w].id, {"waiting", "failed"}) ELSE queue' = queue
           /\ Tells(AskedAgain(w), tally.charged, tally.errors,
                    [m \in Monitors |-> tally.marred[m] \cup Loses(w, m)])
<1>1. Hires(w, IdleWorker) BY NotWorking DEF WorkerCrash, Hires
<1>2. Turns(w, [m \in Monitors |-> NoCheck])
    BY NotChecking DEF WorkerCrash, Turns, TypeInv, TableTypes, FlowTypes
<1>3. ASSUME worker[w].kind = "recheck" PROVE Only(queue, queue', worker[w].id, {"waiting", "failed"})
    BY <1>3, Stalled DEF WorkerCrash, TypeInv, TableTypes, FlowTypes
<1>4. ASSUME worker[w].kind # "recheck" PROVE queue' = queue BY <1>4 DEF WorkerCrash
<1>5. Tells(AskedAgain(w), tally.charged, tally.errors,
                    [m \in Monitors |-> tally.marred[m] \cup Loses(w, m)])
    <2>1. PICK t \in TallyType : t = tally BY DEF TypeInv, TableTypes, FlowTypes
    <2>2. PICK a \in [Monitors -> Nat] : a = AskedAgain(w) BY Asking
    <2>3. PICK n \in Nat : n = t.events + 1 BY DEF TallyType
    <2>4. PICK x \in [Monitors -> SUBSET Marks] : x = [m \in Monitors |-> t.marred[m] \cup Loses(w, m)]
        BY DEF TallyType, Loses, Marks
    <2>5. tally' = [t EXCEPT !.events = n, !.asked = a, !.marred = x]
        BY <2>1, <2>2, <2>3, <2>4 DEF WorkerCrash, TallyType
    <2>6. tally' \in TallyType /\ tally'.asked = a /\ tally'.marred = x /\ tally'.charged = t.charged /\ tally'.errors = t.errors
        BY <2>5 DEF TallyType
    <2> QED  BY <2>1, <2>2, <2>4, <2>6 DEF Tells
<1> QED  BY <1>1, <1>2, <1>3, <1>4, <1>5

------------------------------------------------------------------------------
(* Types. *)

\* A step of one check leaves the jobs as they were.
LEMMA WalkTypes ==
    ASSUME TypeInv, NEW w \in Workers, NEW m \in Monitors, NEW from, NEW to, Walks(w, m, from, to),
           to \in {"charge", "record", "update"} => check'[w][m].new \in Statuses
    PROVE  FlowTypes'
<1>1. UNCHANGED <<worker, queue, request>> /\ check' \in [Workers -> [Monitors -> CheckType]]
    BY DEF Walks, Others
<1>2. ASSUME NEW v \in Workers, NEW n \in Monitors, check'[v][n].pc \in {"charge", "record", "update"}
      PROVE  check'[v][n].new \in Statuses
  BY <1>2 DEF Walks, Others, TypeInv, FlowTypes
<1> QED  BY <1>1, <1>2 DEF TypeInv, FlowTypes, IsQueue

\* So does one that ends, but for its own.
LEMMA EndTypes ==
    ASSUME TypeInv, NEW w \in Workers, NEW m \in Monitors, Ends(w, m) PROVE FlowTypes' /\ tally' \in TallyType
<1>1. IsQueue(queue') /\ DOMAIN queue' = DOMAIN queue BY DEF Ends, Only, TypeInv, FlowTypes
<1>2. worker' \in [Workers -> WorkerType] BY NotWorking DEF Ends, TypeInv, FlowTypes
<1>3. \A v \in Workers : worker'[v].kind = "recheck" => worker'[v].id \in DOMAIN queue'
    BY <1>1, NotWorking DEF Ends, TypeInv, FlowTypes
<1>4. ASSUME NEW v \in Workers, NEW n \in Monitors, check'[v][n].pc \in {"charge", "record", "update"}
      PROVE  check'[v][n].new \in Statuses
  BY <1>4 DEF Ends, Others, TypeInv, FlowTypes
<1>5. check' \in [Workers -> [Monitors -> CheckType]] /\ UNCHANGED request /\ tally' \in TallyType
    BY DEF Ends, Others, Tells
<1> QED  BY <1>1, <1>2, <1>3, <1>4, <1>5 DEF TypeInv, FlowTypes

\* A worker that takes or leaves a job.
LEMMA HireTypes ==
    ASSUME TypeInv, NEW w \in Workers, NEW x, Hires(w, x), IsQueue(queue'), DOMAIN queue \subseteq DOMAIN queue',
           x.kind = "recheck" => x.id \in DOMAIN queue', UNCHANGED request,
           check' \in [Workers -> [Monitors -> CheckType]],
           \A v \in Workers, n \in Monitors :
              check'[v][n].pc \in {"charge", "record", "update"} => check'[v][n] = check[v][n]
    PROVE  FlowTypes'
  BY DEF Hires, TypeInv, FlowTypes

------------------------------------------------------------------------------
(* What each step tells the ghosts. *)

\* Nothing.
LEMMA Silent == ASSUME TypeInv, UNCHANGED tally PROVE Tells(tally.asked, tally.charged, tally.errors, tally.marred)
BY DEF Tells, TypeInv, TableTypes

\* A mark.
LEMMA Marks1 ==
    ASSUME TypeInv, NEW m \in Monitors, NEW marks \in SUBSET Marks, tally' = Marred(m, marks)
    PROVE  Tells(tally.asked, tally.charged, tally.errors, [tally.marred EXCEPT ![m] = @ \cup marks])
BY Marking DEF Tells, TypeInv, TableTypes

\* An event that marks nobody.
LEMMA Nothing ==
    ASSUME TypeInv, NEW m \in Monitors
    PROVE  /\ Marred(m, {}) \in TallyType
           /\ Marred(m, {}).asked = tally.asked /\ Marred(m, {}).charged = tally.charged
           /\ Marred(m, {}).errors = tally.errors /\ Marred(m, {}).marred = tally.marred
<1>1. PICK t \in TallyType : t = tally BY DEF TypeInv, TableTypes
<1>2. [t.marred EXCEPT ![m] = @ \cup {}] = t.marred BY DEF TallyType
<1>3. {} \in SUBSET Marks OBVIOUS
<1>4. /\ Marred(m, {}) \in TallyType /\ Marred(m, {}).asked = t.asked /\ Marred(m, {}).charged = t.charged
      /\ Marred(m, {}).errors = t.errors /\ Marred(m, {}).marred = [t.marred EXCEPT ![m] = @ \cup {}]
    BY <1>1, <1>3, Marking
<1> QED  BY <1>1, <1>2, <1>4

\* The failures of m, forgotten or not.
LEMMA Clearing ==
    ASSUME NEW t \in TallyType, NEW m \in Monitors
    PROVE  /\ Cleared(m, t) \in TallyType
           /\ Cleared(m, t).asked = t.asked /\ Cleared(m, t).charged = t.charged /\ Cleared(m, t).marred = t.marred
           /\ Cleared(m, t).errors = IF \E w \in Workers : At(w, m, "saveFailure") THEN t.errors
                                     ELSE [t.errors EXCEPT ![m] = 0]
<1>1. PICK e \in [Monitors -> Nat] : e = t.errors BY DEF TallyType
<1>2. PICK x \in [Monitors -> Nat] : x = IF \E w \in Workers : At(w, m, "saveFailure") THEN e ELSE [e EXCEPT ![m] = 0]
    OBVIOUS
<1>3. Cleared(m, t) = [t EXCEPT !.errors = x] BY <1>2, <1>1 DEF Cleared, TallyType
<1> QED  BY <1>1, <1>2, <1>3, Replacing

\* A monitor that falls due was asked for once more.
LEMMA TimePassesTells ==
    ASSUME TypeInv, NEW m \in Monitors, TimePasses(m)
    PROVE  Tells([tally.asked EXCEPT ![m] = @ + 1], tally.charged, tally.errors, tally.marred)
<1>1. PICK t \in TallyType : t = tally BY DEF TypeInv, TableTypes
<1>2. PICK x \in [Monitors -> Nat] : x = [t.asked EXCEPT ![m] = @ + 1]
    <2>1. PICK a \in [Monitors -> Nat] : a = t.asked BY DEF TallyType
    <2>2. a[m] + 1 \in Nat OBVIOUS
    <2> QED  BY <2>1, <2>2
<1>3. PICK n \in Nat : n = t.times + 1 BY DEF TallyType
<1>4. tally' = [t EXCEPT !.asked = x, !.times = n] BY <1>1, <1>2, <1>3 DEF TimePasses, TallyType
<1>5. /\ tally' \in TallyType /\ tally'.asked = x /\ tally'.charged = t.charged
      /\ tally'.errors = t.errors /\ tally'.marred = t.marred
    BY <1>4 DEF TallyType
<1> QED  BY <1>1, <1>2, <1>5 DEF Tells

\* What a check that fails loses; the second charge is only to be feared when
\* the failure cannot be stored either.
LEMMA CheckFailsTells ==
    ASSUME TypeInv, NEW w \in Workers, NEW m \in Monitors, CheckFails(w, m)
    PROVE  Tells(tally.asked, tally.charged, [tally.errors EXCEPT ![m] = @ + 1],
                 IF GoneAt(w, m) THEN tally.marred
                 ELSE [tally.marred EXCEPT ![m] = @ \cup (Loses(w, m) \ {"again"})])
<1>1. PICK t \in TallyType : t = IF GoneAt(w, m) THEN tally ELSE Marred(m, Loses(w, m) \ {"again"})
    BY Marking DEF TypeInv, TableTypes, Loses, Marks
<1>2. tally' = [t EXCEPT !.errors[m] = @ + 1] BY <1>1 DEF CheckFails
<1>3. /\ tally' \in TallyType /\ tally'.asked = t.asked /\ tally'.charged = t.charged /\ tally'.marred = t.marred
      /\ tally'.errors = [t.errors EXCEPT ![m] = @ + 1]
    <2>1. PICK e \in [Monitors -> Nat] : e = t.errors BY DEF TallyType
    <2>2. PICK x \in [Monitors -> Nat] : x = [e EXCEPT ![m] = @ + 1]
        <3>1. e[m] + 1 \in Nat OBVIOUS
        <3> QED  BY <3>1
    <2>3. tally' = [t EXCEPT !.errors = x] BY <1>2, <2>1, <2>2 DEF TallyType
    <2>4. tally' \in TallyType /\ tally'.asked = t.asked /\ tally'.charged = t.charged /\ tally'.marred = t.marred
          /\ tally'.errors = x
        BY <2>3 DEF TallyType
    <2> QED  BY <2>1, <2>2, <2>4
<1>4. CASE GoneAt(w, m) BY <1>1, <1>3, <1>4 DEF Tells
<1>5. CASE ~GoneAt(w, m)
    <2>1. Loses(w, m) \ {"again"} \in SUBSET Marks BY DEF Loses, Marks
    <2>2. /\ t.asked = tally.asked /\ t.charged = tally.charged /\ t.errors = tally.errors
          /\ t.marred = [tally.marred EXCEPT ![m] = @ \cup (Loses(w, m) \ {"again"})]
        BY <1>1, <1>5, <2>1, Marking DEF TypeInv, TableTypes
    <2> QED  BY <1>3, <1>5, <2>2 DEF Tells
<1> QED  BY <1>4, <1>5

\* A check that throws is marked: its recheck may be tried again.
LEMMA SaveFailureFailsTells ==
    ASSUME TypeInv, NEW w \in Workers, NEW m \in Monitors, SaveFailureFails(w, m)
    PROVE  Tells(tally.asked, tally.charged, tally.errors,
                 IF Exists(m) THEN [tally.marred EXCEPT ![m] = @ \cup {"again"}] ELSE tally.marred)
  BY Marks1, Silent DEF Marks, SaveFailureFails

\* A change is told of, or the monitor is marked as untold.
LEMMA DispatchTells ==
    ASSUME TypeInv, NEW w \in Workers, NEW m \in Monitors, Dispatch(w, m)
    PROVE  \/ /\ checks' = [checks EXCEPT ![m][check[w][m].row].told = @ + 1]
              /\ Tells(tally.asked, tally.charged, tally.errors, tally.marred)
           \/ /\ UNCHANGED checks
              /\ Tells(tally.asked, tally.charged, tally.errors, [tally.marred EXCEPT ![m] = @ \cup {"untold"}])
  BY Marks1, Silent DEF Marks, Dispatch

\* A monitor is marked when its lock runs out under the check.
LEMMA LockOutlivedTells ==
    ASSUME TypeInv, NEW m \in Monitors, LockOutlived(m)
    PROVE  Tells(tally.asked, tally.charged, tally.errors, [tally.marred EXCEPT ![m] = @ \cup {"slow"}])
BY Marks1 DEF LockOutlived, Marks

\* A recheck is one asking; it makes the monitor due, which is another.
LEMMA RecheckTells ==
    ASSUME TypeInv, NEW m \in Monitors, NEW id \in Rechecks, Recheck(m, id)
    PROVE  Tells([tally.asked EXCEPT ![m] = @ + (IF IsDue(m) THEN 1 ELSE 2)], tally.charged, tally.errors, tally.marred)
<1>1. PICK t \in TallyType : t = Marred(m, {}) BY Nothing
<1>2. PICK n \in Nat : n = IF IsDue(m) THEN 1 ELSE 2 OBVIOUS
<1>3. tally' = [t EXCEPT !.asked[m] = @ + n] BY <1>1, <1>2 DEF Recheck
<1>4. /\ tally' \in TallyType /\ tally'.errors = t.errors /\ tally'.charged = t.charged /\ tally'.marred = t.marred
      /\ tally'.asked = [t.asked EXCEPT ![m] = @ + n]
    BY <1>3 DEF TallyType
<1> QED  BY <1>1, <1>2, <1>4, Nothing DEF Tells

\* What the owner's requests tell: nothing, or that failures are forgotten.
LEMMA CheckCapTells ==
    ASSUME TypeInv, NEW r \in Requests, NEW m \in Monitors, CheckCap(r, m)
    PROVE  Tells(tally.asked, tally.charged, tally.errors, tally.marred)
BY Nothing DEF CheckCap, Tells

\* The failures of m are forgotten, unless one is being stored.
Forgets(m) ==
    Tells(tally.asked, tally.charged, IF \E w \in Workers : At(w, m, "saveFailure") THEN tally.errors
                                      ELSE [tally.errors EXCEPT ![m] = 0], tally.marred)

\* A monitor that is saved is due later, and its count of failures starts anew.
LEMMA SaveMonitorTells ==
    ASSUME TypeInv, NEW r \in Requests, SaveMonitor(r)
    PROVE  /\ request[r].monitor \in Monitors
           /\ \/ /\ UNCHANGED <<monitor, due>> /\ Tells(tally.asked, tally.charged, tally.errors, tally.marred)
              \/ /\ Forgets(request[r].monitor) /\ due' = NotDue(request[r].monitor)
                 /\ monitor' = [monitor EXCEPT ![request[r].monitor] =
                                   IF Exists(request[r].monitor) THEN Reactivated(request[r].monitor) ELSE NewMonitor]
<1>1. PICK m \in Monitors : m = request[r].monitor BY DEF SaveMonitor, TypeInv, FlowTypes
<1>2. CASE request[r].found = Exists(m)
    <2>1. tally' = Cleared(m, tally) /\ tally \in TallyType BY <1>1, <1>2 DEF SaveMonitor, TypeInv, TableTypes
    <2>2. Forgets(m) BY <2>1, Clearing DEF Forgets, Tells
    <2> QED  BY <1>1, <1>2, <2>2 DEF SaveMonitor
<1>3. CASE request[r].found # Exists(m) BY <1>1, <1>3, Silent DEF SaveMonitor
<1> QED  BY <1>2, <1>3

\* A patch reactivates, stops, or sets what is told.
LEMMA PatchTells ==
    ASSUME TypeInv, NEW m \in Monitors, Patch(m)
    PROVE  \/ /\ monitor' = [monitor EXCEPT ![m].active = TRUE, ![m].paused = FALSE, ![m].failures = 0]
              /\ due' = NotDue(m) /\ Forgets(m)
           \/ /\ Tells(tally.asked, tally.charged, tally.errors, tally.marred)
              /\ \/ monitor' = [monitor EXCEPT ![m].active = FALSE] /\ UNCHANGED due
                 \/ UNCHANGED monitor /\ due' = NotDue(m)
                 \/ monitor' = [monitor EXCEPT ![m].notify = ~@] /\ UNCHANGED due
<1>1. PICK t \in TallyType : t = Marred(m, {}) BY Nothing
<1>2. t.asked = tally.asked /\ t.charged = tally.charged /\ t.errors = tally.errors /\ t.marred = tally.marred
    BY <1>1, Nothing
<1>3. CASE /\ monitor' = [monitor EXCEPT ![m].active = TRUE, ![m].paused = FALSE, ![m].failures = 0]
           /\ due' = NotDue(m) /\ tally' = Cleared(m, t)
  BY <1>2, <1>3, Clearing DEF Forgets, Tells
<1>4. CASE /\ tally' = t
           /\ \/ monitor' = [monitor EXCEPT ![m].active = FALSE] /\ UNCHANGED due
              \/ UNCHANGED monitor /\ due' = NotDue(m)
              \/ monitor' = [monitor EXCEPT ![m].notify = ~@] /\ UNCHANGED due
  BY <1>2, <1>4 DEF Tells
<1> QED  BY <1>1, <1>3, <1>4 DEF Patch

\* Deleting a monitor tells nothing.
LEMMA DeleteMonitorTells ==
    ASSUME TypeInv, NEW m \in Monitors, DeleteMonitor(m)
    PROVE  Tells(tally.asked, tally.charged, tally.errors, tally.marred)
BY Nothing DEF DeleteMonitor, Tells

\* The monitor m is now x.
Sets(m, x) == x \in MonitorType /\ monitor' = [monitor EXCEPT ![m] = x]

\* A success sets the count of failures to zero, and does not pause.
LEMMA UpdateSets ==
    ASSUME TypeInv, NEW w \in Workers, NEW m \in Monitors, Update(w, m)
    PROVE  \E x : Sets(m, x) /\ x.failures = 0 /\ x.exists = monitor[m].exists /\ x.paused = monitor[m].paused
<1>1. PICK y \in MonitorType : y = monitor[m] BY DEF TypeInv, TableTypes
<1>2. PICK s \in Verdicts : s = check[w][m].new BY DEF TypeInv, FlowTypes, CheckType
<1>3. PICK x : x = [y EXCEPT !.last = s, !.failures = 0] OBVIOUS
<1>4. x \in MonitorType /\ x.failures = 0 /\ x.exists = y.exists /\ x.paused = y.paused BY <1>3 DEF MonitorType
<1>5. monitor' = [monitor EXCEPT ![m] = x] BY <1>1, <1>2, <1>3 DEF Update, TypeInv, TableTypes, MonitorType
<1> QED  BY <1>1, <1>4, <1>5 DEF Sets

\* A failure that is stored counts one more, and pauses only at the limit.
LEMMA SaveFailureSets ==
    ASSUME TypeInv, NEW w \in Workers, NEW m \in Monitors, SaveFailure(w, m)
    PROVE  \E x : /\ Sets(m, x) /\ x.failures = check[w][m].failures + 1 /\ x.exists = monitor[m].exists
                  /\ x.paused => monitor[m].paused \/ x.failures >= MAX_CONSECUTIVE_FAILURES
<1>1. PICK y \in MonitorType : y = monitor[m] BY DEF TypeInv, TableTypes
<1>2. PICK n \in Nat : n = check[w][m].failures + 1 BY DEF TypeInv, FlowTypes, CheckType
<1>3. PICK p \in BOOLEAN, a \in BOOLEAN :
         p = (y.paused \/ ShouldPause(n)) /\ a = (y.active /\ ~ShouldPause(n))
    BY DEF MonitorType
<1>4. PICK x : x = [y EXCEPT !.failures = n, !.paused = p, !.active = a] OBVIOUS
<1>5. x \in MonitorType /\ x.failures = n /\ x.exists = y.exists /\ x.paused = p BY <1>4 DEF MonitorType
<1>6. monitor' = [monitor EXCEPT ![m].failures = n,
                          ![m].paused = @ \/ ShouldPause(n), ![m].active = @ /\ ~ShouldPause(n)]
    BY <1>2 DEF SaveFailure
<1>7. monitor' = [monitor EXCEPT ![m] = x] BY <1>1, <1>3, <1>4, <1>6 DEF TypeInv, TableTypes, MonitorType
<1> QED  BY <1>1, <1>2, <1>3, <1>5, <1>7 DEF Sets, ShouldPause

\* The rows of the owner's requests.
LEMMA NewMonitors ==
    /\ NewMonitor \in MonitorType /\ NewMonitor.exists /\ NewMonitor.failures = 0 /\ ~NewMonitor.paused
    /\ NoMonitor \in MonitorType /\ ~NoMonitor.exists /\ NoMonitor.failures = 0 /\ ~NoMonitor.paused
<1>1. PICK t \in BOOLEAN, f \in BOOLEAN : t = TRUE /\ f = FALSE OBVIOUS
<1>2. NewMonitor = [exists |-> t, active |-> t, paused |-> f, notify |-> t, last |-> NoStatus, failures |-> 0]
    BY <1>1 DEF NewMonitor
<1>3. NoMonitor = [exists |-> f, active |-> f, paused |-> f, notify |-> t, last |-> NoStatus, failures |-> 0]
    <2>1. NoMonitor = [NewMonitor EXCEPT !.exists = f, !.active = f] BY <1>1 DEF NoMonitor
    <2> QED  BY <1>2, <2>1
<1>4. NewMonitor \in MonitorType /\ NoMonitor \in MonitorType BY <1>2, <1>3 DEF MonitorType, Verdicts
<1>5. NewMonitor.exists = t /\ NewMonitor.failures = 0 /\ NewMonitor.paused = f BY <1>2
<1>6. NoMonitor.exists = f /\ NoMonitor.failures = 0 /\ NoMonitor.paused = f BY <1>3
<1> QED  BY <1>1, <1>4, <1>5, <1>6

\* A monitor that is saved exists, has no failures and is not paused.
LEMMA SaveMonitorSets ==
    ASSUME TypeInv, NEW m \in Monitors,
           monitor' = [monitor EXCEPT ![m] = IF Exists(m) THEN Reactivated(m) ELSE NewMonitor]
    PROVE  \E x : Sets(m, x) /\ x.exists /\ x.failures = 0 /\ ~x.paused
<1>1. CASE Exists(m)
    <2>1. PICK y \in MonitorType : y = monitor[m] BY DEF TypeInv, TableTypes
    <2>2. PICK t \in BOOLEAN, f \in BOOLEAN : t = TRUE /\ f = FALSE OBVIOUS
    <2>3. PICK x : x = [y EXCEPT !.active = t, !.paused = f, !.failures = 0, !.notify = t] OBVIOUS
    <2>4. x \in MonitorType /\ x.exists = y.exists /\ x.failures = 0 /\ x.paused = f BY <2>3 DEF MonitorType
    <2>5. monitor' = [monitor EXCEPT ![m] = x] BY <1>1, <2>1, <2>2, <2>3 DEF Reactivated
    <2> QED  BY <1>1, <2>1, <2>2, <2>4, <2>5 DEF Sets, Exists
<1>2. CASE ~Exists(m) BY <1>2, NewMonitors DEF Sets
<1> QED  BY <1>1, <1>2

\* A patch keeps the count of failures, or reactivates; it never pauses.
LEMMA PatchSets ==
    ASSUME TypeInv, NEW m \in Monitors, Patch(m)
    PROVE  \E x : /\ Sets(m, x) /\ x.exists = monitor[m].exists /\ (x.paused => monitor[m].paused)
                  /\ x.failures = monitor[m].failures \/ (x.failures = 0 /\ ~x.paused)
<1>1. PICK y \in MonitorType : y = monitor[m] BY DEF TypeInv, TableTypes
<1>2. PICK t \in BOOLEAN, f \in BOOLEAN, b \in BOOLEAN : t = TRUE /\ f = FALSE /\ b = ~y.notify OBVIOUS
<1>3. CASE monitor' = [monitor EXCEPT ![m].active = TRUE, ![m].paused = FALSE, ![m].failures = 0]
    <2>1. PICK x : x = [y EXCEPT !.active = t, !.paused = f, !.failures = 0] OBVIOUS
    <2>2. x \in MonitorType /\ x.exists = y.exists /\ x.failures = 0 /\ x.paused = f BY <2>1 DEF MonitorType
    <2>3. monitor' = [monitor EXCEPT ![m] = x] BY <1>1, <1>2, <1>3, <2>1 DEF TypeInv, TableTypes, MonitorType
    <2> QED  BY <1>1, <1>2, <2>2, <2>3 DEF Sets
<1>4. CASE monitor' = [monitor EXCEPT ![m].active = FALSE]
    <2>1. PICK x : x = [y EXCEPT !.active = f] OBVIOUS
    <2>2. x \in MonitorType /\ x.exists = y.exists /\ x.failures = y.failures /\ x.paused = y.paused
        BY <2>1 DEF MonitorType
    <2>3. monitor' = [monitor EXCEPT ![m] = x] BY <1>1, <1>2, <1>4, <2>1
    <2> QED  BY <1>1, <1>2, <2>2, <2>3 DEF Sets
<1>5. CASE UNCHANGED monitor BY <1>1, <1>5 DEF TypeInv, TableTypes, Sets
<1>6. CASE monitor' = [monitor EXCEPT ![m].notify = ~@]
    <2>1. PICK x : x = [y EXCEPT !.notify = b] OBVIOUS
    <2>2. x \in MonitorType /\ x.exists = y.exists /\ x.failures = y.failures /\ x.paused = y.paused
        BY <2>1 DEF MonitorType
    <2>3. monitor' = [monitor EXCEPT ![m] = x] BY <1>1, <1>2, <1>6, <2>1
    <2> QED  BY <1>1, <1>2, <2>2, <2>3 DEF Sets
<1> QED  BY <1>3, <1>4, <1>5, <1>6 DEF Patch

------------------------------------------------------------------------------
(* Every step keeps the types. *)

\* The types, table by table.
LEMMA Typed ==
    ASSUME TypeInv, FlowTypes', monitor' \in [Monitors -> MonitorType],
           checks' \in [Monitors -> Seq(RowType)], usage' \in Nat,
           locks' \in [Monitors -> Workers \cup {Free}], tally' \in TallyType
    PROVE  TypeInv'
BY DEF TypeInv, TableTypes

\* What is told has the type of a tally, and so has silence.
LEMMA Typing ==
    ASSUME TypeInv
    PROVE  /\ UNCHANGED tally => tally' \in TallyType
           /\ UNCHANGED monitor => monitor' \in [Monitors -> MonitorType]
           /\ UNCHANGED checks => checks' \in [Monitors -> Seq(RowType)]
           /\ UNCHANGED usage => usage' \in Nat
           /\ UNCHANGED locks => locks' \in [Monitors -> Workers \cup {Free}]
           /\ UNCHANGED <<queue, worker, check, request>> => FlowTypes'
BY DEF TypeInv, TableTypes, FlowTypes, IsQueue

\* A monitor that is set stays one.
LEMMA SetTypes ==
    ASSUME TypeInv, NEW m \in Monitors, NEW x, Sets(m, x) PROVE monitor' \in [Monitors -> MonitorType]
BY DEF TypeInv, TableTypes, Sets

\* A row that is told of, or marked as sent.
LEMMA RowTypes ==
    ASSUME TypeInv, NEW m \in Monitors, NEW s \in Seq(RowType), checks' = [checks EXCEPT ![m] = s]
    PROVE  checks' \in [Monitors -> Seq(RowType)]
BY DEF TypeInv, TableTypes

\* A step of a check keeps the types.
LEMMA CheckNextTypes ==
    ASSUME TypeInv, NEW w \in Workers, NEW m \in Monitors, CheckNext(w, m) PROVE TypeInv'
<1>1. CASE Lock(w, m) BY <1>1, LockWalks, WalkTypes, Typed, Typing DEF Lock, Put, TypeInv, TableTypes
<1>2. CASE SkipLocked(w, m) \/ DeleteLock(w, m) \/ (Unlock(w, m) /\ Ends(w, m))
    <2>1. Ends(w, m) BY <1>2, SkipLockedEnds, DeleteLockEnds
    <2>2. FlowTypes' /\ tally' \in TallyType BY <2>1, EndTypes
    <2>3. locks' \in [Monitors -> Workers \cup {Free}]
        BY <1>2 DEF SkipLocked, DeleteLock, Unlock, Gone, TypeInv, TableTypes
    <2>4. UNCHANGED <<monitor, checks, usage>> BY <2>1 DEF Ends
    <2> QED  BY <2>2, <2>3, <2>4, Typed, Typing
<1>3. CASE Unlock(w, m) /\ ~Ends(w, m) BY <1>3, UnlockWalks, WalkTypes, Typed, Typing DEF CheckPc, Unlock
<1>4. CASE ReadQuota(w, m) BY <1>4, ReadQuotaWalks, WalkTypes, Typed, Typing DEF ReadQuota
<1>5. CASE Reschedule(w, m) BY <1>5, RescheduleWalks, WalkTypes, Typed, Typing DEF Reschedule
<1>6. CASE Verify(w, m) BY <1>6, VerifyWalks, WalkTypes, Typed, Typing DEF Verify
<1>7. CASE Charge(w, m)
    <2>1. check[w][m].new \in Statuses BY <1>7 DEF Charge, At, TypeInv, FlowTypes
    <2>2. Walks(w, m, "charge", "record") /\ Keeps(w, m) /\ tally' \in TallyType BY <1>7, ChargeWalks DEF Tells
    <2>3. FlowTypes' BY <2>1, <2>2, WalkTypes DEF Keeps
    <2>4. usage' \in Nat BY <1>7 DEF Charge, TypeInv, TableTypes
    <2>5. UNCHANGED <<monitor, checks, locks>> BY <1>7 DEF Charge
    <2> QED  BY <2>2, <2>3, <2>4, <2>5, Typed, Typing
<1>8. CASE Record(w, m)
    <2>1. check[w][m].new \in Statuses BY <1>8 DEF Record, At, TypeInv, FlowTypes
    <2>2. Walks(w, m, "record", "update") /\ check'[w][m].new = check[w][m].new BY <1>8, RecordWalks
    <2>3. FlowTypes' BY <2>1, <2>2, WalkTypes
    <2>4. PICK r \in RowType : checks' = [checks EXCEPT ![m] = Append(@, r)] BY <1>8, RecordWalks
    <2>5. Append(checks[m], r) \in Seq(RowType) BY DEF TypeInv, TableTypes
    <2>6. checks' \in [Monitors -> Seq(RowType)] BY <2>4, <2>5 DEF TypeInv, TableTypes
    <2>7. UNCHANGED <<monitor, usage, locks, tally>> BY <1>8 DEF Record
    <2> QED  BY <2>3, <2>6, <2>7, Typed, Typing
<1>9. CASE Update(w, m) BY <1>9, UpdateWalks, WalkTypes, UpdateSets, SetTypes, Typed, Typing DEF Tells, Update
<1>10. CASE Dispatch(w, m)
    <2>1. FlowTypes' /\ tally' \in TallyType BY <1>10, DispatchWalks, DispatchTells, WalkTypes DEF Tells
    <2>2. checks' \in [Monitors -> Seq(RowType)]
        <3>1. CASE UNCHANGED checks BY <3>1, Typing
        <3>2. CASE checks' = [checks EXCEPT ![m][check[w][m].row].told = @ + 1]
            <4>1. PICK s \in Seq(RowType), i \in Nat : s = checks[m] /\ i = check[w][m].row
                BY DEF TypeInv, TableTypes, FlowTypes, CheckType
            <4>2. CASE i \notin DOMAIN s
                <5>1. [s EXCEPT ![i].told = @ + 1] = s BY <4>2
                <5>2. checks' = [checks EXCEPT ![m] = s] BY <3>2, <4>1, <5>1 DEF TypeInv, TableTypes
                <5> QED  BY <5>2, RowTypes
            <4>3. CASE i \in DOMAIN s
                <5>1. PICK r \in RowType : r = s[i] BY <4>3
                <5>2. PICK n \in Nat : n = r.told + 1 BY DEF RowType
                <5>3. PICK q : q = [r EXCEPT !.told = n] OBVIOUS
                <5>4. q \in RowType BY <5>3 DEF RowType
                <5>5. [s EXCEPT ![i] = q] \in Seq(RowType) BY <4>3, <5>4
                <5>6. checks' = [checks EXCEPT ![m] = [s EXCEPT ![i] = q]]
                    BY <3>2, <4>1, <5>1, <5>2, <5>3 DEF TypeInv, TableTypes, RowType
                <5> QED  BY <5>5, <5>6, RowTypes
            <4> QED  BY <4>2, <4>3
        <3> QED  BY <1>10, <3>1, <3>2, DispatchTells
    <2>3. UNCHANGED <<monitor, usage, locks>> BY <1>10 DEF Dispatch
    <2> QED  BY <2>1, <2>2, <2>3, Typed, Typing
<1>11. CASE MarkSent(w, m)
    <2>1. FlowTypes' BY <1>11, MarkSentWalks, WalkTypes
    <2>2. PICK s \in Seq(RowType), t \in BOOLEAN : s = checks[m] /\ t = TRUE BY DEF TypeInv, TableTypes
    <2>3. PICK z : z = [i \in DOMAIN s |-> IF i >= check[w][m].row THEN [s[i] EXCEPT !.webhookSent = t] ELSE s[i]]
        OBVIOUS
    <2>4. ASSUME NEW i \in DOMAIN s PROVE z[i] \in RowType
        <3>1. PICK r \in RowType : r = s[i] OBVIOUS
        <3>2. [r EXCEPT !.webhookSent = t] \in RowType BY DEF RowType
        <3>3. z[i] = r \/ z[i] = [r EXCEPT !.webhookSent = t] BY <2>3, <3>1
        <3> QED  BY <3>2, <3>3
    <2>5. z \in Seq(RowType) BY <2>3, <2>4
    <2>6. checks' = [checks EXCEPT ![m] = z] BY <1>11, <2>2, <2>3 DEF MarkSent
    <2>7. checks' \in [Monitors -> Seq(RowType)] BY <2>5, <2>6, RowTypes
    <2>8. UNCHANGED <<monitor, usage, locks, tally>> BY <1>11 DEF MarkSent
    <2> QED  BY <2>1, <2>7, <2>8, Typed, Typing
<1>12. CASE CheckFails(w, m)
  BY <1>12, CheckFailsWalks, WalkTypes, CheckFailsTells, Typed, Typing DEF Tells, CheckFails
<1>13. CASE SaveFailure(w, m)
  BY <1>13, SaveFailureWalks, WalkTypes, SaveFailureSets, SetTypes, Typed, Typing DEF SaveFailure
<1>14. CASE SaveFailureFails(w, m)
  BY <1>14, SaveFailureFailsWalks, SaveFailureFailsTells, WalkTypes, Typed, Typing DEF Tells, SaveFailureFails
<1> QED  BY <1>1, <1>2, <1>3, <1>4, <1>5, <1>6, <1>7, <1>8, <1>9, <1>10, <1>11, <1>12, <1>13, <1>14 DEF CheckNext

\* A worker takes or leaves a job.
LEMMA WorkerTypes ==
    ASSUME TypeInv, NEW w \in Workers,
           StartTick(w) \/ StartChunk(w) \/ EndTick(w) \/ WorkerCrash(w) \/ \E id \in Rechecks : StartRecheck(w, id)
    PROVE  TypeInv'
<1>0. IsQueue(queue) BY DEF TypeInv, FlowTypes
<1>1. CASE StartTick(w)
  BY <1>1, TickStarts, Taking, NotChecking, <1>0, HireTypes, Typed, Typing DEF CheckPc, Turns, StartTick,
     IsQueue
<1>2. CASE StartChunk(w)
    <2> DEFINE chunk == Earliest(worker[w].todo, MONITOR_CONCURRENCY)
    <2>1. PICK x \in WorkerType : Hires(w, x) /\ x.kind = "tick" BY <1>2, ChunkStarts
    <2>2. PICK f \in [Monitors -> CheckType] :
             Turns(w, f) /\ \A m \in Monitors : f[m].pc = "lock" \/ f[m] = check[w][m]
        BY <1>2, ChunkStarts
    <2>3. \A v \in Workers, n \in Monitors :
              check'[v][n].pc \in {"charge", "record", "update"} => check'[v][n] = check[v][n]
        BY <2>2 DEF Turns
    <2>4. UNCHANGED <<monitor, checks, usage, locks, tally, queue, request>> BY <1>2 DEF StartChunk
    <2>5. IsQueue(queue') /\ DOMAIN queue \subseteq DOMAIN queue' BY <1>0, <2>4 DEF IsQueue
    <2>6. FlowTypes' BY <2>1, <2>2, <2>3, <2>4, <2>5, HireTypes DEF Turns
    <2> QED  BY <2>4, <2>6, Typed, Typing
<1>3. CASE EndTick(w)
  BY <1>3, NotWorking, <1>0, HireTypes, Typed, Typing DEF EndTick, Hires, IsQueue, TypeInv, FlowTypes
<1>4. CASE WorkerCrash(w)
  BY <1>4, Dying, NotChecking, <1>0, NotWorking, HireTypes, Typed, Typing DEF Tells, Turns, WorkerCrash, Only,
     IsQueue
<1>5. CASE \E id \in Rechecks : StartRecheck(w, id)
    <2>1. PICK id \in Rechecks : StartRecheck(w, id) BY <1>5
    <2>2. UNCHANGED <<monitor, checks, usage, locks, tally, request>> BY <2>1 DEF StartRecheck
    <2>3. id \in DOMAIN queue /\ IsQueue(queue') /\ DOMAIN queue = DOMAIN queue' BY <2>1, RecheckStarts DEF Only
    <2>4. FlowTypes' BY <2>2, <2>3, HireTypes, <2>1, RecheckStarts DEF TypeInv, FlowTypes, Becomes, Others
    <2> QED  BY <2>2, <2>4, Typed, Typing
<1> QED  BY <1>1, <1>2, <1>3, <1>4, <1>5

\* Time, the locks and the owner.
LEMMA OwnerTypes ==
    ASSUME TypeInv,
           \/ \E m \in Monitors : TimePasses(m) \/ LockExpires(m) \/ LockOutlived(m)
           \/ OwnerNext
    PROVE  TypeInv'
<1>0. IsQueue(queue) BY DEF TypeInv, FlowTypes
<1>1. ASSUME NEW m \in Monitors, TimePasses(m) PROVE TypeInv'
  BY <1>1, TimePassesTells, Typed, Typing DEF TimePasses, Tells
<1>2. ASSUME NEW m \in Monitors, LockExpires(m) \/ LockOutlived(m) PROVE TypeInv'
  BY <1>2, LockOutlivedTells, Typing, Typed DEF LockExpires, LockOutlived, Tells, Gone, TypeInv, TableTypes
<1>3. ASSUME NEW r \in Requests, NEW m \in Monitors, CheckCap(r, m) PROVE TypeInv'
  BY <1>3, CheckCapTells, <1>0, Typed, Typing DEF CheckCap, Tells, TypeInv, TableTypes, MonitorType, Exists,
     RequestType, FlowTypes, IsQueue
<1>4. ASSUME NEW r \in Requests, SaveMonitor(r) PROVE TypeInv'
  BY <1>4, SaveMonitorTells, Typing, SaveMonitorSets, SetTypes, <1>0, Typed DEF SaveMonitor, Tells, Forgets,
     RequestType, TypeInv, FlowTypes, IsQueue
<1>5. ASSUME NEW m \in Monitors, Patch(m) PROVE TypeInv'
  BY <1>5, PatchTells, PatchSets, SetTypes, Typed, Typing DEF Patch, Tells, Forgets
<1>6. ASSUME NEW m \in Monitors, DeleteMonitor(m) PROVE TypeInv'
  BY <1>6, DeleteMonitorTells, NewMonitors, SetTypes, Typed, Typing DEF DeleteMonitor, Tells, Sets
<1>7. ASSUME NEW m \in Monitors, NEW id \in Rechecks, Recheck(m, id) PROVE TypeInv'
    <2>1. UNCHANGED <<monitor, checks, usage, locks, worker, check, request>> BY <1>7 DEF Recheck
    <2>2. tally' \in TallyType BY <1>7, RecheckTells DEF Tells
    <2>3. id \in Rechecks \ DOMAIN queue /\ queue' = Add(queue, id, [monitor |-> m, attempts |-> 1])
        BY <1>7 DEF Recheck, Has
    <2>4. IsQueue(queue') /\ DOMAIN queue' = DOMAIN queue \cup {id} BY <1>0, <2>3, Added
    <2>5. FlowTypes' BY <2>1, <2>4 DEF TypeInv, FlowTypes
    <2> QED  BY <2>1, <2>2, <2>5, Typed, Typing
<1> QED  BY <1>1, <1>2, <1>3, <1>4, <1>5, <1>6, <1>7 DEF OwnerNext

\* Every step keeps the types.
LEMMA TypesKept == ASSUME TypeInv, [Next]_vars PROVE TypeInv'
  BY Typed, Typing, CheckNextTypes, WorkerTypes, OwnerTypes DEF vars, Next, WorkerNext

------------------------------------------------------------------------------
(* Every step keeps the order in which monitors are due, and the lists.    *)

\* A monitor stops being due, becomes due, or nothing changes; only those
\* that exist become due.
LEMMA Dues ==
    ASSUME TypeInv, [Next]_vars
    PROVE  \/ UNCHANGED due
           \/ \E m \in Monitors : due' = NotDue(m)
           \/ \E m \in Monitors : due' = DueNow(m) /\ Exists(m) /\ UNCHANGED <<monitor, checks>>
<1>1. CASE UNCHANGED vars BY <1>1 DEF vars
<1>2. ASSUME NEW w \in Workers, WorkerNext(w) \/ WorkerCrash(w) PROVE UNCHANGED due \/ \E m \in Monitors : due' = NotDue(m)
    <2>1. CASE WorkerCrash(w) \/ StartTick(w) \/ StartChunk(w) \/ EndTick(w) \/ \E id \in Rechecks : StartRecheck(w, id)
        BY <2>1 DEF WorkerCrash, StartTick, StartChunk, EndTick, StartRecheck
    <2>2. ASSUME NEW m \in Monitors, CheckNext(w, m) PROVE UNCHANGED due \/ due' = NotDue(m)
        BY <2>2 DEF CheckNext, Lock, SkipLocked, ReadQuota, Reschedule, Verify, Charge, Record, Update, AfterCheck,
                    Dispatch, MarkSent, CheckFails, SaveFailure, SaveFailureFails, Unlock, DeleteLock
    <2> QED  BY <1>2, <2>1, <2>2 DEF WorkerNext
<1>3. ASSUME NEW m \in Monitors, TimePasses(m) \/ LockExpires(m) \/ LockOutlived(m)
      PROVE  UNCHANGED due \/ (due' = DueNow(m) /\ Exists(m) /\ UNCHANGED <<monitor, checks>>)
    BY <1>3 DEF TimePasses, LockExpires, LockOutlived
<1>4. ASSUME NEW r \in Requests, SaveMonitor(r) PROVE UNCHANGED due \/ \E m \in Monitors : due' = NotDue(m)
    BY <1>4, SaveMonitorTells
<1>5. ASSUME NEW r \in Requests, NEW m \in Monitors, CheckCap(r, m) PROVE UNCHANGED due BY <1>5 DEF CheckCap
<1>6. ASSUME NEW m \in Monitors, Patch(m) \/ DeleteMonitor(m) PROVE UNCHANGED due \/ due' = NotDue(m)
    BY <1>6 DEF Patch, DeleteMonitor
<1>7. ASSUME NEW m \in Monitors, NEW id \in Rechecks, Recheck(m, id)
      PROVE  due' = DueNow(m) /\ Exists(m) /\ UNCHANGED <<monitor, checks>>
    BY <1>7 DEF Recheck
<1> QED  BY <1>1, <1>2, <1>3, <1>4, <1>5, <1>6, <1>7 DEF Next, OwnerNext

\* What is due is in order.
LEMMA DueKept ==
    ASSUME TypeInv, IsOrder(due), [Next]_vars PROVE IsOrder(due')
<1>1. \A m \in Monitors : IsOrder(NotDue(m)) /\ IsOrder(DueNow(m)) BY AmongOrder, DueNowOrder DEF NotDue
<1> QED  BY <1>1, Dues

\* A worker whose list stays, and whose checks start or end nowhere.
LEMMA StillWorks ==
    ASSUME NEW v \in Workers, Work(v), worker'[v] = worker[v],
           \A n \in Monitors : /\ check'[v][n].pc = "none" <=> check[v][n].pc = "none"
                               /\ check'[v][n].pc = "listed" <=> check[v][n].pc = "listed"
    PROVE  Work(v)'
  BY DEF Busy, Work, Idle

\* A worker with nothing to do.
LEMMA Rests ==
    ASSUME NEW w \in Workers, worker'[w].todo = {}, worker'[w].kind # "tick",
           \A n \in Monitors : check'[w][n].pc = "none"
    PROVE  Work(w)'
<1>1. Busy(w)' = {} BY DEF Busy
<1>2. PICK B : B = Busy(w)' OBVIOUS
<1>3. IsFiniteSet(B) /\ Cardinality(B) = 0 BY <1>1, <1>2, FS_EmptySet
<1>4. 0 <= MONITOR_CONCURRENCY BY MonitorAssumption
<1>5. IsOrder({}) /\ Listed({}) = {} BY DEF IsOrder, Listed
<1> QED  BY <1>1, <1>2, <1>3, <1>4, <1>5 DEF Work, Idle

\* A check goes on.
LEMMA WalkWorks ==
    ASSUME WorkInv, NEW w \in Workers, NEW m \in Monitors, NEW from, NEW to, Walks(w, m, from, to),
           from \notin {"none", "listed"}, to \notin {"none", "listed"}, NEW v \in Workers
    PROVE  Work(v)'
BY StillWorks DEF Walks, Others, WorkInv

\* A check ends.
LEMMA EndWorks ==
    ASSUME TypeInv, WorkInv, NEW w \in Workers, NEW m \in Monitors, Ends(w, m), NEW v \in Workers PROVE Work(v)'
<1>0. Work(w) /\ Work(v) BY DEF WorkInv
<1>1. CASE v # w BY <1>1, <1>0, StillWorks DEF Ends, TypeInv, FlowTypes, Others
<1>2. CASE v = w /\ worker[w].kind = "recheck"
    <2>1. worker'[w] = IdleWorker BY <1>2 DEF Ends, TypeInv, FlowTypes
    <2>2. m \in Busy(w) BY DEF Ends, Busy
    <2>3. ASSUME NEW n \in Monitors PROVE check'[w][n].pc = "none"
        <3>1. CASE n = m BY <3>1 DEF Ends
        <3>2. CASE n # m BY <1>0, <1>2, <2>2, <3>2 DEF Work, Listed, Busy, Ends, Others
        <3> QED  BY <3>1, <3>2
    <2> QED  BY <1>2, <2>1, <2>3, NotWorking, Rests
<1>3. CASE v = w /\ worker[w].kind # "recheck"
  BY <1>3, <1>0, FS_Subset, FS_CardinalityType, MonitorAssumption DEF Ends, Busy, Others, Work, Idle
<1> QED  BY <1>1, <1>2, <1>3

\* A tick takes its batch, in the order of `due`.
LEMMA TickWorks ==
    ASSUME TypeInv, WorkInv, NEW w \in Workers, StartTick(w) PROVE Work(w)'
<1>1. IsOrder(Batch) BY AmongOrder DEF WorkInv, ToCheck, Earliest, Batch
<1>2. worker'[w].kind = "tick" /\ worker'[w].todo = Batch BY TickStarts DEF Hires, TypeInv, FlowTypes
<1>3. \A m \in Monitors : check'[w][m] = IF m \in Listed(Batch) THEN Snapshot(m, "listed") ELSE NoCheck
    BY TickStarts DEF Turns
<1>4. \A m \in Monitors : check'[w][m].pc = IF m \in Listed(Batch) THEN "listed" ELSE "none"
    BY <1>3, Taking, NotChecking DEF CheckPc
<1>5. Busy(w)' = {} BY <1>4 DEF Busy
<1>6. PICK B : B = Busy(w)' OBVIOUS
<1>7. IsFiniteSet(B) /\ Cardinality(B) = 0 BY <1>5, <1>6, FS_EmptySet
<1>8. 0 <= MONITOR_CONCURRENCY BY MonitorAssumption
<1> QED  BY <1>1, <1>2, <1>4, <1>6, <1>7, <1>8 DEF Work

\* A chunk is the beginning of the list, and no longer than it may be.
LEMMA ChunkWorks ==
    ASSUME TypeInv, WorkInv, NEW w \in Workers, StartChunk(w) PROVE Work(w)'
<1> DEFINE todo == worker[w].todo
           chunk == Earliest(todo, MONITOR_CONCURRENCY)
<1>0. Work(w) /\ worker[w].kind = "tick" /\ Settled(w) /\ MONITOR_CONCURRENCY \in Nat
    BY MonitorAssumption DEF WorkInv, StartChunk
<1>1. chunk \subseteq Listed(todo) /\ IsFiniteSet(chunk) /\ Cardinality(chunk) <= MONITOR_CONCURRENCY
    BY <1>0, Few DEF Work
<1>2. worker'[w].kind = "tick" /\ worker'[w].todo = Among(todo, Monitors \ chunk)
    BY ChunkStarts DEF Hires, TypeInv, FlowTypes
<1>3. PICK f \in [Monitors -> CheckType] :
         Turns(w, f) /\ \A m \in Monitors : IF m \in chunk THEN f[m].pc = "lock" ELSE f[m] = check[w][m]
    BY ChunkStarts
<1>4. \A m \in Monitors : IF m \in chunk THEN check'[w][m].pc = "lock" ELSE check'[w][m] = check[w][m]
    BY <1>3 DEF Turns
<1>5. Busy(w)' = chunk BY <1>0, <1>1, <1>4 DEF Busy, Settled, Listed
<1>6. IsOrder(worker'[w].todo) /\ Listed(worker'[w].todo) = Listed(todo) \ chunk
  BY <1>0, AmongOrder, <1>2 DEF Work, Listed
<1>7. ASSUME NEW m \in Monitors PROVE m \in Listed(worker'[w].todo) <=> check'[w][m].pc = "listed"
    BY <1>0, <1>1, <1>4, <1>6 DEF Work
<1>8. PICK B : B = chunk OBVIOUS
<1> HIDE DEF chunk, todo
<1> QED  BY <1>1, <1>2, <1>5, <1>6, <1>7, <1>8 DEF Work

\* A tick ends with nothing left to do.
LEMMA EndTickWorks ==
    ASSUME TypeInv, WorkInv, NEW w \in Workers, EndTick(w) PROVE Work(w)'
  BY NotWorking, Rests DEF WorkInv, EndTick, Work, Settled, Listed, TypeInv, FlowTypes

\* A recheck checks one monitor.
LEMMA RecheckWorks ==
    ASSUME TypeInv, WorkInv, NEW w \in Workers, NEW m \in Monitors, NEW x, Hires(w, x), x.kind = "recheck", x.todo = {},
           worker[w].kind = "idle", NEW y \in CheckType, Becomes(w, m, y), y.pc = "lock"
    PROVE  Work(w)'
<1>1. worker'[w] = x BY DEF Hires, TypeInv, FlowTypes
<1>2. ASSUME NEW n \in Monitors PROVE check'[w][n].pc = IF n = m THEN "lock" ELSE "none"
    BY DEF Becomes, Others, WorkInv, Work, Idle
<1>3. PICK B : B = {m} /\ IsFiniteSet(B) /\ Cardinality(B) = 1 BY FS_Singleton
<1>4. Busy(w)' = B BY <1>2, <1>3 DEF Busy
<1>5. 1 <= MONITOR_CONCURRENCY BY MonitorAssumption
<1>6. IsOrder({}) /\ Listed({}) = {} BY DEF IsOrder, Listed
<1>7. worker'[w].kind = "recheck" /\ worker'[w].todo = {} BY <1>1
<1>8. \A n \in Monitors : n \in Listed(worker'[w].todo) <=> check'[w][n].pc = "listed" BY <1>2, <1>6, <1>7
<1>9. \A k, n \in Busy(w)' : k = n BY <1>3, <1>4
<1>10. IsFiniteSet(Busy(w)') /\ Cardinality(Busy(w)') <= MONITOR_CONCURRENCY BY <1>3, <1>4, <1>5
<1> QED  BY <1>6, <1>7, <1>8, <1>9, <1>10 DEF Work

\* A check takes its lock, ends, or goes on behind the lock.
InsidePc == CheckPc \ {"none", "listed", "lock"}
\* A step of a check takes the lock, ends, or goes on inside.
LEMMA CheckSteps ==
    ASSUME TypeInv, NEW w \in Workers, NEW m \in Monitors, CheckNext(w, m)
    PROVE  Lock(w, m) \/ Ends(w, m) \/ \E from, to \in InsidePc : Walks(w, m, from, to)
  BY SkipLockedEnds, DeleteLockEnds, UnlockWalks, ReadQuotaWalks, RescheduleWalks, VerifyWalks, ChargeWalks,
     RecordWalks, UpdateWalks, DispatchWalks, MarkSentWalks, CheckFailsWalks, SaveFailureWalks,
     SaveFailureFailsWalks DEF CheckPc, InsidePc, CheckNext

\* Everything a worker does.
LEMMA WorkKept ==
    ASSUME TypeInv, WorkInv, [Next]_vars PROVE WorkInv'
<1>1. IsOrder(due') BY DueKept DEF WorkInv
<1>2. ASSUME NEW v \in Workers, UNCHANGED <<worker, check>> PROVE Work(v)' BY <1>2, StillWorks DEF WorkInv
<1>3. ASSUME NEW w \in Workers, NEW m \in Monitors, CheckNext(w, m), NEW v \in Workers PROVE Work(v)'
  BY EndWorks, LockWalks, WalkWorks, <1>3, CheckSteps DEF InsidePc
<1>4. ASSUME NEW w \in Workers, NEW x, Hires(w, x), NEW v \in Workers, v # w, check'[v] = check[v] PROVE Work(v)'
  BY <1>4, StillWorks DEF WorkInv, Hires, TypeInv, FlowTypes
<1>5. ASSUME NEW w \in Workers, StartTick(w) \/ StartChunk(w) \/ EndTick(w) \/ WorkerCrash(w), NEW v \in Workers PROVE Work(v)'
    <2>1. Work(w)'
        <3>1. ASSUME WorkerCrash(w) PROVE Work(w)'
            <4>1. worker'[w] = IdleWorker /\ \A n \in Monitors : check'[w][n] = NoCheck
                <5>1. Hires(w, IdleWorker) /\ Turns(w, [n \in Monitors |-> NoCheck]) BY <3>1, Dying
                <5> QED  BY <5>1 DEF Hires, Turns, TypeInv, FlowTypes
            <4> QED  BY <4>1, NotWorking, NotChecking, Rests
        <3> QED  BY <1>5, <3>1, TickWorks, ChunkWorks, EndTickWorks
    <2>2. ASSUME v # w PROVE Work(v)'
    BY NotWorking, <2>2, <1>4, TickStarts, ChunkStarts, Dying, <1>5 DEF EndTick, Hires, Turns
    <2> QED  BY <2>1, <2>2
<1>6. ASSUME NEW w \in Workers, NEW id \in Rechecks, StartRecheck(w, id), NEW v \in Workers PROVE Work(v)'
    <2>1. CASE UNCHANGED <<worker, check>> BY <1>2, <2>1
    <2>2. CASE ~UNCHANGED <<worker, check>>
        <3>1. PICK m \in Monitors : m = queue[id].data.monitor
            BY <1>6, RecheckStarts DEF TypeInv, FlowTypes, IsQueue, JobType
        <3>2. PICK x : Hires(w, x) /\ x.kind = "recheck" /\ x.todo = {} BY <1>6, <2>2, RecheckStarts
        <3>3. PICK y \in CheckType : Becomes(w, m, y) /\ y.pc = "lock" BY <1>6, <2>2, <3>1, RecheckStarts
        <3>4. worker[w].kind = "idle" BY <1>6, RecheckStarts
        <3>5. Work(w)' BY <3>2, <3>3, <3>4, RecheckWorks
        <3>6. ASSUME v # w PROVE Work(v)' BY <3>3, <3>6, <1>4, <3>2 DEF Becomes, Others, TypeInv, FlowTypes
        <3> QED  BY <3>5, <3>6
    <2> QED  BY <2>1, <2>2
<1>7. ASSUME NEW v \in Workers PROVE Work(v)'
  BY <1>2, <1>3, <1>5, <1>6 DEF vars, WorkerNext, OwnerNext, SaveMonitor, CheckCap, Patch, DeleteMonitor,
     Recheck, TimePasses, LockExpires, LockOutlived, Next
<1> QED  BY <1>1, <1>7 DEF WorkInv

------------------------------------------------------------------------------
(* The lock.                                                               *)

\* What marks a monitor stays.
LEMMA MarksStay ==
    ASSUME TypeInv, [Next]_vars, NEW m \in Monitors PROVE tally.marred[m] \subseteq tally'.marred[m]
<1>0. PICK f \in [Monitors -> SUBSET Marks] : f = tally.marred BY DEF TypeInv, TableTypes, TallyType
<1>1. CASE tally'.marred = f BY <1>0, <1>1
<1>2. CASE \E n \in Monitors, marks \in SUBSET Marks : tally'.marred = [f EXCEPT ![n] = @ \cup marks]
    BY <1>0, <1>2
<1>3. ASSUME NEW w \in Workers, NEW n \in Monitors, CheckNext(w, n)
      PROVE  tally'.marred = f \/ \E marks \in SUBSET Marks : tally'.marred = [f EXCEPT ![n] = @ \cup marks]
    <2>1. CASE UNCHANGED tally BY <1>0, <2>1
    <2>2. CASE Ends(w, n) BY <1>0, <2>2 DEF Ends, Tells
    <2>3. CASE Charge(w, n) \/ Update(w, n) BY <1>0, <2>3, ChargeWalks, UpdateWalks DEF Tells
    <2>4. CASE Dispatch(w, n) BY <1>0, <2>4, DispatchTells DEF Marks, Tells
    <2>5. CASE CheckFails(w, n) BY <1>0, <2>5, CheckFailsTells DEF Loses, Marks, Tells
    <2>6. CASE SaveFailureFails(w, n) BY <1>0, <2>6, SaveFailureFailsTells DEF Marks, Tells
    <2>7. CASE SkipLocked(w, n) \/ DeleteLock(w, n) \/ Unlock(w, n)
        BY <2>1, <2>2, <2>7, SkipLockedEnds, DeleteLockEnds, UnlockWalks
    <2>8. CASE Lock(w, n) \/ ReadQuota(w, n) \/ Reschedule(w, n) \/ Verify(w, n) \/ Record(w, n)
               \/ MarkSent(w, n) \/ SaveFailure(w, n)
        BY <2>1, <2>8 DEF Lock, ReadQuota, Reschedule, Verify, Record, MarkSent, SaveFailure
    <2> QED  BY <1>3, <2>3, <2>4, <2>5, <2>6, <2>7, <2>8 DEF CheckNext
<1>4. ASSUME NEW w \in Workers, WorkerCrash(w) PROVE tally'.marred = [n \in Monitors |-> f[n] \cup Loses(w, n)]
    BY <1>0, <1>4, Dying DEF Tells
<1>5. ASSUME NEW w \in Workers, StartTick(w) \/ StartChunk(w) \/ EndTick(w) \/ \E id \in Rechecks : StartRecheck(w, id)
      PROVE  tally'.marred = f
    BY <1>0, <1>5 DEF StartTick, StartChunk, EndTick, StartRecheck
<1>6. ASSUME NEW n \in Monitors, TimePasses(n) \/ LockExpires(n) \/ LockOutlived(n)
      PROVE  tally'.marred = f \/ \E marks \in SUBSET Marks : tally'.marred = [f EXCEPT ![n] = @ \cup marks]
  BY <1>0, TimePassesTells, LockOutlivedTells, <1>6 DEF Marks, Tells, LockExpires
<1>7. CASE OwnerNext
    <2>1. ASSUME NEW r \in Requests, SaveMonitor(r) PROVE tally'.marred = f
        BY <1>0, <2>1, SaveMonitorTells DEF Tells, Forgets
    <2>2. ASSUME NEW r \in Requests, NEW n \in Monitors, CheckCap(r, n) PROVE tally'.marred = f
        BY <1>0, <2>2, CheckCapTells DEF Tells
    <2>3. ASSUME NEW n \in Monitors, Patch(n) PROVE tally'.marred = f
        BY <1>0, <2>3, PatchTells DEF Tells, Forgets
    <2>4. ASSUME NEW n \in Monitors, DeleteMonitor(n) PROVE tally'.marred = f
        BY <1>0, <2>4, DeleteMonitorTells DEF Tells
    <2>5. ASSUME NEW n \in Monitors, NEW id \in Rechecks, Recheck(n, id) PROVE tally'.marred = f
        BY <1>0, <2>5, RecheckTells DEF Tells
    <2> QED  BY <1>1, <1>7, <2>1, <2>2, <2>3, <2>4, <2>5 DEF OwnerNext
<1>8. CASE UNCHANGED vars BY <1>0, <1>1, <1>8 DEF vars
<1> QED  BY <1>0, <1>1, <1>2, <1>3, <1>4, <1>5, <1>6, <1>7, <1>8 DEF Next, WorkerNext

\* Whoever is spared now was spared before.
LEMMA WasSpared ==
    ASSUME TypeInv, [Next]_vars, NEW m \in Monitors, NEW marks, Spared(m, marks)' PROVE Spared(m, marks)
BY MarksStay DEF Spared

\* Locks that stay, and nobody who gets in.
LEMMA StillLocked ==
    ASSUME TypeInv, LockInv, [Next]_vars, UNCHANGED locks,
           \A w \in Workers, m \in Monitors : InsideLock(w, m)' => InsideLock(w, m)
    PROVE  LockInv'
BY WasSpared DEF LockInv

\* The lock is taken when it is free; nobody else gives it back.
LEMMA LockKept ==
    ASSUME TypeInv, WorkInv, LockInv, [Next]_vars PROVE LockInv'
<1>1. ASSUME NEW w \in Workers, NEW m \in Monitors, Lock(w, m) PROVE LockInv'
    <2>1. locks[m] = Free /\ locks' = [locks EXCEPT ![m] = w] BY <1>1 DEF Lock, MayLock, IsFree, Put
    <2>2. Walks(w, m, "lock", "quota") BY <1>1, LockWalks
    <2>3. SUFFICES ASSUME NEW n \in Monitors, NEW v \in Workers, Spared(n, {"slow"})', InsideLock(v, n)'
                   PROVE  locks'[n] = v
        BY DEF LockInv
    <2>4. CASE v = w /\ n = m BY <2>1, <2>4 DEF TypeInv, TableTypes
    <2>5. CASE v # w \/ n # m
        <3>1. InsideLock(v, n) /\ Spared(n, {"slow"})
            BY <2>2, <2>3, <2>5, WasSpared DEF Walks, Others, InsideLock
        <3>2. locks[n] = v BY <3>1 DEF LockInv
        <3>3. n # m BY <2>1, <3>2, MonitorAssumption
        <3> QED  BY <2>1, <3>2, <3>3 DEF TypeInv, TableTypes
    <2> QED  BY <2>4, <2>5
<1>2. ASSUME NEW w \in Workers, NEW m \in Monitors, DeleteLock(w, m) PROVE LockInv'
    <2>1. locks' = [locks EXCEPT ![m] = Free] /\ InsideLock(w, m) BY <1>2 DEF DeleteLock, Gone, InsideLock
    <2>2. Ends(w, m) BY <1>2, DeleteLockEnds
    <2>3. SUFFICES ASSUME NEW n \in Monitors, NEW v \in Workers, Spared(n, {"slow"})', InsideLock(v, n)'
                   PROVE  locks'[n] = v
        BY DEF LockInv
    <2>4. v # w \/ n # m BY <2>2, <2>3 DEF Ends, InsideLock
    <2>5. InsideLock(v, n) /\ Spared(n, {"slow"}) BY <2>2, <2>3, <2>4, WasSpared DEF Ends, Others, InsideLock
    <2>6. locks[n] = v BY <2>5 DEF LockInv
    <2>7. n # m BY <2>1, <2>4, <2>5, <2>6 DEF LockInv
    <2> QED  BY <2>1, <2>6, <2>7 DEF TypeInv, TableTypes
<1>3. ASSUME NEW w \in Workers, NEW m \in Monitors, CheckNext(w, m), ~Lock(w, m), ~DeleteLock(w, m) PROVE LockInv'
    <2>1. UNCHANGED locks
        BY <1>3 DEF CheckNext, SkipLocked, ReadQuota, Reschedule, Verify, Charge, Record, Update,
                    Dispatch, MarkSent, CheckFails, SaveFailure, SaveFailureFails, Unlock
    <2>2. CASE Ends(w, m) BY <2>1, <2>2, StillLocked DEF Ends, Others, InsideLock
    <2>3. CASE \E from, to \in InsidePc : Walks(w, m, from, to)
        BY <2>1, <2>3, StillLocked DEF Walks, Others, InsideLock, InsidePc
    <2> QED  BY <1>3, <2>2, <2>3, CheckSteps
<1>4. ASSUME NEW w \in Workers, StartTick(w) \/ StartChunk(w) \/ EndTick(w) \/ WorkerCrash(w) PROVE LockInv'
    <2>1. UNCHANGED locks BY <1>4 DEF StartTick, StartChunk, EndTick, WorkerCrash
    <2>2. CASE EndTick(w) BY <2>1, <2>2, StillLocked DEF EndTick, InsideLock
    <2>3. CASE StartTick(w)
        <3>1. \A m \in Monitors : check'[w][m].pc \in {"none", "listed"}
            <4>1. \A m \in Monitors : check'[w][m] = Snapshot(m, "listed") \/ check'[w][m] = NoCheck
                BY <2>3, TickStarts DEF Turns
            <4> QED  BY <4>1, Taking, NotChecking DEF CheckPc
        <3>2. \A v \in Workers : v # w => check'[v] = check[v] BY <2>3, TickStarts DEF Turns
        <3> QED  BY <2>1, <3>1, <3>2, StillLocked DEF InsideLock
    <2>4. CASE StartChunk(w)
        <3>1. PICK f \in [Monitors -> CheckType] :
                 Turns(w, f) /\ \A m \in Monitors : f[m].pc = "lock" \/ f[m] = check[w][m]
            BY <2>4, ChunkStarts
        <3> QED  BY <2>1, <3>1, StillLocked DEF Turns, InsideLock
    <2>5. CASE WorkerCrash(w) BY <2>5, Dying, <2>1, NotChecking, StillLocked DEF Turns, InsideLock
    <2> QED  BY <1>4, <2>2, <2>3, <2>4, <2>5
<1>5. ASSUME NEW w \in Workers, NEW id \in Rechecks, StartRecheck(w, id) PROVE LockInv'
    <2>1. UNCHANGED locks BY <1>5 DEF StartRecheck
    <2>2. CASE UNCHANGED check BY <2>1, <2>2, StillLocked DEF InsideLock
    <2>3. CASE \E y \in CheckType : Becomes(w, queue[id].data.monitor, y) /\ y.pc = "lock"
        BY <2>1, <2>3, StillLocked DEF Becomes, Others, InsideLock
    <2> QED  BY <1>5, <2>2, <2>3, RecheckStarts
<1>6. ASSUME NEW m \in Monitors, LockExpires(m) \/ LockOutlived(m) PROVE LockInv'
    <2>1. locks' = [locks EXCEPT ![m] = Free] /\ UNCHANGED check BY <1>6 DEF LockExpires, LockOutlived, Gone
    <2>2. SUFFICES ASSUME NEW n \in Monitors, NEW v \in Workers, Spared(n, {"slow"})', InsideLock(v, n)'
                   PROVE  locks'[n] = v
        BY DEF LockInv
    <2>3. locks[n] = v /\ InsideLock(v, n) BY <2>1, <2>2, WasSpared DEF LockInv, InsideLock
    <2>4. n # m
        <3>1. CASE LockExpires(m) BY <2>3, <3>1 DEF LockExpires, HolderGone
        <3>2. CASE LockOutlived(m)
            <4>1. tally'.marred = [tally.marred EXCEPT ![m] = @ \cup {"slow"}]
                BY <3>2, LockOutlivedTells DEF Tells
            <4> QED  BY <2>2, <4>1 DEF Spared, TypeInv, TableTypes, TallyType
        <3> QED  BY <1>6, <3>1, <3>2
    <2> QED  BY <2>1, <2>3, <2>4 DEF TypeInv, TableTypes
<1>7. CASE UNCHANGED vars \/ OwnerNext \/ \E m \in Monitors : TimePasses(m)
  BY <1>7, StillLocked DEF vars, OwnerNext, SaveMonitor, CheckCap, Patch, DeleteMonitor, Recheck, TimePasses,
     InsideLock
<1> QED  BY <1>1, <1>2, <1>3, <1>4, <1>5, <1>6, <1>7 DEF Next, WorkerNext

------------------------------------------------------------------------------
(* What is gone.                                                           *)

\* A monitor is there for good, unless nothing was ever stored about it.
LEMMA Lives ==
    ASSUME TypeInv, [Next]_vars, NEW n \in Monitors, Exists(n), ~Exists(n)'
    PROVE  due' = NotDue(n) /\ checks[n] = << >> /\ UNCHANGED checks
<1>0. monitor' # monitor BY DEF Exists
<1>1. ASSUME NEW m \in Monitors, NEW x, Sets(m, x), x.exists \/ x.exists = monitor[m].exists PROVE FALSE
    BY <1>1 DEF Sets, Exists, TypeInv, TableTypes
<1>2. ASSUME NEW w \in Workers, NEW m \in Monitors, CheckNext(w, m) PROVE FALSE
  BY <1>1, UpdateSets, SaveFailureSets, <1>0, <1>2 DEF Ends, CheckNext, Lock, SkipLocked, ReadQuota, Reschedule,
     Verify, Charge, Record, Dispatch, MarkSent, CheckFails, SaveFailureFails, Unlock, DeleteLock
<1>3. ASSUME NEW m \in Monitors, Patch(m) PROVE FALSE BY <1>1, <1>3, PatchSets
<1>4. ASSUME NEW r \in Requests, SaveMonitor(r) PROVE FALSE
  BY <1>4, SaveMonitorTells, <1>0, <1>1, SaveMonitorSets
<1>5. ASSUME NEW m \in Monitors, DeleteMonitor(m) PROVE due' = NotDue(n) /\ checks[n] = << >> /\ UNCHANGED checks
  BY <1>5 DEF DeleteMonitor, Exists, TypeInv, TableTypes
<1>6. CASE UNCHANGED vars BY <1>0, <1>6 DEF vars
<1>7. ASSUME NEW w \in Workers, WorkerCrash(w) \/ StartTick(w) \/ StartChunk(w) \/ EndTick(w) \/ \E id \in Rechecks : StartRecheck(w, id)
      PROVE  FALSE
    BY <1>0, <1>7 DEF WorkerCrash, StartTick, StartChunk, EndTick, StartRecheck
<1>8. ASSUME NEW m \in Monitors, \/ TimePasses(m) \/ LockExpires(m) \/ LockOutlived(m)
                                 \/ \E id \in Rechecks : Recheck(m, id)
                                 \/ \E r \in Requests : CheckCap(r, m)
      PROVE  FALSE
    BY <1>0, <1>8 DEF TimePasses, LockExpires, LockOutlived, Recheck, CheckCap
<1> QED  BY <1>2, <1>3, <1>4, <1>5, <1>6, <1>7, <1>8 DEF Next, WorkerNext, OwnerNext

\* Nothing is stored about a monitor that is gone.
LEMMA NoRows ==
    ASSUME TypeInv, [Next]_vars, NEW n \in Monitors, ~Exists(n), checks[n] = << >> PROVE checks'[n] = << >>
<1>1. CASE UNCHANGED checks BY <1>1
<1>2. ASSUME NEW w \in Workers, NEW m \in Monitors, CheckNext(w, m) PROVE checks'[n] = << >>
    <2>1. CASE Record(w, m) BY <2>1, RecordWalks DEF Record, TypeInv, TableTypes
    <2>2. CASE MarkSent(w, m) BY <2>2 DEF MarkSent, TypeInv, TableTypes
    <2>3. CASE Dispatch(w, m) BY <2>3 DEF Dispatch, TypeInv, TableTypes
    <2>4. CASE Ends(w, m) BY <1>1, <2>4 DEF Ends
    <2>5. CASE ~Record(w, m) /\ ~MarkSent(w, m) /\ ~Dispatch(w, m) /\ ~Ends(w, m)
        BY <1>1, <1>2, <2>5 DEF CheckNext, Lock, SkipLocked, ReadQuota, Reschedule, Verify, Charge, Update,
                    CheckFails, SaveFailure, SaveFailureFails, Unlock, DeleteLock
    <2> QED  BY <2>1, <2>2, <2>3, <2>4, <2>5
<1>3. ASSUME NEW w \in Workers, WorkerCrash(w) \/ StartTick(w) \/ StartChunk(w) \/ EndTick(w) \/ \E id \in Rechecks : StartRecheck(w, id)
      PROVE  UNCHANGED checks
    BY <1>3 DEF WorkerCrash, StartTick, StartChunk, EndTick, StartRecheck
<1>4. CASE OwnerNext \/ UNCHANGED vars \/ \E m \in Monitors : TimePasses(m) \/ LockExpires(m) \/ LockOutlived(m)
    BY <1>1, <1>4 DEF OwnerNext, SaveMonitor, CheckCap, Patch, DeleteMonitor, Recheck, TimePasses, LockExpires, LockOutlived, vars
<1> QED  BY <1>1, <1>2, <1>3, <1>4 DEF Next, WorkerNext

\* Deleting a monitor takes its rows and its turn with it.
LEMMA GoneKept ==
    ASSUME TypeInv, WorkInv, GoneInv, [Next]_vars PROVE GoneInv'
  BY Lives, DueNowOrder, Dues, NoRows DEF GoneInv, IsDue, Listed, NotDue, Among, WorkInv

------------------------------------------------------------------------------
(* The quota.                                                              *)

\* A chunk per worker is a number, and at least one.
LEMMA Bound ==
    \E K \in Nat : K = Cardinality(Workers) * MONITOR_CONCURRENCY /\ K >= 1
  BY FS_CardinalityType, FS_EmptySet, MonitorAssumption

\* Nothing is charged, and nobody passes.
LEMMA NobodyPasses ==
    ASSUME TypeInv, PassedInv, UNCHANGED usage, Passed' \subseteq Passed PROVE PassedInv'
<1>1. PICK P : P = Passed OBVIOUS
<1>2. PICK Q : Q = Passed' OBVIOUS
<1>3. PICK p \in Nat, q \in Nat : p = Cardinality(P) /\ q = Cardinality(Q) /\ q <= p /\ IsFiniteSet(Q)
    BY <1>1, <1>2, FS_Subset, FS_CardinalityType DEF PassedInv
<1>4. PICK K \in Nat : K = Cardinality(Workers) * MONITOR_CONCURRENCY BY Bound
<1>5. usage \in Nat /\ PlanLimit \in Nat BY MonitorAssumption DEF TypeInv, TableTypes
<1>6. usage + p <= PlanLimit + K - 1 BY <1>1, <1>3, <1>4 DEF PassedInv
<1>7. usage' + q <= PlanLimit + K - 1 BY <1>3, <1>5, <1>6
<1> QED  BY <1>2, <1>3, <1>4, <1>7 DEF PassedInv

\* Of the steps of a check only reading the quota lets it pass.
LEMMA StepsPass ==
    ASSUME NEW w \in Workers, NEW m \in Monitors, Others(w, m),
           \/ check'[w][m].pc \notin {"verify", "charge"}
           \/ check[w][m].pc \in {"verify", "charge"}
    PROVE  Passed' \subseteq Passed
BY DEF Others, Passed

\* Only who reads a quota that is not used up comes past it.
LEMMA PassedKept ==
    ASSUME TypeInv, WorkInv, PassedInv, [Next]_vars PROVE PassedInv'
<1>1. ASSUME NEW w \in Workers, NEW m \in Monitors, CheckNext(w, m) PROVE PassedInv'
    <2>1. CASE ReadQuota(w, m)
        <3>1. PICK pc \in {"reschedule", "verify"} : Walks(w, m, "quota", pc) /\ (pc = "verify" => ~OverQuota)
            BY <2>1, ReadQuotaWalks
        <3>2. UNCHANGED usage BY <2>1 DEF ReadQuota
        <3>3. CASE pc = "reschedule" BY <3>1, <3>2, <3>3, StepsPass, NobodyPasses DEF Walks
        <3>4. CASE pc = "verify"
            <4>1. PICK u \in Nat, l \in Nat, C \in Nat : u = usage /\ l = PlanLimit /\ C = MONITOR_CONCURRENCY
                BY MonitorAssumption DEF TypeInv, TableTypes
            <4>2. u <= l - 1 BY <3>1, <3>4, <4>1 DEF OverQuota
            <4>3. WorkInv' BY WorkKept
            <4>4. PICK B \in [Workers -> SUBSET Monitors] : \A v \in Workers : B[v] = Busy(v)'
                <5>1. [v \in Workers |-> Busy(v)'] \in [Workers -> SUBSET Monitors] BY DEF Busy
                <5> QED  BY <5>1
            <4>5. \A v \in Workers : IsFiniteSet(B[v]) /\ Cardinality(B[v]) <= C
                BY <4>1, <4>3, <4>4 DEF WorkInv, Work
            <4>6. PICK P : P = Passed' OBVIOUS
            <4>7. P \subseteq {z \in Workers \X Monitors : z[2] \in B[z[1]]} BY <4>4, <4>6 DEF Passed, Busy
            <4>8. IsFiniteSet(P) /\ Cardinality(P) <= Cardinality(Workers) * C BY <4>5, <4>7, Chunks
            <4>9. PICK K \in Nat : K = Cardinality(Workers) * C BY <4>1, Bound
            <4>10. PICK p \in Nat : p = Cardinality(P) BY <4>8, FS_CardinalityType
            <4>11. u + p <= l + K - 1 BY <4>2, <4>8, <4>9, <4>10
            <4> QED  BY <3>2, <4>1, <4>6, <4>8, <4>9, <4>10, <4>11 DEF PassedInv
        <3> QED  BY <3>3, <3>4
    <2>2. CASE Charge(w, m)
        <3>1. PICK P : P = Passed /\ IsFiniteSet(P) /\ <<w, m>> \in P BY <2>2 DEF PassedInv, Passed, Charge, At
        <3>2. PICK Q : Q = P \ {<<w, m>>} OBVIOUS
        <3>3. Passed' = Q
            <4>1. check'[w][m].pc = "record" /\ \A v \in Workers, n \in Monitors : v # w \/ n # m => check'[v][n] = check[v][n]
                BY <2>2, ChargeWalks DEF Walks, Others
            <4>2. ASSUME NEW v \in Workers, NEW n \in Monitors
                  PROVE  check'[v][n].pc \in {"verify", "charge"} <=> <<v, n>> \in Q
        BY <3>2, <4>1, <3>1 DEF Passed
            <4>3. Q \subseteq Workers \X Monitors BY <3>1, <3>2 DEF Passed
            <4> QED  BY <4>2, <4>3 DEF Passed
        <3>4. PICK p \in Nat, q \in Nat : p = Cardinality(P) /\ q = Cardinality(Q) /\ q = p - 1 /\ IsFiniteSet(Q)
            <4>1. PICK z : z = <<w, m>> OBVIOUS
            <4>2. z \in P /\ Q = P \ {z} BY <3>1, <3>2, <4>1
            <4>3. IsFiniteSet(Q) /\ Cardinality(Q) = Cardinality(P) - 1 BY <3>1, <4>2, FS_RemoveElement
            <4> QED  BY <3>1, <4>3, FS_CardinalityType
        <3>5. PICK u \in Nat : u = usage /\ usage' = u + 1 BY <2>2 DEF TypeInv, TableTypes, Charge
        <3>6. PICK K \in Nat : K = Cardinality(Workers) * MONITOR_CONCURRENCY BY Bound
        <3>7. u + p <= PlanLimit + K - 1 /\ PlanLimit \in Nat
            BY <3>1, <3>4, <3>5, <3>6, MonitorAssumption DEF PassedInv
        <3>8. (u + 1) + q <= PlanLimit + K - 1 BY <3>4, <3>7
        <3> QED  BY <3>3, <3>4, <3>5, <3>6, <3>8 DEF PassedInv
    <2>3. CASE Ends(w, m) BY <2>3, StepsPass, NobodyPasses DEF Ends
    <2>4. CASE ~ReadQuota(w, m) /\ ~Charge(w, m) /\ ~Ends(w, m)
        <3>1. UNCHANGED usage BY <1>1, <2>4, SkipLockedEnds, DeleteLockEnds
               DEF CheckNext, Lock, Reschedule, Verify, Record, Update,
                   Dispatch, MarkSent, CheckFails, SaveFailure, SaveFailureFails, Unlock
        <3>2. \E from, to \in CheckPc : Walks(w, m, from, to) /\ (to \notin {"verify", "charge"} \/ from \in {"verify", "charge"})
            <4>1. CASE Lock(w, m) \/ Reschedule(w, m) \/ Verify(w, m)
                BY <4>1, LockWalks, RescheduleWalks, VerifyWalks DEF CheckPc
            <4>4. CASE Unlock(w, m) BY <2>4, <4>4, UnlockWalks DEF CheckPc
            <4>2. CASE Record(w, m) \/ Dispatch(w, m) \/ MarkSent(w, m)
                BY <4>2, RecordWalks, DispatchWalks, MarkSentWalks DEF CheckPc
            <4>5. CASE Update(w, m) BY <4>5, UpdateWalks DEF CheckPc
            <4>3. CASE CheckFails(w, m) \/ SaveFailure(w, m) \/ SaveFailureFails(w, m)
                BY <4>3, CheckFailsWalks, SaveFailureWalks, SaveFailureFailsWalks DEF CheckPc
            <4> QED  BY <1>1, <2>4, <4>1, <4>2, <4>3, <4>4, <4>5, SkipLockedEnds, DeleteLockEnds DEF CheckNext
        <3> QED  BY <3>1, <3>2, StepsPass, NobodyPasses DEF Walks
    <2> QED  BY <2>1, <2>2, <2>3, <2>4
<1>2. ASSUME NEW w \in Workers, StartTick(w) \/ StartChunk(w) \/ EndTick(w) \/ WorkerCrash(w) PROVE PassedInv'
    <2>1. UNCHANGED usage BY <1>2 DEF StartTick, StartChunk, EndTick, WorkerCrash
    <2>2. CASE EndTick(w) BY <2>1, <2>2, NobodyPasses DEF EndTick, Passed
    <2>3. CASE StartTick(w) \/ WorkerCrash(w)
        <3>1. \A n \in Monitors : check'[w][n] = NoCheck \/ check'[w][n] = Snapshot(n, "listed")
            BY <2>3, TickStarts, Dying DEF Turns
        <3>2. \A n \in Monitors : check'[w][n].pc \in {"none", "listed"}
            BY <3>1, NotChecking, Taking DEF CheckPc
        <3>3. \A v \in Workers : v # w => check'[v] = check[v] BY <2>3, TickStarts, Dying DEF Turns
        <3> QED  BY <2>1, <3>2, <3>3, NobodyPasses DEF Passed
    <2>4. CASE StartChunk(w)
        <3>1. PICK f \in [Monitors -> CheckType] :
                 Turns(w, f) /\ \A n \in Monitors : f[n].pc = "lock" \/ f[n] = check[w][n]
            BY <2>4, ChunkStarts
        <3> QED  BY <2>1, <3>1, NobodyPasses DEF Turns, Passed
    <2> QED  BY <1>2, <2>2, <2>3, <2>4
<1>3. ASSUME NEW w \in Workers, NEW id \in Rechecks, StartRecheck(w, id) PROVE PassedInv'
    <2>1. UNCHANGED usage BY <1>3 DEF StartRecheck
    <2>2. CASE UNCHANGED check BY <2>1, <2>2, NobodyPasses DEF Passed
    <2>3. CASE \E y \in CheckType : Becomes(w, queue[id].data.monitor, y) /\ y.pc = "lock"
        BY <2>1, <2>3, NobodyPasses DEF Becomes, Others, Passed
    <2> QED  BY <1>3, <2>2, <2>3, RecheckStarts
<1>4. CASE UNCHANGED vars \/ OwnerNext \/ \E m \in Monitors : TimePasses(m) \/ LockExpires(m) \/ LockOutlived(m)
  BY <1>4, NobodyPasses DEF vars, OwnerNext, SaveMonitor, CheckCap, Patch, DeleteMonitor, Recheck, TimePasses,
     LockExpires, LockOutlived, Passed
<1> QED  BY <1>1, <1>2, <1>3, <1>4 DEF Next, WorkerNext

------------------------------------------------------------------------------
(* The rows, and who tells of them.                                        *)

\* A row that must be told of; the checks about to tell of theirs.
Notifies(r)   == r.new # r.previous /\ r.notify
Teller(w, m)  == check[w][m].pc \in {"update", "dispatch"}

\* The rows stay, told of as often or more often.
SameRows == \A n \in Monitors :
    /\ DOMAIN checks'[n] = DOMAIN checks[n]
    /\ \A i \in DOMAIN checks[n] :
          /\ checks'[n][i].previous = checks[n][i].previous /\ checks'[n][i].new = checks[n][i].new
          /\ checks'[n][i].notify = checks[n][i].notify
          /\ checks'[n][i].told \in Nat /\ checks'[n][i].told >= checks[n][i].told

\* No teller is new, and one that stops has told, had nothing to tell, or is
\* known not to have.
Quiet(v, n) ==
    /\ Teller(v, n)' =>
          /\ Teller(v, n) /\ check'[v][n].row = check[v][n].row /\ check'[v][n].last = check[v][n].last
          /\ check'[v][n].new = check[v][n].new /\ check'[v][n].notify = check[v][n].notify
    /\ Teller(v, n) /\ Spared(n, {"untold"})' =>
          \/ Teller(v, n)'
          \/ ~Notifies(checks[n][check[v][n].row])
          \/ checks'[n][check[v][n].row].told > 0

\* A stored row.
LEMMA RowThere ==
    ASSUME TypeInv, NEW n \in Monitors, NEW i \in DOMAIN checks[n]
    PROVE  checks[n][i] \in RowType /\ checks[n][i].told \in Nat
<1>1. PICK s \in Seq(RowType) : s = checks[n] BY DEF TypeInv, TableTypes
<1>2. PICK r \in RowType : r = s[i] BY <1>1
<1> QED  BY <1>1, <1>2 DEF RowType

\* What is told of stays so, and what must be still is.
LEMMA StillTold ==
    ASSUME TypeInv, RowInv, [Next]_vars, SameRows, \A v \in Workers, n \in Monitors : Quiet(v, n) PROVE RowInv'
<1>1. ASSUME NEW v \in Workers, NEW n \in Monitors PROVE Row(v, n)' BY DEF Quiet, RowInv, SameRows, Row, Teller
<1>2. ASSUME NEW n \in Monitors, Spared(n, {"untold"})', NEW i \in DOMAIN checks'[n], Notifies(checks'[n][i])
      PROVE  checks'[n][i].told > 0 \/ \E v \in Workers : check'[v][n].row = i /\ Teller(v, n)'
  BY <1>2, WasSpared, RowThere DEF SameRows, Notifies, Quiet, RowInv, ChangesTold, Teller
<1>3. ChangesTold' BY <1>2 DEF ChangesTold, Notifies, Teller
<1> QED  BY <1>1, <1>3 DEF RowInv

\* Rows nobody touches.
LEMMA RowsStay ==
    ASSUME TypeInv, UNCHANGED checks PROVE SameRows
BY RowThere DEF SameRows

\* A check that neither is nor becomes a teller.
LEMMA Aside ==
    ASSUME NEW w \in Workers, NEW m \in Monitors, Others(w, m), ~Teller(w, m), ~Teller(w, m)'
    PROVE  \A v \in Workers, n \in Monitors : Quiet(v, n)
BY DEF Others, Quiet, Teller

\* A worker none of whose checks is one.
LEMMA NoTeller ==
    ASSUME NEW w \in Workers, \A v \in Workers : v # w => check'[v] = check[v],
           \A n \in Monitors : ~Teller(w, n) /\ ~Teller(w, n)'
    PROVE  \A v \in Workers, n \in Monitors : Quiet(v, n)
BY DEF Quiet, Teller

\* The row a check stores is the one it is about from then on, not told of yet.
LEMMA RecordTold ==
    ASSUME TypeInv, RowInv, [Next]_vars, NEW w \in Workers, NEW m \in Monitors, Record(w, m) PROVE RowInv'
<1>1. PICK s \in Seq(RowType) : s = checks[m] BY DEF TypeInv, TableTypes
<1>2. PICK r \in RowType :
         /\ checks' = [checks EXCEPT ![m] = Append(@, r)]
         /\ r.previous = check[w][m].last /\ r.new = check[w][m].new /\ r.notify = check[w][m].notify
    BY RecordWalks
<1>3. PICK t \in Seq(RowType) : t = Append(s, r) /\ checks' = [checks EXCEPT ![m] = t]
    <2>1. Append(s, r) \in Seq(RowType) OBVIOUS
    <2>2. checks' = [checks EXCEPT ![m] = Append(s, r)] BY <1>1, <1>2
    <2> QED  BY <2>1, <2>2
<1>4. /\ Len(s) \in Nat /\ DOMAIN s = 1..Len(s) /\ DOMAIN t = 1..(Len(s) + 1)
      /\ t[Len(s) + 1] = r /\ \A i \in DOMAIN s : t[i] = s[i]
    BY <1>3
<1>5. checks'[m] = t /\ \A n \in Monitors : n # m => checks'[n] = checks[n] BY <1>3 DEF TypeInv, TableTypes
<1>6. /\ check[w][m].pc = "record" /\ check'[w][m].pc = "update" /\ check'[w][m].row = Len(s) + 1
      /\ check'[w][m].last = check[w][m].last /\ check'[w][m].new = check[w][m].new
      /\ check'[w][m].notify = check[w][m].notify
      /\ \A v \in Workers, n \in Monitors : v # w \/ n # m => check'[v][n] = check[v][n]
    BY <1>1, RecordWalks DEF Walks, Others
<1>7. ASSUME NEW n \in Monitors, NEW i \in DOMAIN checks[n] PROVE i \in DOMAIN checks'[n] /\ checks'[n][i] = checks[n][i]
  BY <1>1, <1>4, <1>5, <1>7
<1>8. ASSUME NEW v \in Workers, NEW n \in Monitors PROVE Row(v, n)'
    <2>1. CASE v = w /\ n = m BY <1>2, <1>4, <1>5, <1>6, <2>1 DEF Row
    <2>2. CASE v # w \/ n # m BY <1>6, <2>2, <1>7 DEF RowInv, Row
    <2> QED  BY <2>1, <2>2
<1>9. ASSUME NEW n \in Monitors, Spared(n, {"untold"})', NEW i \in DOMAIN checks'[n], Notifies(checks'[n][i])
      PROVE  checks'[n][i].told > 0 \/ \E v \in Workers : check'[v][n].row = i /\ Teller(v, n)'
    <2>1. CASE n = m /\ i = Len(s) + 1 BY <1>6, <2>1 DEF Teller
    <2>2. CASE ~(n = m /\ i = Len(s) + 1)
        <3>1. i \in DOMAIN checks[n] BY <1>1, <1>4, <1>5, <1>9, <2>2
        <3>2. checks'[n][i] = checks[n][i] /\ Spared(n, {"untold"}) BY <1>7, <1>9, <3>1, WasSpared
        <3>3. checks[n][i].told > 0 \/ \E v \in Workers : check[v][n].row = i /\ Teller(v, n)
            BY <1>9, <3>1, <3>2 DEF RowInv, ChangesTold, Notifies, Teller
        <3> QED  BY <1>6, <3>2, <3>3 DEF Teller
    <2> QED  BY <2>1, <2>2
<1>10. ChangesTold' BY <1>9 DEF ChangesTold, Notifies, Teller
<1> QED  BY <1>8, <1>10 DEF RowInv

\* The status is stored: the check goes on to tell, if it must.
LEMMA UpdateTold ==
    ASSUME TypeInv, RowInv, [Next]_vars, NEW w \in Workers, NEW m \in Monitors, Update(w, m) PROVE RowInv'
<1>1. PICK pc \in {"dispatch", "unlock"} :
         Walks(w, m, "update", pc) /\ Keeps(w, m) /\ (pc = "unlock" => ~MustNotify(check[w][m]))
    BY UpdateWalks
<1>2. SameRows BY RowsStay DEF Update
<1>3. Quiet(w, m) BY <1>1 DEF RowInv, Walks, Teller, Row, MustNotify, Changed, Notifies, Quiet, Keeps
<1>4. \A v \in Workers, n \in Monitors : Quiet(v, n) BY <1>1, <1>3 DEF Walks, Others, Quiet, Teller
<1> QED  BY <1>2, <1>4, StillTold

\* The webhook is dispatched: the row is told of, or known not to be.
LEMMA DispatchTold ==
    ASSUME TypeInv, RowInv, [Next]_vars, NEW w \in Workers, NEW m \in Monitors, Dispatch(w, m) PROVE RowInv'
<1>1. Walks(w, m, "dispatch", "mark") BY DispatchWalks
<1>2. Teller(w, m) /\ ~Teller(w, m)' /\ Row(w, m) /\ check[w][m].row \in DOMAIN checks[m]
    BY <1>1 DEF Walks, Teller, RowInv, Row
<1>3. ASSUME Quiet(w, m) PROVE \A v \in Workers, n \in Monitors : Quiet(v, n)
    BY <1>1, <1>3 DEF Walks, Others, Quiet, Teller
<1>4. CASE checks' = [checks EXCEPT ![m][check[w][m].row].told = @ + 1]
    <2>1. PICK s, i : s \in Seq(RowType) /\ s = checks[m] /\ i = check[w][m].row /\ i \in DOMAIN s
        BY <1>2 DEF TypeInv, TableTypes
    <2>2. PICK r \in RowType : r = s[i] BY <2>1
    <2>3. PICK k \in Nat : k = r.told + 1 BY DEF RowType
    <2>4. PICK q : q = [r EXCEPT !.told = k] OBVIOUS
    <2>5. q.previous = r.previous /\ q.new = r.new /\ q.notify = r.notify /\ q.told = k BY <2>4 DEF RowType
    <2>6. PICK t : t = [s EXCEPT ![i] = q] OBVIOUS
    <2>7. checks' = [checks EXCEPT ![m] = t]
        BY <1>4, <2>1, <2>2, <2>3, <2>4, <2>6 DEF TypeInv, TableTypes, RowType
    <2>8. checks'[m] = t /\ \A n \in Monitors : n # m => checks'[n] = checks[n] BY <2>7 DEF TypeInv, TableTypes
    <2>9. DOMAIN t = DOMAIN s /\ t[i] = q /\ \A j \in DOMAIN s : j # i => t[j] = s[j] BY <2>1, <2>6
    <2>10. r.told \in Nat /\ k >= r.told BY <2>3 DEF RowType
    <2>11. ASSUME NEW n \in Monitors, NEW j \in DOMAIN checks[n]
           PROVE  /\ checks'[n][j].previous = checks[n][j].previous /\ checks'[n][j].new = checks[n][j].new
                  /\ checks'[n][j].notify = checks[n][j].notify
                  /\ checks'[n][j].told \in Nat /\ checks'[n][j].told >= checks[n][j].told
        <3>1. CASE n = m /\ j = i BY <2>1, <2>2, <2>3, <2>5, <2>8, <2>9, <2>10, <3>1
        <3>2. CASE ~(n = m /\ j = i) BY <2>1, <2>8, <2>9, <2>11, <3>2, RowThere
        <3> QED  BY <3>1, <3>2
    <2>12. SameRows BY <2>1, <2>8, <2>9, <2>11 DEF SameRows
    <2>13. Quiet(w, m) BY <2>1, <2>3, <2>5, <2>8, <2>9, <2>10, <1>2 DEF Quiet
    <2> QED  BY <1>3, <2>12, <2>13, StillTold
<1>5. CASE /\ UNCHANGED checks
           /\ Tells(tally.asked, tally.charged, tally.errors, [tally.marred EXCEPT ![m] = @ \cup {"untold"}])
  BY <1>5, <1>2, <1>3, RowsStay, StillTold DEF Tells, Spared, TypeInv, TableTypes, TallyType, Quiet
<1> QED  BY <1>4, <1>5, DispatchTells

\* A check that fails before it told is known not to have, unless there is
\* nothing to tell of any more.
LEMMA FailsTold ==
    ASSUME TypeInv, GoneInv, RowInv, [Next]_vars, NEW w \in Workers, NEW m \in Monitors, CheckFails(w, m)
    PROVE  RowInv'
<1>1. PICK pc \in {"quota", "reschedule", "verify", "record", "update", "mark"} : Walks(w, m, pc, "saveFailure")
    BY CheckFailsWalks
<1>2. SameRows BY RowsStay DEF CheckFails
<1>3. CASE pc # "update" BY <1>1, <1>2, <1>3, Aside, StillTold DEF Walks, Teller
<1>4. CASE pc = "update"
    <2>1. Row(w, m) /\ Teller(w, m) /\ ~Teller(w, m)' BY <1>1, <1>4 DEF RowInv, Walks, Teller
    <2>2. Exists(m) BY <2>1 DEF GoneInv, Row, Teller
    <2>3. tally'.marred = [tally.marred EXCEPT ![m] = @ \cup (Loses(w, m) \ {"again"})]
        BY <2>2, CheckFailsTells DEF GoneAt, Tells
    <2>4. "untold" \in Loses(w, m) \ {"again"} BY <2>1 DEF Loses, Teller
    <2>5. ~Spared(m, {"untold"})' BY <2>3, <2>4 DEF Spared, TypeInv, TableTypes, TallyType
    <2>6. Quiet(w, m) BY <2>1, <2>5 DEF Quiet
    <2>7. \A v \in Workers, n \in Monitors : Quiet(v, n) BY <1>1, <2>6 DEF Walks, Others, Quiet, Teller
    <2> QED  BY <1>2, <2>7, StillTold
<1> QED  BY <1>3, <1>4

\* Later rows are marked as sent.
LEMMA MarkSentTold ==
    ASSUME TypeInv, RowInv, [Next]_vars, NEW w \in Workers, NEW m \in Monitors, MarkSent(w, m) PROVE RowInv'
<1>1. PICK s \in Seq(RowType), b \in BOOLEAN : s = checks[m] /\ b = TRUE BY DEF TypeInv, TableTypes
<1>2. PICK t : t = [i \in DOMAIN s |-> IF i >= check[w][m].row THEN [s[i] EXCEPT !.webhookSent = b] ELSE s[i]]
    OBVIOUS
<1>3. checks' = [checks EXCEPT ![m] = t] BY <1>1, <1>2 DEF MarkSent
<1>4. checks'[m] = t /\ \A n \in Monitors : n # m => checks'[n] = checks[n] BY <1>3 DEF TypeInv, TableTypes
<1>5. ASSUME NEW i \in DOMAIN s
      PROVE  t[i].previous = s[i].previous /\ t[i].new = s[i].new /\ t[i].notify = s[i].notify /\ t[i].told = s[i].told
  BY <1>2 DEF RowType
<1>6. DOMAIN t = DOMAIN s BY <1>2
<1>7. ASSUME NEW n \in Monitors, NEW j \in DOMAIN checks[n]
      PROVE  /\ checks'[n][j].previous = checks[n][j].previous /\ checks'[n][j].new = checks[n][j].new
             /\ checks'[n][j].notify = checks[n][j].notify /\ checks'[n][j].told = checks[n][j].told
    BY <1>1, <1>4, <1>5, <1>7
<1>8. ASSUME NEW n \in Monitors, NEW j \in DOMAIN checks[n]
      PROVE  checks'[n][j].told \in Nat /\ checks'[n][j].told >= checks[n][j].told
  BY <1>8, RowThere, <1>7
<1>9. SameRows BY <1>1, <1>4, <1>6, <1>7, <1>8 DEF SameRows
<1>10. Walks(w, m, "mark", "unlock") BY MarkSentWalks
<1> QED  BY <1>9, <1>10, Aside, StillTold DEF Walks, Teller

\* Every step keeps the rows of the checks, and every change is told.
LEMMA RowKept ==
    ASSUME TypeInv, WorkInv, GoneInv, RowInv, [Next]_vars PROVE RowInv'
<1>1. ASSUME NEW w \in Workers, NEW m \in Monitors, CheckNext(w, m) PROVE RowInv'
    <2>1. CASE Record(w, m) \/ Update(w, m) \/ Dispatch(w, m) \/ CheckFails(w, m) \/ MarkSent(w, m)
        BY <2>1, RecordTold, UpdateTold, DispatchTold, FailsTold, MarkSentTold
    <2>2. CASE Ends(w, m) BY <2>2, RowsStay, Aside, StillTold DEF Ends, Teller
    <2>3. CASE ~Ends(w, m) /\ ~(Record(w, m) \/ Update(w, m) \/ Dispatch(w, m) \/ CheckFails(w, m) \/ MarkSent(w, m))
        <3>1. UNCHANGED checks BY <1>1, <2>3, SkipLockedEnds, DeleteLockEnds
               DEF CheckNext, Lock, ReadQuota, Reschedule, Verify, Charge, SaveFailure, SaveFailureFails, Unlock
        <3>2. Others(w, m) /\ ~Teller(w, m) /\ ~Teller(w, m)'
            <4>1. CASE Lock(w, m) \/ Reschedule(w, m) \/ Verify(w, m) \/ Charge(w, m)
                BY <4>1, LockWalks, RescheduleWalks, VerifyWalks, ChargeWalks DEF Walks, Teller
            <4>2. CASE ReadQuota(w, m) \/ Unlock(w, m)
                BY <2>3, <4>2, ReadQuotaWalks, UnlockWalks DEF Walks, Teller
            <4>3. CASE SaveFailure(w, m) \/ SaveFailureFails(w, m)
                BY <4>3, SaveFailureWalks, SaveFailureFailsWalks DEF Walks, Teller
            <4> QED  BY <1>1, <2>3, <4>1, <4>2, <4>3, SkipLockedEnds, DeleteLockEnds DEF CheckNext
        <3> QED  BY <3>1, <3>2, RowsStay, Aside, StillTold
    <2> QED  BY <2>1, <2>2, <2>3
<1>2. ASSUME NEW w \in Workers, StartTick(w) \/ StartChunk(w) \/ EndTick(w) PROVE RowInv'
    <2>1. SameRows BY <1>2, RowsStay DEF StartTick, StartChunk, EndTick
    <2>2. \A n \in Monitors : ~Teller(w, n)
        BY <1>2 DEF StartTick, StartChunk, EndTick, Settled, WorkInv, Work, Idle, Teller
    <2>3. \A n \in Monitors : ~Teller(w, n)'
        <3>1. CASE EndTick(w) BY <2>2, <3>1 DEF EndTick, Teller
        <3>2. CASE StartTick(w)
            <4>1. \A n \in Monitors : check'[w][n] = Snapshot(n, "listed") \/ check'[w][n] = NoCheck
                BY <3>2, TickStarts DEF Turns
            <4>2. \A n \in Monitors : check'[w][n].pc \in {"none", "listed"}
                BY <4>1, Taking, NotChecking DEF CheckPc
            <4> QED  BY <4>2 DEF Teller
        <3>3. CASE StartChunk(w) BY <3>3, ChunkStarts, <2>2 DEF Turns, Teller
        <3> QED  BY <1>2, <3>1, <3>2, <3>3
    <2>4. \A v \in Workers : v # w => check'[v] = check[v] BY TickStarts, ChunkStarts, <1>2 DEF EndTick, Turns
    <2> QED  BY <2>1, <2>2, <2>3, <2>4, NoTeller, StillTold
<1>3. ASSUME NEW w \in Workers, WorkerCrash(w) PROVE RowInv'
    <2>1. SameRows BY <1>3, RowsStay DEF WorkerCrash
    <2>2. /\ Turns(w, [n \in Monitors |-> NoCheck])
          /\ tally'.marred = [n \in Monitors |-> tally.marred[n] \cup Loses(w, n)]
        BY <1>3, Dying DEF Tells
    <2>3. ASSUME NEW n \in Monitors PROVE Quiet(w, n)
    BY <2>2, NotChecking DEF Turns, Teller, Spared, Loses, Quiet
    <2>4. \A v \in Workers, n \in Monitors : Quiet(v, n) BY <2>2, <2>3 DEF Turns, Quiet, Teller
    <2> QED  BY <2>1, <2>4, StillTold
<1>4. ASSUME NEW w \in Workers, NEW id \in Rechecks, StartRecheck(w, id) PROVE RowInv'
    <2>1. SameRows BY <1>4, RowsStay DEF StartRecheck
    <2>2. CASE UNCHANGED check BY <2>2, <2>1, StillTold DEF Quiet, Teller
    <2>3. CASE \E y \in CheckType : Becomes(w, queue[id].data.monitor, y) /\ y.pc = "lock"
        <3>1. \A n \in Monitors : ~Teller(w, n) BY <1>4, RecheckStarts DEF WorkInv, Work, Idle, Teller
        <3>2. PICK m \in Monitors : m = queue[id].data.monitor
            BY <1>4, RecheckStarts DEF TypeInv, FlowTypes, IsQueue, JobType
        <3> QED  BY <2>1, <2>3, <3>1, <3>2, Aside, StillTold DEF Becomes, Teller
    <2> QED  BY <1>4, <2>2, <2>3, RecheckStarts
<1>5. CASE UNCHANGED vars \/ OwnerNext \/ \E m \in Monitors : TimePasses(m) \/ LockExpires(m) \/ LockOutlived(m)
  BY <1>5, RowsStay, StillTold DEF vars, OwnerNext, SaveMonitor, CheckCap, Patch, DeleteMonitor, Recheck,
     TimePasses, LockExpires, LockOutlived, Quiet, Teller
<1> QED  BY <1>1, <1>2, <1>3, <1>4, <1>5 DEF Next, WorkerNext

------------------------------------------------------------------------------
(* The failures.                                                           *)

\* The failures of m that are counted happened.
Counts(m) ==
    /\ monitor[m].failures <= tally.errors[m]
    /\ \A w \in Workers : At(w, m, "saveFailure") => check[w][m].failures + 1 <= tally.errors[m]

\* Numbers.
LEMMA Numbers ==
    ASSUME TypeInv, NEW m \in Monitors
    PROVE  /\ tally.errors[m] \in Nat /\ monitor[m].failures \in Nat
           /\ \A w \in Workers : check[w][m].failures \in Nat
<1>1. PICK x \in MonitorType : x = monitor[m] BY DEF TypeInv, TableTypes
<1>2. ASSUME NEW w \in Workers PROVE check[w][m].failures \in Nat BY DEF TypeInv, FlowTypes, CheckType
<1>3. tally.errors[m] \in Nat BY DEF TypeInv, TableTypes, TallyType
<1> QED  BY <1>1, <1>2, <1>3 DEF MonitorType

\* A monitor none of whose counts grows.
LEMMA StillCounts ==
    ASSUME TypeInv, FailureInv, [Next]_vars, NEW m \in Monitors, Spared(m, {"slow"})',
           tally'.errors[m] = tally.errors[m], monitor'[m].failures \in {monitor[m].failures, 0},
           \A w \in Workers : At(w, m, "saveFailure")' =>
               At(w, m, "saveFailure") /\ check'[w][m].failures = check[w][m].failures
    PROVE  Counts(m)'
  BY WasSpared, Numbers DEF FailureInv, Counts

\* A failure that is being stored is one that was, and no other.
Stores(v, n) ==
    At(v, n, "saveFailure")' => At(v, n, "saveFailure") /\ check'[v][n].failures = check[v][n].failures

\* A check that does not turn to storing a failure.
LEMMA NotStoring ==
    ASSUME NEW w \in Workers, NEW m \in Monitors, Others(w, m), check'[w][m].pc # "saveFailure"
    PROVE  \A v \in Workers, n \in Monitors : Stores(v, n)
BY DEF Others, Stores, At

\* Nothing is counted.
LEMMA NothingCounted ==
    ASSUME TypeInv, FailureInv, [Next]_vars, tally'.errors = tally.errors,
           \A n \in Monitors : monitor'[n].failures \in {monitor[n].failures, 0},
           \A v \in Workers, n \in Monitors : Stores(v, n)
    PROVE  FailureInv'
<1>1. ASSUME NEW n \in Monitors, Spared(n, {"slow"})' PROVE Counts(n)' BY <1>1, StillCounts DEF Stores
<1> QED  BY <1>1 DEF FailureInv, Counts

\* A monitor changes, and nothing else.
LEMMA OneSet ==
    ASSUME TypeInv, NEW m \in Monitors, NEW x, Sets(m, x)
    PROVE  monitor'[m] = x /\ \A n \in Monitors : n # m => monitor'[n] = monitor[n]
BY DEF Sets, TypeInv, TableTypes

\* A failure is counted before it is stored.
LEMMA FailsCounts ==
    ASSUME TypeInv, FailureInv, [Next]_vars, NEW w \in Workers, NEW m \in Monitors, CheckFails(w, m)
    PROVE  FailureInv'
<1>1. PICK e \in [Monitors -> Nat] : e = tally.errors BY DEF TypeInv, TableTypes, TallyType
<1>2. tally'.errors = [e EXCEPT ![m] = @ + 1] BY <1>1, CheckFailsTells DEF Tells
<1>3. Others(w, m) /\ check'[w][m].failures = IF Exists(m) THEN monitor[m].failures ELSE 0
    BY CheckFailsWalks DEF Walks
<1>4. UNCHANGED monitor BY DEF CheckFails
<1>5. ASSUME NEW n \in Monitors, Spared(n, {"slow"})' PROVE Counts(n)'
    <2>1. CASE n # m BY <1>1, <1>2, <2>1, <1>3, <1>4, <1>5, StillCounts DEF Others, At
    <2>2. CASE n = m
        <3>1. Counts(m) BY <1>5, <2>2, WasSpared DEF FailureInv, Counts
        <3>2. PICK k \in Nat : k = tally.errors[m] /\ tally'.errors[m] = k + 1 BY <1>1, <1>2
        <3>3. monitor'[m].failures <= k + 1 BY <1>4, <3>1, <3>2, Numbers DEF Counts
        <3>4. ASSUME NEW v \in Workers, At(v, m, "saveFailure")' PROVE check'[v][m].failures + 1 <= k + 1
      BY <1>3, <3>1, <3>2, Numbers, <3>4 DEF Counts, Others, At
        <3> QED  BY <2>2, <3>2, <3>3, <3>4 DEF Counts
    <2> QED  BY <2>1, <2>2
<1> QED  BY <1>5 DEF FailureInv, Counts

\* A success forgets them; nobody else is storing one, for nobody else is
\* inside the lock.
LEMMA UpdateCounts ==
    ASSUME TypeInv, LockInv, FailureInv, [Next]_vars, NEW w \in Workers, NEW m \in Monitors, Update(w, m)
    PROVE  FailureInv'
<1>1. PICK e \in [Monitors -> Nat] : e = tally.errors BY DEF TypeInv, TableTypes, TallyType
<1>2. tally'.errors = [e EXCEPT ![m] = 0] BY <1>1, UpdateWalks DEF Tells
<1>3. PICK pc \in {"dispatch", "unlock"} : Walks(w, m, "update", pc) BY UpdateWalks
<1>4. PICK x : Sets(m, x) /\ x.failures = 0 BY UpdateSets
<1>5. monitor'[m] = x /\ \A n \in Monitors : n # m => monitor'[n] = monitor[n] BY <1>4, OneSet
<1>6. ASSUME NEW n \in Monitors, Spared(n, {"slow"})' PROVE Counts(n)'
    <2>1. CASE n # m BY <1>1, <1>2, <1>5, <2>1, <1>3, <1>6, StillCounts DEF Walks, Others, At
    <2>2. CASE n = m
        <3>1. Spared(m, {"slow"}) /\ locks[m] = w BY <1>3, <1>6, <2>2, WasSpared DEF LockInv, Walks, InsideLock
        <3>2. ASSUME NEW v \in Workers, At(v, m, "saveFailure")' PROVE FALSE
      BY <1>3, <3>2, <3>1 DEF Walks, At, Others, InsideLock, LockInv
        <3>3. tally'.errors[m] = 0 /\ monitor'[m].failures = 0 BY <1>1, <1>2, <1>4, <1>5
        <3> QED  BY <2>2, <3>2, <3>3 DEF Counts
    <2> QED  BY <2>1, <2>2
<1> QED  BY <1>6 DEF FailureInv, Counts

\* One more failure is stored than was read.
LEMMA StoredCounts ==
    ASSUME TypeInv, FailureInv, [Next]_vars, NEW w \in Workers, NEW m \in Monitors, SaveFailure(w, m)
    PROVE  FailureInv'
<1>1. Walks(w, m, "saveFailure", "unlock") BY SaveFailureWalks
<1>2. PICK x : Sets(m, x) /\ x.failures = check[w][m].failures + 1 BY SaveFailureSets
<1>3. monitor'[m] = x /\ \A n \in Monitors : n # m => monitor'[n] = monitor[n] BY <1>2, OneSet
<1>4. UNCHANGED tally /\ \A v \in Workers, n \in Monitors : Stores(v, n)
    BY <1>1, NotStoring DEF SaveFailure, Walks
<1>5. ASSUME NEW n \in Monitors, Spared(n, {"slow"})' PROVE Counts(n)'
  BY <1>3, <1>4, <1>5, StillCounts, <1>1, WasSpared, <1>2 DEF Stores, FailureInv, Counts, Walks, At
<1> QED  BY <1>5 DEF FailureInv, Counts

\* A reactivation forgets them, unless one is being stored.
LEMMA ForgetCounts ==
    ASSUME TypeInv, FailureInv, [Next]_vars, UNCHANGED check, NEW m \in Monitors, Forgets(m),
           NEW x, Sets(m, x), x.failures = 0
    PROVE  FailureInv'
<1>1. PICK e \in [Monitors -> Nat] : e = tally.errors BY DEF TypeInv, TableTypes, TallyType
<1>2. tally'.errors = IF \E w \in Workers : At(w, m, "saveFailure") THEN e ELSE [e EXCEPT ![m] = 0]
    BY <1>1 DEF Forgets, Tells
<1>3. monitor'[m] = x /\ \A n \in Monitors : n # m => monitor'[n] = monitor[n] BY OneSet
<1>4. \A v \in Workers, n \in Monitors : Stores(v, n) BY DEF Stores, At
<1>5. ASSUME NEW n \in Monitors, Spared(n, {"slow"})' PROVE Counts(n)'
  BY <1>3, <1>4, <1>5, StillCounts, <1>1, <1>2 DEF Stores, Counts
<1> QED  BY <1>5 DEF FailureInv, Counts

\* Every step keeps the count of failures below those that happened.
LEMMA FailureKept ==
    ASSUME TypeInv, LockInv, FailureInv, [Next]_vars PROVE FailureInv'
<1>0. UNCHANGED monitor => \A n \in Monitors : monitor'[n].failures \in {monitor[n].failures, 0} OBVIOUS
<1>1. ASSUME NEW w \in Workers, NEW m \in Monitors, CheckNext(w, m) PROVE FailureInv'
    <2>1. CASE CheckFails(w, m) \/ Update(w, m) \/ SaveFailure(w, m)
        BY <2>1, FailsCounts, UpdateCounts, StoredCounts
    <2>2. CASE Ends(w, m) BY <2>2, <1>0, NotStoring, NothingCounted DEF Ends, Tells
    <2>3. CASE ~Ends(w, m) /\ ~(CheckFails(w, m) \/ Update(w, m) \/ SaveFailure(w, m))
        <3>1. UNCHANGED monitor BY <1>1, <2>3, SkipLockedEnds, DeleteLockEnds
               DEF CheckNext, Lock, ReadQuota, Reschedule, Verify, Charge, Record, Dispatch, MarkSent, SaveFailureFails, Unlock
        <3>2. CASE Lock(w, m) \/ Reschedule(w, m) \/ Verify(w, m) \/ Record(w, m) \/ MarkSent(w, m)
            <4>1. Others(w, m) /\ check'[w][m].pc # "saveFailure"
                BY <3>2, LockWalks, RescheduleWalks, VerifyWalks, RecordWalks, MarkSentWalks DEF Walks
            <4>2. UNCHANGED tally BY <3>2 DEF Lock, Reschedule, Verify, Record, MarkSent
            <4> QED  BY <1>0, <3>1, <4>1, <4>2, NotStoring, NothingCounted
        <3>3. CASE ReadQuota(w, m) \/ Unlock(w, m)
      BY <2>3, <3>3, ReadQuotaWalks, UnlockWalks, <1>0, <3>1, NotStoring, NothingCounted DEF Walks, ReadQuota
        <3>4. CASE Charge(w, m) \/ Dispatch(w, m) \/ SaveFailureFails(w, m)
            <4>1. Others(w, m) /\ check'[w][m].pc # "saveFailure"
                BY <3>4, ChargeWalks, DispatchWalks, SaveFailureFailsWalks DEF Walks
            <4>2. tally'.errors = tally.errors
                BY <3>4, ChargeWalks, DispatchTells, SaveFailureFailsTells DEF Tells
            <4> QED  BY <1>0, <3>1, <4>1, <4>2, NotStoring, NothingCounted
        <3> QED  BY <1>1, <2>3, <3>2, <3>3, <3>4, SkipLockedEnds, DeleteLockEnds DEF CheckNext
    <2> QED  BY <2>1, <2>2, <2>3
<1>2. ASSUME NEW w \in Workers, StartTick(w) \/ StartChunk(w) \/ EndTick(w) \/ WorkerCrash(w) PROVE FailureInv'
    <2>1. UNCHANGED monitor BY <1>2 DEF StartTick, StartChunk, EndTick, WorkerCrash
    <2>2. tally'.errors = tally.errors BY <1>2, Dying DEF StartTick, StartChunk, EndTick, Tells
    <2>3. \A v \in Workers, n \in Monitors : Stores(v, n)
        <3>1. CASE EndTick(w) BY <3>1 DEF EndTick, Stores, At
        <3>2. CASE StartTick(w) \/ WorkerCrash(w)
            <4>1. \A n \in Monitors : check'[w][n] = NoCheck \/ check'[w][n] = Snapshot(n, "listed")
                BY <3>2, TickStarts, Dying DEF Turns
            <4>2. \A n \in Monitors : check'[w][n].pc \in {"none", "listed"}
                BY <4>1, NotChecking, Taking DEF CheckPc
            <4>3. \A v \in Workers : v # w => check'[v] = check[v] BY <3>2, TickStarts, Dying DEF Turns
            <4> QED  BY <4>2, <4>3 DEF Stores, At
        <3>3. CASE StartChunk(w)
            <4>1. PICK f \in [Monitors -> CheckType] :
                     Turns(w, f) /\ \A n \in Monitors : f[n].pc = "lock" \/ f[n] = check[w][n]
                BY <3>3, ChunkStarts
            <4> QED  BY <4>1 DEF Turns, Stores, At
        <3> QED  BY <1>2, <3>1, <3>2, <3>3
    <2> QED  BY <1>0, <2>1, <2>2, <2>3, NothingCounted
<1>3. ASSUME NEW w \in Workers, NEW id \in Rechecks, StartRecheck(w, id) PROVE FailureInv'
    <2>1. UNCHANGED <<monitor, tally>> BY <1>3 DEF StartRecheck
    <2>2. CASE UNCHANGED check BY <2>2, <1>0, <2>1, NothingCounted DEF Stores, At
    <2>3. CASE \E y \in CheckType : Becomes(w, queue[id].data.monitor, y) /\ y.pc = "lock"
    BY <1>3, RecheckStarts, <2>3, <1>0, <2>1, NotStoring, NothingCounted DEF TypeInv, FlowTypes, IsQueue,
       JobType, Becomes
    <2> QED  BY <1>3, <2>2, <2>3, RecheckStarts
<1>4. ASSUME UNCHANGED <<monitor, check>>, tally'.errors = tally.errors PROVE FailureInv'
  BY <1>4, <1>0, NothingCounted DEF Stores, At
<1>5. ASSUME NEW m \in Monitors, TimePasses(m) \/ LockExpires(m) \/ LockOutlived(m) PROVE FailureInv'
  BY <1>5, TimePassesTells, LockOutlivedTells, <1>4 DEF TimePasses, LockExpires, LockOutlived, Tells
<1>6. ASSUME NEW m \in Monitors, NEW x, Sets(m, x), x.failures \in {monitor[m].failures, 0}, UNCHANGED check,
             tally'.errors = tally.errors
      PROVE  FailureInv'
  BY <1>6, OneSet, NothingCounted DEF Stores, At
<1>7. ASSUME NEW r \in Requests, SaveMonitor(r) PROVE FailureInv'
  BY <1>7, SaveMonitorTells, <1>4, SaveMonitorSets, ForgetCounts DEF SaveMonitor, Tells
<1>8. ASSUME NEW m \in Monitors, Patch(m) PROVE FailureInv'
    <2>1. UNCHANGED check BY <1>8 DEF Patch
    <2>2. PICK x : Sets(m, x) /\ (x.failures = monitor[m].failures \/ x.failures = 0) BY <1>8, PatchSets
    <2>3. CASE Forgets(m) /\ monitor' = [monitor EXCEPT ![m].active = TRUE, ![m].paused = FALSE, ![m].failures = 0]
    BY <2>3, <2>2, OneSet, <2>1, ForgetCounts DEF TypeInv, TableTypes, MonitorType
    <2>4. CASE Tells(tally.asked, tally.charged, tally.errors, tally.marred) BY <1>6, <2>1, <2>2, <2>4 DEF Tells
    <2> QED  BY <1>8, <2>3, <2>4, PatchTells
<1>9. ASSUME NEW m \in Monitors, DeleteMonitor(m) PROVE FailureInv'
  BY <1>9, NewMonitors, <1>6, DeleteMonitorTells DEF DeleteMonitor, Sets, Tells
<1>10. ASSUME NEW m \in Monitors, (\E id \in Rechecks : Recheck(m, id)) \/ (\E r \in Requests : CheckCap(r, m)) PROVE FailureInv'
  BY <1>10, RecheckTells, CheckCapTells, <1>4 DEF Recheck, CheckCap, Tells
<1>11. CASE UNCHANGED vars BY <1>4, <1>11 DEF vars
<1> QED  BY <1>1, <1>2, <1>3, <1>5, <1>7, <1>8, <1>9, <1>10, <1>11 DEF Next, WorkerNext, OwnerNext

------------------------------------------------------------------------------
(* What was asked.                                                         *)

\* What a worker charged for m, and the one charge it may still make.
Spent(w, m) == tally.charged[w][m] + Owed(w, m)

\* Whatever is spent more, or waits to be, was asked for.
Balanced(w, m) ==
    Spared(m, {"again"})' =>
        Spent(w, m)' + Cardinality(Jobs(m)') + tally.asked[m] <= Spent(w, m) + Cardinality(Jobs(m)) + tally'.asked[m]

\* These are numbers.
LEMMA Sums ==
    ASSUME TypeInv, tally' \in TallyType, NEW w \in Workers, NEW m \in Monitors
    PROVE  /\ tally.charged[w][m] \in Nat /\ tally.asked[m] \in Nat /\ Owed(w, m) \in {0, 1} /\ Spent(w, m) \in Nat
           /\ tally'.charged[w][m] \in Nat /\ tally'.asked[m] \in Nat /\ Owed(w, m)' \in {0, 1} /\ Spent(w, m)' \in Nat
  BY DEF TypeInv, TableTypes, TallyType, Owed, Spent

\* Where no monitor gets more charges than askings, the invariant stays.
LEMMA StillAsked ==
    ASSUME TypeInv, tally' \in TallyType, AskedInv, [Next]_vars,
           \A m \in Monitors : IsFiniteSet(Jobs(m)'),
           \A w \in Workers, m \in Monitors : Balanced(w, m)
    PROVE  AskedInv'
<1>1. ASSUME NEW m \in Monitors, Spared(m, {"again"})', NEW w \in Workers
      PROVE  tally'.charged[w][m] + Owed(w, m)' + Cardinality(Jobs(m)') <= tally'.asked[m]
    <2>1. Spared(m, {"again"}) BY <1>1, WasSpared
    <2>2. PICK J : J = Jobs(m) /\ IsFiniteSet(J) BY DEF AskedInv
    <2>3. PICK K : K = Jobs(m)' /\ IsFiniteSet(K) OBVIOUS
    <2>4. PICK j \in Nat, k \in Nat : j = Cardinality(J) /\ k = Cardinality(K) BY <2>2, <2>3, FS_CardinalityType
    <2>5. PICK s \in Nat, a \in Nat : s = Spent(w, m) /\ a = tally.asked[m] BY Sums
    <2>6. PICK t \in Nat, b \in Nat : t = Spent(w, m)' /\ b = tally'.asked[m] BY Sums
    <2>7. t + k + a <= s + j + b BY <1>1, <2>2, <2>3, <2>4, <2>5, <2>6 DEF Balanced
    <2>8. s + j <= a BY <2>1, <2>2, <2>4, <2>5 DEF AskedInv, Spent
    <2>9. t + k <= b BY <2>7, <2>8
    <2> QED  BY <2>3, <2>4, <2>6, <2>9 DEF Spent
<1> QED  BY <1>1 DEF AskedInv

\* Nothing more is asked, and no job waits that did not.
LEMMA SameJobs ==
    ASSUME TypeInv, tally' \in TallyType, AskedInv, [Next]_vars, UNCHANGED queue, tally'.asked = tally.asked,
           \A w \in Workers, m \in Monitors : Spared(m, {"again"})' => Spent(w, m)' <= Spent(w, m)
    PROVE  AskedInv'
<1>1. ASSUME NEW m \in Monitors
      PROVE  IsFiniteSet(Jobs(m)') /\ Jobs(m)' = Jobs(m) /\ Cardinality(Jobs(m)) \in Nat
  BY FS_CardinalityType DEF Jobs, AskedInv
<1>2. ASSUME NEW w \in Workers, NEW m \in Monitors PROVE Balanced(w, m) BY <1>1, Sums DEF Balanced
<1> QED  BY <1>1, <1>2, StillAsked

\* What stops being due, or becomes it.
LEMMA WhatIsDue ==
    ASSUME NEW m \in Monitors
    PROVE  /\ UNCHANGED due => \A n \in Monitors : IsDue(n)' <=> IsDue(n)
           /\ due' = NotDue(m) => ~IsDue(m)' /\ \A n \in Monitors : n # m => (IsDue(n)' <=> IsDue(n))
           /\ IsOrder(due) /\ due' = DueNow(m) => \A n \in Monitors : IsDue(n)' <=> IsDue(n) \/ n = m
<1>1. \A n \in Monitors : IsDue(n)' <=> n \in Listed(due') BY DEF IsDue, Listed
<1>2. UNCHANGED due => \A n \in Monitors : IsDue(n)' <=> IsDue(n) BY DEF IsDue, Listed
<1>3. due' = NotDue(m) => ~IsDue(m)' /\ \A n \in Monitors : n # m => (IsDue(n)' <=> IsDue(n))
    BY <1>1 DEF NotDue, Among, Listed, IsDue
<1>4. ASSUME IsOrder(due), due' = DueNow(m) PROVE \A n \in Monitors : IsDue(n)' <=> IsDue(n) \/ n = m
    BY <1>1, <1>4, DueNowOrder DEF IsDue
<1> QED  BY <1>2, <1>3, <1>4

\* A step of a check that asks for nothing, charges nothing and owes no more.
LEMMA StepAsked ==
    ASSUME TypeInv, tally' \in TallyType, AskedInv, [Next]_vars, UNCHANGED queue, tally'.asked = tally.asked,
           tally'.charged = tally.charged, NEW w \in Workers, NEW m \in Monitors, Others(w, m),
           UNCHANGED due \/ due' = NotDue(m), Spared(m, {"again"})' => Owed(w, m)' <= Owed(w, m)
    PROVE  AskedInv'
<1>1. \A n \in Monitors : IsDue(n)' => IsDue(n) BY WhatIsDue
<1>2. ASSUME NEW v \in Workers, NEW n \in Monitors, Spared(n, {"again"})' PROVE Spent(v, n)' <= Spent(v, n)
  BY Sums, <1>2, <1>1 DEF Others, Owed, Spent
<1> QED  BY <1>2, SameJobs

\* What is owed before a check passed its quota, after it charged, elsewhere.
LEMMA Owes ==
    ASSUME NEW w \in Workers, NEW m \in Monitors
    PROVE  /\ check[w][m].pc \in {"listed", "lock", "quota", "verify", "charge"} => Owed(w, m) = 1
           /\ check[w][m].pc \in {"record", "update", "saveFailure"} => Owed(w, m) = 0
           /\ check[w][m].pc \notin {"listed", "lock", "quota", "verify", "charge", "record", "update", "saveFailure"} =>
                 Owed(w, m) = IF IsDue(m) THEN 1 ELSE 0
           /\ check'[w][m].pc \in {"listed", "lock", "quota", "verify", "charge"} => Owed(w, m)' = 1
           /\ check'[w][m].pc \in {"record", "update", "saveFailure"} => Owed(w, m)' = 0
           /\ check'[w][m].pc \notin {"listed", "lock", "quota", "verify", "charge", "record", "update", "saveFailure"} =>
                 Owed(w, m)' = IF IsDue(m)' THEN 1 ELSE 0
           /\ Owed(w, m) \in {0, 1} /\ Owed(w, m)' \in {0, 1}
BY DEF Owed

\* A check that goes on; charging aside, it owes no more than it did.
LEMMA WalkAsked ==
    ASSUME TypeInv, tally' \in TallyType, AskedInv, [Next]_vars, NEW w \in Workers, NEW m \in Monitors,
           NEW from, NEW to, Walks(w, m, from, to), UNCHANGED due \/ due' = NotDue(m),
           tally'.asked = tally.asked, tally'.charged = tally.charged,
           \/ from \in {"listed", "lock", "quota", "verify", "charge"}
           \/ to \in {"record", "update", "saveFailure"}
           \/ to \notin {"listed", "lock", "quota", "verify", "charge"} /\ due' = NotDue(m)
           \/ /\ from \notin {"record", "update", "saveFailure"}
              /\ to \notin {"listed", "lock", "quota", "verify", "charge", "record", "update", "saveFailure"}
           \/ ~Spared(m, {"again"})'
    PROVE  AskedInv'
<1>1. check[w][m].pc = from /\ check'[w][m].pc = to BY DEF Walks
<1>2. IsDue(m)' => IsDue(m) BY WhatIsDue
<1>3. due' = NotDue(m) => ~IsDue(m)' BY WhatIsDue
<1>4. ASSUME Spared(m, {"again"})' PROVE Owed(w, m)' <= Owed(w, m) BY Owes, <1>1, <1>3, <1>2, <1>4
<1> QED  BY <1>4, StepAsked DEF Walks

\* The charge that was owed is made.
LEMMA ChargeAsked ==
    ASSUME TypeInv, tally' \in TallyType, AskedInv, [Next]_vars, NEW w \in Workers, NEW m \in Monitors, Charge(w, m)
    PROVE  AskedInv'
<1>1. PICK c \in [Workers -> [Monitors -> Nat]] : c = tally.charged BY DEF TypeInv, TableTypes, TallyType
<1>2. tally'.charged = [c EXCEPT ![w][m] = @ + 1] /\ tally'.asked = tally.asked BY <1>1, ChargeWalks DEF Tells
<1>3. Walks(w, m, "charge", "record") BY ChargeWalks
<1>4. UNCHANGED <<queue, due>> BY DEF Charge
<1>5. ASSUME NEW v \in Workers, NEW n \in Monitors PROVE Spent(v, n)' <= Spent(v, n)
  BY Owes, <1>3, <1>2, <1>1, <1>4, WhatIsDue DEF Walks, Spent, Others, Owed
<1> QED  BY <1>2, <1>4, <1>5, SameJobs

\* The steps of a check that does not end.
LEMMA CheckAsked ==
    ASSUME TypeInv, tally' \in TallyType, GoneInv, AskedInv, [Next]_vars, NEW w \in Workers, NEW m \in Monitors,
           CheckNext(w, m), ~Ends(w, m)
    PROVE  AskedInv'
<1>1. CASE Charge(w, m) BY <1>1, ChargeAsked
<1>2. CASE Lock(w, m) BY <1>2, LockWalks, WalkAsked DEF Lock
<1>3. CASE ReadQuota(w, m) BY <1>3, ReadQuotaWalks, WalkAsked DEF ReadQuota
<1>4. CASE Reschedule(w, m) BY <1>4, RescheduleWalks, WalkAsked DEF Reschedule
<1>5. CASE Verify(w, m) BY <1>5, VerifyWalks, WalkAsked DEF Verify
<1>6. CASE Record(w, m) BY <1>6, RecordWalks, WalkAsked DEF Record
<1>7. CASE Update(w, m) BY <1>7, UpdateWalks, WalkAsked DEF Update, AfterCheck, Tells
<1>8. CASE Dispatch(w, m) BY <1>8, DispatchTells, DispatchWalks, WalkAsked DEF Tells, Dispatch
<1>9. CASE MarkSent(w, m) BY <1>9, MarkSentWalks, WalkAsked DEF MarkSent
<1>10. CASE CheckFails(w, m) BY <1>10, CheckFailsWalks, CheckFailsTells, WalkAsked DEF CheckFails, Tells
<1>11. CASE SaveFailure(w, m) BY <1>11, SaveFailureWalks, WalkAsked DEF SaveFailure
<1>12. CASE SaveFailureFails(w, m)
    <2>1. Walks(w, m, "saveFailure", "unlockThrow") /\ UNCHANGED <<queue, due>>
        BY <1>12, SaveFailureFailsWalks DEF SaveFailureFails
    <2>2. tally'.asked = tally.asked /\ tally'.charged = tally.charged BY <1>12, SaveFailureFailsTells DEF Tells
    <2>3. CASE Exists(m)
    BY <1>12, <2>3, SaveFailureFailsTells, <2>1, <2>2, WalkAsked DEF Tells, Spared, TypeInv, TableTypes,
       TallyType
    <2>4. CASE ~Exists(m) BY <2>1, <2>4, WhatIsDue, Owes, <2>2, StepAsked DEF GoneInv, Walks
    <2> QED  BY <2>3, <2>4
<1>13. CASE Unlock(w, m) BY <1>13, UnlockWalks, WalkAsked DEF Unlock
<1> QED  BY <1>1, <1>2, <1>3, <1>4, <1>5, <1>6, <1>7, <1>8, <1>9, <1>10, <1>11, <1>12, <1>13, SkipLockedEnds, DeleteLockEnds DEF CheckNext

\* Of the jobs that wait, only the one that changed came or went.
LEMMA JobChanges ==
    ASSUME IsQueue(queue), NEW id \in DOMAIN queue, NEW states, Only(queue, queue', id, states), NEW m \in Monitors,
           IsFiniteSet(Jobs(m))
    PROVE  /\ IsFiniteSet(Jobs(m)') /\ Cardinality(Jobs(m)) \in Nat /\ Cardinality(Jobs(m)') \in Nat
           /\ Cardinality(Jobs(m)') <= Cardinality(Jobs(m)) + 1
           /\ ~(queue'[id].state = "waiting" /\ queue[id].data.monitor = m) =>
                 Cardinality(Jobs(m)') <= Cardinality(Jobs(m))
           /\ id \in Jobs(m) /\ queue'[id].state # "waiting" => Cardinality(Jobs(m)') = Cardinality(Jobs(m)) - 1
<1>1. PICK J : J = Jobs(m) /\ IsFiniteSet(J) OBVIOUS
<1>2. PICK K : K = Jobs(m)' OBVIOUS
<1>3. DOMAIN queue' = DOMAIN queue /\ \A i \in DOMAIN queue : queue'[i].data.monitor = queue[i].data.monitor /\ (i # id => queue'[i] = queue[i])
    BY DEF Only
<1>4. K = IF queue'[id].state = "waiting" /\ queue[id].data.monitor = m THEN J \cup {id} ELSE J \ {id}
    <2>1. ASSUME NEW i
          PROVE  i \in K <=> IF i = id THEN queue'[id].state = "waiting" /\ queue[id].data.monitor = m ELSE i \in J
        BY <1>1, <1>2, <1>3 DEF Jobs
    <2>2. CASE queue'[id].state = "waiting" /\ queue[id].data.monitor = m BY <2>1, <2>2
    <2>3. CASE ~(queue'[id].state = "waiting" /\ queue[id].data.monitor = m) BY <2>1, <2>3
    <2> QED  BY <2>2, <2>3
<1>5. PICK j \in Nat : j = Cardinality(J) BY <1>1, FS_CardinalityType
<1>6. /\ IsFiniteSet(J \cup {id}) /\ Cardinality(J \cup {id}) = IF id \in J THEN j ELSE j + 1
      /\ IsFiniteSet(J \ {id}) /\ Cardinality(J \ {id}) = IF id \in J THEN j - 1 ELSE j
    BY <1>1, <1>5, FS_AddElement, FS_RemoveElement
<1>7. IsFiniteSet(K) BY <1>4, <1>6
<1>8. PICK k \in Nat : k = Cardinality(K) BY <1>7, FS_CardinalityType
<1>9. k <= j + 1 /\ (~(queue'[id].state = "waiting" /\ queue[id].data.monitor = m) => k <= j)
    BY <1>4, <1>5, <1>6, <1>8
<1>10. id \in J /\ queue'[id].state # "waiting" => k = j - 1 BY <1>4, <1>6, <1>8
<1> QED  BY <1>1, <1>2, <1>5, <1>7, <1>8, <1>9, <1>10

\* What is owed by a worker whose jobs and dues are as they were.
LEMMA SameOwed ==
    ASSUME NEW v \in Workers, NEW n \in Monitors, check'[v][n] = check[v][n], IsDue(n)' <=> IsDue(n)
    PROVE  Owed(v, n)' = Owed(v, n)
BY DEF Owed

\* A worker stops: its recheck, if it waits once more, has asked once more.
LEMMA StopAsked ==
    ASSUME TypeInv, tally' \in TallyType, AskedInv, [Next]_vars, NEW w \in Workers,
           IF worker[w].kind = "recheck"
           THEN \E states : Only(queue, queue', worker[w].id, states) ELSE UNCHANGED queue,
           tally'.asked = AskedAgain(w), tally'.charged = tally.charged,
           \A v \in Workers, m \in Monitors : Spared(m, {"again"})' => Owed(v, m)' <= Owed(v, m)
    PROVE  AskedInv'
<1>0. IsQueue(queue) BY DEF TypeInv, FlowTypes
<1>1. CASE worker[w].kind # "recheck"
    <2>1. tally'.asked = tally.asked BY <1>1 DEF TypeInv, TableTypes, TallyType, AskedAgain
    <2>2. ASSUME NEW v \in Workers, NEW m \in Monitors, Spared(m, {"again"})' PROVE Spent(v, m)' <= Spent(v, m)
    BY Sums, Owes, <2>2 DEF Spent
    <2> QED  BY <1>1, <2>1, <2>2, SameJobs
<1>2. CASE worker[w].kind = "recheck"
    <2>1. PICK id, states : id \in DOMAIN queue /\ id = worker[w].id /\ Only(queue, queue', id, states)
        BY <1>2 DEF TypeInv, FlowTypes
    <2>2. ASSUME NEW m \in Monitors
          PROVE  /\ IsFiniteSet(Jobs(m)') /\ Cardinality(Jobs(m)) \in Nat /\ Cardinality(Jobs(m)') \in Nat
                 /\ Cardinality(Jobs(m)') + tally.asked[m] <= Cardinality(Jobs(m)) + tally'.asked[m]
        <3>1. IsFiniteSet(Jobs(m)) BY DEF AskedInv
        <3>2. /\ IsFiniteSet(Jobs(m)') /\ Cardinality(Jobs(m)) \in Nat /\ Cardinality(Jobs(m)') \in Nat
              /\ Cardinality(Jobs(m)') <= Cardinality(Jobs(m)) + 1
              /\ ~(queue'[id].state = "waiting" /\ queue[id].data.monitor = m) =>
                    Cardinality(Jobs(m)') <= Cardinality(Jobs(m))
            BY <1>0, <2>1, <3>1, JobChanges
        <3>3. PICK j \in Nat, k \in Nat : j = Cardinality(Jobs(m)) /\ k = Cardinality(Jobs(m)') BY <3>2
        <3>4. PICK a \in Nat : a = tally.asked[m] BY DEF TypeInv, TableTypes, TallyType
        <3>5. tally'.asked[m] = a + IF queue'[id].state = "waiting" /\ queue[id].data.monitor = m THEN 1 ELSE 0
            BY <1>2, <2>1, <3>4 DEF AskedAgain, Waiting, Has, Only
        <3>6. CASE queue'[id].state = "waiting" /\ queue[id].data.monitor = m BY <3>2, <3>3, <3>4, <3>5, <3>6
        <3>7. CASE ~(queue'[id].state = "waiting" /\ queue[id].data.monitor = m) BY <3>2, <3>3, <3>4, <3>5, <3>7
        <3> QED  BY <3>6, <3>7
    <2>3. ASSUME NEW v \in Workers, NEW m \in Monitors PROVE Balanced(v, m)
        <3>1. SUFFICES ASSUME Spared(m, {"again"})'
                       PROVE  Spent(v, m)' + Cardinality(Jobs(m)') + tally.asked[m]
                                 <= Spent(v, m) + Cardinality(Jobs(m)) + tally'.asked[m]
            BY DEF Balanced
        <3>2. PICK j \in Nat, k \in Nat : j = Cardinality(Jobs(m)) /\ k = Cardinality(Jobs(m)') BY <2>2
        <3>3. PICK a \in Nat, b \in Nat, c \in Nat :
                 a = tally.asked[m] /\ b = tally'.asked[m] /\ c = tally.charged[v][m] /\ c = tally'.charged[v][m]
            BY Sums
        <3>4. PICK o \in {0, 1}, p \in {0, 1} : o = Owed(v, m) /\ p = Owed(v, m)' /\ p <= o BY <3>1, Owes
        <3>5. k + a <= j + b BY <2>2, <3>2, <3>3
        <3>6. (c + p) + k + a <= (c + o) + j + b BY <3>4, <3>5
        <3> QED  BY <3>2, <3>3, <3>4, <3>6 DEF Spent
    <2> QED  BY <2>2, <2>3, StillAsked
<1> QED  BY <1>1, <1>2

\* A check ends.
LEMMA EndAsked ==
    ASSUME TypeInv, tally' \in TallyType, AskedInv, [Next]_vars, NEW w \in Workers, NEW m \in Monitors, Ends(w, m)
    PROVE  AskedInv'
<1>1. ASSUME NEW v \in Workers, NEW n \in Monitors PROVE Owed(v, n)' <= Owed(v, n)
  BY WhatIsDue, Owes, SameOwed DEF Ends, Others
<1>2. tally'.asked = AskedAgain(w) /\ tally'.charged = tally.charged BY DEF Ends, Tells
<1>3. IF worker[w].kind = "recheck" THEN \E states : Only(queue, queue', worker[w].id, states) ELSE UNCHANGED queue
    BY DEF Ends
<1> QED  BY <1>1, <1>2, <1>3, StopAsked

\* A worker dies; whoever it charged for without storing that is marked.
LEMMA CrashAsked ==
    ASSUME TypeInv, tally' \in TallyType, AskedInv, [Next]_vars, NEW w \in Workers, WorkerCrash(w)
    PROVE  AskedInv'
<1>1. /\ Turns(w, [m \in Monitors |-> NoCheck])
      /\ tally'.asked = AskedAgain(w) /\ tally'.charged = tally.charged
      /\ tally'.marred = [m \in Monitors |-> tally.marred[m] \cup Loses(w, m)]
    BY Dying DEF Tells
<1>2. ASSUME NEW v \in Workers, NEW n \in Monitors, Spared(n, {"again"})' PROVE Owed(v, n)' <= Owed(v, n)
  BY WhatIsDue, Owes, <1>1, <1>2, NotChecking, SameOwed DEF WorkerCrash, Spared, Loses, Turns
<1>3. IF worker[w].kind = "recheck" THEN \E states : Only(queue, queue', worker[w].id, states) ELSE UNCHANGED queue
    BY Dying
<1> QED  BY <1>1, <1>2, <1>3, StopAsked

\* The charges and what was asked stay; nothing is owed that was not.
LEMMA QuietAsked ==
    ASSUME TypeInv, AskedInv, [Next]_vars, UNCHANGED queue, tally' \in TallyType,
           tally'.asked = tally.asked, tally'.charged = tally.charged,
           \A v \in Workers, n \in Monitors : Owed(v, n)' <= Owed(v, n)
    PROVE  AskedInv'
<1>1. ASSUME NEW v \in Workers, NEW n \in Monitors PROVE Spent(v, n)' <= Spent(v, n) BY Sums, Owes DEF Spent
<1> QED  BY <1>1, SameJobs

\* What a tick lists is due, and what a chunk takes was listed.
LEMMA TickAsked ==
    ASSUME TypeInv, WorkInv, AskedInv, [Next]_vars, NEW w \in Workers,
           StartTick(w) \/ StartChunk(w) \/ EndTick(w)
    PROVE  AskedInv'
<1>1. UNCHANGED <<queue, due, tally>> /\ tally' \in TallyType
    BY DEF StartTick, StartChunk, EndTick, TypeInv, TableTypes
<1>2. \A n \in Monitors : IsDue(n)' <=> IsDue(n) BY <1>1, WhatIsDue
<1>3. \A v \in Workers : v # w => check'[v] = check[v] BY TickStarts, ChunkStarts DEF Turns, EndTick
<1>4. ASSUME NEW n \in Monitors PROVE Owed(w, n)' <= Owed(w, n)
    <2>1. PICK o \in {0, 1}, p \in {0, 1} : o = Owed(w, n) /\ p = Owed(w, n)' BY Owes
    <2>2. CASE EndTick(w) BY <1>2, <2>1, <2>2, SameOwed DEF EndTick
    <2>3. CASE StartTick(w)
        <3>1. check[w][n].pc = "none" BY <2>3 DEF StartTick, WorkInv, Work, Idle
        <3>2. check'[w][n] = IF n \in Listed(Batch) THEN Snapshot(n, "listed") ELSE NoCheck
            BY <2>3, TickStarts DEF Turns
        <3>3. CASE n \in Listed(Batch) BY <3>3, <2>1, <3>1, Owes DEF IsDue, Listed, Batch, ToCheck, Among
        <3>4. CASE n \notin Listed(Batch) BY <3>2, <3>4, NotChecking, <1>2, <2>1, <3>1, Owes
        <3> QED  BY <3>3, <3>4
    <2>4. CASE StartChunk(w)
        <3>1. IsOrder(worker[w].todo) /\ MONITOR_CONCURRENCY \in Nat BY MonitorAssumption DEF WorkInv, Work
        <3>2. Earliest(worker[w].todo, MONITOR_CONCURRENCY) \subseteq Listed(worker[w].todo) BY <3>1, Few
        <3>3. check'[w][n] = check[w][n] \/ n \in Listed(worker[w].todo) BY <2>4, <3>2, ChunkStarts DEF Turns
        <3>4. CASE check'[w][n] = check[w][n] BY <1>2, <2>1, <3>4, SameOwed
        <3>5. CASE n \in Listed(worker[w].todo) BY <3>5, <2>1, Owes DEF WorkInv, Work
        <3> QED  BY <3>3, <3>4, <3>5
    <2> QED  BY <2>2, <2>3, <2>4
<1>5. ASSUME NEW v \in Workers, NEW n \in Monitors PROVE Owed(v, n)' <= Owed(v, n)
  BY Owes, <1>4, <1>2, <1>3, SameOwed
<1> QED  BY <1>1, <1>5, QuietAsked

\* A recheck that starts waits no longer, and owes its check instead.
LEMMA StartAsked ==
    ASSUME TypeInv, WorkInv, AskedInv, [Next]_vars, NEW w \in Workers, NEW id \in Rechecks, StartRecheck(w, id)
    PROVE  AskedInv'
<1>0. UNCHANGED <<due, tally>> /\ tally' \in TallyType BY DEF StartRecheck, TypeInv, TableTypes
<1>1. id \in DOMAIN queue /\ IsQueue(queue) /\ queue[id].state = "waiting"
    BY RecheckStarts DEF TypeInv, FlowTypes
<1>2. PICK states : Only(queue, queue', id, states) /\ "waiting" \notin states BY RecheckStarts
<1>3. queue'[id].state # "waiting" BY <1>2 DEF Only
<1>4. PICK k \in Monitors : k = queue[id].data.monitor BY <1>1 DEF IsQueue, JobType
<1>5. \A v \in Workers, n \in Monitors : v # w \/ n # k => check'[v][n] = check[v][n]
    BY <1>4, RecheckStarts DEF Becomes, Others
<1>6. ASSUME NEW n \in Monitors
      PROVE  /\ IsFiniteSet(Jobs(n)') /\ Cardinality(Jobs(n)) \in Nat /\ Cardinality(Jobs(n)') \in Nat
             /\ Cardinality(Jobs(n)') <= Cardinality(Jobs(n))
             /\ n = k => Cardinality(Jobs(n)') = Cardinality(Jobs(n)) - 1
  BY <1>1, <1>4, <1>2, <1>3, JobChanges DEF AskedInv, Jobs
<1>7. ASSUME NEW v \in Workers, NEW n \in Monitors PROVE Balanced(v, n)
  BY <1>6, <1>0, Sums, Owes, <1>5, WhatIsDue, SameOwed DEF Balanced, Spent
<1> QED  BY <1>0, <1>6, <1>7, StillAsked

\* A monitor becomes due: every worker may owe it a check.
LEMMA DueAsked ==
    ASSUME TypeInv, WorkInv, AskedInv, [Next]_vars, NEW m \in Monitors, TimePasses(m) PROVE AskedInv'
<1>1. PICK a \in [Monitors -> Nat] : a = tally.asked BY DEF TypeInv, TableTypes, TallyType
<1>2. tally' \in TallyType /\ tally'.asked = [a EXCEPT ![m] = @ + 1] /\ tally'.charged = tally.charged
    BY <1>1, TimePassesTells DEF Tells
<1>3. UNCHANGED <<queue, check>> /\ \A n \in Monitors : IsDue(n)' <=> IsDue(n) \/ n = m
    BY WhatIsDue DEF TimePasses, WorkInv
<1>4. ASSUME NEW n \in Monitors
      PROVE  IsFiniteSet(Jobs(n)') /\ Jobs(n)' = Jobs(n) /\ Cardinality(Jobs(n)) \in Nat
  BY <1>3, FS_CardinalityType DEF Jobs, AskedInv
<1>5. ASSUME NEW v \in Workers, NEW n \in Monitors PROVE Balanced(v, n)
  BY <1>4, <1>2, Sums, Owes, <1>1, <1>3, SameOwed DEF Balanced, Spent
<1> QED  BY <1>2, <1>4, <1>5, StillAsked

\* The owner asks for a recheck: a job waits, and the monitor is due.
LEMMA RecheckAsked ==
    ASSUME TypeInv, WorkInv, AskedInv, [Next]_vars, NEW m \in Monitors, NEW id \in Rechecks, Recheck(m, id)
    PROVE  AskedInv'
<1>1. PICK a \in [Monitors -> Nat] : a = tally.asked BY DEF TypeInv, TableTypes, TallyType
<1>2. /\ tally' \in TallyType /\ tally'.charged = tally.charged
      /\ tally'.asked = [a EXCEPT ![m] = @ + (IF IsDue(m) THEN 1 ELSE 2)]
    BY <1>1, RecheckTells DEF Tells
<1>3. UNCHANGED check /\ \A n \in Monitors : IsDue(n)' <=> IsDue(n) \/ n = m BY WhatIsDue DEF Recheck, WorkInv
<1>4. /\ IsQueue(queue) /\ id \in Rechecks \ DOMAIN queue
      /\ queue' = Add(queue, id, [monitor |-> m, attempts |-> 1])
    BY DEF Recheck, Has, TypeInv, FlowTypes
<1>5. /\ IsQueue(queue') /\ DOMAIN queue' = DOMAIN queue \cup {id}
      /\ \A i \in DOMAIN queue : queue'[i] = queue[i]
      /\ queue'[id].state = "waiting" /\ queue'[id].data.monitor = m
  BY <1>4 DEF Add, Has, IsQueue, JobType
<1>6. ASSUME NEW n \in Monitors
      PROVE  /\ IsFiniteSet(Jobs(n)') /\ Cardinality(Jobs(n)) \in Nat /\ Cardinality(Jobs(n)') \in Nat
             /\ Cardinality(Jobs(n)') = IF n = m THEN Cardinality(Jobs(n)) + 1 ELSE Cardinality(Jobs(n))
    <2>1. PICK J : J = Jobs(n) /\ IsFiniteSet(J) BY DEF AskedInv
    <2>2. PICK K : K = Jobs(n)' OBVIOUS
    <2>3. id \notin J BY <1>4, <2>1 DEF Jobs
    <2>4. K = IF n = m THEN J \cup {id} ELSE J BY <1>4, <1>5, <2>1, <2>2 DEF Jobs
    <2>5. PICK j \in Nat : j = Cardinality(J) BY <2>1, FS_CardinalityType
    <2>6. IsFiniteSet(J \cup {id}) /\ Cardinality(J \cup {id}) = j + 1 BY <2>1, <2>3, <2>5, FS_AddElement
    <2> QED  BY <2>1, <2>2, <2>4, <2>5, <2>6
<1>7. ASSUME NEW v \in Workers, NEW n \in Monitors PROVE Balanced(v, n)
  BY <1>6, <1>2, Sums, Owes, <1>1, <1>3, SameOwed DEF Balanced, Spent
<1> QED  BY <1>2, <1>6, <1>7, StillAsked

\* Every step keeps the charges covered by what was asked.
LEMMA AskedKept ==
    ASSUME TypeInv, WorkInv, GoneInv, AskedInv, [Next]_vars PROVE AskedInv'
<1>0. tally' \in TallyType BY TypesKept DEF TypeInv, TableTypes
<1>1. ASSUME NEW w \in Workers, NEW m \in Monitors, CheckNext(w, m) PROVE AskedInv'
    BY <1>0, <1>1, EndAsked, CheckAsked
<1>2. ASSUME NEW w \in Workers, WorkerCrash(w) \/ StartTick(w) \/ StartChunk(w) \/ EndTick(w) PROVE AskedInv'
    BY <1>0, <1>2, CrashAsked, TickAsked
<1>3. ASSUME NEW w \in Workers, NEW id \in Rechecks, StartRecheck(w, id) PROVE AskedInv' BY <1>3, StartAsked
<1>4. ASSUME NEW m \in Monitors, TimePasses(m) \/ \E id \in Rechecks : Recheck(m, id) PROVE AskedInv'
    BY <1>4, DueAsked, RecheckAsked
<1>5. ASSUME UNCHANGED <<queue, check>>, tally'.asked = tally.asked, tally'.charged = tally.charged,
             UNCHANGED due \/ \E m \in Monitors : due' = NotDue(m)
      PROVE  AskedInv'
    <2>1. \A n \in Monitors : IsDue(n)' => IsDue(n) BY <1>5, WhatIsDue
    <2>2. ASSUME NEW v \in Workers, NEW n \in Monitors PROVE Owed(v, n)' <= Owed(v, n)
    BY Owes, <1>5, <2>1 DEF Owed
    <2> QED  BY <1>0, <1>5, <2>2, QuietAsked
<1>6. ASSUME NEW m \in Monitors, LockExpires(m) \/ LockOutlived(m) PROVE AskedInv'
  BY <1>6, LockOutlivedTells, <1>5 DEF LockExpires, LockOutlived, Tells
<1>7. ASSUME NEW r \in Requests, SaveMonitor(r) PROVE AskedInv'
  BY <1>7, SaveMonitorTells, <1>5 DEF SaveMonitor, Tells, Forgets
<1>8. ASSUME NEW m \in Monitors, Patch(m) \/ DeleteMonitor(m) \/ \E r \in Requests : CheckCap(r, m) PROVE AskedInv'
  BY <1>8, PatchTells, DeleteMonitorTells, CheckCapTells, <1>5 DEF Patch, DeleteMonitor, CheckCap, Tells,
     Forgets
<1>9. CASE UNCHANGED vars BY <1>5, <1>9 DEF vars
<1> QED  BY <1>1, <1>2, <1>3, <1>4, <1>6, <1>7, <1>8, <1>9 DEF Next, WorkerNext, OwnerNext

------------------------------------------------------------------------------
(* The beginning.                                                          *)

\* Everybody is idle, and nothing is due.
LEMMA InitTypes == ASSUME Init PROVE TypeInv
  BY NewMonitors, NotWorking, NotChecking DEF Init, TallyType, EmptyQueue, IsQueue, RequestType, TypeInv,
     TableTypes, FlowTypes

\* The invariant holds at the start.
LEMMA InitHolds == ASSUME Init PROVE IInv
<1>1. TypeInv BY InitTypes
<1>2. \A w \in Workers, m \in Monitors : check[w][m].pc = "none" BY NotChecking DEF Init
<1>3. \A m \in Monitors : checks[m] = << >> BY DEF Init
<1>4. WorkInv
    <2>1. IsOrder({}) /\ Listed({}) = {} /\ 0 <= MONITOR_CONCURRENCY BY MonitorAssumption DEF IsOrder, Listed
    <2>2. ASSUME NEW w \in Workers PROVE Work(w)
    BY NotWorking, <1>2, FS_EmptySet, <2>1 DEF Init, Busy, Work, Idle
    <2> QED  BY <2>1, <2>2 DEF WorkInv, Init
<1>5. LockInv BY <1>2 DEF LockInv, InsideLock
<1>6. GoneInv BY <1>3 DEF GoneInv, Init, IsDue, Listed
<1>7. AskedInv
    <2>1. ASSUME NEW m \in Monitors
          PROVE  /\ IsFiniteSet(Jobs(m))
                 /\ \A w \in Workers : tally.charged[w][m] + Owed(w, m) + Cardinality(Jobs(m)) <= tally.asked[m]
        <3>1. PICK J : J = Jobs(m) OBVIOUS
        <3>2. J = {} BY <3>1 DEF Init, EmptyQueue, Jobs
        <3>3. IsFiniteSet(J) /\ Cardinality(J) = 0 BY <3>2, FS_EmptySet
        <3>4. ASSUME NEW w \in Workers PROVE Owed(w, m) = 0 /\ tally.charged[w][m] = 0 /\ tally.asked[m] = 0
      BY <1>2, Owes DEF Init, IsDue, Listed
        <3> QED  BY <3>1, <3>3, <3>4
    <2> QED  BY <2>1 DEF AskedInv
<1>8. RowInv BY <1>2, <1>3 DEF RowInv, Row, ChangesTold
<1>9. PassedInv
    <2>1. PICK P : P = Passed OBVIOUS
    <2>2. P = {} BY <1>2, <2>1 DEF Passed
    <2>3. IsFiniteSet(P) /\ Cardinality(P) = 0 BY <2>2, FS_EmptySet
    <2>4. PICK K \in Nat : K = Cardinality(Workers) * MONITOR_CONCURRENCY /\ K >= 1 BY Bound
    <2>5. usage = 0 /\ PlanLimit \in Nat BY MonitorAssumption DEF Init
    <2> QED  BY <2>1, <2>3, <2>4, <2>5 DEF PassedInv
<1>10. FailureInv
    <2>1. ASSUME NEW m \in Monitors PROVE monitor[m].failures = 0 /\ tally.errors[m] = 0 BY NewMonitors DEF Init
    <2> QED  BY <1>2, <2>1 DEF FailureInv, At
<1> QED  BY <1>1, <1>4, <1>5, <1>6, <1>7, <1>8, <1>9, <1>10 DEF IInv

\* Every step keeps the invariant.
LEMMA Inductive == ASSUME IInv, [Next]_vars PROVE IInv'
BY TypesKept, WorkKept, LockKept, GoneKept, AskedKept, RowKept, PassedKept, FailureKept DEF IInv

------------------------------------------------------------------------------
(* What it gives.                                                          *)

\* Whoever is inside holds the lock, which only one worker can.
LEMMA Alone == ASSUME IInv PROVE OneAtATime
BY DEF IInv, LockInv, OneAtATime

\* The charges, the rows and the quota.
LEMMA Holding == ASSUME IInv PROVE ChecksHold
<1>1. TypeInv /\ AskedInv /\ RowInv /\ PassedInv /\ WorkInv BY DEF IInv
<1>2. AskedFor
    <2>1. ASSUME NEW m \in Monitors, NEW w \in Workers, Spared(m, {"again"})
          PROVE  tally.charged[w][m] <= tally.asked[m]
        <3>1. PICK c \in Nat, a \in Nat : c = tally.charged[w][m] /\ a = tally.asked[m]
            BY <1>1 DEF TypeInv, TableTypes, TallyType
        <3>2. PICK J : J = Jobs(m) /\ IsFiniteSet(J) BY <1>1 DEF AskedInv
        <3>3. PICK j \in Nat : j = Cardinality(J) BY <3>2, FS_CardinalityType
        <3>4. PICK o \in {0, 1} : o = Owed(w, m) BY Owes
        <3>5. c + o + j <= a BY <1>1, <2>1, <3>1, <3>2, <3>3, <3>4 DEF AskedInv
        <3> QED  BY <3>1, <3>5
    <2> QED  BY <2>1 DEF AskedFor
<1>3. ChangesTold BY <1>1 DEF RowInv
<1>4. OverrunBounded
    <2>1. PICK P : P = Passed /\ IsFiniteSet(P) BY <1>1 DEF PassedInv
    <2>2. PICK p \in Nat, u \in Nat : p = Cardinality(P) /\ u = usage
        BY <1>1, <2>1, FS_CardinalityType DEF TypeInv, TableTypes
    <2>3. PICK K \in Nat : K = Cardinality(Workers) * MONITOR_CONCURRENCY BY Bound
    <2>4. u + p <= PlanLimit + K - 1 /\ PlanLimit \in Nat
        BY <1>1, <2>1, <2>2, <2>3, MonitorAssumption DEF PassedInv
    <2>5. u <= PlanLimit + K - 1 BY <2>4
    <2> QED  BY <2>2, <2>3, <2>5 DEF OverrunBounded
<1>5. TypeOK
    <2>1. ASSUME NEW m \in Monitors, NEW i \in DOMAIN checks[m] PROVE checks[m][i] \in RowType
        BY <1>1, <2>1, RowThere
    <2>2. ASSUME NEW w \in Workers PROVE worker[w].kind \in {"idle", "tick", "recheck"} /\ IsOrder(worker[w].todo)
    BY <1>1 DEF TypeInv, FlowTypes, WorkerType, WorkInv, Work
    <2>3. IsOrder(due) BY <1>1 DEF WorkInv
    <2> QED  BY <1>1, <2>1, <2>2, <2>3
             DEF TypeOK, TypeInv, TableTypes, FlowTypes, MonitorType, RowType, CheckType, Verdicts, IsQueue
<1> QED  BY <1>2, <1>3, <1>4, <1>5 DEF ChecksHold

\* Only a failure that is stored pauses a monitor, and it was counted.
LEMMA Paused ==
    ASSUME IInv, [Next]_vars, NEW m \in Monitors, Spared(m, {"slow"}), ~monitor[m].paused, monitor'[m].paused
    PROVE  tally.errors[m] >= MAX_CONSECUTIVE_FAILURES
<1>0. TypeInv /\ monitor' # monitor BY DEF IInv
<1>1. ASSUME NEW n \in Monitors, NEW x, Sets(n, x), x.paused => monitor[n].paused PROVE FALSE
    BY <1>0, <1>1, OneSet
<1>2. ASSUME NEW w \in Workers, NEW n \in Monitors, CheckNext(w, n)
      PROVE  tally.errors[m] >= MAX_CONSECUTIVE_FAILURES
    <2>1. CASE SaveFailure(w, n)
        <3>1. PICK x : /\ Sets(n, x) /\ x.failures = check[w][n].failures + 1
                       /\ x.paused => monitor[n].paused \/ x.failures >= MAX_CONSECUTIVE_FAILURES
            BY <1>0, <2>1, SaveFailureSets
        <3>2. monitor'[n] = x /\ \A k \in Monitors : k # n => monitor'[k] = monitor[k] BY <1>0, <3>1, OneSet
        <3>3. m = n BY <3>2
        <3>4. check[w][m].failures + 1 >= MAX_CONSECUTIVE_FAILURES BY <3>1, <3>2, <3>3
        <3>5. check[w][m].failures + 1 <= tally.errors[m] BY <2>1, <3>3 DEF IInv, FailureInv, SaveFailure
        <3>6. check[w][m].failures \in Nat /\ tally.errors[m] \in Nat /\ MAX_CONSECUTIVE_FAILURES \in Nat
            BY <1>0, Numbers, MonitorAssumption
        <3> QED  BY <3>4, <3>5, <3>6
    <2>2. CASE Update(w, n) BY <1>0, <1>1, <2>2, UpdateSets
    <2>3. CASE Ends(w, n) BY <1>0, <2>3 DEF Ends
    <2>4. CASE ~SaveFailure(w, n) /\ ~Update(w, n) /\ ~Ends(w, n)
        BY <1>0, <1>2, <2>4 DEF CheckNext, Lock, SkipLocked, ReadQuota, Reschedule, Verify, Charge, Record,
                    Dispatch, MarkSent, CheckFails, SaveFailureFails, Unlock, DeleteLock
    <2> QED  BY <2>1, <2>2, <2>3, <2>4
<1>3. ASSUME NEW n \in Monitors, Patch(n) PROVE FALSE BY <1>0, <1>1, <1>3, PatchSets
<1>4. ASSUME NEW r \in Requests, SaveMonitor(r) PROVE FALSE
  BY <1>0, <1>4, SaveMonitorTells, <1>1, SaveMonitorSets
<1>5. ASSUME NEW n \in Monitors, DeleteMonitor(n) PROVE FALSE BY <1>1, <1>5, NewMonitors DEF DeleteMonitor, Sets
<1>6. CASE UNCHANGED vars BY <1>0, <1>6 DEF vars
<1>7. ASSUME NEW w \in Workers, WorkerCrash(w) \/ StartTick(w) \/ StartChunk(w) \/ EndTick(w) \/ \E id \in Rechecks : StartRecheck(w, id)
      PROVE  FALSE
    BY <1>0, <1>7 DEF WorkerCrash, StartTick, StartChunk, EndTick, StartRecheck
<1>8. ASSUME NEW n \in Monitors, \/ TimePasses(n) \/ LockExpires(n) \/ LockOutlived(n)
                                 \/ \E id \in Rechecks : Recheck(n, id)
                                 \/ \E r \in Requests : CheckCap(r, n)
      PROVE  FALSE
    BY <1>0, <1>8 DEF TimePasses, LockExpires, LockOutlived, Recheck, CheckCap
<1> QED  BY <1>2, <1>3, <1>4, <1>5, <1>6, <1>7, <1>8 DEF Next, WorkerNext, OwnerNext

\* IInv is invariant.
THEOREM Safe == Spec => []IInv
  BY InitHolds, Inductive, PTL DEF Spec

\* Two workers never check one monitor at the same time, whoever of them died
\* holding its lock, unless a check took longer than the lock lasts.
THEOREM AlwaysAlone == Spec => []OneAtATime
  BY Safe, Alone, PTL

\* Every worker charges the key at most once for every time a check was asked
\* for, every change is told, the quota is overrun by less than one chunk per
\* worker, and the tables have their types.
THEOREM ChecksAlwaysHold == Spec => []ChecksHold
  BY Safe, Holding, PTL

\* A monitor pauses only after MAX_CONSECUTIVE_FAILURES failures with no
\* success and no reactivation between them.
THEOREM PausesForCause == Spec => PausedForCause
<1>1. ASSUME IInv, [Next]_vars
      PROVE  [\A m \in Monitors : Spared(m, {"slow"}) /\ ~monitor[m].paused /\ monitor'[m].paused =>
                 tally.errors[m] >= MAX_CONSECUTIVE_FAILURES]_vars
    BY <1>1, Paused
<1> QED  BY <1>1, Safe, PTL DEF Spec, PausedForCause
=============================================================================
