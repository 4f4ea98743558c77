--------------------------- MODULE Accounts_proofs ---------------------------
(***************************************************************************)
(* Proofs about the parts that decide what an account may do, what it is   *)
(* charged for and whom it may mail.  Each part keeps its own state, so    *)
(* each has its own inductive invariant: a lemma that the initial states   *)
(* satisfy it, one that every step keeps it, one that it implies what the  *)
(* part promises.  The end of the module joins them to MCSpec.             *)
(***************************************************************************)
EXTENDS MCAccounts, FiniteSetTheorems, WellFoundedInduction, TLAPS

\* Numbers that are not none have a least.
LEMMA LeastOf ==
  ASSUME NEW A, A \subseteq Nat, A # {} PROVE \E k \in A : \A j \in A : k <= j
<1>1. IsWellFoundedOn(OpToRel(<, Nat), Nat) BY NatLessThanWellFounded
<1>2. PICK R : R = {ss \in Nat \X Nat : ss[1] < ss[2]} OBVIOUS
<1>3. IsWellFoundedOn(R, Nat) BY <1>1, <1>2 DEF OpToRel
<1>4. PICK k \in A : \A j \in A : <<j, k>> \notin R BY <1>3, WFMin
<1>5. ASSUME NEW j \in A PROVE k <= j
  <2>1. j \in Nat /\ k \in Nat /\ ~(j < k) BY <1>2, <1>4
  <2> QED BY <2>1
<1> QED BY <1>5

----------------------------------------------------------------------------
(***************************************************************************)
(* Connectors.  What was sent is what was recorded or lost, but for the    *)
(* one a callback at work still has to record; and an enrollment counts as *)
(* stopped until it is active again.                                       *)
(***************************************************************************)

\* The journal counts, and a callback is at one of its places.
ConnectorTypes ==
    /\ journal \in [sent : Nat, logged : Nat, unlogged : Nat]
    /\ pushes \in [acts : Nat, stopped : BOOLEAN]
    /\ payment \in {"idle", "log", "log sent", "send", "enroll"} /\ rule \in {"none", "send", "enroll"}

\* The inductive invariant of Connectors.
ConnectorInv ==
    /\ ConnectorTypes
    /\ pushes.stopped => enrolled = "stopped"
    /\ payment = "log sent" => journal.sent = journal.logged + journal.unlogged + 1
    /\ payment # "log sent" => journal.sent = journal.logged + journal.unlogged

\* The invariant holds at the start.
LEMMA ConnectorStarts == ConnectorInit => ConnectorInv
BY DEF ConnectorInit, ConnectorInv, ConnectorTypes

\* Every step of Connectors keeps the invariant.
LEMMA ConnectorStep == ConnectorInv /\ [ConnectorNext]_connectorVars => ConnectorInv'
<1> SUFFICES ASSUME ConnectorInv, [ConnectorNext]_connectorVars PROVE ConnectorInv' OBVIOUS
<1>t. /\ journal \in [sent : Nat, logged : Nat, unlogged : Nat]
      /\ pushes \in [acts : Nat, stopped : BOOLEAN]
      /\ payment \in {"idle", "log", "log sent", "send", "enroll"} /\ rule \in {"none", "send", "enroll"}
      /\ pushes.stopped => enrolled = "stopped"
      /\ payment = "log sent" => journal.sent = journal.logged + journal.unlogged + 1
      /\ payment # "log sent" => journal.sent = journal.logged + journal.unlogged
  BY DEF ConnectorInv, ConnectorTypes
<1> PICK a \in Nat, b \in Nat, c \in Nat : journal = [sent |-> a, logged |-> b, unlogged |-> c] BY <1>t
<1> PICK n \in Nat, f \in BOOLEAN : pushes = [acts |-> n, stopped |-> f] BY <1>t
<1>a. /\ f => enrolled = "stopped"
      /\ payment = "log sent" => a = b + c + 1
      /\ payment # "log sent" => a = b + c
  BY <1>t
<1>p. ASSUME NEW i \in Nat, Pushes(i) PROVE pushes' = [acts |-> n + i, stopped |-> f] BY <1>p DEF Pushes
<1>1. ASSUME NEW sequence, ClayPush(sequence) \/ OtherPush(sequence) PROVE ConnectorInv'
  <2>1. pushes' = [acts |-> n + 1, stopped |-> f] BY <1>1, <1>p DEF ClayPush, OtherPush
  <2>2. pushes' \in [acts : Nat, stopped : BOOLEAN] BY <2>1
  <2>3. pushes'.stopped => enrolled' = "stopped"
    BY <1>1, <1>a, <2>1 DEF ClayPush, OtherPush, Upsert, Refused, Enrolled
  <2>4. UNCHANGED <<journal, payment>> /\ rule' \in {"none", "send", "enroll"}
    BY <1>1, <1>t DEF ClayPush, OtherPush, Upsert, Refused, Enrolled
  <2> QED BY <1>t, <2>2, <2>3, <2>4 DEF ConnectorInv, ConnectorTypes
<1>2. CASE StopEnrollment BY <1>2, <1>a, <1>t DEF StopEnrollment, ConnectorInv, ConnectorTypes
<1>3. CASE RestartEnrollment
  <2>1. pushes' = [acts |-> n + 1, stopped |-> FALSE] BY <1>3 DEF RestartEnrollment
  <2>2. pushes' \in [acts : Nat, stopped : BOOLEAN] BY <2>1
  <2> PICK g \in BOOLEAN : g = FALSE OBVIOUS
  <2>3. pushes'.stopped = g BY <2>1
  <2>4. UNCHANGED <<journal, payment>> /\ rule' \in {"none", "send", "enroll"}
    BY <1>3, <1>t DEF RestartEnrollment
  <2> QED BY <1>t, <2>2, <2>3, <2>4 DEF ConnectorInv, ConnectorTypes
<1>4. ASSUME NEW r \in {"none", "send", "enroll"}, SetRule(r) PROVE ConnectorInv'
  <2>1. pushes' = [acts |-> n + 1, stopped |-> f] BY <1>4, <1>p DEF SetRule
  <2>2. pushes' \in [acts : Nat, stopped : BOOLEAN] BY <2>1
  <2>3. pushes'.stopped => enrolled' = "stopped" BY <1>4, <1>a, <2>1 DEF SetRule
  <2>4. UNCHANGED <<journal, payment>> /\ rule' \in {"none", "send", "enroll"} BY <1>4, <1>t DEF SetRule
  <2> QED BY <1>t, <2>2, <2>3, <2>4 DEF ConnectorInv, ConnectorTypes
<1>5. ASSUME NEW address \in BOOLEAN, ReceivePayment(address) PROVE ConnectorInv'
  <2>1. pushes' = [acts |-> n + 1, stopped |-> f] BY <1>5, <1>p DEF ReceivePayment
  <2>2. pushes' \in [acts : Nat, stopped : BOOLEAN] BY <2>1
  <2>3. pushes'.stopped => enrolled' = "stopped" BY <1>5, <1>a, <2>1 DEF ReceivePayment
  <2>4. UNCHANGED journal /\ payment # "log sent" /\ payment' \in {"idle", "log", "log sent", "send", "enroll"} /\ payment' # "log sent" /\ rule' \in {"none", "send", "enroll"}
    BY <1>5, <1>t DEF ReceivePayment
  <2> QED BY <1>t, <2>2, <2>3, <2>4 DEF ConnectorInv, ConnectorTypes
<1>u. ASSUME pushes' = [acts |-> n, stopped |-> f] \/ pushes' = [acts |-> n + 2, stopped |-> f]
      PROVE  pushes' \in [acts : Nat, stopped : BOOLEAN] /\ pushes'.stopped = f
  BY <1>u
<1>6. CASE SendTemplate
  <2>1. pushes' = [acts |-> n, stopped |-> f] \/ pushes' = [acts |-> n + 2, stopped |-> f]
    BY <1>6, <1>p DEF SendTemplate
  <2>2. \/ payment' = "log sent" /\ journal' = [sent |-> a + 1, logged |-> b, unlogged |-> c]
        \/ payment' = "log" /\ journal' = [sent |-> a, logged |-> b, unlogged |-> c]
        \/ payment' = "log" /\ journal' = [sent |-> a + 1, logged |-> b, unlogged |-> c + 1]
    BY <1>6 DEF SendTemplate
  <2>3. a = b + c /\ UNCHANGED <<enrolled, rule>> BY <1>6, <1>a DEF SendTemplate
  <2> PICK x \in Nat, z \in Nat :
         /\ journal' = [sent |-> x, logged |-> b, unlogged |-> z]
         /\ payment' = "log sent" => x = b + z + 1
         /\ payment' # "log sent" => x = b + z
    <3>1. a + 1 \in Nat /\ c + 1 \in Nat /\ a + 1 = b + c + 1 /\ a + 1 = b + (c + 1) BY <2>3
    <3> QED BY <2>2, <2>3, <3>1, Zenon
  <2>4. journal' \in [sent : Nat, logged : Nat, unlogged : Nat] OBVIOUS
  <2>5. payment' = "log sent" => journal'.sent = journal'.logged + journal'.unlogged + 1 OBVIOUS
  <2>6. payment' # "log sent" => journal'.sent = journal'.logged + journal'.unlogged OBVIOUS
  <2>7. payment' \in {"log", "log sent"} BY <2>2
  <2> QED BY <1>t, <1>a, <1>u, <2>1, <2>3, <2>4, <2>5, <2>6, <2>7 DEF ConnectorInv, ConnectorTypes
<1>7. CASE EnrollPayer BY <1>7, <1>t DEF EnrollPayer, Enrolled, ConnectorInv, ConnectorTypes
<1>8. CASE LogPayment \/ PaymentDies
  <2>1. pushes' = [acts |-> n, stopped |-> f] \/ pushes' = [acts |-> n + 2, stopped |-> f]
    BY <1>8, <1>p DEF LogPayment, PaymentDies
  <2>0. \E e \in Nat : (payment = "log sent" => e = 1) /\ (payment # "log sent" => e = 0) OBVIOUS
  <2>d. PICK d \in Nat : (payment = "log sent" => d = 1) /\ (payment # "log sent" => d = 0) BY <2>0
  <2>2. \/ journal' = [journal EXCEPT !.logged = @ + d]
        \/ journal' = [journal EXCEPT !.unlogged = @ + d]
    BY <1>8, <2>d DEF LogPayment, PaymentDies
  <2>3. \/ journal' = [sent |-> a, logged |-> b + d, unlogged |-> c]
        \/ journal' = [sent |-> a, logged |-> b, unlogged |-> c + d]
    BY <2>2
  <2>4. a = b + c + d
    <3>1. CASE payment = "log sent" BY <1>a, <2>d, <3>1
    <3>2. CASE payment # "log sent"
      <4>1. d = 0 /\ a = b + c BY <1>a, <2>d, <3>2
      <4> QED BY <4>1
    <3> QED BY <3>1, <3>2
  <2>5. payment' = "idle" /\ UNCHANGED <<enrolled, rule>> BY <1>8 DEF LogPayment, PaymentDies
  <2>8. b + d \in Nat /\ c + d \in Nat /\ a = (b + d) + c /\ a = b + (c + d) BY <2>4
  <2> PICK y \in Nat, z \in Nat : journal' = [sent |-> a, logged |-> y, unlogged |-> z] /\ a = y + z
    BY <2>3, <2>8
  <2>6. journal' \in [sent : Nat, logged : Nat, unlogged : Nat] OBVIOUS
  <2>7. journal'.sent = journal'.logged + journal'.unlogged OBVIOUS
  <2> QED BY <1>t, <1>a, <1>u, <2>1, <2>5, <2>6, <2>7 DEF ConnectorInv, ConnectorTypes
<1>10. CASE UNCHANGED connectorVars BY <1>10, <1>t DEF connectorVars, ConnectorInv, ConnectorTypes
<1> QED BY <1>1, <1>2, <1>3, <1>4, <1>5, <1>6, <1>7, <1>8, <1>10 DEF ConnectorNext, ApolloPush, GenericPush

\* The invariant gives the property.
LEMMA ConnectorMeans == ConnectorInv => RepeatsAreHarmless
BY DEF ConnectorInv, ConnectorTypes, RepeatsAreHarmless

----------------------------------------------------------------------------
(***************************************************************************)
(* Finder.  As long as no two requests had found the search without a job, *)
(* none is about to make a job once there is one.                          *)
(***************************************************************************)

\* What the variables of Finder hold.
FinderTypes ==
    /\ search \in [st : {"none", "running", "ended", "failed"}, rows : SUBSET Rows_]
    /\ vjob \in [n : Nat, st : {"none", "pending", "completed", "failed"}, queued : BOOLEAN, good : SUBSET Rows_, asked : Nat]
    /\ poll \in [Polls -> [pc : {"idle", "create", "enqueue", "enqueueOther"}, rows : SUBSET Rows_]]
    /\ fnd \in [raced : BOOLEAN, acts : Nat]

\* The inductive invariant of Finder.
FinderInv ==
    /\ FinderTypes
    /\ ~fnd.raced => vjob.n <= 1
    /\ ~fnd.raced /\ vjob.n # 0 => \A p \in Polls : poll[p].pc # "create"

\* The invariant holds at the start.
LEMMA FinderStarts == FinderInit => FinderInv
  BY DEF FinderInit, NoPoll, FinderInv, FinderTypes

\* A step that counts itself only changes the bound.
LEMMA FinderCounts ==
  ASSUME fnd \in [raced : BOOLEAN, acts : Nat], FinderSpent(1)
  PROVE  fnd' \in [raced : BOOLEAN, acts : Nat] /\ fnd'.raced = fnd.raced
  BY DEF FinderSpent

\* Every step of Finder keeps the invariant.
LEMMA FinderStep == FinderInv /\ [FinderNext]_finderVars => FinderInv'
<1> SUFFICES ASSUME FinderInv, [FinderNext]_finderVars PROVE FinderInv' OBVIOUS
<1> DEFINE S == [st : {"none", "running", "ended", "failed"}, rows : SUBSET Rows_]
           V == [n : Nat, st : {"none", "pending", "completed", "failed"}, queued : BOOLEAN, good : SUBSET Rows_, asked : Nat]
           P == [pc : {"idle", "create", "enqueue", "enqueueOther"}, rows : SUBSET Rows_]
           F == [raced : BOOLEAN, acts : Nat]
<1>t. search \in S /\ vjob \in V /\ poll \in [Polls -> P] /\ fnd \in F BY DEF FinderInv, FinderTypes
<1>i. /\ ~fnd.raced => vjob.n <= 1
      /\ ~fnd.raced /\ vjob.n # 0 => \A p \in Polls : poll[p].pc # "create"
  BY DEF FinderInv
<1>n. NoPoll \in P /\ NoPoll.pc = "idle" BY DEF NoPoll
<1>1. CASE Search BY <1>1, <1>t, <1>i DEF Search, FinderInv, FinderTypes
<1>2. CASE SearchEnds BY <1>2, <1>t, <1>i DEF SearchEnds, FinderInv, FinderTypes
<1>3. CASE Status
  <2>1. PICK R \in SUBSET search.rows : poll' = [poll EXCEPT ![IdlePoll] = [pc |-> "create", rows |-> R]]
    BY <1>3 DEF Status
  <2>2. [pc |-> "create", rows |-> R] \in P BY <1>t
  <2>3. poll' \in [Polls -> P] BY <1>t, <2>1, <2>2
  <2>4. fnd' \in F /\ fnd'.raced = fnd.raced BY <1>3, <1>t, FinderCounts DEF Status
  <2>5. vjob.n = 0 /\ UNCHANGED <<search, vjob>> BY <1>3, <1>t DEF Status, HasJob
  <2> QED BY <1>t, <1>i, <2>3, <2>4, <2>5 DEF FinderInv, FinderTypes
<1>4. CASE JobRuns BY <1>4, <1>t, <1>i DEF JobRuns, FinderInv, FinderTypes
<1>5. CASE Verify BY <1>5, <1>t, FinderCounts, <1>i DEF Verify, FinderInv, FinderTypes
<1>6. ASSUME NEW p \in Polls, CreateVerifyJob(p) PROVE FinderInv'
  <2> PICK q \in P : q = poll[p] BY <1>t
  <2>1. PICK c \in {"enqueue", "enqueueOther"} : poll' = [poll EXCEPT ![p].pc = c] BY <1>6 DEF CreateVerifyJob
  <2>c. [q EXCEPT !.pc = c] = [pc |-> c, rows |-> q.rows] OBVIOUS
  <2>2. poll' \in [Polls -> P] /\ poll'[p].pc # "create" /\ \A o \in Polls \ {p} : poll'[o] = poll[o]
    BY <1>t, <2>1, <2>c
  <2>3. vjob' \in V /\ (vjob.n = 0 => vjob'.n = 1) BY <1>6, <1>t DEF CreateVerifyJob
  <2>4. PICK r \in BOOLEAN, n \in Nat : fnd = [raced |-> r, acts |-> n] BY <1>t
  <2>5. PICK b \in BOOLEAN : b = (r \/ \E o \in Polls \ {p} : poll[o].pc = "create") OBVIOUS
  <2>6. fnd' = [raced |-> b, acts |-> n] BY <1>6, <2>4, <2>5 DEF CreateVerifyJob
  <2>7. fnd' \in F /\ (fnd'.raced <=> b) BY <2>6
  <2>8. ASSUME ~b PROVE vjob'.n = 1 /\ \A o \in Polls : poll'[o].pc # "create"
    BY <2>4, <2>5, <2>8, <1>6, <1>i, <2>2, <2>3 DEF CreateVerifyJob
  <2> QED BY <1>6, <1>t, <2>2, <2>3, <2>7, <2>8 DEF CreateVerifyJob, FinderInv, FinderTypes
<1>7. ASSUME NEW p \in Polls, Enqueue(p) PROVE FinderInv'
  BY <1>t, <1>7, <1>n, <1>i DEF Enqueue, FinderInv, FinderTypes
<1>8. ASSUME NEW p \in Polls, PollFails(p) PROVE FinderInv'
  BY <1>8, <1>t, <1>n, FinderCounts, <1>i DEF PollFails, FinderInv, FinderTypes
<1>9. ASSUME NEW R \in SUBSET Rows_, NEW enrol \in BOOLEAN, ImportRows(R, enrol) PROVE FinderInv'
  BY <1>9, <1>t, FinderCounts, <1>i DEF ImportRows, FinderInv, FinderTypes
<1>10. CASE UNCHANGED finderVars BY <1>10, <1>t, <1>i DEF finderVars, FinderInv, FinderTypes
<1> QED BY <1>1, <1>2, <1>3, <1>4, <1>5, <1>6, <1>7, <1>8, <1>9, <1>10 DEF FinderNext

\* The invariant gives the property.
LEMMA FinderMeans == FinderInv => VerifiedByOneJob
BY DEF FinderInv, FinderTypes, VerifiedByOneJob

----------------------------------------------------------------------------
(***************************************************************************)
(* RateLimit.  What was let through in a window was counted in it, so the  *)
(* limit on the count is one on the requests.                              *)
(***************************************************************************)

\* What the variables of RateLimit hold.
RateTypes ==
    /\ window \in [n : Nat, expires : BOOLEAN]
    /\ calling \in [Clients -> {"idle", "incr", "expire", "answer"}]
    /\ rateLog \in [acts : Nat, admitted : Nat, left : BOOLEAN]

\* The inductive invariant of RateLimit.
RateInv == RateTypes /\ rateLog.admitted <= window.n /\ WindowHolds

\* The invariant holds at the start.
LEMMA RateStarts == RateInit => RateInv
  BY RateAssumption DEF RateInit, NoWindow, RateInv, RateTypes, WindowHolds

\* Every step of RateLimit keeps the invariant.
LEMMA RateStep == RateInv /\ [RateNext]_rateVars => RateInv'
<1> SUFFICES ASSUME RateInv, [RateNext]_rateVars PROVE RateInv' OBVIOUS
<1> DEFINE W == [n : Nat, expires : BOOLEAN]
           C == {"idle", "incr", "expire", "answer"}
           L == [acts : Nat, admitted : Nat, left : BOOLEAN]
<1>t. window \in W /\ calling \in [Clients -> C] /\ rateLog \in L BY DEF RateInv, RateTypes
<1>w. PICK n \in Nat, e \in BOOLEAN : window = [n |-> n, expires |-> e] BY <1>t
<1>l. PICK k \in Nat, d \in Nat, l \in BOOLEAN : rateLog = [acts |-> k, admitted |-> d, left |-> l] BY <1>t
<1>i. /\ d <= n /\ d <= LimitRpm
      /\ n > 0 /\ ~e => l \/ \E c \in Clients : calling[c] = "expire"
  BY <1>w, <1>l DEF RateInv, WindowHolds
<1>m. LimitRpm \in Nat BY RateAssumption
<1>g. ASSUME NEW n2 \in Nat, NEW e2 \in BOOLEAN, NEW k2 \in Nat, NEW d2 \in Nat, NEW l2 \in BOOLEAN,
             window' = [n |-> n2, expires |-> e2],
             rateLog' = [acts |-> k2, admitted |-> d2, left |-> l2],
             calling' \in [Clients -> C], d2 <= n2, d2 <= LimitRpm,
             n2 > 0 /\ ~e2 => l2 \/ \E c \in Clients : calling'[c] = "expire"
      PROVE  RateInv'
  BY <1>g DEF RateInv, RateTypes, WindowHolds
<1>c. ASSUME NEW c \in Clients, NEW pc \in C, Turn(c, pc)
      PROVE  /\ calling' \in [Clients -> C] /\ calling'[c] = pc
             /\ \A x \in Clients \ {c} : calling'[x] = calling[x]
  BY <1>t, <1>c DEF Turn
<1>1. ASSUME NEW c \in Clients, RequireRateLimit(c) PROVE RateInv'
  BY <1>1, <1>l, <1>i, <1>c, <1>g, <1>w DEF RequireRateLimit, RateSpend
<1>2. ASSUME NEW c \in Clients, Incr(c) PROVE RateInv'
  BY <1>2, <1>w, <1>c, <1>i, <1>l, <1>m, <1>g DEF Incr, FirstInWindow, PastLimit
<1>3. ASSUME NEW c \in Clients, Expire(c) PROVE RateInv' BY <1>3, <1>w, <1>l, <1>g, <1>c, <1>i DEF Expire
<1>4. ASSUME NEW c \in Clients, Answer(c) PROVE RateInv' BY <1>4, <1>i, <1>c, <1>g, <1>w, <1>l DEF Answer
\* A request that ends without its answer: w is what the counter is then.
<1>5. ASSUME NEW c \in Clients, Turn(c, "idle"), NEW w, window' = w, RateSpend(Lost(c, w)),
             \/ w = window
             \/ calling[c] = "incr" /\ w = [window EXCEPT !.n = @ + 1]
             \/ calling[c] = "expire" /\ w = [window EXCEPT !.expires = TRUE]
      PROVE  RateInv'
  <2>0. DEFINE late == w.n > 0 /\ ~w.expires /\ (window.n = 0 \/ calling[c] = "expire")
  <2>1. PICK b \in BOOLEAN : b = (l \/ late) OBVIOUS
  <2>2. rateLog' = [acts |-> k + 1, admitted |-> d, left |-> b] BY <1>5, <1>l, <2>1 DEF RateSpend, Lost
  <2>3. CASE w = window
    <3>1. window' = [n |-> n, expires |-> e] BY <1>5, <1>w, <2>3
    <3>2. n > 0 /\ ~e => b \/ \E x \in Clients : calling'[x] = "expire" BY <1>i, <1>c, <1>5, <1>w, <2>1, <2>3
    <3> QED BY <1>g, <1>c, <1>5, <1>i, <2>2, <3>1, <3>2
  <2>4. CASE calling[c] = "incr" /\ w = [window EXCEPT !.n = @ + 1]
    <3>0. w = [n |-> n + 1, expires |-> e] BY <1>w, <2>4
    <3>1. window' = [n |-> n + 1, expires |-> e] /\ n + 1 \in Nat /\ d <= n + 1 BY <1>5, <1>i, <3>0
    <3>2. ASSUME ~e PROVE b \/ \E x \in Clients : calling'[x] = "expire"
      <4>1. CASE n = 0
        <5>1. w.n = n + 1 /\ (w.expires <=> e) /\ window.n = n BY <1>w, <3>0
        <5>2. w.n > 0 /\ ~w.expires /\ window.n = 0 BY <3>2, <4>1, <5>1
        <5> QED BY <2>1, <5>2
      <4>2. CASE n > 0 BY <1>i, <1>c, <1>5, <2>1, <2>4, <3>2, <4>2
      <4> QED BY <4>1, <4>2
    <3> QED BY <1>g, <1>c, <1>5, <1>i, <2>2, <3>1, <3>2
  <2>5. CASE calling[c] = "expire" /\ w = [window EXCEPT !.expires = TRUE]
    <3>t. PICK t \in BOOLEAN : t = TRUE OBVIOUS
    <3>1. window' = [n |-> n, expires |-> t] BY <1>5, <1>w, <2>5, <3>t
    <3>2. n > 0 /\ ~t => b \/ \E x \in Clients : calling'[x] = "expire" BY <3>t
    <3> QED BY <1>g, <1>c, <1>5, <1>i, <2>2, <3>1, <3>2
  <2> QED BY <1>5, <2>3, <2>4, <2>5
<1>6. ASSUME NEW c \in Clients, FailsOpen(c) \/ RateDies(c) PROVE RateInv' BY <1>5, <1>6 DEF FailsOpen, RateDies
<1>7. CASE WindowEnds
  <2>f. PICK f \in BOOLEAN : f = FALSE OBVIOUS
  <2>z. PICK z \in Nat : z = 0 OBVIOUS
  <2>1. window' = [n |-> z, expires |-> f] /\ UNCHANGED calling BY <1>7, <2>f, <2>z DEF WindowEnds, NoWindow
  <2>2. rateLog' = [acts |-> k + 1, admitted |-> z, left |-> f]
    BY <1>7, <1>l, <2>f, <2>z DEF WindowEnds, RateSpend
  <2>3. z <= z /\ z <= LimitRpm /\ ~(z > 0) /\ calling' \in [Clients -> C] /\ k + 1 \in Nat
    BY <1>t, <1>m, <2>1, <2>z
  <2> QED BY <1>g, <2>1, <2>2, <2>3
<1>8. CASE UNCHANGED rateVars BY <1>8 DEF rateVars, RateInv, RateTypes, WindowHolds
<1> QED BY <1>1, <1>2, <1>3, <1>4, <1>6, <1>7, <1>8 DEF RateNext

----------------------------------------------------------------------------
(***************************************************************************)
(* LifecycleMails.  A mail is claimed before it is written, one sweep has  *)
(* it at hand, and it has not been written while it is: but for the mails  *)
(* that were taken without an answer.                                      *)
(***************************************************************************)

\* What a sweep is.
SweepRecords == [pc : {"idle", "run", "send", "release"}, todo : SUBSET Mails, at : {<< >>} \cup {<<m>> : m \in Mails}]

\* The mails written and the bound.
PostRecords == [acts : Nat, mails : [Mails -> Nat], unanswered : SUBSET Mails]

\* What the variables of LifecycleMails hold.
LifecycleTypes ==
    /\ age \in [phase : {"young", "milestone", "past"}, month : {1, 2}, used : {"low", "most", "all"}]
    /\ sweep \in [Sweepers -> SweepRecords]
    /\ \A s \in Sweepers : sweep[s].pc \in {"send", "release"} => sweep[s].at # << >>
    /\ post \in PostRecords

\* The sweep s has the mail m at hand.
AtHand(s, m) == sweep[s].pc \in {"send", "release"} /\ sweep[s].at = <<m>>

\* The inductive invariant of LifecycleMails.
LifecycleInv ==
    /\ LifecycleTypes
    /\ \A s \in Sweepers, m \in Mails : AtHand(s, m) => m \in claims
    /\ \A s, t \in Sweepers, m \in Mails : AtHand(s, m) /\ AtHand(t, m) => s = t
    /\ \A m \in Mails \ post.unanswered : post.mails[m] # 0 => m \in claims /\ \A s \in Sweepers : ~AtHand(s, m)
    /\ WrittenOnce

\* The invariant holds at the start.
LEMMA LifecycleStarts == LifecycleInit => LifecycleInv
  BY DEF LifecycleInit, NoSweep, SweepRecords, PostRecords, LifecycleInv, LifecycleTypes, AtHand, WrittenOnce

\* What is due is a mail.
LEMMA DueAreMails ==
  ASSUME age \in [phase : {"young", "milestone", "past"}, month : {1, 2}, used : {"low", "most", "all"}]
  PROVE  DueMails \subseteq Mails
  BY DEF Once, Mails, Monthly, DueMails

\* A step that only changes the bound, or that fails, leaves the mails.
LEMMA AffordCounts ==
  ASSUME NEW p \in PostRecords, NEW n \in Nat, Afford(n, p)
  PROVE  post' \in PostRecords /\ post'.mails = p.mails /\ post'.unanswered = p.unanswered
  BY DEF PostRecords, Afford

\* After a sweep has moved on or begun, what it has at hand is claimed by it alone.
LEMMA LifecycleStep == LifecycleInv /\ [LifecycleNext]_lifecycleVars => LifecycleInv'
<1> SUFFICES ASSUME LifecycleInv, [LifecycleNext]_lifecycleVars PROVE LifecycleInv' OBVIOUS
<1> DEFINE A == [phase : {"young", "milestone", "past"}, month : {1, 2}, used : {"low", "most", "all"}]
<1>t. /\ age \in A /\ sweep \in [Sweepers -> SweepRecords] /\ post \in PostRecords
      /\ \A s \in Sweepers : sweep[s].pc \in {"send", "release"} => sweep[s].at # << >>
  BY DEF LifecycleInv, LifecycleTypes
<1>i. /\ \A s \in Sweepers, m \in Mails : AtHand(s, m) => m \in claims
      /\ \A s, t \in Sweepers, m \in Mails : AtHand(s, m) /\ AtHand(t, m) => s = t
      /\ \A m \in Mails \ post.unanswered : post.mails[m] # 0 => m \in claims /\ \A s \in Sweepers : ~AtHand(s, m)
      /\ \A m \in Mails \ post.unanswered : post.mails[m] <= 1
  BY DEF LifecycleInv, WrittenOnce
<1>n. NoSweep \in SweepRecords /\ NoSweep.pc = "idle" BY DEF NoSweep, SweepRecords
<1>k. ASSUME UNCHANGED <<claims, sweep>>, age' \in A, post' \in PostRecords, post'.mails = post.mails, post'.unanswered = post.unanswered
      PROVE  LifecycleInv'
  BY <1>k, <1>t, <1>i DEF LifecycleInv, LifecycleTypes, AtHand, WrittenOnce
<1>1. CASE GrowsOlder BY <1>1, <1>t, <1>k DEF GrowsOlder
<1>2. CASE Uses BY <1>2, <1>t, AffordCounts, <1>k DEF Uses
\* A sweep that has nothing at hand afterwards.
<1>s. ASSUME NEW s \in Sweepers, NEW r \in SweepRecords, r.pc \in {"idle", "run"},
             sweep' = [sweep EXCEPT ![s] = r]
      PROVE  /\ sweep' \in [Sweepers -> SweepRecords]
             /\ \A t \in Sweepers : sweep'[t].pc \in {"send", "release"} => sweep'[t].at # << >>
             /\ \A t \in Sweepers, m \in Mails : AtHand(t, m)' => t # s /\ AtHand(t, m)
  BY <1>s, <1>t DEF AtHand
\* A sweep that goes on with nothing at hand, while nothing is written or given back.
<1>q. ASSUME NEW s \in Sweepers, NEW r \in SweepRecords, r.pc \in {"idle", "run"},
             sweep' = [sweep EXCEPT ![s] = r], UNCHANGED <<age, claims>>,
             post' \in PostRecords, post'.mails = post.mails, post'.unanswered = post.unanswered
      PROVE  LifecycleInv'
  BY <1>q, <1>s, <1>t, <1>i DEF LifecycleInv, LifecycleTypes, WrittenOnce
<1>3. ASSUME NEW s \in Sweepers, StartSweep(s) PROVE LifecycleInv'
  <2> PICK D \in SUBSET Mails : D = DueMails BY <1>t, DueAreMails
  <2>1. [NoSweep EXCEPT !.pc = "run", !.todo = D] = [pc |-> "run", todo |-> D, at |-> << >>]
    <3>e. PICK e : e = << >> OBVIOUS
    <3>f. PICK c : c = "run" OBVIOUS
    <3>g. PICK i, o : i = "idle" /\ o = {} OBVIOUS
    <3>1. NoSweep = [pc |-> i, todo |-> o, at |-> e] BY <3>e, <3>g DEF NoSweep
    <3>x. PICK z : z = [NoSweep EXCEPT !.pc = c] OBVIOUS
    <3>y. z = [pc |-> c, todo |-> o, at |-> e] BY <3>1, <3>x
    <3>z. [z EXCEPT !.todo = D] = [pc |-> c, todo |-> D, at |-> e] BY <3>y
    <3>w. [NoSweep EXCEPT !.pc = c, !.todo = D] = [z EXCEPT !.todo = D] BY <3>x
    <3> QED BY <3>e, <3>f, <3>z, <3>w
  <2>2. [pc |-> "run", todo |-> D, at |-> << >>] \in SweepRecords BY DEF SweepRecords
  <2>3. sweep' = [sweep EXCEPT ![s] = [pc |-> "run", todo |-> D, at |-> << >>]] /\ UNCHANGED <<age, claims, post>>
    BY <1>3, <2>1 DEF StartSweep
  <2> QED BY <1>t, <1>q, <2>2, <2>3
\* The sweep of a step, and what it moves on to.
<1>m. ASSUME NEW s \in Sweepers PROVE NextMail(s) \in SweepRecords /\ NextMail(s).pc \in {"idle", "run"}
  <2> PICK M : M = Mails OBVIOUS
  <2>1. sweep[s] \in [pc : {"idle", "run", "send", "release"}, todo : SUBSET M, at : {<< >>} \cup {<<m>> : m \in M}]
    BY <1>t DEF SweepRecords
  <2>2. PICK p \in {"idle", "run", "send", "release"}, d \in SUBSET M, a \in {<< >>} \cup {<<m>> : m \in M} :
           sweep[s] = [pc |-> p, todo |-> d, at |-> a]
    BY <2>1
  <2>3. [sweep[s] EXCEPT !.pc = "run", !.at = << >>] = [pc |-> "run", todo |-> d, at |-> << >>]
    <3>e. PICK e, c : e = << >> /\ c = "run" OBVIOUS
    <3>x. PICK z : z = [sweep[s] EXCEPT !.pc = c] OBVIOUS
    <3>y. z = [pc |-> c, todo |-> d, at |-> a] BY <2>2, <3>x
    <3>z. [z EXCEPT !.at = e] = [pc |-> c, todo |-> d, at |-> e] BY <3>y
    <3>w. [sweep[s] EXCEPT !.pc = c, !.at = e] = [z EXCEPT !.at = e] BY <3>x
    <3> QED BY <3>e, <3>z, <3>w
  <2>4. [pc |-> "run", todo |-> d, at |-> << >>] \in SweepRecords BY DEF SweepRecords
  <2> QED BY <1>n, <2>3, <2>4 DEF NextMail
<1>4. ASSUME NEW s \in Sweepers, NEW m \in sweep[s].todo, ClaimMail(s, m) PROVE LifecycleInv'
  <2> PICK M : M = Mails OBVIOUS
  <2>1. sweep[s] \in [pc : {"idle", "run", "send", "release"}, todo : SUBSET M, at : {<< >>} \cup {<<x>> : x \in M}]
    BY <1>t DEF SweepRecords
  <2>2. PICK p \in {"idle", "run", "send", "release"}, d \in SUBSET M, a \in {<< >>} \cup {<<x>> : x \in M} :
           sweep[s] = [pc |-> p, todo |-> d, at |-> a]
    BY <2>1
  <2>3. m \in d /\ m \in M /\ p = "run" BY <1>4, <2>2 DEF ClaimMail
  <2>4. [sweep[s] EXCEPT !.todo = @ \ {m}] = [pc |-> p, todo |-> d \ {m}, at |-> a] BY <2>2
  <2>5. [pc |-> p, todo |-> d \ {m}, at |-> a] \in SweepRecords BY DEF SweepRecords
  <2>6. UNCHANGED <<age, post>> BY <1>4 DEF ClaimMail
  <2>7. CASE m \in claims
    <3>1. PICK r \in SweepRecords : r.pc \in {"idle", "run"} /\ sweep' = [sweep EXCEPT ![s] = r] /\ UNCHANGED claims
      BY <1>4, <1>n, <2>3, <2>4, <2>5, <2>7 DEF ClaimMail, Claimed
    <3> QED BY <1>t, <1>q, <2>6, <3>1
  <2>8. CASE m \notin claims
    <3>1. [[sweep[s] EXCEPT !.todo = @ \ {m}] EXCEPT !.pc = "send", !.at = <<m>>] = [pc |-> "send", todo |-> d \ {m}, at |-> <<m>>]
      <4>q. PICK q : q = [sweep[s] EXCEPT !.todo = @ \ {m}] OBVIOUS
      <4>e. PICK e, c, w : e = <<m>> /\ c = "send" /\ w = d \ {m} OBVIOUS
      <4>0. q = [pc |-> p, todo |-> w, at |-> a] BY <2>4, <4>q, <4>e
      <4>x. PICK z : z = [q EXCEPT !.pc = c] OBVIOUS
      <4>y. z = [pc |-> c, todo |-> w, at |-> a] BY <4>0, <4>x
      <4>z. [z EXCEPT !.at = e] = [pc |-> c, todo |-> w, at |-> e] BY <4>y
      <4>w. [q EXCEPT !.pc = c, !.at = e] = [z EXCEPT !.at = e] BY <4>x
      <4> QED BY <4>e, <4>z, <4>w, <4>q
    <3>2. PICK r : r = [pc |-> "send", todo |-> d \ {m}, at |-> <<m>>] OBVIOUS
    <3>3. r \in SweepRecords /\ r.pc = "send" /\ r.at = <<m>> BY <2>3, <3>2 DEF SweepRecords
    <3>4. sweep' = [sweep EXCEPT ![s] = r] /\ claims' = claims \cup {m}
      BY <1>4, <2>8, <3>1, <3>2 DEF ClaimMail, Claimed
    <3>5. /\ sweep' \in [Sweepers -> SweepRecords]
          /\ \A t \in Sweepers : sweep'[t].pc \in {"send", "release"} => sweep'[t].at # << >>
      BY <1>t, <3>3, <3>4
    <3>6. \A t \in Sweepers, x \in Mails : AtHand(t, x)' => (t = s /\ x = m) \/ (t # s /\ AtHand(t, x))
      BY <1>t, <3>3, <3>4 DEF AtHand
    <3>7. \A t \in Sweepers : ~AtHand(t, m) BY <1>i, <2>3, <2>8
    <3>8. \A t \in Sweepers, x \in Mails : AtHand(t, x)' => x \in claims' BY <1>i, <3>4, <3>6
    <3>9. \A t, u \in Sweepers, x \in Mails : AtHand(t, x)' /\ AtHand(u, x)' => t = u BY <1>i, <3>6, <3>7
    <3>10. \A x \in Mails \ post.unanswered : post.mails[x] # 0 => x \in claims' /\ \A t \in Sweepers : ~AtHand(t, x)'
      BY <1>i, <2>8, <3>4, <3>6
    <3> QED BY <1>t, <1>i, <2>6, <3>5, <3>8, <3>9, <3>10 DEF LifecycleInv, LifecycleTypes, WrittenOnce
  <2> QED BY <2>7, <2>8
\* The mail that a sweep has at hand.
<1>h. ASSUME NEW s \in Sweepers, sweep[s].pc \in {"send", "release"}
      PROVE  sweep[s].at[1] \in Mails /\ AtHand(s, sweep[s].at[1])
  BY <1>t, <1>h DEF SweepRecords, AtHand
\* SES refuses the mail, or its answer is lost: the sweep is about to give the claim back.
<1>r. ASSUME NEW s \in Sweepers, sweep[s].pc = "send", sweep' = [sweep EXCEPT ![s].pc = "release"]
      PROVE  /\ sweep' \in [Sweepers -> SweepRecords]
             /\ \A t \in Sweepers : sweep'[t].pc \in {"send", "release"} => sweep'[t].at # << >>
             /\ \A t \in Sweepers, m \in Mails : AtHand(t, m)' <=> AtHand(t, m)
  BY <1>t, <1>r DEF SweepRecords, AtHand
<1>5. ASSUME NEW s \in Sweepers, SendMail(s) PROVE LifecycleInv'
  <2>s. sweep[s].pc = "send" /\ UNCHANGED <<age, claims>> BY <1>5 DEF SendMail
  <2>m. PICK m \in Mails : m = sweep[s].at[1] /\ AtHand(s, m) BY <1>h, <2>s
  <2> PICK M : M = Mails OBVIOUS
  <2>p. post \in [acts : Nat, mails : [M -> Nat], unanswered : SUBSET M] BY <1>t DEF PostRecords
  <2>q. PICK a \in Nat, f \in [M -> Nat], u \in SUBSET M : post = [acts |-> a, mails |-> f, unanswered |-> u]
    BY <2>p
  <2>c. PICK k \in Nat : k = (IF f[m] < 2 THEN f[m] + 1 ELSE f[m]) OBVIOUS
  <2>g. PICK g \in [M -> Nat] : g = [f EXCEPT ![m] = k] OBVIOUS
  <2>f. f[m] = 0 => k = 1 BY <2>c
  <2>d. [post EXCEPT !.mails[m] = IF @ < 2 THEN @ + 1 ELSE @] = [acts |-> a, mails |-> g, unanswered |-> u]
    BY <2>q, <2>c, <2>g
  <2>z. m \notin u => f[m] = 0 BY <1>i, <2>m, <2>q
  <2>1. CASE /\ post' = [post EXCEPT !.mails[m] = IF @ < 2 THEN @ + 1 ELSE @]
             /\ sweep' = [sweep EXCEPT ![s] = NextMail(s)]
    <3>1. post' = [acts |-> a, mails |-> g, unanswered |-> u] BY <2>1, <2>d
    <3>2. post' \in [acts : Nat, mails : [M -> Nat], unanswered : SUBSET M] /\ post'.mails = g /\ post'.unanswered = u
      BY <3>1
    <3>3. post' \in PostRecords BY <3>2 DEF PostRecords
    <3>4. /\ sweep' \in [Sweepers -> SweepRecords]
          /\ \A t \in Sweepers : sweep'[t].pc \in {"send", "release"} => sweep'[t].at # << >>
          /\ \A t \in Sweepers, x \in Mails : AtHand(t, x)' => t # s /\ AtHand(t, x)
      BY <1>s, <1>m, <2>1
    <3>5. \A t \in Sweepers : ~AtHand(t, m)' BY <1>i, <2>m, <3>4
    <3>6. \A x \in Mails \ u : g[x] # 0 => x \in claims' /\ \A t \in Sweepers : ~AtHand(t, x)'
      BY <1>i, <2>s, <2>m, <2>q, <2>g, <3>4, <3>5
    <3>7. \A x \in Mails \ u : g[x] <= 1 BY <1>i, <2>q, <2>g, <2>f, <2>z
    <3> QED BY <1>t, <1>i, <2>s, <3>2, <3>3, <3>4, <3>6, <3>7 DEF LifecycleInv, LifecycleTypes, WrittenOnce
  <2>2. CASE Afford(2, post) /\ sweep' = [sweep EXCEPT ![s].pc = "release"]
    BY <1>t, <2>2, AffordCounts, <1>i, <1>r, <2>s DEF LifecycleInv, LifecycleTypes, WrittenOnce
  <2>3. CASE /\ Afford(2, [[post EXCEPT !.mails[m] = IF @ < 2 THEN @ + 1 ELSE @] EXCEPT !.unanswered = @ \cup {m}])
             /\ sweep' = [sweep EXCEPT ![s].pc = "release"]
    <3>0. [[post EXCEPT !.mails[m] = IF @ < 2 THEN @ + 1 ELSE @] EXCEPT !.unanswered = @ \cup {m}]
            = [acts |-> a, mails |-> g, unanswered |-> u \cup {m}]
      <4>q. PICK q : q = [post EXCEPT !.mails[m] = IF @ < 2 THEN @ + 1 ELSE @] OBVIOUS
      <4>0. q = [acts |-> a, mails |-> g, unanswered |-> u] BY <2>d, <4>q
      <4>1. [q EXCEPT !.unanswered = @ \cup {m}] = [acts |-> a, mails |-> g, unanswered |-> u \cup {m}] BY <4>0
      <4> QED BY <4>1, <4>q
    <3>p. PICK p : p = [acts |-> a, mails |-> g, unanswered |-> u \cup {m}] OBVIOUS
    <3>1. p \in [acts : Nat, mails : [M -> Nat], unanswered : SUBSET M] /\ p.mails = g /\ p.unanswered = u \cup {m}
      BY <3>p
    <3>2. p \in PostRecords /\ Afford(2, p) BY <2>3, <3>0, <3>p, <3>1 DEF PostRecords
    <3>3. post' \in PostRecords /\ post'.mails = g /\ post'.unanswered = u \cup {m} BY <3>1, <3>2, AffordCounts
    <3>4. \A x \in Mails \ (u \cup {m}) : x \in Mails \ post.unanswered /\ g[x] = post.mails[x] BY <2>q, <2>g
    <3> QED BY <1>t, <1>i, <1>r, <2>s, <2>3, <3>3, <3>4 DEF LifecycleInv, LifecycleTypes, WrittenOnce
  <2> QED BY <1>5, <2>m, <2>1, <2>2, <2>3 DEF SendMail
<1>6. ASSUME NEW s \in Sweepers, ReleaseMail(s) PROVE LifecycleInv'
  <2>s. sweep[s].pc = "release" /\ UNCHANGED age /\ sweep' = [sweep EXCEPT ![s] = NextMail(s)]
    BY <1>6 DEF ReleaseMail
  <2>m. PICK m \in Mails : m = sweep[s].at[1] /\ AtHand(s, m) BY <1>h, <2>s
  <2>1. /\ sweep' \in [Sweepers -> SweepRecords]
        /\ \A t \in Sweepers : sweep'[t].pc \in {"send", "release"} => sweep'[t].at # << >>
        /\ \A t \in Sweepers, x \in Mails : AtHand(t, x)' => t # s /\ AtHand(t, x)
    BY <1>s, <1>m, <2>s
  <2>2. CASE claims' = claims \ {m} /\ UNCHANGED post
    BY <1>i, <2>m, <2>1, <1>t, <2>s, <2>2 DEF LifecycleInv, LifecycleTypes, WrittenOnce
  <2>3. CASE Afford(2, post) /\ UNCHANGED claims BY <1>t, <2>3, AffordCounts, <1>q, <1>m, <2>s
  <2> QED BY <1>6, <2>m, <2>2, <2>3 DEF ReleaseMail
<1>7. ASSUME NEW s \in Sweepers, SweepDies(s) PROVE LifecycleInv'
  BY <1>7, <1>t, AffordCounts, <1>q, <1>n DEF SweepDies
<1>8. CASE UNCHANGED lifecycleVars BY <1>8, <1>t, <1>k DEF lifecycleVars
<1> QED BY <1>1, <1>2, <1>3, <1>4, <1>5, <1>6, <1>7, <1>8 DEF LifecycleNext

----------------------------------------------------------------------------
(***************************************************************************)
(* DailyChecks.  A warning that was written is recorded for the day, or    *)
(* about to be, or its day is over; a test that was decided is recorded.   *)
(* But for a record that was lost.                                         *)
(***************************************************************************)

\* The key, the job, the log and the ghosts.
ExpiryRecords == [left : Nat, aligned : BOOLEAN, active : BOOLEAN]

\* The job at its places.
DailyRecords == [due : BOOLEAN, pc : {"idle", "warn", "warned", "tests"}, days : SUBSET WarnDays, tests : SUBSET Tests]

\* The log.
AuditRecords == [warned : SUBSET WarnDays, picked : SUBSET Tests]

\* The ghosts.
AlarmRecords == [acts : Nat, warns : [WarnDays -> Nat], picks : [Tests -> Nat], unrecorded : BOOLEAN]

\* What the variables of DailyChecks hold.
DailyTypes ==
    /\ expiry \in ExpiryRecords /\ daily \in DailyRecords /\ audit \in AuditRecords /\ alarm \in AlarmRecords

\* A warning of day d was written today and is known, or its day is over.
WarningKnown(d) ==
    \/ expiry.left < d
    \/ expiry.left = d /\ (d \in audit.warned \/ (daily.pc = "warned" /\ d \in daily.days))

\* The inductive invariant of DailyChecks.
DailyInv ==
    /\ DailyTypes /\ daily.days \subseteq {expiry.left}
    /\ ~alarm.unrecorded =>
          /\ \A d \in WarnDays : alarm.warns[d] <= 1 /\ (alarm.warns[d] # 0 => WarningKnown(d))
          /\ \A t \in Tests : alarm.picks[t] # 0 => t \in audit.picked
          /\ \A t \in Tests : audit.picked \subseteq {t} => alarm.picks[t] <= 1

\* The invariant holds at the start.
LEMMA DailyStarts == DailyInit => DailyInv
  BY DailyAssumption DEF DailyInit, ExpiryRecords, DailyIdle, DailyRecords, AuditRecords, AlarmRecords,
     DailyInv, DailyTypes

\* A step that is debited changes the bound of what it is given, and no more.
LEMMA DebitCounts ==
  ASSUME NEW n \in Nat, NEW a \in AlarmRecords, Debit(n, a)
  PROVE  alarm' \in AlarmRecords /\ alarm'.warns = a.warns /\ alarm'.picks = a.picks /\ (alarm'.unrecorded <=> a.unrecorded)
  BY DEF AlarmRecords, Debit

\* A record that is lost marks the ghosts.
LEMMA UnrecordedMarks ==
  ASSUME NEW a \in AlarmRecords PROVE Unrecorded(a) \in AlarmRecords /\ Unrecorded(a).unrecorded
<1>1. PICK c \in Nat, w \in [WarnDays -> Nat], p \in [Tests -> Nat], u \in BOOLEAN :
         a = [acts |-> c, warns |-> w, picks |-> p, unrecorded |-> u]
  BY DEF AlarmRecords
<1>2. PICK t \in BOOLEAN : t = TRUE OBVIOUS
<1>3. Unrecorded(a) = [acts |-> c, warns |-> w, picks |-> p, unrecorded |-> t]
  <2>1. [a EXCEPT !.unrecorded = t] = [acts |-> c, warns |-> w, picks |-> p, unrecorded |-> t] BY <1>1
  <2> QED BY <1>2, <2>1 DEF Unrecorded
<1> QED BY <1>2, <1>3 DEF AlarmRecords

\* A warning that is written is counted.
LEMMA WarnCounts ==
  ASSUME NEW d \in WarnDays, alarm \in AlarmRecords, alarm' = [alarm EXCEPT !.warns[d] = OneMore(@)]
  PROVE  /\ alarm' \in AlarmRecords /\ alarm'.picks = alarm.picks /\ (alarm'.unrecorded <=> alarm.unrecorded)
         /\ alarm.warns[d] = 0 => alarm'.warns[d] = 1
         /\ \A e \in WarnDays \ {d} : alarm'.warns[e] = alarm.warns[e]
  BY DEF AlarmRecords, OneMore

\* A test that is decided is counted.
LEMMA PickCounts ==
  ASSUME NEW t \in Tests, NEW a \in AlarmRecords
  PROVE  /\ [a EXCEPT !.picks[t] = OneMore(@)] \in AlarmRecords
         /\ [a EXCEPT !.picks[t] = OneMore(@)].warns = a.warns
         /\ [a EXCEPT !.picks[t] = OneMore(@)].unrecorded <=> a.unrecorded
         /\ a.picks[t] = 0 => [a EXCEPT !.picks[t] = OneMore(@)].picks[t] = 1
         /\ \A e \in Tests \ {t} : [a EXCEPT !.picks[t] = OneMore(@)].picks[e] = a.picks[e]
  BY DEF AlarmRecords, OneMore

\* Every step of DailyChecks keeps the invariant.
LEMMA DailyStep == DailyInv /\ [DailyNext]_dailyVars => DailyInv'
<1> SUFFICES ASSUME DailyInv, [DailyNext]_dailyVars PROVE DailyInv' OBVIOUS
<1>t. expiry \in ExpiryRecords /\ daily \in DailyRecords /\ audit \in AuditRecords /\ alarm \in AlarmRecords
  BY DEF DailyInv, DailyTypes
<1>y. daily.days \subseteq {expiry.left} BY DEF DailyInv
<1>i. ASSUME ~alarm.unrecorded
      PROVE  /\ \A d \in WarnDays : alarm.warns[d] <= 1
             /\ \A d \in WarnDays : alarm.warns[d] # 0 => WarningKnown(d)
             /\ \A t \in Tests : alarm.picks[t] # 0 => t \in audit.picked
             /\ \A t \in Tests : audit.picked \subseteq {t} => alarm.picks[t] <= 1
  BY <1>i DEF DailyInv
<1>e. PICK l \in Nat, al \in BOOLEAN, ac \in BOOLEAN : expiry = [left |-> l, aligned |-> al, active |-> ac]
  BY <1>t DEF ExpiryRecords
<1>d. PICK due \in BOOLEAN, pc \in {"idle", "warn", "warned", "tests"}, days \in SUBSET WarnDays, ts \in SUBSET Tests :
         daily = [due |-> due, pc |-> pc, days |-> days, tests |-> ts]
  BY <1>t DEF DailyRecords
<1>a. PICK wd \in SUBSET WarnDays, pk \in SUBSET Tests : audit = [warned |-> wd, picked |-> pk]
  BY <1>t DEF AuditRecords
<1>l. \A d \in WarnDays : d \in Nat BY DEF WarnDays
<1>z. DailyIdle \in DailyRecords /\ DailyIdle.days = {} /\ DailyIdle.pc = "idle" BY DEF DailyIdle, DailyRecords
<1>1. CASE \E t \in Tests, v \in {"a", "b"} : Opens(t, v)
  BY <1>1, <1>t, DebitCounts, <1>y, <1>i DEF Opens, DailyInv, DailyTypes, WarningKnown
<1>2. CASE DayPasses
  <2>1. expiry' = [left |-> l - 1, aligned |-> al, active |-> ac] /\ l > 0 BY <1>2, <1>e DEF DayPasses
  <2>2. l - 1 \in Nat BY <2>1
  <2>3. PICK x : x = expiry' OBVIOUS
  <2>4. x \in ExpiryRecords /\ x.left = l - 1 BY <2>1, <2>2, <2>3 DEF ExpiryRecords
  <2>5. PICK t \in BOOLEAN : t = TRUE OBVIOUS
  <2>6. daily = DailyIdle /\ daily' = [due |-> t, pc |-> pc, days |-> days, tests |-> ts] /\ UNCHANGED alarm
    <3>1. [daily EXCEPT !.due = t] = [due |-> t, pc |-> pc, days |-> days, tests |-> ts] BY <1>d
    <3> QED BY <1>2, <2>5, <3>1 DEF DayPasses
  <2>7. days = {} /\ pc = "idle" BY <1>d, <1>z, <2>6
  <2>8. daily' \in DailyRecords /\ daily'.days = {} BY <2>6, <2>7 DEF DailyRecords
  <2>9. PICK o \in SUBSET WarnDays : o = {} OBVIOUS
  <2>10. audit' = [warned |-> o, picked |-> pk] BY <1>2, <1>a, <2>9 DEF DayPasses
  <2>11. audit' \in AuditRecords /\ audit'.picked = audit.picked BY <1>a, <2>10 DEF AuditRecords
  <2>12. ASSUME NEW d \in WarnDays, WarningKnown(d) PROVE WarningKnown(d)'
    BY <1>e, <1>l, <2>12, <2>3, <2>4 DEF WarningKnown
  <2> QED BY <1>t, <1>i, <2>3, <2>4, <2>6, <2>8, <2>11, <2>12 DEF DailyInv, DailyTypes
<1>3. CASE StartDaily
  <2>1. PICK D \in SUBSET WarnDays : D = {d \in WarnDays : InWindow(d)} OBVIOUS
  <2>2. D \subseteq {l} BY <1>e, <2>1 DEF InWindow
  <2>3. PICK w : w = "warn" OBVIOUS
  <2>4. daily' = [due |-> due, pc |-> w, days |-> D, tests |-> ts] /\ pc = "idle"
    BY <1>d, <1>3, <2>1, <2>3 DEF StartDaily
  <2>5. daily' \in DailyRecords /\ daily'.days = D /\ daily'.pc = "warn" BY <2>3, <2>4 DEF DailyRecords
  <2>6. UNCHANGED <<test, audit, alarm>> BY <1>3 DEF StartDaily
  <2>7. expiry' \in ExpiryRecords /\ expiry'.left = l BY <1>3, <1>e, <1>t DEF StartDaily, ExpiryRecords
  <2>8. ASSUME NEW d \in WarnDays, WarningKnown(d) PROVE WarningKnown(d)'
    BY <1>e, <1>d, <2>4, <2>6, <2>7, <2>8 DEF WarningKnown
  <2> QED BY <1>t, <1>i, <2>2, <2>5, <2>6, <2>7, <2>8 DEF DailyInv, DailyTypes
<1>4. CASE \E d \in WarnDays : Warn(d)
  <2>1. PICK d \in WarnDays : Warn(d) BY <1>4
  <2>2. pc = "warn" /\ d \in days /\ d = l /\ UNCHANGED <<expiry, test, audit>>
    BY <1>e, <1>d, <1>y, <2>1 DEF Warn
  <2>3. CASE WarnedAlready(d)
    <3>1. daily' = [due |-> due, pc |-> pc, days |-> days \ {d}, tests |-> ts] /\ UNCHANGED alarm
      BY <1>d, <2>1, <2>3 DEF Warn
    <3>2. PICK q : q = daily' OBVIOUS
    <3>3. q \in DailyRecords /\ q.days = days \ {d} BY <3>1, <3>2 DEF DailyRecords
    <3>4. ASSUME NEW x \in WarnDays, WarningKnown(x) PROVE WarningKnown(x)'
      BY <1>d, <2>2, <3>1, <3>4 DEF WarningKnown
    <3> QED BY <1>t, <1>y, <1>d, <1>i, <2>2, <3>1, <3>2, <3>3, <3>4 DEF DailyInv, DailyTypes
  <2>4. CASE ~WarnedAlready(d)
    <3>1. daily' = [due |-> due, pc |-> "warned", days |-> days, tests |-> ts] BY <1>d, <2>1, <2>4 DEF Warn
    <3>2. PICK q : q = daily' OBVIOUS
    <3>3. q \in DailyRecords /\ q.days = days /\ q.pc = "warned" BY <3>1, <3>2 DEF DailyRecords
    <3>4. ASSUME NEW x \in WarnDays, WarningKnown(x) PROVE WarningKnown(x)'
      BY <1>d, <2>2, <3>2, <3>3, <3>4 DEF WarningKnown
    <3>5. CASE alarm' = [alarm EXCEPT !.warns[d] = OneMore(@)]
      <4>1. /\ alarm' \in AlarmRecords /\ alarm'.picks = alarm.picks /\ (alarm'.unrecorded <=> alarm.unrecorded)
            /\ alarm.warns[d] = 0 => alarm'.warns[d] = 1
            /\ \A e \in WarnDays \ {d} : alarm'.warns[e] = alarm.warns[e]
        BY <1>t, <3>5, WarnCounts
      <4>2. ~WarningKnown(d) BY <1>e, <1>d, <2>2, <2>4 DEF WarningKnown, WarnedAlready
      <4>3. WarningKnown(d)' BY <1>e, <2>2, <3>2, <3>3 DEF WarningKnown
      <4>4. ASSUME ~alarm.unrecorded
            PROVE  \A x \in WarnDays : alarm'.warns[x] <= 1 /\ (alarm'.warns[x] # 0 => WarningKnown(x)')
        BY <1>i, <4>1, <4>2, <4>4, <3>4, <4>3
      <4> QED BY <1>t, <1>y, <1>d, <1>i, <2>2, <3>2, <3>3, <4>1, <4>4 DEF DailyInv, DailyTypes
    <3>6. CASE Debit(2, alarm)
      BY <1>t, <3>6, DebitCounts, <1>y, <1>d, <1>i, <2>2, <3>2, <3>3, <3>4 DEF DailyInv, DailyTypes
    <3> QED BY <2>1, <2>4, <3>5, <3>6 DEF Warn
  <2> QED BY <2>3, <2>4
<1>5. CASE \E d \in WarnDays : RecordWarning(d)
  <2>1. PICK d \in WarnDays : RecordWarning(d) BY <1>5
  <2>2. pc = "warned" /\ d \in days /\ d = l /\ UNCHANGED <<expiry, test>>
    BY <1>e, <1>d, <1>y, <2>1 DEF RecordWarning
  <2>3. daily' = [due |-> due, pc |-> "warn", days |-> days \ {d}, tests |-> ts] BY <1>d, <2>1 DEF RecordWarning
  <2>4. PICK q : q = daily' OBVIOUS
  <2>5. q \in DailyRecords /\ q.days = days \ {d} BY <2>3, <2>4 DEF DailyRecords
  <2>6. CASE audit' = [audit EXCEPT !.warned = @ \cup {d}] /\ UNCHANGED alarm
    <3>1. audit' = [warned |-> wd \cup {d}, picked |-> pk] BY <1>a, <2>6
    <3>2. PICK r : r = audit' OBVIOUS
    <3>3. r \in AuditRecords /\ r.warned = wd \cup {d} /\ r.picked = pk BY <3>1, <3>2 DEF AuditRecords
    <3>4. ASSUME NEW x \in WarnDays, WarningKnown(x) PROVE WarningKnown(x)'
      BY <1>e, <2>2, <3>2, <3>3, <3>4 DEF WarningKnown
    <3> QED BY <1>t, <1>y, <1>d, <1>a, <1>i, <2>2, <2>4, <2>5, <2>6, <3>2, <3>3, <3>4 DEF DailyInv, DailyTypes
  <2>7. CASE UNCHANGED audit /\ Debit(2, Unrecorded(alarm))
    BY <1>t, UnrecordedMarks, <2>7, DebitCounts, <1>y, <1>d, <2>2, <2>4, <2>5 DEF DailyInv, DailyTypes
  <2> QED BY <2>1, <2>6, <2>7 DEF RecordWarning
<1>6. CASE StartTests
  <2>1. daily.pc = "warn" /\ UNCHANGED <<expiry, test, audit, alarm>> BY <1>6 DEF StartTests
  <2>2. daily' \in DailyRecords /\ daily'.days = days BY <1>d, <1>6 DEF StartTests, DailyRecords
  <2>3. ASSUME NEW x \in WarnDays, WarningKnown(x) PROVE WarningKnown(x)' BY <2>1, <2>3 DEF WarningKnown
  <2> QED BY <1>t, <1>y, <1>d, <1>i, <2>1, <2>2, <2>3 DEF DailyInv, DailyTypes
<1>7. CASE \E t \in Tests : PickWinner(t)
  <2>1. PICK t \in Tests : PickWinner(t) BY <1>7
  <2>2. daily' = [due |-> due, pc |-> pc, days |-> days, tests |-> ts \ {t}] /\ UNCHANGED <<expiry, test>> /\ pc = "tests"
    BY <1>d, <2>1 DEF PickWinner
  <2>3. PICK q : q = daily' OBVIOUS
  <2>4. q \in DailyRecords /\ q.days = days /\ q.pc = pc BY <2>2, <2>3 DEF DailyRecords
  <2>5. CASE UNCHANGED <<audit, alarm>>
    <3>1. ASSUME NEW x \in WarnDays, WarningKnown(x) PROVE WarningKnown(x)'
      BY <1>d, <2>2, <2>3, <2>4, <2>5, <3>1 DEF WarningKnown
    <3> QED BY <1>t, <1>y, <1>d, <1>i, <2>2, <2>3, <2>4, <2>5, <3>1 DEF DailyInv, DailyTypes
  <2>6. CASE FALSE \in Found(t) /\ audit' = [audit EXCEPT !.picked = @ \cup {t}] /\ alarm' = [alarm EXCEPT !.picks[t] = OneMore(@)]
    <3>1. audit' = [warned |-> wd, picked |-> pk \cup {t}] BY <1>a, <2>6
    <3>2. PICK r : r = audit' OBVIOUS
    <3>3. r \in AuditRecords /\ r.warned = wd /\ r.picked = pk \cup {t} BY <3>1, <3>2 DEF AuditRecords
    <3>4. PICK b : b = alarm' OBVIOUS
    <3>5. /\ b \in AlarmRecords /\ b.warns = alarm.warns /\ (b.unrecorded <=> alarm.unrecorded)
          /\ alarm.picks[t] = 0 => b.picks[t] = 1
          /\ \A e \in Tests \ {t} : b.picks[e] = alarm.picks[e]
      BY <1>t, <2>6, <3>4, PickCounts
    <3>6. ASSUME NEW x \in WarnDays, WarningKnown(x) PROVE WarningKnown(x)'
      BY <1>d, <1>a, <2>2, <2>3, <2>4, <3>2, <3>3, <3>6 DEF WarningKnown
    <3>7. pk = {} \/ \E p \in pk : p # t BY <1>a, <2>6 DEF Found
    <3>8. ASSUME ~alarm.unrecorded
          PROVE  /\ \A e \in Tests : b.picks[e] # 0 => e \in r.picked
                 /\ \A e \in Tests : r.picked \subseteq {e} => b.picks[e] <= 1
      <4>1. \A e \in Tests : b.picks[e] # 0 => e \in r.picked BY <1>a, <1>i, <3>3, <3>5, <3>8
      <4>2. ASSUME NEW e \in Tests, r.picked \subseteq {e} PROVE b.picks[e] <= 1
        BY <3>3, <3>7, <4>2, <1>a, <1>i, <3>8, <3>5
      <4> QED BY <4>1, <4>2
    <3> QED
      BY <1>t, <1>y, <1>d, <1>i, <2>2, <2>3, <2>4, <3>2, <3>3, <3>4, <3>5, <3>6, <3>8 DEF DailyInv, DailyTypes
  <2>7. CASE UNCHANGED audit /\ Debit(2, Unrecorded([alarm EXCEPT !.picks[t] = OneMore(@)]))
    BY <1>t, PickCounts, UnrecordedMarks, <2>7, DebitCounts, <1>y, <1>d, <2>2, <2>3, <2>4 DEF DailyInv,
       DailyTypes
  <2>8. PICK mine \in Found(t) :
          IF mine \/ test[t] = "few" THEN UNCHANGED <<audit, alarm>>
          ELSE \/ audit' = [audit EXCEPT !.picked = @ \cup {t}] /\ alarm' = [alarm EXCEPT !.picks[t] = OneMore(@)]
               \/ UNCHANGED audit /\ Debit(2, Unrecorded([alarm EXCEPT !.picks[t] = OneMore(@)]))
    BY <2>1 DEF PickWinner
  <2>9. mine \in BOOLEAN BY DEF Found
  <2> QED BY <2>5, <2>6, <2>7, <2>8, <2>9
<1>8. CASE EndDaily
  <2>1. daily' = DailyIdle /\ daily.pc = "tests" /\ UNCHANGED <<expiry, test, audit, alarm>>
    BY <1>8 DEF EndDaily
  <2>2. ASSUME NEW x \in WarnDays, WarningKnown(x) PROVE WarningKnown(x)' BY <2>1, <2>2 DEF WarningKnown
  <2> QED BY <1>t, <1>i, <1>z, <2>1, <2>2 DEF DailyInv, DailyTypes
<1>9. CASE DailyDies
  <2>1. PICK b \in BOOLEAN : daily' = [DailyIdle EXCEPT !.due = b] BY <1>9 DEF DailyDies
  <2>2. daily' \in DailyRecords /\ daily'.days = {} BY <2>1 DEF DailyIdle, DailyRecords
  <2>3. UNCHANGED <<expiry, test, audit>> /\ Debit(2, IF daily.pc = "warned" THEN Unrecorded(alarm) ELSE alarm)
    BY <1>9 DEF DailyDies
  <2>4. CASE daily.pc = "warned"
    BY <1>t, UnrecordedMarks, <2>3, <2>4, DebitCounts, <2>2 DEF DailyInv, DailyTypes
  <2>5. CASE daily.pc # "warned"
    <3>1. alarm' \in AlarmRecords /\ alarm'.warns = alarm.warns /\ alarm'.picks = alarm.picks /\ (alarm'.unrecorded <=> alarm.unrecorded)
      BY <1>t, <2>3, <2>5, DebitCounts
    <3>2. ASSUME NEW x \in WarnDays, WarningKnown(x) PROVE WarningKnown(x)' BY <2>3, <2>5, <3>2 DEF WarningKnown
    <3> QED BY <1>t, <1>i, <2>2, <2>3, <3>1, <3>2 DEF DailyInv, DailyTypes
  <2> QED BY <2>4, <2>5
<1>10. CASE UNCHANGED dailyVars BY <1>10, <1>t, <1>y, <1>i DEF dailyVars, DailyInv, DailyTypes, WarningKnown
<1> QED BY <1>1, <1>2, <1>3, <1>4, <1>5, <1>6, <1>7, <1>8, <1>9, <1>10 DEF DailyNext

\* The invariant gives the property.
LEMMA DailyMeans == DailyInv => WarnedOnce
BY DEF DailyInv, WarnedOnce

----------------------------------------------------------------------------
(***************************************************************************)
(* Templates.  What a request read is saved under the request's own id     *)
(* when the request overwrites, so a save that is lost with its request    *)
(* was nobody else's account of that content.                              *)
(***************************************************************************)

\* A request.
EditRecords == [pc : {"idle", "count", "write"}, id : Nat, old : Nat, new : Nat]

\* The ghosts.
EditLogs == [acts : Nat, contents : SUBSET Nat, unsaved : SUBSET Nat, unread : SUBSET Nat]

\* What the variables of Templates hold; every save has an id and a content.
TemplatesTypes ==
    /\ template \in Nat
    /\ \A v \in versions \cup saving : v.id \in Nat /\ v.content \in Nat
    /\ edit \in [Editors -> EditRecords] /\ editLog \in EditLogs

\* No request can take the save s away any more: it has arrived, or its request has ended.
Settled(s) == s \in versions \/ (s \in saving /\ \A e \in Editors : edit[e].pc = "write" => edit[e].id # s.id)

\* Ids come from the count of steps: no two requests have one, nor a request and a save of another.
IdsAreFresh ==
    /\ \A s \in saving : s.id <= editLog.acts
    /\ \A e \in Editors : edit[e].pc # "idle" => edit[e].id <= editLog.acts
    /\ \A e, f \in Editors : edit[e].pc # "idle" /\ edit[f].pc # "idle" /\ edit[e].id = edit[f].id => e = f
    /\ \A e \in Editors, s \in saving : edit[e].pc = "count" => edit[e].id # s.id

\* What a request is about to overwrite is saved under its id, or its save has failed.
OldIsSaved(e) ==
    \/ edit[e].old \in editLog.unsaved
    \/ \E s \in versions \cup saving : s.id = edit[e].id /\ s.content = edit[e].old

\* The content c is accounted for.
Accounted(c) ==
    c = template \/ c \in editLog.unsaved \/ c \in editLog.unread \/ \E s \in versions \cup saving : Settled(s) /\ s.content = c

\* The inductive invariant of Templates.
TemplatesInv ==
    /\ TemplatesTypes /\ IdsAreFresh
    /\ template # 0 => /\ \A e \in Editors : edit[e].pc = "write" => OldIsSaved(e)
                       /\ \A c \in editLog.contents : Accounted(c)

\* The invariant holds at the start.
LEMMA TemplatesStarts == TemplatesInit => TemplatesInv
<1> SUFFICES ASSUME TemplatesInit PROVE TemplatesInv OBVIOUS
<1>1. template = 1 /\ versions = {} /\ saving = {} BY DEF TemplatesInit
<1>2. NoEdit \in EditRecords /\ NoEdit.pc = "idle" BY DEF NoEdit, EditRecords
<1>3. edit \in [Editors -> EditRecords] /\ \A e \in Editors : edit[e].pc = "idle" BY <1>2 DEF TemplatesInit
<1>o. PICK o \in SUBSET Nat : o = {} OBVIOUS
<1>m. {1} \in SUBSET Nat OBVIOUS
<1>4. PICK i \in SUBSET Nat : i = {1} BY <1>m, Zenon
<1>5. editLog = [acts |-> 0, contents |-> i, unsaved |-> o, unread |-> o] BY <1>o, <1>4 DEF TemplatesInit
<1>6. editLog \in EditLogs /\ editLog.contents = i BY <1>5 DEF EditLogs
<1> QED BY <1>1, <1>3, <1>4, <1>6 DEF TemplatesInv, TemplatesTypes, IdsAreFresh, Accounted

\* A step that counts changes the bound of what it is given, and no more.
LEMMA EditCounts ==
  ASSUME NEW log \in EditLogs, EditSpend(log)
  PROVE  /\ editLog' \in EditLogs /\ editLog'.acts = log.acts + 1 /\ editLog'.contents = log.contents
         /\ editLog'.unsaved = log.unsaved /\ editLog'.unread = log.unread
  BY DEF EditLogs, EditSpend

\* Every step of Templates keeps the invariant.
LEMMA TemplatesStep == TemplatesInv /\ [TemplatesNext]_templateVars => TemplatesInv'
<1> SUFFICES ASSUME TemplatesInv, [TemplatesNext]_templateVars PROVE TemplatesInv' OBVIOUS
<1>t. /\ template \in Nat /\ edit \in [Editors -> EditRecords] /\ editLog \in EditLogs
      /\ \A v \in versions \cup saving : v.id \in Nat /\ v.content \in Nat
  BY DEF TemplatesInv, TemplatesTypes
<1>i. /\ \A s \in saving : s.id <= editLog.acts
      /\ \A e \in Editors : edit[e].pc # "idle" => edit[e].id <= editLog.acts
      /\ \A e, f \in Editors : edit[e].pc # "idle" /\ edit[f].pc # "idle" /\ edit[e].id = edit[f].id => e = f
      /\ \A e \in Editors, s \in saving : edit[e].pc = "count" => edit[e].id # s.id
  BY DEF TemplatesInv, IdsAreFresh
<1>h. ASSUME template # 0
      PROVE  /\ \A e \in Editors : edit[e].pc = "write" => OldIsSaved(e)
             /\ \A c \in editLog.contents : Accounted(c)
  BY <1>h DEF TemplatesInv
<1>a. editLog.acts \in Nat /\ editLog.contents \subseteq Nat /\ editLog.unsaved \subseteq Nat /\ editLog.unread \subseteq Nat
  BY <1>t DEF EditLogs
<1>n. NoEdit \in EditRecords /\ NoEdit.pc = "idle" BY DEF NoEdit, EditRecords
<1>d. \A e \in Editors : edit[e].id \in Nat BY <1>t DEF EditRecords
<1>1. ASSUME NEW e \in Editors, NEW content \in Nat, ReadsTemplate(e, content) PROVE TemplatesInv'
  <2>1. PICK r : r = [pc |-> "count", id |-> editLog.acts + 1, old |-> template, new |-> content] OBVIOUS
  <2>2. r \in EditRecords /\ r.pc = "count" /\ r.id = editLog.acts + 1 BY <1>a, <2>1, <1>t DEF EditRecords
  <2>3. edit' = [edit EXCEPT ![e] = r] /\ UNCHANGED <<template, versions, saving>> /\ edit[e].pc = "idle"
    BY <1>1, <2>1 DEF ReadsTemplate, Editing
  <2>4. /\ editLog' \in EditLogs /\ editLog'.acts = editLog.acts + 1 /\ editLog'.contents = editLog.contents
        /\ editLog'.unsaved = editLog.unsaved /\ editLog'.unread = editLog.unread
    BY <1>1, <1>t, EditCounts DEF ReadsTemplate
  <2>5. edit' \in [Editors -> EditRecords] /\ edit'[e] = r /\ \A f \in Editors \ {e} : edit'[f] = edit[f]
    BY <1>t, <2>2, <2>3
  <2>6. \A s \in saving' : s.id <= editLog'.acts BY <1>i, <1>t, <1>a, <2>3, <2>4
  <2>7. \A f \in Editors : edit'[f].pc # "idle" => edit'[f].id <= editLog'.acts
    BY <1>i, <1>d, <2>5, <1>a, <2>2, <2>4
  <2>8. \A f \in Editors \ {e} : edit'[f].pc # "idle" => edit'[f].id # r.id BY <1>i, <1>d, <2>5, <1>a, <2>2
  <2>9. \A f, g \in Editors : edit'[f].pc # "idle" /\ edit'[g].pc # "idle" /\ edit'[f].id = edit'[g].id => f = g
    BY <1>i, <2>5, <2>8
  <2>10. \A s \in saving : s.id # r.id BY <1>i, <1>t, <1>a, <2>2
  <2>11. \A f \in Editors, s \in saving' : edit'[f].pc = "count" => edit'[f].id # s.id
    BY <1>i, <2>3, <2>5, <2>10
  <2>12. ASSUME template # 0, NEW f \in Editors, edit'[f].pc = "write" PROVE OldIsSaved(f)'
    BY <1>h, <2>2, <2>3, <2>4, <2>5, <2>12 DEF OldIsSaved
  <2>13. ASSUME NEW s, Settled(s) PROVE Settled(s)' BY <2>2, <2>3, <2>5, <2>13 DEF Settled
  <2>14. ASSUME template # 0, NEW c \in editLog'.contents PROVE Accounted(c)'
    BY <1>h, <2>3, <2>4, <2>13, <2>14 DEF Accounted
  <2> QED
    BY <1>t, <2>3, <2>4, <2>5, <2>6, <2>7, <2>9, <2>11, <2>12, <2>14 DEF TemplatesInv, TemplatesTypes, IdsAreFresh
<1>2. ASSUME NEW e \in Editors, PatchTemplate(e) PROVE TemplatesInv' BY <1>a, <1>1, <1>2 DEF PatchTemplate
<1>3. ASSUME NEW e \in Editors, RestoreVersion(e) PROVE TemplatesInv' BY <1>1, <1>3, <1>t DEF RestoreVersion
<1>4. ASSUME NEW e \in Editors, SnapshotTemplate(e) PROVE TemplatesInv'
  <2>1. PICK i \in Nat, o \in Nat, n \in Nat : edit[e] = [pc |-> "count", id |-> i, old |-> o, new |-> n]
    BY <1>t, <1>4 DEF SnapshotTemplate, EditRecords
  <2>2. PICK r : r = [pc |-> "write", id |-> i, old |-> o, new |-> n] OBVIOUS
  <2>3. r \in EditRecords /\ r.pc = "write" /\ r.id = i /\ r.old = o BY <2>2 DEF EditRecords
  <2>4. edit' = [edit EXCEPT ![e] = r] /\ UNCHANGED <<template, versions, editLog>>
    <3>1. [edit[e] EXCEPT !.pc = "write"] = r BY <2>1, <2>2
    <3> QED BY <1>4, <3>1 DEF SnapshotTemplate, Editing
  <2>5. edit' \in [Editors -> EditRecords] /\ edit'[e] = r /\ \A f \in Editors \ {e} : edit'[f] = edit[f]
    BY <1>t, <2>3, <2>4
  <2>6. PICK k : saving' = saving \cup {k} /\ k.id = i /\ k.content = o
    <3>1. PICK c : c = Cardinality(versions) + 1 OBVIOUS
    <3>2. PICK k : k = [id |-> i, number |-> c, content |-> o] OBVIOUS
    <3>3. saving' = saving \cup {k} BY <1>4, <2>1, <3>1, <3>2 DEF SnapshotTemplate, Replaced
    <3>4. k.id = i /\ k.content = o BY <3>2
    <3> QED BY <3>3, <3>4
  <2>7. edit[e].pc = "count" /\ edit[e].id = i BY <2>1
  <2>8. \A s \in saving : s.id # i BY <1>i, <2>7
  <2>9. \A s \in saving' : s.id <= editLog'.acts BY <1>i, <2>4, <2>6, <2>7
  <2>10. \A f \in Editors : edit'[f].pc # "idle" => edit[f].pc # "idle" /\ edit'[f].id = edit[f].id
    BY <2>3, <2>5, <2>7
  <2>11. \A f, g \in Editors : edit'[f].pc # "idle" /\ edit'[g].pc # "idle" /\ edit'[f].id = edit'[g].id => f = g
    BY <1>i, <2>10
  <2>12. \A f \in Editors : edit'[f].pc # "idle" => edit'[f].id <= editLog'.acts BY <1>i, <2>4, <2>10
  <2>13. \A f \in Editors, s \in saving' : edit'[f].pc = "count" => edit'[f].id # s.id
    <3>1. ASSUME NEW f \in Editors, edit'[f].pc = "count" PROVE f # e /\ edit[f].pc = "count" /\ edit'[f].id = edit[f].id
      BY <2>3, <2>5, <3>1
    <3>2. ASSUME NEW f \in Editors, edit'[f].pc = "count" PROVE edit'[f].id # i BY <1>i, <2>7, <3>1, <3>2
    <3> QED BY <1>i, <2>6, <3>1, <3>2
  <2>14. \A v \in versions' \cup saving' : v.id \in Nat /\ v.content \in Nat BY <1>t, <2>4, <2>6
  <2>15. ASSUME template # 0, NEW f \in Editors, edit'[f].pc = "write" PROVE OldIsSaved(f)'
    BY <2>3, <2>5, <2>6, <1>h, <2>4, <2>15 DEF OldIsSaved
  <2>16. ASSUME NEW s, Settled(s) PROVE Settled(s)' BY <2>3, <2>4, <2>5, <2>6, <2>8, <2>16 DEF Settled
  <2>17. ASSUME template # 0, NEW c \in editLog'.contents PROVE Accounted(c)'
    BY <1>h, <2>4, <2>6, <2>16, <2>17 DEF Accounted
  <2> QED
    BY <1>t, <2>4, <2>5, <2>9, <2>11, <2>12, <2>13, <2>14, <2>15, <2>17 DEF TemplatesInv, TemplatesTypes, IdsAreFresh
<1>5. CASE SaveVersion
  <2>1. PICK s \in saving : template # 0 /\ saving' = saving \ {s} /\ versions' = versions \cup {s} /\ UNCHANGED <<template, edit, editLog>>
    BY <1>5 DEF SaveVersion
  <2>2. versions' \cup saving' = versions \cup saving BY <2>1
  <2>3. \A f \in Editors : edit[f].pc = "write" => OldIsSaved(f)' BY <1>h, <2>1, <2>2 DEF OldIsSaved
  <2>4. ASSUME NEW x, Settled(x) PROVE Settled(x)' BY <2>1, <2>4 DEF Settled
  <2>5. \A c \in editLog.contents : Accounted(c)' BY <1>h, <2>1, <2>2, <2>4 DEF Accounted
  <2> QED BY <1>t, <1>i, <2>1, <2>2, <2>3, <2>5 DEF TemplatesInv, TemplatesTypes, IdsAreFresh
<1>6. CASE SaveFails
  <2>1. PICK s \in saving : /\ saving' = saving \ {s} /\ UNCHANGED <<template, versions, edit>>
                            /\ IF template = 0 THEN UNCHANGED editLog ELSE EditSpend([editLog EXCEPT !.unsaved = @ \cup {s.content}])
    BY <1>6 DEF SaveFails
  <2>2. /\ editLog' \in EditLogs /\ editLog'.acts >= editLog.acts /\ editLog'.contents = editLog.contents
        /\ editLog.unsaved \subseteq editLog'.unsaved /\ editLog'.unread = editLog.unread
        /\ template # 0 => s.content \in editLog'.unsaved
    BY <1>t, <1>a, <2>1, EditCounts DEF EditLogs
  <2>3. editLog'.acts \in Nat BY <2>2 DEF EditLogs
  <2>4. \A x \in saving' : x.id <= editLog'.acts BY <1>i, <1>t, <1>a, <2>1, <2>2, <2>3
  <2>5. \A f \in Editors : edit'[f].pc # "idle" => edit'[f].id <= editLog'.acts
    BY <1>i, <1>d, <1>a, <2>1, <2>2, <2>3
  <2>6. ASSUME template # 0, NEW f \in Editors, edit[f].pc = "write" PROVE OldIsSaved(f)'
    BY <1>h, <2>1, <2>2, <2>6 DEF OldIsSaved
  <2>7. ASSUME NEW x, x # s, Settled(x) PROVE Settled(x)' BY <2>1, <2>7 DEF Settled
  <2>8. ASSUME template # 0, NEW c \in editLog.contents PROVE Accounted(c)'
    BY <1>h, <2>1, <2>2, <2>7, <2>8 DEF Accounted
  <2> QED BY <1>t, <1>i, <2>1, <2>2, <2>4, <2>5, <2>6, <2>8 DEF TemplatesInv, TemplatesTypes, IdsAreFresh
<1>7. ASSUME NEW e \in Editors, OverwriteTemplate(e) PROVE TemplatesInv'
  <2>1. edit[e].pc = "write" /\ template # 0 /\ template' = edit[e].new /\ edit' = [edit EXCEPT ![e] = NoEdit] /\ UNCHANGED <<versions, saving>>
    BY <1>7 DEF OverwriteTemplate, Editing
  <2>2. edit' \in [Editors -> EditRecords] /\ edit'[e] = NoEdit /\ \A f \in Editors \ {e} : edit'[f] = edit[f]
    BY <1>t, <1>n, <2>1
  <2>3. edit[e].new \in Nat BY <1>t DEF EditRecords
  <2>4. /\ editLog' \in EditLogs /\ editLog'.acts = editLog.acts /\ editLog'.contents = editLog.contents \cup {edit[e].new}
        /\ editLog'.unsaved = editLog.unsaved /\ editLog.unread \subseteq editLog'.unread
        /\ template # edit[e].old => template \in editLog'.unread
    BY <1>t, <2>3, <1>7 DEF EditLogs, OverwriteTemplate
  <2>5. ASSUME NEW f \in Editors, edit'[f].pc # "idle" PROVE f # e /\ edit'[f] = edit[f] BY <1>n, <2>2, <2>5
  <2>6. IdsAreFresh' BY <1>i, <2>1, <2>4, <2>5 DEF IdsAreFresh
  <2>7. \A f \in Editors : edit'[f].pc = "write" => OldIsSaved(f)' BY <1>h, <2>1, <2>4, <2>5 DEF OldIsSaved
  <2>8. ASSUME NEW s, Settled(s) PROVE Settled(s)' BY <2>1, <2>5, <2>8 DEF Settled
  <2>9. ASSUME NEW s \in saving, s.id = edit[e].id PROVE Settled(s)'
    <3>1. ASSUME NEW f \in Editors, edit'[f].pc = "write" PROVE edit'[f].id # s.id
      BY <1>i, <2>1, <2>5, <2>9, <3>1
    <3> QED BY <2>1, <3>1 DEF Settled
  <2>10. ASSUME NEW x, x = template PROVE Accounted(x)'
    BY <2>10, <2>4, <2>1, <2>9, <1>h DEF Accounted, Settled, OldIsSaved
  <2>11. ASSUME NEW c \in editLog'.contents PROVE Accounted(c)'
    BY <2>1, <2>10, <1>h, <2>4, <2>8, <2>11 DEF Accounted
  <2> QED BY <1>t, <2>1, <2>2, <2>3, <2>4, <2>6, <2>7, <2>11 DEF TemplatesInv, TemplatesTypes
<1>8. ASSUME NEW e \in Editors, EditFails(e) PROVE TemplatesInv'
  <2>1. /\ edit[e].pc # "idle" /\ edit' = [edit EXCEPT ![e] = NoEdit] /\ UNCHANGED <<template, versions>>
        /\ saving' \subseteq saving /\ \A s \in saving : s.id # edit[e].id => s \in saving'
    BY <1>8 DEF EditFails, Editing
  <2>2. edit' \in [Editors -> EditRecords] /\ edit'[e] = NoEdit /\ \A f \in Editors \ {e} : edit'[f] = edit[f]
    BY <1>t, <1>n, <2>1
  <2>3. /\ editLog' \in EditLogs /\ editLog'.acts >= editLog.acts /\ editLog'.contents = editLog.contents
        /\ editLog'.unsaved = editLog.unsaved /\ editLog'.unread = editLog.unread
    BY <1>8, <1>t, <1>a, EditCounts DEF EditFails
  <2>4. editLog'.acts \in Nat BY <2>3 DEF EditLogs
  <2>5. ASSUME NEW f \in Editors, edit'[f].pc # "idle" PROVE f # e /\ edit'[f] = edit[f] /\ edit[f].id # edit[e].id
    BY <1>n, <1>i, <2>1, <2>2, <2>5
  <2>6. \A x \in saving' : x.id <= editLog'.acts BY <1>i, <1>t, <1>a, <2>1, <2>3, <2>4
  <2>7. \A f \in Editors : edit'[f].pc # "idle" => edit'[f].id <= editLog'.acts
    BY <1>i, <1>d, <1>a, <2>5, <2>3, <2>4
  <2>8. IdsAreFresh' BY <1>i, <2>1, <2>5, <2>6, <2>7 DEF IdsAreFresh
  <2>9. ASSUME template # 0, NEW f \in Editors, edit'[f].pc = "write" PROVE OldIsSaved(f)'
    BY <1>h, <2>1, <2>3, <2>5, <2>9 DEF OldIsSaved
  <2>10. ASSUME NEW s, Settled(s) PROVE Settled(s)' BY <2>10, <1>i, <1>t, <2>1, <2>5 DEF Settled, EditRecords
  <2>11. ASSUME template # 0, NEW c \in editLog.contents PROVE Accounted(c)'
    BY <2>10, <1>h, <2>1, <2>3, <2>11 DEF Accounted, Settled
  <2> QED BY <1>t, <2>1, <2>2, <2>3, <2>8, <2>9, <2>11 DEF TemplatesInv, TemplatesTypes
<1>9. CASE DeleteTemplate
  BY <1>9, <1>t, EditCounts, <1>i, <1>a, <1>d DEF DeleteTemplate, TemplatesInv, TemplatesTypes, IdsAreFresh
<1>10. CASE UNCHANGED templateVars
  BY <1>10, <1>t, <1>i, <1>h DEF templateVars, TemplatesInv, TemplatesTypes, IdsAreFresh, OldIsSaved, Accounted, Settled
<1> QED BY <1>2, <1>3, <1>4, <1>5, <1>6, <1>7, <1>8, <1>9, <1>10 DEF TemplatesNext

\* The invariant gives the property.
LEMMA TemplatesMean == TemplatesInv => HistoryKeepsAll
  BY DEF HistoryKeepsAll, TemplatesInv, Accounted

----------------------------------------------------------------------------
(***************************************************************************)
(* Tracking.  While a request is at work the window does not pass, so an   *)
(* address that had fanned out when it came has fanned out still when      *)
(* checkIpFanout asks; and the messages touched only become more.          *)
(***************************************************************************)

\* A request.
HitRecords == [pc : {"idle", "fanout", "store", "count"}, msg : Mails_ \cup {"-"}, addr : Addresses \cup {"-"},
               kind : {"open", "click"}, bot : BOOLEAN, spread : BOOLEAN]

\* The ghosts.
ScanRecords == [acts : Nat, counted : Nat, people : Nat]

\* What the variables of Tracking hold.
TrackTypes ==
    /\ \A a \in Addresses \cup {"-"} : IsFiniteSet(Touched(a))
    /\ hit \in [Hits -> HitRecords] /\ counts \in [Variants -> Nat] /\ scan \in ScanRecords

\* A request from an address that had fanned out will be told so, was told so, or is over.
ToldApart(h) ==
    hit[h].spread => \/ hit[h].pc = "idle"
                     \/ hit[h].pc = "fanout" /\ FansOut(hit[h].addr)
                     \/ hit[h].pc = "store" /\ hit[h].bot

\* The inductive invariant of Tracking.
TrackInv == TrackTypes /\ (\A h \in Hits : ToldApart(h)) /\ ScannersDontCount

\* Whether a number is reached is true or false.
LEMMA ReachedOrNot == ASSUME NEW n \in Nat, NEW m \in Nat PROVE \E s \in BOOLEAN : s = (n >= m)
<1>1. PICK s : s = (n >= m) BY Zenon
<1>2. s \in BOOLEAN BY <1>1
<1> QED BY <1>1, <1>2, Zenon

\* The invariant holds at the start.
LEMMA TrackStarts == TrackInit => TrackInv
  BY FS_EmptySet DEF TrackInit, Touched, NoHit, HitRecords, Variants, ScanRecords, TrackInv, TrackTypes,
     ToldApart, ScannersDontCount

\* A step that costs changes the bound of what it is given, and no more.
LEMMA CostsCount ==
  ASSUME NEW n \in Nat, NEW s \in ScanRecords, Costs(n, s)
  PROVE  scan' \in ScanRecords /\ scan'.counted = s.counted /\ scan'.people = s.people
  BY DEF ScanRecords, Costs

\* Every step of Tracking keeps the invariant.
LEMMA TrackStep == TrackInv /\ [TrackNext]_trackVars => TrackInv'
<1> SUFFICES ASSUME TrackInv, [TrackNext]_trackVars PROVE TrackInv' OBVIOUS
<1>t. hit \in [Hits -> HitRecords] /\ counts \in [Variants -> Nat] /\ scan \in ScanRecords
  BY DEF TrackInv, TrackTypes
<1>f. \A a \in Addresses \cup {"-"} : IsFiniteSet(Touched(a)) BY DEF TrackInv, TrackTypes
<1>i. \A h \in Hits : ToldApart(h) BY DEF TrackInv
<1>s. scan.counted = 0 /\ counts["a"] + counts["b"] = scan.people BY DEF TrackInv, ScannersDontCount
<1>r. ASSUME NEW h \in Hits
      PROVE  \E p \in {"idle", "fanout", "store", "count"}, m \in Mails_ \cup {"-"}, a \in Addresses \cup {"-"},
                k \in {"open", "click"}, b \in BOOLEAN, s \in BOOLEAN :
                hit[h] = [pc |-> p, msg |-> m, addr |-> a, kind |-> k, bot |-> b, spread |-> s]
  BY <1>t DEF HitRecords
\* A step of the request h alone, which finds itself told apart, while what is seen stays.
<1>k. ASSUME NEW h \in Hits, NEW r \in HitRecords, hit' = [hit EXCEPT ![h] = r], UNCHANGED <<seen, counts>>,
             scan' \in ScanRecords, scan'.counted = 0, scan'.people = scan.people,
             r.spread => \/ r.pc = "idle"
                         \/ r.pc = "fanout" /\ FansOut(r.addr)
                         \/ r.pc = "store" /\ r.bot
      PROVE  TrackInv'
  BY <1>t, <1>k, <1>i, <1>s, <1>f DEF Touched, FansOut, ToldApart, ScannersDontCount, TrackTypes, TrackInv
<1>1. ASSUME NEW h \in Hits, NEW m \in Mails_, NEW a \in Addresses, NEW kind \in {"open", "click"}, NEW fast \in BOOLEAN,
             ArriveAs(h, m, a, kind, fast)
      PROVE  TrackInv'
  <2>n. Cardinality(Touched(a)) \in Nat /\ FANOUT \in Nat BY <1>f, FS_CardinalityType, TrackingAssumption
  <2>1. PICK s \in BOOLEAN : s = (Cardinality(Touched(a)) >= FANOUT) BY <2>n, ReachedOrNot, Zenon
  <2>2. PICK p \in {"store", "fanout"} : p = IF fast THEN "store" ELSE "fanout" OBVIOUS
  <2>3. PICK r : r = [pc |-> p, msg |-> m, addr |-> a, kind |-> kind, bot |-> fast, spread |-> s] OBVIOUS
  <2>4. r \in HitRecords /\ r.pc = p /\ r.addr = a /\ (r.bot <=> fast) /\ (r.spread <=> s)
    BY <2>3 DEF HitRecords
  <2>5. hit' = [hit EXCEPT ![h] = r] /\ UNCHANGED <<seen, counts>> BY <1>1, <2>1, <2>2, <2>3 DEF ArriveAs
  <2>6. scan' \in ScanRecords /\ scan'.counted = 0 /\ scan'.people = scan.people
    BY <1>1, <1>t, <1>s, CostsCount DEF ArriveAs
  <2>7. r.spread => (r.pc = "fanout" /\ FansOut(r.addr)) \/ (r.pc = "store" /\ r.bot)
    BY <2>1, <2>2, <2>4 DEF FansOut
  <2> QED BY <1>k, <2>4, <2>5, <2>6, <2>7
<1>2. ASSUME NEW h \in Hits, CheckIpFanout(h) PROVE TrackInv'
  <2>1. PICK p \in {"idle", "fanout", "store", "count"}, m \in Mails_ \cup {"-"}, a \in Addresses \cup {"-"},
                k \in {"open", "click"}, b \in BOOLEAN, s \in BOOLEAN :
                hit[h] = [pc |-> p, msg |-> m, addr |-> a, kind |-> k, bot |-> b, spread |-> s]
    BY <1>r
  <2>2. p = "fanout" /\ UNCHANGED <<seen, counts>> BY <1>2, <2>1 DEF CheckIpFanout
  <2>c. PICK c : c = "store" OBVIOUS
  <2>z. PICK z : z = [hit EXCEPT ![h].pc = c] OBVIOUS
  <2>v. PICK q : q = [pc |-> c, msg |-> m, addr |-> a, kind |-> k, bot |-> b, spread |-> s] OBVIOUS
  <2>w. [hit[h] EXCEPT !.pc = c] = q BY <2>1, <2>v
  <2>y. z = [hit EXCEPT ![h] = q] BY <2>z, <2>w
  <2>x. z[h] = q BY <1>t, <2>y
  <2>3. CASE hit' = [hit EXCEPT ![h].pc = "store", ![h].bot = FansOut(hit[h].addr)] /\ UNCHANGED scan
    <3>n. Cardinality(Touched(a)) \in Nat /\ FANOUT \in Nat BY <1>f, FS_CardinalityType, TrackingAssumption
    <3>1. PICK f \in BOOLEAN : f = FansOut(a) BY <3>n, ReachedOrNot, Zenon DEF FansOut
    <3>2. PICK r : r = [pc |-> c, msg |-> m, addr |-> a, kind |-> k, bot |-> f, spread |-> s] OBVIOUS
    <3>3. r \in HitRecords /\ r.pc = "store" /\ (r.bot <=> f) /\ (r.spread <=> s) BY <2>c, <3>2 DEF HitRecords
    <3>0. [q EXCEPT !.bot = f] = r BY <2>v, <3>2
    <3>4. [z EXCEPT ![h].bot = f] = [z EXCEPT ![h] = r] BY <2>x, <3>0
    <3>5. [z EXCEPT ![h] = r] = [hit EXCEPT ![h] = r] BY <2>y
    <3>6. hit' = [hit EXCEPT ![h].pc = c, ![h].bot = f] BY <2>1, <2>3, <2>c, <3>1
    <3>7. [hit EXCEPT ![h].pc = c, ![h].bot = f] = [z EXCEPT ![h].bot = f] BY <2>z
    <3>8. hit' = [hit EXCEPT ![h] = r] BY <3>4, <3>5, <3>6, <3>7
    <3>9. s => f BY <1>i, <2>1, <2>2, <3>1 DEF ToldApart
    <3> QED BY <1>k, <1>t, <1>s, <2>2, <2>3, <3>3, <3>8, <3>9
  <2>4. CASE hit' = [hit EXCEPT ![h].pc = "store", ![h].spread = FALSE] /\ Costs(2, scan)
    <3>1. PICK f \in BOOLEAN : f = FALSE OBVIOUS
    <3>2. PICK r : r = [pc |-> c, msg |-> m, addr |-> a, kind |-> k, bot |-> b, spread |-> f] OBVIOUS
    <3>3. r \in HitRecords /\ (r.spread <=> f) BY <2>c, <3>2 DEF HitRecords
    <3>0. [q EXCEPT !.spread = f] = r BY <2>v, <3>2
    <3>4. [z EXCEPT ![h].spread = f] = [z EXCEPT ![h] = r] BY <2>x, <3>0
    <3>5. [z EXCEPT ![h] = r] = [hit EXCEPT ![h] = r] BY <2>y
    <3>6. hit' = [hit EXCEPT ![h].pc = c, ![h].spread = f] BY <2>4, <2>c, <3>1
    <3>7. [hit EXCEPT ![h].pc = c, ![h].spread = f] = [z EXCEPT ![h].spread = f] BY <2>z
    <3>8. hit' = [hit EXCEPT ![h] = r] BY <3>4, <3>5, <3>6, <3>7
    <3>9. scan' \in ScanRecords /\ scan'.counted = 0 /\ scan'.people = scan.people
      BY <1>t, <1>s, <2>4, CostsCount
    <3> QED BY <1>k, <2>2, <3>1, <3>3, <3>8, <3>9
  <2> QED BY <1>2, <2>3, <2>4 DEF CheckIpFanout
<1>3. ASSUME NEW h \in Hits, Store(h) PROVE TrackInv'
  <2>1. PICK p \in {"idle", "fanout", "store", "count"}, m \in Mails_ \cup {"-"}, a \in Addresses \cup {"-"},
                k \in {"open", "click"}, b \in BOOLEAN, s \in BOOLEAN :
                hit[h] = [pc |-> p, msg |-> m, addr |-> a, kind |-> k, bot |-> b, spread |-> s]
    BY <1>r
  <2>2. p = "store" /\ UNCHANGED <<counts>> BY <1>3, <2>1 DEF Store
  <2>3. PICK c \in {"idle", "count"} : c = IF b THEN "idle" ELSE "count" OBVIOUS
  <2>4. PICK r : r = [pc |-> c, msg |-> m, addr |-> a, kind |-> k, bot |-> b, spread |-> s] OBVIOUS
  <2>5. r \in HitRecords /\ r.pc = c /\ (r.spread <=> s) BY <2>4 DEF HitRecords
  <2>6. hit' = [hit EXCEPT ![h] = r]
    <3>1. hit' = [hit EXCEPT ![h].pc = c] BY <1>3, <2>1, <2>3 DEF Store, Step_
    <3>2. [hit[h] EXCEPT !.pc = c] = r BY <2>1, <2>4
    <3> QED BY <3>1, <3>2
  <2>7. s => b BY <1>i, <2>1, <2>2 DEF ToldApart
  <2>8. r.spread => r.pc = "idle" BY <2>3, <2>5, <2>7
  <2>9. CASE seen' = seen \cup {<<m, a>>} /\ UNCHANGED scan
    <3>1. hit' \in [Hits -> HitRecords] /\ hit'[h] = r /\ \A g \in Hits \ {h} : hit'[g] = hit[g]
      BY <1>t, <2>5, <2>6
    <3>2. \A x : Touched(x) \subseteq Touched(x)' /\ Touched(x)' \subseteq Touched(x) \cup {m}
      BY <2>9 DEF Touched
    <3>3. ASSUME NEW x \in Addresses \cup {"-"} PROVE IsFiniteSet(Touched(x)') /\ (FansOut(x) => FansOut(x)')
      BY <1>f, FS_AddElement, <3>2, FS_Subset, FS_CardinalityType, TrackingAssumption DEF FansOut
    <3>4. \A g \in Hits : hit[g].addr \in Addresses \cup {"-"} BY <1>t DEF HitRecords
    <3>5. \A g \in Hits : ToldApart(g)' BY <2>8, <3>1, <1>i, <3>3, <3>4 DEF ToldApart
    <3>6. ScannersDontCount' BY <1>s, <2>2, <2>9 DEF ScannersDontCount
    <3>7. TrackTypes' BY <1>t, <2>2, <2>9, <3>1, <3>3 DEF TrackTypes
    <3> QED BY <3>5, <3>6, <3>7 DEF TrackInv
  <2>10. CASE Costs(2, scan) /\ UNCHANGED seen BY <1>t, <1>s, <2>10, CostsCount, <1>k, <2>2, <2>5, <2>6, <2>8
  <2> QED BY <1>3, <2>1, <2>9, <2>10 DEF Store
<1>4. ASSUME NEW h \in Hits, NEW v \in Variants, CountHit(h, v) PROVE TrackInv'
  <2>1. PICK p \in {"idle", "fanout", "store", "count"}, m \in Mails_ \cup {"-"}, a \in Addresses \cup {"-"},
                k \in {"open", "click"}, b \in BOOLEAN, s \in BOOLEAN :
                hit[h] = [pc |-> p, msg |-> m, addr |-> a, kind |-> k, bot |-> b, spread |-> s]
    BY <1>r
  <2>2. p = "count" /\ UNCHANGED seen BY <1>4, <2>1 DEF CountHit
  <2>3. ~s BY <1>i, <2>1, <2>2 DEF ToldApart
  <2>4. PICK r : r = [pc |-> "idle", msg |-> m, addr |-> a, kind |-> k, bot |-> b, spread |-> s] OBVIOUS
  <2>5. r \in HitRecords /\ r.pc = "idle" BY <2>4 DEF HitRecords
  <2>6. hit' = [hit EXCEPT ![h] = r]
    <3>1. [hit[h] EXCEPT !.pc = "idle"] = r BY <2>1, <2>4
    <3> QED BY <1>4, <3>1 DEF CountHit, Step_
  <2>7. CASE Costs(2, scan) /\ UNCHANGED <<opened, counts>>
    BY <1>t, <1>s, <2>7, CostsCount, <1>k, <2>2, <2>5, <2>6
  <2>8. CASE /\ counts' = IF hit[h].kind = "open" THEN [counts EXCEPT ![v] = @ + 1] ELSE counts
             /\ scan' = [scan EXCEPT !.counted = @ + (IF hit[h].spread THEN 1 ELSE 0), !.people = @ + (IF hit[h].kind = "open" THEN 1 ELSE 0)]
    <3>0. PICK d \in Nat : d = IF k = "open" THEN 1 ELSE 0 OBVIOUS
    <3>1. PICK x \in Nat, y \in Nat, q \in Nat : scan = [acts |-> x, counted |-> y, people |-> q]
      BY <1>t DEF ScanRecords
    <3>2. y = 0 /\ counts["a"] + counts["b"] = q BY <1>s, <3>1
    <3>3. scan' = [scan EXCEPT !.counted = @ + 0, !.people = @ + d] BY <2>1, <2>3, <2>8, <3>0
    <3>4. [scan EXCEPT !.counted = @ + 0, !.people = @ + d] = [acts |-> x, counted |-> y + 0, people |-> q + d]
      <4>x. PICK z : z = [scan EXCEPT !.counted = @ + 0] OBVIOUS
      <4>y. z = [acts |-> x, counted |-> y + 0, people |-> q] BY <3>1, <4>x
      <4>z. [z EXCEPT !.people = @ + d] = [acts |-> x, counted |-> y + 0, people |-> q + d] BY <4>y
      <4>w. [scan EXCEPT !.counted = @ + 0, !.people = @ + d] = [z EXCEPT !.people = @ + d] BY <4>x
      <4> QED BY <4>z, <4>w
    <3>5. PICK l : l = scan' OBVIOUS
    <3>6. l = [acts |-> x, counted |-> y + 0, people |-> q + d] BY <3>3, <3>4, <3>5
    <3>7. l \in ScanRecords /\ l.counted = y + 0 /\ l.people = q + d BY <3>6 DEF ScanRecords
    <3>8. l.counted = 0 /\ l.people = q + d BY <3>2, <3>7
    <3>9. counts' \in [Variants -> Nat] /\ counts'["a"] + counts'["b"] = q + d
      BY <1>t, <2>1, <2>8, <3>0, <3>2 DEF Variants
    <3>10. hit' \in [Hits -> HitRecords] /\ hit'[h] = r /\ \A g \in Hits \ {h} : hit'[g] = hit[g]
      BY <1>t, <2>5, <2>6
    <3>11. \A x1 : Touched(x1)' = Touched(x1) /\ FansOut(x1)' = FansOut(x1) BY <2>2 DEF Touched, FansOut
    <3>12. \A g \in Hits : ToldApart(g)' BY <2>5, <3>10, <1>i, <3>11 DEF ToldApart
    <3> QED BY <1>f, <3>5, <3>7, <3>8, <3>9, <3>10, <3>11, <3>12 DEF TrackInv, TrackTypes, ScannersDontCount
  <2> QED BY <1>4, <2>7, <2>8 DEF CountHit
<1>5. CASE WindowPasses
  BY <1>5, FS_EmptySet, <1>t, <1>s DEF WindowPasses, Touched, ToldApart, TrackInv, TrackTypes, ScannersDontCount
<1>6. CASE UNCHANGED trackVars
  BY <1>6, <1>t, <1>f, <1>i, <1>s DEF trackVars, Touched, FansOut, TrackInv, TrackTypes, ToldApart,
     ScannersDontCount
<1> QED BY <1>1, <1>2, <1>3, <1>4, <1>5, <1>6 DEF TrackNext, ClassifyTrackingEvent

\* The invariant gives the property.
LEMMA TrackMeans == TrackInv => ScannersDontCount
BY DEF TrackInv

----------------------------------------------------------------------------
(***************************************************************************)
(* Audience.  Whoever asked to be left alone, and whose wish was not       *)
(* absorbed, is the one the entry belongs to, or the entry is nobody's and *)
(* no key can delete it; a list that was left has a membership still, so   *)
(* an import has nothing to add.                                           *)
(***************************************************************************)

\* The row of the address.
SuppRecords == [reason : {"none", "unsubscribed", "complaint", "bounce", "manual"}, by : AudKeys \cup {"nobody"}]

\* The states of a membership.
MemberStates == {"none", "pending", "subscribed", "unsubscribed"}

\* The ghosts, whatever they hold.
IsPerson(p) == \E a, o, b, l, r, c : p = [acts |-> a, out |-> o, absorbed |-> b, left |-> l, raced |-> r, carried |-> c]

\* Those whose wish the entry keeps.
KeptFor == IF supp = NoEntry THEN {} ELSE IF supp.by = "nobody" THEN AudKeys \cup {"nobody"} ELSE {supp.by}

\* What the entry and the wishes say of each other.
WishesKept ==
    /\ person.out \subseteq AudKeys \cup {"nobody"} /\ person.out \ person.absorbed \subseteq KeptFor

\* What the memberships and the wishes say of each other.
ListsKept ==
    /\ person.left \subseteq AudLists
    /\ \A l \in person.left : member[l] # "none"
    /\ LeftStaysLeft

\* The inductive invariant of Audience.
AudienceInv == supp \in SuppRecords /\ member \in [AudLists -> MemberStates] /\ IsPerson(person) /\ WishesKept /\ ListsKept

\* The invariant holds at the start.
LEMMA AudienceStarts == AudienceInit => AudienceInv
<1> SUFFICES ASSUME AudienceInit PROVE AudienceInv OBVIOUS
<1>1. supp \in SuppRecords BY DEF AudienceInit, NoEntry, SuppRecords
<1>2. member \in [AudLists -> MemberStates] BY DEF AudienceInit, MemberStates
<1>3. IsPerson(person) BY DEF AudienceInit, IsPerson
<1>4. person.out = {} /\ person.left = {} BY DEF AudienceInit
<1> QED BY <1>1, <1>2, <1>3, <1>4 DEF AudienceInv, WishesKept, ListsKept, LeftStaysLeft

\* A person's wishes replaced, and his lists.
WithOut(p, u, v) == [p EXCEPT !.out = u, !.absorbed = v]
WithLeft(p, u, v) == [p EXCEPT !.left = u, !.raced = v]

\* Other wishes leave the lists as they are.
LEMMA OutChanges ==
  ASSUME NEW p, IsPerson(p), NEW u, NEW v, NEW q, q = WithOut(p, u, v)
  PROVE  IsPerson(q) /\ q.out = u /\ q.absorbed = v /\ q.left = p.left /\ q.raced = p.raced
  BY Zenon DEF IsPerson, WithOut

\* Other lists leave the wishes as they are.
LEMMA LeftChanges ==
  ASSUME NEW p, IsPerson(p), NEW u, NEW v, NEW q, q = WithLeft(p, u, v)
  PROVE  IsPerson(q) /\ q.out = p.out /\ q.absorbed = p.absorbed /\ q.left = u /\ q.raced = v
  BY Zenon DEF IsPerson, WithLeft

\* What a file carried is neither a wish nor a list.
LEMMA CarriedChanges ==
  ASSUME NEW p, IsPerson(p), NEW u
  PROVE  /\ IsPerson([p EXCEPT !.carried = u])
         /\ [p EXCEPT !.carried = u].out = p.out /\ [p EXCEPT !.carried = u].absorbed = p.absorbed
         /\ [p EXCEPT !.carried = u].left = p.left /\ [p EXCEPT !.carried = u].raced = p.raced
<1>1. PICK a, o, b, l, r, c : p = [acts |-> a, out |-> o, absorbed |-> b, left |-> l, raced |-> r, carried |-> c]
  BY DEF IsPerson
<1>2. PICK q : q = [p EXCEPT !.carried = u] OBVIOUS
<1>3. q = [acts |-> a, out |-> o, absorbed |-> b, left |-> l, raced |-> r, carried |-> u] BY <1>1, <1>2
<1>4. IsPerson(q) /\ q.out = o /\ q.absorbed = b /\ q.left = l /\ q.raced = r BY <1>3 DEF IsPerson
<1>5. p.out = o /\ p.absorbed = b /\ p.left = l /\ p.raced = r BY <1>1
<1> QED BY <1>2, <1>4, <1>5

\* A step that counts changes the bound of what it is given, and no more.
LEMMA DoesCount ==
  ASSUME NEW p, IsPerson(p), NEW n, Does(n, p)
  PROVE  IsPerson(person') /\ person'.out = p.out /\ person'.absorbed = p.absorbed /\ person'.left = p.left /\ person'.raced = p.raced
  BY DEF IsPerson, Does

\* The wish that OptedOut records.
LEMMA OptedOutIs ==
  ASSUME NEW k, IsPerson(person)
  PROVE  /\ IsPerson(OptedOut(k)) /\ OptedOut(k).left = person.left /\ OptedOut(k).raced = person.raced
         /\ OptedOut(k).out = person.out \cup {k}
         /\ OptedOut(k).absorbed = IF supp = NoEntry \/ supp.by \in {k, "nobody"} THEN person.absorbed \ {k} ELSE person.absorbed \cup {k}
<1>1. PICK u : u = person.out \cup {k} OBVIOUS
<1>2. PICK v : v = IF supp = NoEntry \/ supp.by \in {k, "nobody"} THEN person.absorbed \ {k} ELSE person.absorbed \cup {k}
  OBVIOUS
<1>3. OptedOut(k) = WithOut(person, u, v) BY <1>1, <1>2 DEF OptedOut, WithOut
<1> QED BY <1>1, <1>2, <1>3, OutChanges

\* An entry made or found is a row of the table, and no longer no entry.
LEMMA UpsertedIs ==
  ASSUME supp \in SuppRecords, NEW k \in AudKeys \cup {"nobody"}, NEW reason \in {"unsubscribed", "complaint", "bounce", "manual"}
  PROVE  /\ Upserted(k, reason) \in SuppRecords /\ Upserted(k, reason) # NoEntry
         /\ supp = NoEntry => Upserted(k, reason).by = k
         /\ supp # NoEntry => Upserted(k, reason) = supp
  BY DEF SuppRecords, NoEntry, Upserted

\* A wish and its upsert: the entry is the wisher's, or nobody's, or it absorbed the wish.
LEMMA WishIsKept ==
  ASSUME supp \in SuppRecords, WishesKept, NEW k \in AudKeys \cup {"nobody"}, NEW reason \in {"unsubscribed", "complaint", "bounce", "manual"},
         supp' = Upserted(k, reason), IsPerson(person), person'.out = OptedOut(k).out, person'.absorbed = OptedOut(k).absorbed
  PROVE  supp' \in SuppRecords /\ WishesKept'
<1>1. supp' \in SuppRecords /\ supp' # NoEntry BY UpsertedIs
<1>2. person'.out = person.out \cup {k} BY OptedOutIs
<1>3. NoEntry' = NoEntry BY DEF NoEntry
<1>4. person'.out \ person'.absorbed \subseteq KeptFor'
  <2>1. CASE supp = NoEntry BY <2>1, UpsertedIs, OptedOutIs, <1>1, <1>2, <1>3 DEF WishesKept, KeptFor
  <2>2. CASE supp # NoEntry /\ supp.by \in {k, "nobody"}
    <3>1. supp' = supp /\ person'.absorbed = person.absorbed \ {k} BY <2>2, UpsertedIs, OptedOutIs
    <3> QED BY <1>1, <1>2, <1>3, <2>2, <3>1 DEF KeptFor, WishesKept
  <2>3. CASE supp # NoEntry /\ supp.by \notin {k, "nobody"}
    <3>1. supp' = supp /\ person'.absorbed = person.absorbed \cup {k} BY <2>3, UpsertedIs, OptedOutIs
    <3> QED BY <1>1, <1>2, <1>3, <2>3, <3>1 DEF KeptFor, WishesKept
  <2> QED BY <2>1, <2>2, <2>3
<1> QED BY <1>1, <1>2, <1>4 DEF WishesKept

\* Every step of Audience keeps the invariant.
LEMMA AudienceStep == AudienceInv /\ [AudienceNext]_audVars => AudienceInv'
<1> SUFFICES ASSUME AudienceInv, [AudienceNext]_audVars PROVE AudienceInv' OBVIOUS
<1>t. supp \in SuppRecords /\ member \in [AudLists -> MemberStates] /\ IsPerson(person) /\ WishesKept /\ ListsKept
  BY DEF AudienceInv
<1>w. person.out \subseteq AudKeys \cup {"nobody"} /\ person.out \ person.absorbed \subseteq KeptFor
  BY <1>t DEF WishesKept
<1>l. person.left \subseteq AudLists /\ (\A l \in person.left : member[l] # "none")
      /\ (\A l \in person.left \ person.raced : member[l] # "subscribed")
  BY <1>t DEF ListsKept, LeftStaysLeft
<1>a. Home \in AudKeys /\ "nobody" \notin AudKeys BY AudienceAssumption
\* A wish, with the lists as they are.
<1>o. ASSUME NEW k \in AudKeys \cup {"nobody"}, NEW reason \in {"unsubscribed", "complaint", "bounce", "manual"},
             supp' = Upserted(k, reason), UNCHANGED member, IsPerson(person'),
             person'.out = OptedOut(k).out, person'.absorbed = OptedOut(k).absorbed,
             person'.left = OptedOut(k).left, person'.raced = OptedOut(k).raced
      PROVE  AudienceInv'
  <2>1. supp' \in SuppRecords /\ WishesKept' BY <1>t, <1>o, WishIsKept
  <2>2. person'.left = person.left /\ person'.raced = person.raced BY <1>t, <1>o, OptedOutIs
  <2> QED BY <1>t, <1>l, <1>o, <2>1, <2>2 DEF AudienceInv, ListsKept, LeftStaysLeft
\* A wish that is counted.
<1>d. ASSUME NEW k \in AudKeys \cup {"nobody"}, NEW reason \in {"unsubscribed", "complaint", "bounce", "manual"},
             supp' = Upserted(k, reason), UNCHANGED member, NEW n, Does(n, OptedOut(k))
      PROVE  AudienceInv'
  BY <1>t, OptedOutIs, <1>d, DoesCount, <1>o
\* Lists, with the wishes and the entry as they are.
<1>m. ASSUME UNCHANGED supp, IsPerson(person'), person'.out = person.out, person'.absorbed = person.absorbed,
             member' \in [AudLists -> MemberStates], person'.left \subseteq AudLists,
             \A l \in person'.left : member'[l] # "none",
             \A l \in person'.left \ person'.raced : member'[l] # "subscribed"
      PROVE  AudienceInv'
  BY <1>m, <1>t, <1>w DEF KeptFor, NoEntry, AudienceInv, WishesKept, ListsKept, LeftStaysLeft
\* Nothing but the bound, and what a file carried.
<1>c. ASSUME UNCHANGED <<supp, member>>, NEW n, NEW p, IsPerson(p), p.out = person.out, p.absorbed = person.absorbed,
             p.left = person.left, p.raced = person.raced, Does(n, p)
      PROVE  AudienceInv'
  BY <1>c, DoesCount, <1>t, <1>l, <1>m
\* Nothing but the bound.
<1>b. ASSUME UNCHANGED <<supp, member>>, NEW n, Does(n, person) PROVE AudienceInv' BY <1>b, <1>c, <1>t
\* An entry that is made where there was none.
<1>e. ASSUME supp = NoEntry, supp' \in SuppRecords, UNCHANGED member, IsPerson(person'), person'.out = person.out,
             person'.absorbed = person.absorbed, person'.left = person.left, person'.raced = person.raced
      PROVE  AudienceInv'
  BY <1>w, <1>e, <1>t, <1>l DEF KeptFor, AudienceInv, WishesKept, ListsKept, LeftStaysLeft
<1>1. ASSUME NEW k \in AudKeys, UnsubscribeLink(k) PROVE AudienceInv' BY <1>1, <1>d DEF UnsubscribeLink
<1>2. CASE UnsubscribeLists
  <2>1. CASE member' = Unsubscribed /\ person' = LeftAll(person)
    <3>1. PICK u : u = person.left \cup {l \in AudLists : member[l] # "none"} OBVIOUS
    <3>2. PICK v : v = person.raced \ {l \in AudLists : member[l] # "none"} OBVIOUS
    <3>3. person' = WithLeft(person, u, v) BY <2>1, <3>1, <3>2 DEF LeftAll, WithLeft
    <3>4. IsPerson(person') /\ person'.out = person.out /\ person'.absorbed = person.absorbed /\ person'.left = u /\ person'.raced = v
      BY <1>t, <3>3, LeftChanges
    <3>5. member' \in [AudLists -> MemberStates] /\ \A l \in AudLists : member'[l] = IF member[l] = "none" THEN "none" ELSE "unsubscribed"
      BY <2>1 DEF Unsubscribed, MemberStates
    <3>6. UNCHANGED supp BY <1>2 DEF UnsubscribeLists
    <3> QED BY <1>l, <1>m, <3>1, <3>2, <3>4, <3>5, <3>6
  <2>2. CASE Does(2, person) /\ UNCHANGED member BY <1>2, <1>b, <2>2 DEF UnsubscribeLists
  <2> QED BY <1>2, <2>1, <2>2 DEF UnsubscribeLists
<1>3. ASSUME NEW k \in AudKeys, OneClick(k) PROVE AudienceInv' BY <1>3, <1>d DEF OneClick
<1>4. CASE UnsubscribeAll BY <1>4, <1>a, <1>d DEF UnsubscribeAll
<1>5. CASE UnsubscribeAllLists
  <2>s. PICK subscribed : subscribed = {l \in AudLists : member[l] = "subscribed"} OBVIOUS
  <2>1. CASE /\ member' = [l \in AudLists |-> IF l \in subscribed THEN "unsubscribed" ELSE member[l]]
             /\ person' = [person EXCEPT !.left = @ \cup subscribed, !.raced = @ \ subscribed]
    <3>1. PICK u : u = person.left \cup subscribed OBVIOUS
    <3>2. PICK v : v = person.raced \ subscribed OBVIOUS
    <3>3. person' = WithLeft(person, u, v) BY <2>1, <3>1, <3>2 DEF WithLeft
    <3>4. IsPerson(person') /\ person'.out = person.out /\ person'.absorbed = person.absorbed /\ person'.left = u /\ person'.raced = v
      BY <1>t, <3>3, LeftChanges
    <3>5. member' \in [AudLists -> MemberStates] BY <1>t, <2>1 DEF MemberStates
    <3>6. UNCHANGED supp BY <1>5 DEF UnsubscribeAllLists
    <3> QED BY <1>l, <1>m, <2>s, <2>1, <3>1, <3>2, <3>4, <3>5, <3>6
  <2>2. CASE Does(2, person) /\ UNCHANGED member BY <1>5, <1>b, <2>2 DEF UnsubscribeAllLists
  <2> QED BY <1>5, <2>s, <2>1, <2>2 DEF UnsubscribeAllLists
<1>6. ASSUME NEW keep \in SUBSET AudLists, SavePreferences(keep) PROVE AudienceInv'
  <2>1. PICK drops : drops = {l \in AudLists \ keep : member[l] = "subscribed"} OBVIOUS
  <2>2. PICK joins : joins = {l \in keep : member[l] \in {"pending", "unsubscribed"}} OBVIOUS
  <2>3. PICK wish : wish = IF keep = {} THEN OptedOut(Home) ELSE person OBVIOUS
  <2>4. IsPerson(wish) /\ wish.left = person.left /\ wish.raced = person.raced BY <1>t, <2>3, OptedOutIs
  <2>5. PICK u : u = (person.left \ keep) \cup drops OBVIOUS
  <2>6. PICK v : v = (person.raced \ keep) \ drops OBVIOUS
  <2>7. /\ member' = [l \in AudLists |-> IF l \in drops THEN "unsubscribed" ELSE IF l \in joins THEN "subscribed" ELSE member[l]]
        /\ supp' = IF keep = {} THEN Upserted(Home, "unsubscribed") ELSE supp
    BY <1>6, <2>1, <2>2 DEF SavePreferences
  <2>8. Does(1, [wish EXCEPT !.left = (@ \ keep) \cup drops, !.raced = (@ \ keep) \ drops])
    BY <1>6, <2>1, <2>2, <2>3 DEF SavePreferences
  <2>9. PICK w : w = WithLeft(wish, u, v) OBVIOUS
  <2>10. Does(1, w) BY <2>4, <2>5, <2>6, <2>8, <2>9 DEF WithLeft
  <2>11. IsPerson(w) /\ w.out = wish.out /\ w.absorbed = wish.absorbed /\ w.left = u /\ w.raced = v
    BY <2>4, <2>9, LeftChanges
  <2>12. IsPerson(person') /\ person'.out = wish.out /\ person'.absorbed = wish.absorbed /\ person'.left = u /\ person'.raced = v
    BY <2>10, <2>11, DoesCount
  <2>13. member' \in [AudLists -> MemberStates] /\ \A l \in AudLists :
            member'[l] = IF l \in drops THEN "unsubscribed" ELSE IF l \in joins THEN "subscribed" ELSE member[l]
    BY <1>t, <2>7 DEF MemberStates
  <2>14. ListsKept' BY <1>l, <2>1, <2>5, <2>2, <2>13, <2>6, <2>12 DEF ListsKept, LeftStaysLeft
  <2>15. supp' \in SuppRecords /\ WishesKept'
    BY <1>t, <1>a, <2>3, <2>7, <2>12, WishIsKept, <1>w DEF KeptFor, NoEntry, WishesKept
  <2> QED BY <2>12, <2>13, <2>14, <2>15 DEF AudienceInv
<1>7. ASSUME NEW l \in AudLists, Confirm(l) PROVE AudienceInv' BY <1>7, <1>b DEF Confirm
<1>8. CASE ConfirmWrite BY <1>8, <1>t, <1>l, <1>m DEF ConfirmWrite, IsPerson, MemberStates
<1>9. ASSUME NEW k \in AudKeys, NEW reason \in {"complaint", "bounce"}, Report(k, reason) PROVE AudienceInv'
  BY <1>9, <1>d, <1>t, UpsertedIs, DoesCount, <1>e, <1>b DEF Report
<1>10. ASSUME NEW k \in AudKeys, AddEntry(k) PROVE AudienceInv'
  BY <1>10, <1>t, UpsertedIs, DoesCount, <1>e DEF AddEntry
<1>11. ASSUME NEW k \in AudKeys, DeleteEntry(k) PROVE AudienceInv'
  <2>1. supp # NoEntry /\ supp.by = k /\ supp' = NoEntry /\ UNCHANGED member BY <1>11 DEF DeleteEntry, MayDelete
  <2>2. PICK u : u = person.out \ {k} OBVIOUS
  <2>3. PICK v : v = person.absorbed \ {k} OBVIOUS
  <2>4. PICK f : f = FALSE OBVIOUS
  <2>5. PICK z : z = WithOut(person, u, v) OBVIOUS
  <2>6. PICK y : y = [z EXCEPT !.carried = f] OBVIOUS
  <2>7. IsPerson(z) /\ z.out = u /\ z.absorbed = v /\ z.left = person.left /\ z.raced = person.raced
    BY <1>t, <2>5, OutChanges
  <2>8. IsPerson(y) /\ y.out = u /\ y.absorbed = v /\ y.left = person.left /\ y.raced = person.raced
    BY <2>6, <2>7, CarriedChanges
  <2>9. Does(1, y) BY <1>11, <2>2, <2>3, <2>4, <2>5, <2>6 DEF DeleteEntry, WithOut
  <2>10. IsPerson(person') /\ person'.out = u /\ person'.absorbed = v /\ person'.left = person.left /\ person'.raced = person.raced
    BY <2>8, <2>9, DoesCount
  <2>11. supp' \in SuppRecords BY <2>1 DEF NoEntry, SuppRecords
  <2>12. u \ v = {} BY <1>w, <1>a, <2>1, <2>2, <2>3 DEF KeptFor
  <2>13. WishesKept' BY <1>w, <2>2, <2>10, <2>12 DEF WishesKept
  <2> QED BY <1>t, <1>l, <2>1, <2>10, <2>11, <2>13 DEF AudienceInv, ListsKept, LeftStaysLeft
<1>12. ASSUME NEW l \in AudLists, NEW optin \in BOOLEAN, Subscribe(l, optin) PROVE AudienceInv'
  BY <1>12, <1>b DEF Subscribe
\* A list that is joined is no longer one that was left.
<1>j. ASSUME NEW l, NEW x \in MemberStates, x # "none", UNCHANGED supp, member' = [member EXCEPT ![l] = x], IsPerson(person'),
             person'.out = person.out, person'.absorbed = person.absorbed,
             person'.left = person.left \ {l}, person'.raced = person.raced \ {l}
      PROVE  AudienceInv'
  BY <1>t, <1>j, <1>l, <1>m
<1>13. CASE SubscribeWrite
  <2>1. PICK l : l = audCall["subscribe"].list OBVIOUS
  <2>2. PICK x : x = IF audCall["subscribe"].seen THEN "pending" ELSE "subscribed" OBVIOUS
  <2>3. x \in MemberStates /\ x # "none" BY <2>2 DEF MemberStates
  <2>4. PICK u : u = person.left \ {l} OBVIOUS
  <2>5. PICK v : v = person.raced \ {l} OBVIOUS
  <2>6. UNCHANGED supp /\ member' = [member EXCEPT ![l] = x] /\ person' = WithLeft(person, u, v)
    BY <1>13, <2>1, <2>2, <2>4, <2>5 DEF SubscribeWrite, WithLeft
  <2>7. IsPerson(person') /\ person'.out = person.out /\ person'.absorbed = person.absorbed /\ person'.left = u /\ person'.raced = v
    BY <1>t, <2>6, LeftChanges
  <2> QED BY <1>j, <2>3, <2>4, <2>5, <2>6, <2>7
<1>14. ASSUME NEW l \in AudLists, ConnectorSubscribe(l) PROVE AudienceInv'
  <2>4. PICK u : u = person.left \ {l} OBVIOUS
  <2>5. PICK v : v = person.raced \ {l} OBVIOUS
  <2>6. UNCHANGED supp /\ member' = [member EXCEPT ![l] = "subscribed"] /\ Does(1, WithLeft(person, u, v))
    BY <1>14, <2>4, <2>5 DEF ConnectorSubscribe, WithLeft
  <2>7. PICK w : w = WithLeft(person, u, v) OBVIOUS
  <2>8. IsPerson(w) /\ w.out = person.out /\ w.absorbed = person.absorbed /\ w.left = u /\ w.raced = v
    BY <1>t, <2>7, LeftChanges
  <2>9. IsPerson(person') /\ person'.out = person.out /\ person'.absorbed = person.absorbed /\ person'.left = u /\ person'.raced = v
    BY <2>6, <2>7, <2>8, DoesCount
  <2>10. "subscribed" \in MemberStates /\ "subscribed" # "none" BY DEF MemberStates
  <2> QED BY <1>j, <2>4, <2>5, <2>6, <2>9, <2>10
\* A membership that ends, or is left as it is.
<1>u. ASSUME NEW l, NEW x \in MemberStates, l \in AudLists => x \in {"unsubscribed", member[l]}, UNCHANGED supp,
             member' = [member EXCEPT ![l] = x], IsPerson(person'),
             person'.out = person.out, person'.absorbed = person.absorbed, person'.left = person.left, person'.raced = person.raced
      PROVE  AudienceInv'
  BY <1>t, <1>u, <1>l, <1>m
<1>15. ASSUME NEW l \in AudLists, DeleteMember(l) PROVE AudienceInv'
  BY <1>15, <1>t, DoesCount, <1>u DEF DeleteMember, MemberStates
<1>16. ASSUME NEW l \in AudLists, Hygiene(l) PROVE AudienceInv' BY <1>16, <1>b DEF Hygiene
<1>17. CASE HygieneLists BY <1>17, <1>t, <1>u DEF HygieneLists, MemberStates
<1>18. CASE HygieneSuppress
  BY <1>18, <1>t, <1>a, UpsertedIs, <1>e, <1>w, <1>l DEF HygieneSuppress, SuppRecords, NoEntry, KeptFor,
     AudienceInv, WishesKept, ListsKept, LeftStaysLeft
<1>19. ASSUME NEW l \in AudLists, NEW listed \in BOOLEAN, Import(l, listed) PROVE AudienceInv'
  BY <1>t, CarriedChanges, <1>19, <1>c DEF Import
<1>20. CASE ImportContact BY <1>20, <1>t, <1>l, <1>m DEF ImportContact, Imported, MemberStates
<1>21. CASE ImportSuppressions BY <1>21, <1>t, <1>l, <1>m DEF ImportSuppressions
<1>22. CASE Erase
  <2>1. PICK u : u = {} OBVIOUS
  <2>2. UNCHANGED supp /\ member' = [l \in AudLists |-> "none"] /\ Does(1, WithLeft(person, u, u))
    BY <1>22, <2>1 DEF Erase, WithLeft
  <2>3. PICK w : w = WithLeft(person, u, u) OBVIOUS
  <2>4. IsPerson(w) /\ w.out = person.out /\ w.absorbed = person.absorbed /\ w.left = u /\ w.raced = u
    BY <1>t, <2>3, LeftChanges
  <2>5. IsPerson(person') /\ person'.out = person.out /\ person'.absorbed = person.absorbed /\ person'.left = u /\ person'.raced = u
    BY <2>2, <2>3, <2>4, DoesCount
  <2>6. member' \in [AudLists -> MemberStates] BY <2>2 DEF MemberStates
  <2> QED BY <1>m, <2>1, <2>2, <2>5, <2>6
<1>23. CASE EraseSuppress BY <1>23, <1>t, OptedOutIs, <1>o DEF EraseSuppress
<1>24. ASSUME NEW c \in Kinds, CallDies(c) PROVE AudienceInv'
  BY Zenon, <1>24, <1>t, CarriedChanges, <1>c DEF CallDies
<1>25. CASE UNCHANGED audVars BY <1>25, <1>t, <1>l, <1>m DEF audVars
<1> QED
  BY <1>1, <1>2, <1>3, <1>4, <1>5, <1>6, <1>7, <1>8, <1>9, <1>10, <1>11, <1>12, <1>13, <1>14, <1>15, <1>16, <1>17, <1>18, <1>19,
     <1>20, <1>21, <1>22, <1>23, <1>24, <1>25 DEF AudienceNext

\* The invariant gives the property.
LEMMA AudienceMeans == AudienceInv => WishesHold
BY DEF AudienceInv, WishesKept, ListsKept, KeptFor, WishesHold, OptOutHolds

----------------------------------------------------------------------------
(***************************************************************************)
(* Teams.  An invitation that was closed when its person was removed never *)
(* opens again, so an accept that read it open is older than the removal   *)
(* and knows it; a row that outlives the membership waits for the request  *)
(* that ended it, unless that request died or a late sign-in wrote it.     *)
(***************************************************************************)

\* A request.
ActRecords == [pc : {"idle", "revokeOld", "invite", "join", "accepted", "signin", "remove"}, i : {0} \cup Invites, old : BOOLEAN]

\* The ghosts.
TeamRecords == [closed : SUBSET Invites, back : BOOLEAN, orgBack : BOOLEAN, off : BOOLEAN, acts : Int]

\* What the variables of Teams hold.
TeamTypes ==
    /\ invite \in [Invites -> {"absent", "pending", "accepted", "revoked"}] /\ act \in [Actors -> ActRecords]
    /\ team \in TeamRecords

\* The workspace: what was closed stays closed, and no accept that is not late has it.
WorkspaceKept ==
    /\ ~team.back
    /\ \A i \in team.closed : invite[i] \in {"accepted", "revoked"}
    /\ \A a \in Actors : act[a].pc = "join" /\ ~act[a].old => act[a].i \notin team.closed

\* The organisation: a row that is ahead of the service has its reason, or its end under way.
OrgKept == orgRow = "active" /\ service # "active" => team.off \/ team.orgBack \/ \E a \in Actors : act[a].pc = "remove"

\* The inductive invariant of Teams.
TeamsInv == TeamTypes /\ WorkspaceKept /\ OrgKept

\* A request that does nothing.
LEMMA NoActIs == NoAct \in ActRecords /\ NoAct.pc = "idle"
  BY DEF NoAct, ActRecords

\* The invariant holds at the start.
LEMMA TeamsStarts == TeamsInit => TeamsInv
  BY NoActIs DEF TeamsInit, TeamRecords, TeamsInv, TeamTypes, WorkspaceKept, OrgKept

\* A step that counts changes the bound, and no other ghost.
LEMMA TeamCounts ==
  ASSUME team \in TeamRecords, team' = [team EXCEPT !.acts = @ + 1]
  PROVE  /\ team' \in TeamRecords /\ team'.closed = team.closed /\ (team'.back <=> team.back)
         /\ (team'.orgBack <=> team.orgBack) /\ (team'.off <=> team.off)
  BY DEF TeamRecords

\* A request that starts takes an idle one's place.
LEMMA StartsOne ==
  ASSUME TeamTypes, NEW pc, NEW i, StartAct(pc, i)
  PROVE  /\ \E a \in Actors : act[a] = NoAct /\ act' = [act EXCEPT ![a] = [pc |-> pc, i |-> i, old |-> FALSE]]
         /\ team' \in TeamRecords /\ team'.closed = team.closed /\ (team'.back <=> team.back)
         /\ (team'.orgBack <=> team.orgBack) /\ (team'.off <=> team.off)
<1>1. IdleActor \in Actors /\ act[IdleActor] = NoAct BY DEF StartAct, IdleActor
<1>2. [NoAct EXCEPT !.pc = pc, !.i = i] = [pc |-> pc, i |-> i, old |-> FALSE]
  <2>1. PICK f : f = FALSE OBVIOUS
  <2>2. PICK z : z = [NoAct EXCEPT !.pc = pc] OBVIOUS
  <2>3. z = [pc |-> pc, i |-> 0, old |-> f] BY <2>1, <2>2 DEF NoAct
  <2>4. [z EXCEPT !.i = i] = [pc |-> pc, i |-> i, old |-> f] BY <2>3
  <2>5. [NoAct EXCEPT !.pc = pc, !.i = i] = [z EXCEPT !.i = i] BY <2>2
  <2> QED BY <2>1, <2>4, <2>5
<1>3. act' = [act EXCEPT ![IdleActor] = [pc |-> pc, i |-> i, old |-> FALSE]] BY <1>2 DEF StartAct
<1>4. team' = [team EXCEPT !.acts = @ + 1] BY DEF StartAct
<1>5. team \in TeamRecords BY DEF TeamTypes
<1> QED BY <1>1, <1>3, <1>4, <1>5, TeamCounts

\* Every step of Teams keeps the invariant.
LEMMA TeamsStep == TeamsInv /\ [TeamsNext]_teamVars => TeamsInv'
<1> SUFFICES ASSUME TeamsInv, [TeamsNext]_teamVars PROVE TeamsInv' OBVIOUS
<1>y. TeamTypes BY DEF TeamsInv
<1>t. /\ invite \in [Invites -> {"absent", "pending", "accepted", "revoked"}]
      /\ act \in [Actors -> ActRecords] /\ team \in TeamRecords
  BY <1>y DEF TeamTypes
<1>w. /\ ~team.back
      /\ \A i \in team.closed : invite[i] \in {"accepted", "revoked"}
      /\ \A a \in Actors : act[a].pc = "join" /\ ~act[a].old => act[a].i \notin team.closed
  BY DEF TeamsInv, WorkspaceKept
<1>o. OrgKept BY DEF TeamsInv
<1>n. NoAct \in ActRecords /\ NoAct.pc = "idle" BY NoActIs
<1>c. team.closed \subseteq Invites BY <1>t DEF TeamRecords
\* A request that starts, with the invitations as they are.
<1>s. ASSUME NEW pc \in {"revokeOld", "join", "signin", "remove"}, NEW i \in {0} \cup Invites, StartAct(pc, i), UNCHANGED invite,
             pc = "join" => i \notin team.closed,
             pc = "remove" \/ (UNCHANGED <<service, orgRow>>)
      PROVE  TeamsInv'
  <2>1. PICK a \in Actors : act[a] = NoAct /\ act' = [act EXCEPT ![a] = [pc |-> pc, i |-> i, old |-> FALSE]]
    BY <1>y, <1>s, StartsOne
  <2>2. PICK f \in BOOLEAN : f = FALSE OBVIOUS
  <2>3. PICK r : r = [pc |-> pc, i |-> i, old |-> f] OBVIOUS
  <2>4. r \in ActRecords /\ r.pc = pc /\ r.i = i BY <2>3 DEF ActRecords
  <2>5. act' = [act EXCEPT ![a] = r] BY <2>1, <2>2, <2>3
  <2>6. act' \in [Actors -> ActRecords] /\ act'[a] = r /\ \A b \in Actors \ {a} : act'[b] = act[b]
    BY <1>t, <2>4, <2>5
  <2>7. team' \in TeamRecords /\ team'.closed = team.closed /\ (team'.back <=> team.back) /\ (team'.orgBack <=> team.orgBack)
        /\ (team'.off <=> team.off)
    BY <1>y, <1>s, StartsOne
  <2>8. \A b \in Actors : act'[b].pc = "join" /\ ~act'[b].old => act'[b].i \notin team'.closed
    BY <1>w, <1>s, <2>4, <2>6, <2>7
  <2>9. \A i1 \in team'.closed : invite'[i1] \in {"accepted", "revoked"} BY <1>w, <1>s, <2>7
  <2>10. OrgKept' BY <2>4, <2>6, <1>n, <2>1, <1>o, <1>s, <2>7 DEF OrgKept
  <2> QED BY <1>t, <1>w, <1>s, <2>6, <2>7, <2>8, <2>9, <2>10 DEF TeamsInv, TeamTypes, WorkspaceKept
\* A request that goes on or ends, and is neither an accept nor a removal of the organisation.
<1>g. ASSUME NEW a \in Actors, NEW r \in ActRecords, r.pc # "join", act[a].pc # "remove", act' = [act EXCEPT ![a] = r],
             invite' \in [Invites -> {"absent", "pending", "accepted", "revoked"}],
             \A i \in Invites : invite[i] \in {"accepted", "revoked"} => invite'[i] \in {"accepted", "revoked"},
             team' \in TeamRecords, team'.closed = team.closed, ~team'.back, team.orgBack => team'.orgBack, team.off => team'.off,
             UNCHANGED <<service, orgRow>>
      PROVE  TeamsInv'
  BY <1>t, <1>g, <1>w, <1>c, <1>o DEF OrgKept, TeamsInv, TeamTypes, WorkspaceKept
\* A request that ends, after which the organisation's row has its reason.
<1>e. ASSUME NEW a \in Actors, act' = [act EXCEPT ![a] = NoAct], UNCHANGED invite,
             team' \in TeamRecords, team'.closed = team.closed, ~team'.back,
             orgRow' = "active" /\ service' # "active" => team'.off \/ team'.orgBack \/ \E b \in Actors \ {a} : act[b].pc = "remove"
      PROVE  TeamsInv'
  BY <1>t, <1>n, <1>e, <1>w DEF OrgKept, TeamsInv, TeamTypes, WorkspaceKept
\* A request whose read is now known to be old, or is not.
<1>m. ASSUME NEW a \in Actors, NEW r, r = [act[a] EXCEPT !.old = TRUE]
      PROVE  r \in ActRecords /\ r.pc = act[a].pc /\ r.i = act[a].i /\ r.old
  BY <1>t, <1>m DEF ActRecords
<1>1. CASE InviteTeammate BY <1>1, <1>s DEF InviteTeammate
<1>2. ASSUME NEW a \in Actors, InviteRevokesOld(a) PROVE TeamsInv'
  BY <1>2, <1>t, <1>w, <1>g DEF InviteRevokesOld, ActRecords
<1>3. ASSUME NEW a \in Actors, CreateInvite(a) PROVE TeamsInv'
  BY <1>3, <1>t, <1>w, <1>n, <1>g DEF CreateInvite, ActOver
<1>4. ASSUME NEW i \in Invites, RevokeInvite(i) PROVE TeamsInv'
  <2>1. /\ invite' = [invite EXCEPT ![i] = "revoked"] /\ team' = [team EXCEPT !.acts = @ + 1] /\ UNCHANGED <<service, orgRow>>
        /\ act' = [a \in Actors |-> IF act[a].pc \in {"join", "accepted"} /\ act[a].i = i THEN [act[a] EXCEPT !.old = TRUE] ELSE act[a]]
    BY <1>4 DEF RevokeInvite
  <2>2. team' \in TeamRecords /\ team'.closed = team.closed /\ (team'.back <=> team.back) /\ (team'.orgBack <=> team.orgBack)
        /\ (team'.off <=> team.off)
    BY <1>t, <2>1, TeamCounts
  <2>3. ASSUME NEW a \in Actors
        PROVE  act'[a] \in ActRecords /\ act'[a].pc = act[a].pc /\ act'[a].i = act[a].i /\ (~act'[a].old => act'[a] = act[a])
    BY <1>m, <2>1, <1>t
  <2>4. act' \in [Actors -> ActRecords] BY <2>1, <2>3
  <2>5. invite' \in [Invites -> {"absent", "pending", "accepted", "revoked"}]
        /\ \A i1 \in Invites : invite[i1] \in {"accepted", "revoked"} => invite'[i1] \in {"accepted", "revoked"}
    BY <1>t, <2>1
  <2>6. WorkspaceKept' BY <1>w, <1>c, <2>2, <2>3, <2>5 DEF WorkspaceKept
  <2>7. OrgKept' BY <1>o, <2>1, <2>2, <2>3 DEF OrgKept
  <2> QED BY <2>2, <2>4, <2>5, <2>6, <2>7 DEF TeamsInv, TeamTypes
<1>5. ASSUME NEW i \in Invites, AcceptInvite(i) PROVE TeamsInv' BY <1>5, <1>w, <1>s DEF AcceptInvite, Acceptable
<1>6. ASSUME NEW a \in Actors, Join(a) PROVE TeamsInv'
  BY <1>6, <1>t, <1>w, Zenon, <1>g DEF Join, ActRecords, TeamRecords
<1>7. ASSUME NEW a \in Actors, MarkAccepted(a) PROVE TeamsInv'
  BY <1>7, <1>t, <1>w, <1>n, <1>g DEF MarkAccepted, ActOver
<1>8. CASE RemoveTeammate
  <2>1. /\ act' = [a \in Actors |-> IF act[a].pc = "join" THEN [act[a] EXCEPT !.old = TRUE] ELSE act[a]]
        /\ team' = [team EXCEPT !.acts = @ + 1, !.closed = {i \in Invites : invite[i] \in {"accepted", "revoked"}}]
        /\ UNCHANGED <<invite, service, orgRow>>
    BY <1>8 DEF RemoveTeammate
  <2>2. ASSUME NEW a \in Actors
        PROVE  act'[a] \in ActRecords /\ act'[a].pc = act[a].pc /\ (act'[a].pc = "join" => act'[a].old)
    BY <1>m, <2>1, <1>t
  <2>3. act' \in [Actors -> ActRecords] BY <2>1, <2>2
  <2>4. PICK c \in SUBSET Invites, b \in BOOLEAN, g \in BOOLEAN, f \in BOOLEAN, k \in Int :
           team = [closed |-> c, back |-> b, orgBack |-> g, off |-> f, acts |-> k]
    BY <1>t DEF TeamRecords
  <2>5. PICK d \in SUBSET Invites : d = {i \in Invites : invite[i] \in {"accepted", "revoked"}} OBVIOUS
  <2>6. PICK n \in Int : n = k + 1 OBVIOUS
  <2>7. team' = [team EXCEPT !.acts = n, !.closed = d] BY <2>1, <2>4, <2>5, <2>6
  <2>8. PICK z : z = [team EXCEPT !.acts = n] OBVIOUS
  <2>9. z = [closed |-> c, back |-> b, orgBack |-> g, off |-> f, acts |-> n] BY <2>4, <2>8
  <2>10. [z EXCEPT !.closed = d] = [closed |-> d, back |-> b, orgBack |-> g, off |-> f, acts |-> n] BY <2>9
  <2>11. [team EXCEPT !.acts = n, !.closed = d] = [z EXCEPT !.closed = d] BY <2>8
  <2>12. PICK q : q = team' OBVIOUS
  <2>13. q = [closed |-> d, back |-> b, orgBack |-> g, off |-> f, acts |-> n] BY <2>7, <2>10, <2>11, <2>12
  <2>14. q \in TeamRecords /\ q.closed = d /\ (q.back <=> b) /\ (q.orgBack <=> g) /\ (q.off <=> f)
    BY <2>13 DEF TeamRecords
  <2>15. team' \in TeamRecords /\ team'.closed = d /\ ~team'.back /\ (team'.orgBack <=> team.orgBack) /\ (team'.off <=> team.off)
    BY <1>w, <2>4, <2>12, <2>14
  <2>16. WorkspaceKept' BY <2>1, <2>2, <2>5, <2>15 DEF WorkspaceKept
  <2>17. OrgKept' BY <1>o, <2>1, <2>2, <2>15 DEF OrgKept
  <2> QED BY <1>t, <2>1, <2>3, <2>15, <2>16, <2>17 DEF TeamsInv, TeamTypes
<1>9. CASE OrgInvited
  BY <1>9, <1>t, TeamCounts, <1>w DEF OrgInvited, TeamsInv, TeamTypes, WorkspaceKept, OrgKept
<1>10. CASE OrgSignIn BY <1>10, <1>s DEF OrgSignIn
<1>11. ASSUME NEW a \in Actors, UpsertOrgMember(a) PROVE TeamsInv'
  BY <1>11, <1>t, Zenon, <1>w, <1>e DEF UpsertOrgMember, ActOver, TeamRecords
<1>12. CASE RemoveOrgMember BY <1>12, <1>s DEF RemoveOrgMember
<1>13. ASSUME NEW a \in Actors, DeactivateRow(a) PROVE TeamsInv'
  BY <1>13, <1>t, <1>w, <1>e DEF DeactivateRow, Deactivated, ActOver, TeamRecords
<1>14. CASE DirectoryUserCreated
  BY <1>14, <1>t, TeamCounts, <1>w DEF DirectoryUserCreated, TeamsInv, TeamTypes, WorkspaceKept, OrgKept
<1>15. CASE DirectoryUserDeleted
  <2>1. orgRow' # "active" /\ team' = [team EXCEPT !.acts = @ + 1, !.orgBack = FALSE] /\ UNCHANGED <<invite, act>>
    BY <1>15 DEF DirectoryUserDeleted, Deactivated
  <2>2. PICK c \in SUBSET Invites, b \in BOOLEAN, g \in BOOLEAN, f \in BOOLEAN, k \in Int :
           team = [closed |-> c, back |-> b, orgBack |-> g, off |-> f, acts |-> k]
    BY <1>t DEF TeamRecords
  <2>3. PICK d \in BOOLEAN : d = FALSE OBVIOUS
  <2>4. PICK n \in Int : n = k + 1 OBVIOUS
  <2>5. team' = [team EXCEPT !.acts = n, !.orgBack = d] BY <2>1, <2>2, <2>3, <2>4
  <2>6. PICK z : z = [team EXCEPT !.acts = n] OBVIOUS
  <2>7. z = [closed |-> c, back |-> b, orgBack |-> g, off |-> f, acts |-> n] BY <2>2, <2>6
  <2>8. [z EXCEPT !.orgBack = d] = [closed |-> c, back |-> b, orgBack |-> d, off |-> f, acts |-> n] BY <2>7
  <2>9. [team EXCEPT !.acts = n, !.orgBack = d] = [z EXCEPT !.orgBack = d] BY <2>6
  <2>10. PICK q : q = team' OBVIOUS
  <2>11. q = [closed |-> c, back |-> b, orgBack |-> d, off |-> f, acts |-> n] BY <2>5, <2>8, <2>9, <2>10
  <2>12. q \in TeamRecords /\ q.closed = c /\ (q.back <=> b) BY <2>11 DEF TeamRecords
  <2>13. team' \in TeamRecords /\ team'.closed = team.closed /\ ~team'.back BY <1>w, <2>2, <2>10, <2>12
  <2> QED BY <1>t, <1>w, <2>1, <2>13 DEF TeamsInv, TeamTypes, WorkspaceKept, OrgKept
<1>16. ASSUME NEW a \in Actors, ActorDies(a) PROVE TeamsInv'
  <2>1. /\ team' = [team EXCEPT !.acts = @ + 2, !.off = @ \/ act[a].pc = "remove"]
        /\ act' = [act EXCEPT ![a] = NoAct] /\ UNCHANGED <<invite, service, orgRow>>
    BY <1>16 DEF ActorDies, ActOver
  <2>2. PICK c \in SUBSET Invites, b \in BOOLEAN, g \in BOOLEAN, f \in BOOLEAN, k \in Int :
           team = [closed |-> c, back |-> b, orgBack |-> g, off |-> f, acts |-> k]
    BY <1>t DEF TeamRecords
  <2>3. PICK d \in BOOLEAN : d = (f \/ act[a].pc = "remove") BY Zenon
  <2>4. PICK n \in Int : n = k + 2 OBVIOUS
  <2>5. team' = [team EXCEPT !.acts = n, !.off = d] BY <2>1, <2>2, <2>3, <2>4
  <2>6. PICK z : z = [team EXCEPT !.acts = n] OBVIOUS
  <2>7. z = [closed |-> c, back |-> b, orgBack |-> g, off |-> f, acts |-> n] BY <2>2, <2>6
  <2>8. [z EXCEPT !.off = d] = [closed |-> c, back |-> b, orgBack |-> g, off |-> d, acts |-> n] BY <2>7
  <2>9. [team EXCEPT !.acts = n, !.off = d] = [z EXCEPT !.off = d] BY <2>6
  <2>10. PICK q : q = team' OBVIOUS
  <2>11. q = [closed |-> c, back |-> b, orgBack |-> g, off |-> d, acts |-> n] BY <2>5, <2>8, <2>9, <2>10
  <2>12. q \in TeamRecords /\ q.closed = c /\ (q.back <=> b) /\ (q.orgBack <=> g) /\ (q.off <=> d)
    BY <2>11 DEF TeamRecords
  <2>13. team' \in TeamRecords /\ team'.closed = team.closed /\ ~team'.back /\ (team'.orgBack <=> team.orgBack)
         /\ (team.off => team'.off) /\ (act[a].pc = "remove" => team'.off)
    BY <1>w, <2>2, <2>3, <2>10, <2>12
  <2>14. orgRow' = "active" /\ service' # "active" => team'.off \/ team'.orgBack \/ \E x \in Actors \ {a} : act[x].pc = "remove"
    BY <1>o, <2>1, <2>13 DEF OrgKept
  <2> QED BY <1>e, <2>1, <2>13, <2>14
<1>17. CASE UNCHANGED teamVars
  BY <1>17, <1>t, <1>w, <1>o DEF teamVars, TeamsInv, TeamTypes, WorkspaceKept, OrgKept
<1> QED
  BY <1>1, <1>2, <1>3, <1>4, <1>5, <1>6, <1>7, <1>8, <1>9, <1>10, <1>11, <1>12, <1>13, <1>14, <1>15, <1>16, <1>17 DEF TeamsNext

\* The invariant gives the property.
LEMMA TeamsMean == TeamsInv => MembersHold
  BY NoActIs DEF TeamsInv, WorkspaceKept, OrgKept, MembersHold, RemovedStaysOut, OrgFollowsService

----------------------------------------------------------------------------
(***************************************************************************)
(* The SMTP relay.  A letter that is being served has every recipient      *)
(* ahead, at the mail service, mailed or passed over; one that was offered *)
(* once is served by one session, which mails those it has not mailed.     *)
(* The books are kept by telling the mails apart: those that were charged, *)
(* and for each session those it has yet to report.                        *)
(***************************************************************************)

\* A session.
SessRecords == [pc : {"closed", "open", "next", "send"}, seen : Nat, letter : Letters \cup {NoLetter}, todo : SUBSET Mailees,
                to : Mailees \cup {NoLetter}, sent : Nat]

\* The key's books, and the ghosts.
RelayBooks == [used : Nat, mails : Nat, suppressed : SUBSET Mailees]
RelayLogs == [acts : Nat, offered : SUBSET Letters, again : SUBSET Letters, dropped : SUBSET (Letters \X Mailees), harmed : BOOLEAN]

\* What the variables of SmtpRelay hold.
RelayTypes ==
    /\ session \in [Sessions -> SessRecords] /\ posted \in [Letters -> [Mailees -> Nat]]
    /\ heard \in [Letters -> {"nothing", "waiting", "accepted", "error", "refused"}] /\ books \in RelayBooks
    /\ relayLog \in RelayLogs

\* The recipient r of the letter m is done with.
SeenTo(m, r) == posted[m][r] > 0 \/ <<m, r>> \in relayLog.dropped

\* A session that serves a letter knows it, has every recipient in its place, and, if nobody
\* offered the letter twice, has mailed nobody who is still to come.
ServesWell(s) ==
    Serving(s) =>
      /\ session[s].letter \in Letters /\ session[s].letter \in relayLog.offered
      /\ session[s].pc = "send" => session[s].to \in Mailees /\ session[s].to \notin session[s].todo
      /\ \A r \in Mailees : \/ r \in session[s].todo
                            \/ session[s].pc = "send" /\ session[s].to = r
                            \/ SeenTo(session[s].letter, r)
      /\ session[s].letter \notin relayLog.again =>
            /\ \A r \in session[s].todo : posted[session[s].letter][r] = 0
            /\ session[s].pc = "send" => posted[session[s].letter][session[s].to] = 0

\* A letter that was offered once is in one session's hands.
OneServes ==
    \A s, t \in Sessions :
      Serving(s) /\ Serving(t) /\ session[s].letter = session[t].letter /\ session[s].letter \notin relayLog.again => s = t

\* What there is to say of a letter and a recipient.
LetterFacts(m, r) ==
    /\ heard[m] = "accepted" => SeenTo(m, r)
    /\ m \notin relayLog.again => posted[m][r] <= 1
    /\ posted[m][r] > 0 => m \in relayLog.offered

\* Letters reach whom they are for, once.
LettersInv == (\A s \in Sessions : ServesWell(s)) /\ OneServes /\ (\A m \in Letters, r \in Mailees : LetterFacts(m, r))

\* The mails are told apart: C are the charged ones, own[s] those the session s is to report.
CountedBy(C, own) ==
    /\ C \in SUBSET (1 .. books.mails) /\ own \in [Sessions -> SUBSET (1 .. books.mails)]
    /\ Cardinality(C) = books.used
    /\ \A s \in Sessions : Cardinality(own[s]) = session[s].sent /\ own[s] \cap C = {}
    /\ \A s, t \in Sessions : s # t => own[s] \cap own[t] = {}
    /\ ~relayLog.harmed => \A n \in 1 .. books.mails : n \in C \/ \E s \in Sessions : n \in own[s]

\* The books add up.
BooksInv == (\E C, own : CountedBy(C, own)) /\ \A s \in Sessions : ~Serving(s) => session[s].sent = 0

\* The inductive invariant of SmtpRelay.
RelayInv == RelayTypes /\ LettersInv /\ BooksInv

\* A session that is closed.
LEMMA ClosedIs == Closed \in SessRecords /\ Closed.pc = "closed" /\ Closed.sent = 0
  BY DEF Closed, SessRecords

\* A session that is done with its letter, or new.
LEMMA OpenIs ==
  ASSUME NEW u \in Nat
  PROVE  /\ [Closed EXCEPT !.pc = "open", !.seen = u] \in SessRecords
         /\ [Closed EXCEPT !.pc = "open", !.seen = u].pc = "open" /\ [Closed EXCEPT !.pc = "open", !.seen = u].sent = 0
  BY DEF Closed, SessRecords

\* The invariant holds at the start.
LEMMA RelayStarts == RelayInit => RelayInv
<1> SUFFICES ASSUME RelayInit PROVE RelayInv OBVIOUS
<1>1. session \in [Sessions -> SessRecords] /\ \A s \in Sessions : session[s].pc = "closed" /\ session[s].sent = 0
  BY ClosedIs DEF RelayInit
<1>2. posted \in [Letters -> [Mailees -> Nat]] /\ \A m \in Letters, r \in Mailees : posted[m][r] = 0
  BY DEF RelayInit
<1>3. heard \in [Letters -> {"nothing", "waiting", "accepted", "error", "refused"}] /\ \A m \in Letters : heard[m] = "nothing"
  BY DEF RelayInit
<1>4. books \in RelayBooks /\ books.used = 0 /\ books.mails = 0 BY DEF RelayInit, RelayBooks
<1>5. relayLog \in RelayLogs BY DEF RelayInit, RelayLogs
<1>6. \A s \in Sessions : ~Serving(s) BY <1>1 DEF Serving
<1>7. LettersInv BY <1>2, <1>3, <1>6 DEF LettersInv, ServesWell, OneServes, LetterFacts
<1>8. BooksInv
  <2>1. PICK own : own = [s \in Sessions |-> {}] OBVIOUS
  <2>2. Cardinality({}) = 0 BY FS_EmptySet
  <2>3. CountedBy({}, own) BY <1>1, <1>4, <2>1, <2>2 DEF CountedBy
  <2> QED BY <1>1, <2>3 DEF BooksInv
<1> QED BY <1>1, <1>2, <1>3, <1>4, <1>5, <1>7, <1>8 DEF RelayInv, RelayTypes

\* A step that counts changes the bound of what it is given, and no more.
LEMMA RelayCounts ==
  ASSUME NEW log \in RelayLogs, RelaySpend(log)
  PROVE  /\ relayLog' \in RelayLogs /\ relayLog'.offered = log.offered /\ relayLog'.again = log.again
         /\ relayLog'.dropped = log.dropped /\ (relayLog'.harmed <=> log.harmed)
  BY DEF RelayLogs, RelaySpend

\* A loss is remembered.
LEMMA HarmIs ==
  ASSUME NEW log \in RelayLogs, NEW new, new = [log EXCEPT !.harmed = TRUE]
  PROVE  /\ new \in RelayLogs /\ new.offered = log.offered /\ new.again = log.again /\ new.dropped = log.dropped /\ new.harmed
  BY DEF RelayLogs

\* What a mail does to the count of the mails.
LEMMA MailsOne ==
  ASSUME books \in RelayBooks, books' = [books EXCEPT !.mails = @ + 1]
  PROVE  books' \in RelayBooks /\ books'.mails = books.mails + 1 /\ books'.used = books.used
  BY DEF RelayBooks

\* Nothing is mailed, charged or lost.
LEMMA BooksStay ==
  ASSUME RelayTypes, BooksInv, RelayTypes', books'.mails = books.mails, books'.used = books.used, relayLog.harmed => relayLog'.harmed,
         \A s \in Sessions : session'[s].sent = session[s].sent /\ (Serving(s) => Serving(s)')
  PROVE  BooksInv'
<1>1. PICK C, own : CountedBy(C, own) BY DEF BooksInv
<1>2. CountedBy(C, own)' BY <1>1 DEF CountedBy
<1>3. \A s \in Sessions : ~Serving(s)' => session'[s].sent = 0 BY DEF BooksInv
<1> QED BY <1>2, <1>3 DEF BooksInv

\* What sessions were to report is lost, or a mail of which nobody knows.
LEMMA BooksLose ==
  ASSUME RelayTypes, BooksInv, RelayTypes', books'.mails >= books.mails, books'.used = books.used, relayLog'.harmed,
         \A s \in Sessions : session'[s].sent = 0 \/ (session'[s].sent = session[s].sent /\ (Serving(s) => Serving(s)'))
  PROVE  BooksInv'
<1>1. PICK C, own : CountedBy(C, own) BY DEF BooksInv
<1>2. books.mails \in Nat /\ books'.mails \in Nat BY DEF RelayTypes, RelayBooks
<1>3. 1 .. books.mails \subseteq 1 .. books'.mails BY <1>2
<1>4. PICK new : new = [s \in Sessions |-> IF session'[s].sent = 0 THEN {} ELSE own[s]] OBVIOUS
<1>5. new \in [Sessions -> SUBSET (1 .. books'.mails)] BY <1>1, <1>3, <1>4 DEF CountedBy
<1>6. Cardinality({}) = 0 BY FS_EmptySet
<1>7. \A s \in Sessions : Cardinality(new[s]) = session'[s].sent /\ new[s] \subseteq own[s]
  BY <1>1, <1>4, <1>6 DEF CountedBy
<1>8. C \in SUBSET (1 .. books'.mails) BY <1>1, <1>3 DEF CountedBy
<1>9. \A s \in Sessions : new[s] \cap C = {} BY <1>1, <1>7 DEF CountedBy
<1>10. \A s, t \in Sessions : s # t => new[s] \cap new[t] = {} BY <1>1, <1>7 DEF CountedBy
<1>11. Cardinality(C) = books'.used BY <1>1 DEF CountedBy
<1>12. CountedBy(C, new)' BY <1>5, <1>7, <1>8, <1>9, <1>10, <1>11 DEF CountedBy
<1>13. \A s \in Sessions : ~Serving(s)' => session'[s].sent = 0 BY DEF BooksInv
<1> QED BY <1>12, <1>13 DEF BooksInv

\* A mail goes out, and its session will report it.
LEMMA BooksSend ==
  ASSUME RelayTypes, BooksInv, RelayTypes', NEW s \in Sessions, books'.mails = books.mails + 1, books'.used = books.used,
         relayLog.harmed => relayLog'.harmed, session'[s].sent = session[s].sent + 1, Serving(s)',
         \A t \in Sessions \ {s} : session'[t] = session[t]
  PROVE  BooksInv'
<1>1. PICK C, own : CountedBy(C, own) BY DEF BooksInv
<1>2. books.mails \in Nat /\ books'.mails \in Nat BY DEF RelayTypes, RelayBooks
<1>3. PICK k \in Nat : k = books.mails + 1 BY <1>2
<1>4. 1 .. books'.mails = (1 .. books.mails) \cup {k} /\ k \notin 1 .. books.mails BY <1>2, <1>3
<1>5. PICK new : new = [own EXCEPT ![s] = own[s] \cup {k}] OBVIOUS
<1>6. own \in [Sessions -> SUBSET (1 .. books.mails)] /\ C \in SUBSET (1 .. books.mails) BY <1>1 DEF CountedBy
<1>7. new \in [Sessions -> SUBSET (1 .. books'.mails)] /\ new[s] = own[s] \cup {k} /\ \A t \in Sessions \ {s} : new[t] = own[t]
  BY <1>4, <1>5, <1>6
<1>8. \A t \in Sessions : k \notin own[t] /\ own[t] \subseteq 1 .. books.mails BY <1>4, <1>6
<1>9. Cardinality(new[s]) = session'[s].sent
  <2>1. IsFiniteSet(1 .. books.mails)
    <3>1. 1 \in Int /\ books.mails \in Int BY <1>2
    <3> QED BY <3>1, FS_Interval, Zenon
  <2>2. own[s] \subseteq 1 .. books.mails /\ k \notin own[s] BY <1>8
  <2>3. IsFiniteSet(own[s]) BY <2>1, <2>2, FS_Subset
  <2>4. Cardinality(own[s] \cup {k}) = Cardinality(own[s]) + 1 BY <2>2, <2>3, FS_AddElement
  <2>5. Cardinality(own[s]) = session[s].sent BY <1>1 DEF CountedBy
  <2>6. Cardinality(new[s]) = Cardinality(own[s] \cup {k}) BY <1>7, Zenon
  <2>7. session'[s].sent = session[s].sent + 1 OBVIOUS
  <2> QED BY <2>4, <2>5, <2>6, <2>7
<1>10. \A t \in Sessions : Cardinality(new[t]) = session'[t].sent BY <1>1, <1>7, <1>9 DEF CountedBy
<1>11. \A t \in Sessions : new[t] \cap C = {} BY <1>1, <1>4, <1>6, <1>7 DEF CountedBy
<1>12. \A t, u \in Sessions : t # u => new[t] \cap new[u] = {} BY <1>1, <1>7, <1>8 DEF CountedBy
<1>13. ASSUME ~relayLog'.harmed, NEW n \in 1 .. books'.mails PROVE n \in C \/ \E t \in Sessions : n \in new[t]
  BY <1>7, <1>1, <1>13, <1>4 DEF CountedBy
<1>14. C \in SUBSET (1 .. books'.mails) /\ Cardinality(C) = books'.used BY <1>1, <1>4, <1>6 DEF CountedBy
<1>15. CountedBy(C, new)' BY <1>7, <1>10, <1>11, <1>12, <1>13, <1>14 DEF CountedBy
<1>16. \A t \in Sessions : ~Serving(t)' => session'[t].sent = 0 BY DEF BooksInv, Serving
<1> QED BY <1>15, <1>16 DEF BooksInv

\* A session reports, and the key is charged.
LEMMA BooksCharge ==
  ASSUME RelayTypes, BooksInv, RelayTypes', NEW s \in Sessions, books'.mails = books.mails, books'.used = books.used + session[s].sent,
         relayLog.harmed => relayLog'.harmed, session'[s].sent = 0, \A t \in Sessions \ {s} : session'[t] = session[t]
  PROVE  BooksInv'
<1>1. PICK C, own : CountedBy(C, own) BY DEF BooksInv
<1>2. books.mails \in Nat BY DEF RelayTypes, RelayBooks
<1>3. PICK D : D = C \cup own[s] OBVIOUS
<1>4. PICK new : new = [own EXCEPT ![s] = {}] OBVIOUS
<1>5. own \in [Sessions -> SUBSET (1 .. books.mails)] /\ C \in SUBSET (1 .. books.mails) BY <1>1 DEF CountedBy
<1>6. new \in [Sessions -> SUBSET (1 .. books.mails)] /\ new[s] = {} /\ \A t \in Sessions \ {s} : new[t] = own[t]
  BY <1>4, <1>5
<1>7. Cardinality({}) = 0 BY FS_EmptySet
<1>8. Cardinality(D) = books'.used
  <2>1. IsFiniteSet(1 .. books.mails)
    <3>1. 1 \in Int /\ books.mails \in Int BY <1>2
    <3> QED BY <3>1, FS_Interval, Zenon
  <2>2. IsFiniteSet(C) /\ IsFiniteSet(own[s]) BY <1>5, <2>1, FS_Subset
  <2>3. own[s] \cap C = {} BY <1>1 DEF CountedBy
  <2>4. C \cap own[s] = {} BY <2>3
  <2>5. Cardinality(C \cup own[s]) = Cardinality(C) + Cardinality(own[s]) - Cardinality(C \cap own[s])
    BY <2>2, FS_Union
  <2>6. Cardinality(C) = books.used /\ Cardinality(own[s]) = session[s].sent BY <1>1 DEF CountedBy
  <2>7. Cardinality(C) \in Nat /\ Cardinality(own[s]) \in Nat BY <2>2, FS_CardinalityType
  <2>8. Cardinality(C \cap own[s]) = 0 BY <1>7, <2>4
  <2> QED BY <1>3, <2>5, <2>6, <2>7, <2>8
<1>9. \A t \in Sessions : Cardinality(new[t]) = session'[t].sent BY <1>1, <1>6, <1>7 DEF CountedBy
<1>10. \A t, u \in Sessions : t # u => own[t] \cap own[u] = {} BY <1>1 DEF CountedBy
<1>11. \A t \in Sessions : new[t] \cap D = {} BY <1>1, <1>3, <1>6, <1>10 DEF CountedBy
<1>12. \A t, u \in Sessions : t # u => new[t] \cap new[u] = {} BY <1>6, <1>10
<1>13. ASSUME ~relayLog'.harmed, NEW n \in 1 .. books.mails PROVE n \in D \/ \E t \in Sessions : n \in new[t]
  BY <1>1, <1>13, <1>3, <1>6 DEF CountedBy
<1>14. D \in SUBSET (1 .. books.mails) BY <1>3, <1>5
<1>15. CountedBy(D, new)' BY <1>6, <1>8, <1>9, <1>11, <1>12, <1>13, <1>14 DEF CountedBy
<1>16. \A t \in Sessions : ~Serving(t)' => session'[t].sent = 0 BY DEF BooksInv, Serving
<1> QED BY <1>15, <1>16 DEF BooksInv

\* Sessions that end, begin or only wait, and what clients hear of letters that were seen to.
LEMMA LettersStay ==
  ASSUME RelayTypes, LettersInv, UNCHANGED posted,
         \A s \in Sessions : Serving(s)' => session'[s] = session[s],
         \A m \in Letters : heard'[m] = "accepted" => heard[m] = "accepted" \/ \A r \in Mailees : SeenTo(m, r),
         relayLog.offered \subseteq relayLog'.offered, relayLog.again \subseteq relayLog'.again, relayLog.dropped \subseteq relayLog'.dropped
  PROVE  LettersInv'
  BY DEF SeenTo, Serving, LettersInv, ServesWell, OneServes, LetterFacts

\* A session goes on with its letter; nobody is mailed.
LEMMA LettersGoOn ==
  ASSUME RelayTypes, LettersInv, UNCHANGED <<posted, heard>>, NEW s \in Sessions, Serving(s), Serving(s)',
         session'[s].letter = session[s].letter, session'[s].todo \subseteq session[s].todo,
         session'[s].pc = "send" => session'[s].to \in session[s].todo \ session'[s].todo,
         \A r \in Mailees : \/ r \in session'[s].todo \/ (session'[s].pc = "send" /\ session'[s].to = r)
                            \/ SeenTo(session[s].letter, r) \/ <<session[s].letter, r>> \in relayLog'.dropped,
         \A t \in Sessions \ {s} : session'[t] = session[t],
         relayLog'.offered = relayLog.offered, relayLog'.again = relayLog.again, relayLog.dropped \subseteq relayLog'.dropped
  PROVE  LettersInv'
<1>1. \A m, r : (SeenTo(m, r) => SeenTo(m, r)') /\ (<<m, r>> \in relayLog'.dropped => SeenTo(m, r)')
  BY DEF SeenTo
<1>t. session[s].todo \subseteq Mailees BY DEF RelayTypes, SessRecords
<1>2. \A t \in Sessions : Serving(t)' => Serving(t) /\ session'[t].letter = session[t].letter BY DEF Serving
<1>3. ServesWell(s)'
  <2>1. PICK m \in Letters : m = session[s].letter BY DEF LettersInv, ServesWell
  <2>2. m \in relayLog.offered /\ session'[s].letter = m BY <2>1 DEF LettersInv, ServesWell
  <2>3. m \notin relayLog.again => \A r \in session[s].todo : posted[m][r] = 0
    BY <2>1 DEF LettersInv, ServesWell
  <2>4. m \notin relayLog.again => (\A r \in session'[s].todo : posted'[m][r] = 0)
                                   /\ (session'[s].pc = "send" => posted'[m][session'[s].to] = 0)
    BY <2>3
  <2>5. session'[s].pc = "send" => session'[s].to \in Mailees /\ session'[s].to \notin session'[s].todo BY <1>t
  <2>6. \A r \in Mailees : \/ r \in session'[s].todo \/ (session'[s].pc = "send" /\ session'[s].to = r) \/ SeenTo(m, r)'
    BY <1>1, <2>1
  <2> QED BY <2>2, <2>4, <2>5, <2>6 DEF ServesWell
<1>4. ASSUME NEW t \in Sessions \ {s}, Serving(t)' PROVE ServesWell(t)'
  <2>1. Serving(t) /\ session'[t] = session[t] /\ ServesWell(t) BY <1>2, <1>4 DEF LettersInv
  <2>2. \A r \in Mailees : \/ r \in session[t].todo \/ (session[t].pc = "send" /\ session[t].to = r) \/ SeenTo(session[t].letter, r)'
    BY <1>1, <2>1 DEF ServesWell
  <2> QED BY <2>1, <2>2 DEF ServesWell
<1>n. \A t \in Sessions \ {s} : ServesWell(t)' BY <1>4 DEF ServesWell
<1>5. OneServes' BY <1>2 DEF LettersInv, OneServes
<1>6. \A m \in Letters, r \in Mailees : LetterFacts(m, r)' BY <1>1 DEF LettersInv, LetterFacts
<1> QED BY <1>3, <1>n, <1>5, <1>6 DEF LettersInv

\* The recipient whose turn it is, is mailed.
LEMMA LettersMail ==
  ASSUME RelayTypes, LettersInv, UNCHANGED heard, NEW s \in Sessions, session[s].pc = "send", Mail(session[s].letter, session[s].to),
         session'[s].pc = "next", session'[s].letter = session[s].letter, session'[s].todo = session[s].todo,
         \A t \in Sessions \ {s} : session'[t] = session[t],
         relayLog'.offered = relayLog.offered, relayLog'.again = relayLog.again, relayLog.dropped \subseteq relayLog'.dropped
  PROVE  LettersInv'
<1>1. PICK m \in Letters : m = session[s].letter BY DEF LettersInv, ServesWell, Serving
<1>2. PICK r \in Mailees : r = session[s].to BY DEF LettersInv, ServesWell, Serving
<1>3. posted \in [Letters -> [Mailees -> Nat]] BY DEF RelayTypes
<1>4. posted' = [posted EXCEPT ![m][r] = @ + 1] BY <1>1, <1>2 DEF Mail
<1>5. posted'[m][r] = posted[m][r] + 1 /\ posted[m][r] \in Nat BY <1>3, <1>4
<1>6. \A n \in Letters, q \in Mailees : n # m \/ q # r => posted'[n][q] = posted[n][q] BY <1>3, <1>4
<1>7. posted'[m][r] > 0 BY <1>5
<1>8. \A n \in Letters, q \in Mailees : SeenTo(n, q) => SeenTo(n, q)' BY <1>6, <1>7 DEF SeenTo
<1>9. SeenTo(m, r)' BY <1>7 DEF SeenTo
<1>10. Serving(s) /\ Serving(s)' /\ \A t \in Sessions : Serving(t)' => Serving(t) /\ session'[t].letter = session[t].letter
  BY DEF Serving
<1>11. ServesWell(s) /\ m \in relayLog.offered /\ r \notin session[s].todo /\ (m \notin relayLog.again => posted[m][r] = 0)
  BY <1>1, <1>2, <1>10 DEF LettersInv, ServesWell
<1>t. \A t \in Sessions : session[t].todo \subseteq Mailees BY DEF RelayTypes, SessRecords
<1>12. ServesWell(s)' BY <1>1, <1>2, <1>8, <1>9, <1>10, <1>11, <1>t, <1>6 DEF ServesWell
<1>13. ASSUME NEW t \in Sessions \ {s}, Serving(t)' PROVE ServesWell(t)'
  BY <1>10, <1>13, <1>1, <1>6, <1>8, <1>t DEF LettersInv, ServesWell, OneServes
<1>14. \A t \in Sessions \ {s} : ServesWell(t)' BY <1>13 DEF ServesWell
<1>15. OneServes' BY <1>10 DEF LettersInv, OneServes
<1>16. ASSUME NEW n \in Letters, NEW q \in Mailees PROVE LetterFacts(n, q)'
  BY <1>5, <1>11, <1>9, <1>6, <1>8 DEF LettersInv, LetterFacts
<1> QED BY <1>12, <1>14, <1>15, <1>16 DEF LettersInv

\* A letter is handed over: nobody else has it, or it was handed over before.
LEMMA LettersBegin ==
  ASSUME RelayTypes, LettersInv, UNCHANGED posted, NEW s \in Sessions, NEW m \in Letters, ~Serving(s), session'[s].pc = "next",
         session'[s].letter = m, session'[s].todo = Mailees, \A t \in Sessions \ {s} : session'[t] = session[t],
         \A n \in Letters : heard'[n] = "accepted" => heard[n] = "accepted",
         relayLog'.offered = relayLog.offered \cup {m},
         relayLog'.again = IF m \in relayLog.offered THEN relayLog.again \cup {m} ELSE relayLog.again,
         relayLog'.dropped = relayLog.dropped
  PROVE  LettersInv'
<1>1. \A n, r : SeenTo(n, r) <=> SeenTo(n, r)' BY DEF SeenTo
<1>2. \A t \in Sessions \ {s} : Serving(t)' => Serving(t) BY DEF Serving
<1>3. \A n \in Letters : n \notin relayLog'.again => n \notin relayLog.again /\ (n = m => m \notin relayLog.offered)
  OBVIOUS
<1>4. posted \in [Letters -> [Mailees -> Nat]] BY DEF RelayTypes
<1>5. m \notin relayLog.offered => \A r \in Mailees : posted[m][r] = 0 BY <1>4 DEF LettersInv, LetterFacts
<1>6. ServesWell(s)' BY <1>3, <1>5 DEF ServesWell
<1>7. \A t \in Sessions \ {s} : ServesWell(t)' BY <1>1, <1>2, <1>3 DEF LettersInv, ServesWell
<1>8. OneServes'
  <2>1. \A t \in Sessions : Serving(t) => session[t].letter \in relayLog.offered /\ session[t].letter \in Letters
    BY DEF LettersInv, ServesWell
  <2>2. ASSUME NEW t \in Sessions, NEW u \in Sessions, Serving(t)', Serving(u)', session'[t].letter = session'[u].letter,
               session'[t].letter \notin relayLog'.again
        PROVE  t = u
    BY <1>2, <1>3, <2>1, <2>2 DEF LettersInv, OneServes
  <2> QED BY <2>2 DEF OneServes
<1>9. \A n \in Letters, r \in Mailees : LetterFacts(n, r)' BY <1>1, <1>3 DEF LettersInv, LetterFacts
<1> QED BY <1>6, <1>7, <1>8, <1>9 DEF LettersInv

\* What a session becomes.
LEMMA NewSession ==
  ASSUME session \in [Sessions -> SessRecords], NEW s \in Sessions, NEW new \in SessRecords, Sess(s, new)
  PROVE  session' \in [Sessions -> SessRecords] /\ session'[s] = new /\ \A t \in Sessions \ {s} : session'[t] = session[t]
BY DEF Sess

\* What a client hears.
LEMMA TellIs ==
  ASSUME RelayTypes, NEW s \in Sessions, NEW what \in {"nothing", "accepted", "error"}, Tell(s, what)
  PROVE  /\ heard' \in [Letters -> {"nothing", "waiting", "accepted", "error", "refused"}]
         /\ \A m \in Letters : heard'[m] = heard[m] \/ (m = session[s].letter /\ heard'[m] = what)
  BY DEF RelayTypes, Tell

\* Every step of SmtpRelay keeps the invariant.
LEMMA RelayStep == RelayInv /\ [RelayNext]_relayVars => RelayInv'
<1> SUFFICES ASSUME RelayInv, [RelayNext]_relayVars PROVE RelayInv' OBVIOUS
<1>y. RelayTypes /\ LettersInv /\ BooksInv BY DEF RelayInv
<1>t. /\ session \in [Sessions -> SessRecords] /\ posted \in [Letters -> [Mailees -> Nat]] /\ books \in RelayBooks /\ relayLog \in RelayLogs
      /\ heard \in [Letters -> {"nothing", "waiting", "accepted", "error", "refused"}]
  BY <1>y DEF RelayTypes
<1>l. \A s \in Sessions : ServesWell(s) BY <1>y DEF LettersInv
<1>z. \A s \in Sessions : ~Serving(s) => session[s].sent = 0 BY <1>y DEF BooksInv
<1>b. books.used \in Nat /\ books.mails \in Nat /\ books.suppressed \subseteq Mailees BY <1>t DEF RelayBooks
<1>n. \A s \in Sessions : session[s].seen \in Nat /\ session[s].todo \subseteq Mailees BY <1>t DEF SessRecords
<1>c. Closed \in SessRecords /\ Closed.pc = "closed" /\ Closed.sent = 0 BY ClosedIs
<1>1. ASSUME NEW s \in Sessions, OnAuth(s) PROVE RelayInv'
  <2>1. PICK new : new = [Closed EXCEPT !.pc = "open", !.seen = books.used] OBVIOUS
  <2>2. new \in SessRecords /\ new.pc = "open" /\ new.sent = 0 BY <1>b, <2>1, OpenIs
  <2>3. Sess(s, new) /\ UNCHANGED <<posted, heard, books, relayLog>> /\ session[s].pc = "closed"
    BY <1>1, <2>1 DEF OnAuth
  <2>4. session' \in [Sessions -> SessRecords] /\ session'[s] = new /\ \A t \in Sessions \ {s} : session'[t] = session[t]
    BY <1>t, <2>2, <2>3, NewSession
  <2>5. RelayTypes' BY <1>t, <2>3, <2>4 DEF RelayTypes
  <2>6. \A t \in Sessions : (Serving(t)' => session'[t] = session[t]) /\ session'[t].sent = session[t].sent /\ (Serving(t) => Serving(t)')
    BY <1>z, <2>2, <2>3, <2>4 DEF Serving
  <2> QED BY <1>y, <2>3, <2>5, <2>6, LettersStay, BooksStay DEF RelayInv
<1>2. ASSUME NEW s \in Sessions, Quit(s) PROVE RelayInv'
  BY <1>2, <1>t, <1>c, NewSession, <1>z, <1>y, LettersStay, BooksStay DEF Quit, RelayTypes, Serving, RelayInv
<1>3. ASSUME NEW s \in Sessions, NEW m \in Letters, OnData(s, m) PROVE RelayInv'
  <2>1. PICK a \in Nat, o \in SUBSET Letters, g \in SUBSET Letters, d \in SUBSET (Letters \X Mailees), h \in BOOLEAN :
           relayLog = [acts |-> a, offered |-> o, again |-> g, dropped |-> d, harmed |-> h]
    BY <1>t DEF RelayLogs
  <2>2. PICK o1 \in SUBSET Letters : o1 = o \cup {m} OBVIOUS
  <2>3. PICK g1 \in SUBSET Letters : g1 = IF m \in o THEN g \cup {m} ELSE g OBVIOUS
  <2>4. PICK log : log = [relayLog EXCEPT !.offered = o1, !.again = g1] OBVIOUS
  <2>5. PICK z : z = [relayLog EXCEPT !.offered = o1] OBVIOUS
  <2>6. z = [acts |-> a, offered |-> o1, again |-> g, dropped |-> d, harmed |-> h] BY <2>1, <2>5
  <2>7. [z EXCEPT !.again = g1] = [acts |-> a, offered |-> o1, again |-> g1, dropped |-> d, harmed |-> h]
    BY <2>6
  <2>8. log = [z EXCEPT !.again = g1] BY <2>4, <2>5
  <2>9. log = [acts |-> a, offered |-> o1, again |-> g1, dropped |-> d, harmed |-> h] BY <2>7, <2>8
  <2>10. log \in RelayLogs /\ log.offered = o1 /\ log.again = g1 /\ log.dropped = d /\ (log.harmed <=> h)
    BY <2>9 DEF RelayLogs
  <2>11. RelaySpend(log) BY <1>3, <2>1, <2>2, <2>3, <2>4 DEF OnData
  <2>12. /\ relayLog' \in RelayLogs /\ relayLog'.offered = o1 /\ relayLog'.again = g1 /\ relayLog'.dropped = d
         /\ (relayLog'.harmed <=> h)
    BY <2>10, <2>11, RelayCounts
  <2>13. relayLog.offered = o /\ relayLog.again = g /\ relayLog.dropped = d /\ (relayLog.harmed <=> h) BY <2>1
  <2>14. session[s].pc = "open" /\ UNCHANGED <<posted, books>> BY <1>3 DEF OnData
  <2>15. CASE session[s].seen < SendLimit
    <3>1. PICK pc \in {"open"}, u \in Nat, l \in Letters \cup {NoLetter}, td \in SUBSET Mailees, to \in Mailees \cup {NoLetter}, n \in Nat :
             session[s] = [pc |-> pc, seen |-> u, letter |-> l, todo |-> td, to |-> to, sent |-> n]
      BY <1>t, <2>14 DEF SessRecords
    <3>2. PICK c : c = "next" OBVIOUS
    <3>3. PICK new : new = [session[s] EXCEPT !.pc = c, !.letter = m, !.todo = Mailees] OBVIOUS
    <3>4. PICK x : x = [session[s] EXCEPT !.pc = c] OBVIOUS
    <3>5. x = [pc |-> c, seen |-> u, letter |-> l, todo |-> td, to |-> to, sent |-> n] BY <3>1, <3>4
    <3>6. PICK w : w = [x EXCEPT !.letter = m] OBVIOUS
    <3>7. w = [pc |-> c, seen |-> u, letter |-> m, todo |-> td, to |-> to, sent |-> n] BY <3>5, <3>6
    <3>8. [w EXCEPT !.todo = Mailees] = [pc |-> c, seen |-> u, letter |-> m, todo |-> Mailees, to |-> to, sent |-> n]
      BY <3>7
    <3>9. new = [w EXCEPT !.todo = Mailees] BY <3>3, <3>4, <3>6
    <3>10. new = [pc |-> c, seen |-> u, letter |-> m, todo |-> Mailees, to |-> to, sent |-> n] BY <3>8, <3>9
    <3>11. new \in SessRecords /\ new.pc = c /\ new.letter = m /\ new.todo = Mailees /\ new.sent = n
      BY <3>2, <3>10 DEF SessRecords
    <3>12. Sess(s, new) /\ heard' = [heard EXCEPT ![m] = "waiting"] BY <1>3, <2>15, <3>2, <3>3 DEF OnData
    <3>13. session' \in [Sessions -> SessRecords] /\ session'[s] = new /\ \A t \in Sessions \ {s} : session'[t] = session[t]
      BY <1>t, <3>11, <3>12, NewSession
    <3>14. heard' \in [Letters -> {"nothing", "waiting", "accepted", "error", "refused"}]
           /\ \A k \in Letters : heard'[k] = "accepted" => heard[k] = "accepted"
      BY <1>t, <3>12
    <3>15. RelayTypes' BY <1>t, <2>12, <2>14, <3>13, <3>14 DEF RelayTypes
    <3>16. ~Serving(s) BY <2>14 DEF Serving
    <3>17. LettersInv' BY <1>y, <2>2, <2>3, <2>12, <2>13, <2>14, <3>2, <3>11, <3>13, <3>14, <3>16, LettersBegin
    <3>18. \A t \in Sessions : session'[t].sent = session[t].sent /\ (Serving(t) => Serving(t)')
      BY <3>1, <3>11, <3>13, <3>16 DEF Serving
    <3>19. BooksInv' BY <1>y, <2>12, <2>13, <2>14, <3>15, <3>18, BooksStay
    <3> QED BY <3>15, <3>17, <3>19 DEF RelayInv
  <2>16. CASE ~(session[s].seen < SendLimit)
    BY <1>3, <2>16, <1>t, <2>12, <2>14, <2>2, <2>3, <2>13, <1>y, LettersStay, BooksStay DEF OnData, RelayTypes,
       Serving, RelayInv
  <2> QED BY <2>15, <2>16
<1>4. ASSUME NEW s \in Sessions, PassOver(s) PROVE RelayInv'
  <2>1. PICK r \in session[s].todo \cap books.suppressed :
           /\ session[s].pc = "next" /\ Sess(s, [session[s] EXCEPT !.todo = session[s].todo \ {r}])
           /\ relayLog' = [relayLog EXCEPT !.dropped = @ \union {<<session[s].letter, r>>}]
           /\ UNCHANGED <<posted, heard, books>>
    BY <1>4 DEF PassOver, Others
  <2>2. PICK u \in Nat, l \in Letters \cup {NoLetter}, td \in SUBSET Mailees, to \in Mailees \cup {NoLetter}, n \in Nat :
           session[s] = [pc |-> "next", seen |-> u, letter |-> l, todo |-> td, to |-> to, sent |-> n]
    BY <1>t, <2>1 DEF SessRecords
  <2>3. PICK td1 \in SUBSET Mailees : td1 = td \ {r} OBVIOUS
  <2>4. PICK new : new = [pc |-> "next", seen |-> u, letter |-> l, todo |-> td1, to |-> to, sent |-> n] OBVIOUS
  <2>5. [session[s] EXCEPT !.todo = session[s].todo \ {r}] = new BY <2>2, <2>3, <2>4
  <2>6. new \in SessRecords /\ new.pc = "next" /\ new.letter = l /\ new.todo = td1 /\ new.sent = n
    BY <2>4 DEF SessRecords
  <2>7. session' \in [Sessions -> SessRecords] /\ session'[s] = new /\ \A t \in Sessions \ {s} : session'[t] = session[t]
    BY <1>t, <2>1, <2>5, <2>6, NewSession
  <2>8. Serving(s) /\ Serving(s)' /\ l \in Letters /\ r \in Mailees
    BY <1>l, <1>n, <2>1, <2>2, <2>6, <2>7 DEF Serving, ServesWell
  <2>9. /\ relayLog' \in RelayLogs /\ relayLog'.offered = relayLog.offered /\ relayLog'.again = relayLog.again
        /\ relayLog'.dropped = relayLog.dropped \cup {<<l, r>>} /\ (relayLog'.harmed <=> relayLog.harmed)
    <3>1. PICK a \in Nat, o \in SUBSET Letters, g \in SUBSET Letters, d \in SUBSET (Letters \X Mailees), h \in BOOLEAN :
             relayLog = [acts |-> a, offered |-> o, again |-> g, dropped |-> d, harmed |-> h]
      BY <1>t DEF RelayLogs
    <3>p. PICK p \in Letters \X Mailees : p = <<l, r>> BY <2>8
    <3>e. PICK d1 \in SUBSET (Letters \X Mailees) : d1 = d \cup {p} OBVIOUS
    <3>2. d1 = d \cup {<<l, r>>} BY <3>p, <3>e
    <3>l. session[s].letter = l BY <2>2
    <3>q. relayLog' = [relayLog EXCEPT !.dropped = d1] BY <2>1, <3>1, <3>2, <3>l
    <3>3. relayLog' = [acts |-> a, offered |-> o, again |-> g, dropped |-> d1, harmed |-> h] BY <3>1, <3>q
    <3>4. PICK q : q = relayLog' OBVIOUS
    <3>5. q \in RelayLogs /\ q.offered = o /\ q.again = g /\ q.dropped = d1 /\ (q.harmed <=> h)
      BY <3>3, <3>4 DEF RelayLogs
    <3> QED BY <3>1, <3>2, <3>4, <3>5
  <2>10. RelayTypes' BY <1>t, <2>1, <2>7, <2>9 DEF RelayTypes
  <2>11. \A q \in Mailees : q \in session[s].todo \/ SeenTo(l, q) BY <1>l, <2>2, <2>8 DEF ServesWell
  <2>12. \A q \in Mailees : q \in td1 \/ SeenTo(l, q) \/ <<l, q>> \in relayLog'.dropped
    BY <2>2, <2>3, <2>9, <2>11
  <2>13. LettersInv' BY <1>y, <2>1, <2>2, <2>3, <2>6, <2>7, <2>8, <2>9, <2>12, LettersGoOn
  <2>14. \A t \in Sessions : session'[t].sent = session[t].sent /\ (Serving(t) => Serving(t)')
    BY <2>2, <2>6, <2>7, <2>8 DEF Serving
  <2>15. BooksInv' BY <1>y, <2>1, <2>9, <2>10, <2>14, BooksStay
  <2> QED BY <2>10, <2>13, <2>15 DEF RelayInv
<1>5. ASSUME NEW s \in Sessions, NextRecipient(s) PROVE RelayInv'
  <2>1. PICK r \in session[s].todo \ books.suppressed :
           /\ session[s].pc = "next" /\ Sess(s, [session[s] EXCEPT !.pc = "send", !.to = r, !.todo = @ \ {r}])
           /\ UNCHANGED <<posted, heard, books, relayLog>>
    BY <1>5 DEF NextRecipient
  <2>2. PICK u \in Nat, l \in Letters \cup {NoLetter}, td \in SUBSET Mailees, to \in Mailees \cup {NoLetter}, n \in Nat :
           session[s] = [pc |-> "next", seen |-> u, letter |-> l, todo |-> td, to |-> to, sent |-> n]
    BY <1>t, <2>1 DEF SessRecords
  <2>3. PICK td1 \in SUBSET Mailees : td1 = td \ {r} OBVIOUS
  <2>r. r \in Mailees /\ r \in td BY <1>n, <2>1, <2>2
  <2>c. PICK c : c = "send" OBVIOUS
  <2>4. PICK new : new = [session[s] EXCEPT !.pc = c, !.to = r, !.todo = td1] OBVIOUS
  <2>5. [session[s] EXCEPT !.pc = "send", !.to = r, !.todo = @ \ {r}] = new BY <2>2, <2>3, <2>4, <2>c
  <2>x. PICK x : x = [session[s] EXCEPT !.pc = c] OBVIOUS
  <2>x1. x = [pc |-> c, seen |-> u, letter |-> l, todo |-> td, to |-> to, sent |-> n] BY <2>2, <2>x
  <2>w. PICK w : w = [x EXCEPT !.to = r] OBVIOUS
  <2>w1. w = [pc |-> c, seen |-> u, letter |-> l, todo |-> td, to |-> r, sent |-> n] BY <2>x1, <2>w
  <2>v. [w EXCEPT !.todo = td1] = [pc |-> c, seen |-> u, letter |-> l, todo |-> td1, to |-> r, sent |-> n]
    BY <2>w1
  <2>v1. new = [w EXCEPT !.todo = td1] BY <2>4, <2>x, <2>w
  <2>v2. new = [pc |-> c, seen |-> u, letter |-> l, todo |-> td1, to |-> r, sent |-> n] BY <2>v, <2>v1
  <2>6. new \in SessRecords /\ new.pc = "send" /\ new.letter = l /\ new.todo = td1 /\ new.to = r /\ new.sent = n
    BY <2>v2, <2>c, <2>r DEF SessRecords
  <2>7. session' \in [Sessions -> SessRecords] /\ session'[s] = new /\ \A t \in Sessions \ {s} : session'[t] = session[t]
    BY <1>t, <2>1, <2>5, <2>6, NewSession
  <2>8. Serving(s) /\ Serving(s)' BY <2>1, <2>6, <2>7 DEF Serving
  <2>10. RelayTypes' BY <1>t, <2>1, <2>7 DEF RelayTypes
  <2>11. \A q \in Mailees : q \in td \/ SeenTo(l, q) BY <1>l, <2>2, <2>8 DEF ServesWell
  <2>12. \A q \in Mailees : q \in td1 \/ q = r \/ SeenTo(l, q) BY <2>3, <2>11
  <2>13. LettersInv' BY <1>y, <2>1, <2>2, <2>3, <2>r, <2>6, <2>7, <2>8, <2>12, LettersGoOn
  <2>14. \A t \in Sessions : session'[t].sent = session[t].sent /\ (Serving(t) => Serving(t)')
    BY <2>2, <2>6, <2>7, <2>8 DEF Serving
  <2>15. BooksInv' BY <1>y, <2>1, <2>10, <2>14, BooksStay
  <2> QED BY <2>10, <2>13, <2>15 DEF RelayInv
\* What was to be mailed can be.
<1>m. ASSUME NEW s \in Sessions, session[s].pc = "send", Mail(session[s].letter, session[s].to)
      PROVE  posted' \in [Letters -> [Mailees -> Nat]]
  BY <1>l, <1>m, <1>t DEF ServesWell, Serving, Mail
<1>6. ASSUME NEW s \in Sessions, SendViaSes(s) PROVE RelayInv'
  <2>1. /\ session[s].pc = "send" /\ Sess(s, [session[s] EXCEPT !.pc = "next", !.to = NoLetter, !.sent = @ + 1])
        /\ Mail(session[s].letter, session[s].to) /\ books' = [books EXCEPT !.mails = @ + 1] /\ UNCHANGED <<heard, relayLog>>
    BY <1>6 DEF SendViaSes
  <2>2. PICK u \in Nat, l \in Letters \cup {NoLetter}, td \in SUBSET Mailees, to \in Mailees \cup {NoLetter}, n \in Nat :
           session[s] = [pc |-> "send", seen |-> u, letter |-> l, todo |-> td, to |-> to, sent |-> n]
    BY <1>t, <2>1 DEF SessRecords
  <2>c. PICK c : c = "next" OBVIOUS
  <2>o. PICK o : o = NoLetter OBVIOUS
  <2>n. PICK n1 \in Nat : n1 = n + 1 OBVIOUS
  <2>4. PICK new : new = [session[s] EXCEPT !.pc = c, !.to = o, !.sent = n1] OBVIOUS
  <2>5. [session[s] EXCEPT !.pc = "next", !.to = NoLetter, !.sent = @ + 1] = new BY <2>2, <2>4, <2>c, <2>o, <2>n
  <2>x. PICK x : x = [session[s] EXCEPT !.pc = c] OBVIOUS
  <2>x1. x = [pc |-> c, seen |-> u, letter |-> l, todo |-> td, to |-> to, sent |-> n] BY <2>2, <2>x
  <2>w. PICK w : w = [x EXCEPT !.to = o] OBVIOUS
  <2>w1. w = [pc |-> c, seen |-> u, letter |-> l, todo |-> td, to |-> o, sent |-> n] BY <2>x1, <2>w
  <2>v. [w EXCEPT !.sent = n1] = [pc |-> c, seen |-> u, letter |-> l, todo |-> td, to |-> o, sent |-> n1]
    BY <2>w1
  <2>v1. new = [w EXCEPT !.sent = n1] BY <2>4, <2>x, <2>w
  <2>v2. new = [pc |-> c, seen |-> u, letter |-> l, todo |-> td, to |-> o, sent |-> n1] BY <2>v, <2>v1
  <2>6. new \in SessRecords /\ new.pc = "next" /\ new.letter = l /\ new.todo = td /\ new.sent = n1
    BY <2>v2, <2>c, <2>o DEF SessRecords
  <2>7. session' \in [Sessions -> SessRecords] /\ session'[s] = new /\ \A t \in Sessions \ {s} : session'[t] = session[t]
    BY <1>t, <2>1, <2>5, <2>6, NewSession
  <2>8. books' \in RelayBooks /\ books'.mails = books.mails + 1 /\ books'.used = books.used
    BY <1>t, <2>1, MailsOne
  <2>9. posted' \in [Letters -> [Mailees -> Nat]] BY <1>m, <2>1
  <2>10. RelayTypes' BY <1>t, <2>1, <2>7, <2>8, <2>9 DEF RelayTypes
  <2>11. session'[s].letter = session[s].letter /\ session'[s].todo = session[s].todo /\ session'[s].pc = "next"
         /\ session'[s].sent = session[s].sent + 1
    BY <2>2, <2>n, <2>6, <2>7
  <2>12. LettersInv' BY <1>y, <2>1, <2>7, <2>11, LettersMail
  <2>13. Serving(s)' BY <2>11 DEF Serving
  <2>14. BooksInv' BY <1>y, <2>1, <2>7, <2>8, <2>10, <2>11, <2>13, BooksSend
  <2> QED BY <2>10, <2>12, <2>14 DEF RelayInv
<1>7. ASSUME NEW s \in Sessions, SendFails(s) PROVE RelayInv'
  <2>1. /\ session[s].pc = "send" /\ Sess(s, [session[s] EXCEPT !.pc = "next", !.to = NoLetter]) /\ UNCHANGED heard
        /\ RelaySpend([relayLog EXCEPT !.dropped = @ \union {<<session[s].letter, session[s].to>>}, !.harmed = @ \/ books' # books])
        /\ (UNCHANGED <<posted, books>> \/ (Mail(session[s].letter, session[s].to) /\ books' = [books EXCEPT !.mails = @ + 1]))
    BY <1>7 DEF SendFails
  <2>2. PICK u \in Nat, l \in Letters \cup {NoLetter}, td \in SUBSET Mailees, to \in Mailees \cup {NoLetter}, n \in Nat :
           session[s] = [pc |-> "send", seen |-> u, letter |-> l, todo |-> td, to |-> to, sent |-> n]
    BY <1>t, <2>1 DEF SessRecords
  <2>c. PICK c : c = "next" OBVIOUS
  <2>o. PICK o : o = NoLetter OBVIOUS
  <2>4. PICK new : new = [session[s] EXCEPT !.pc = c, !.to = o] OBVIOUS
  <2>5. [session[s] EXCEPT !.pc = "next", !.to = NoLetter] = new BY <2>4, <2>c, <2>o
  <2>x. PICK x : x = [session[s] EXCEPT !.pc = c] OBVIOUS
  <2>x1. x = [pc |-> c, seen |-> u, letter |-> l, todo |-> td, to |-> to, sent |-> n] BY <2>2, <2>x
  <2>v. [x EXCEPT !.to = o] = [pc |-> c, seen |-> u, letter |-> l, todo |-> td, to |-> o, sent |-> n] BY <2>x1
  <2>v1. new = [x EXCEPT !.to = o] BY <2>4, <2>x
  <2>v2. new = [pc |-> c, seen |-> u, letter |-> l, todo |-> td, to |-> o, sent |-> n] BY <2>v, <2>v1
  <2>6. new \in SessRecords /\ new.pc = "next" /\ new.letter = l /\ new.todo = td /\ new.sent = n
    BY <2>v2, <2>c, <2>o DEF SessRecords
  <2>7. session' \in [Sessions -> SessRecords] /\ session'[s] = new /\ \A t \in Sessions \ {s} : session'[t] = session[t]
    BY <1>t, <2>1, <2>5, <2>6, NewSession
  <2>8. Serving(s) /\ Serving(s)' /\ l \in Letters /\ to \in Mailees
    BY <1>l, <2>1, <2>2, <2>6, <2>7 DEF Serving, ServesWell
  <2>9. /\ relayLog' \in RelayLogs /\ relayLog'.offered = relayLog.offered /\ relayLog'.again = relayLog.again
        /\ relayLog'.dropped = relayLog.dropped \cup {<<l, to>>} /\ (relayLog.harmed => relayLog'.harmed)
        /\ (books' # books => relayLog'.harmed)
    <3>1. PICK a \in Nat, f \in SUBSET Letters, g \in SUBSET Letters, d \in SUBSET (Letters \X Mailees), h \in BOOLEAN :
             relayLog = [acts |-> a, offered |-> f, again |-> g, dropped |-> d, harmed |-> h]
      BY <1>t DEF RelayLogs
    <3>p. PICK p \in Letters \X Mailees : p = <<l, to>> BY <2>8
    <3>e. PICK d1 \in SUBSET (Letters \X Mailees) : d1 = d \cup {p} OBVIOUS
    <3>2. d1 = d \cup {<<l, to>>} BY <3>p, <3>e
    <3>3. PICK h1 \in BOOLEAN : h1 = (h \/ books' # books) BY Zenon
    <3>4. PICK log : log = [relayLog EXCEPT !.dropped = d1, !.harmed = h1] OBVIOUS
    <3>5. PICK z : z = [relayLog EXCEPT !.dropped = d1] OBVIOUS
    <3>6. z = [acts |-> a, offered |-> f, again |-> g, dropped |-> d1, harmed |-> h] BY <3>1, <3>5
    <3>7. [z EXCEPT !.harmed = h1] = [acts |-> a, offered |-> f, again |-> g, dropped |-> d1, harmed |-> h1]
      BY <3>6
    <3>8. log = [z EXCEPT !.harmed = h1] BY <3>4, <3>5
    <3>9. log = [acts |-> a, offered |-> f, again |-> g, dropped |-> d1, harmed |-> h1] BY <3>7, <3>8
    <3>10. log \in RelayLogs /\ log.offered = f /\ log.again = g /\ log.dropped = d1 /\ (log.harmed <=> h1)
      BY <3>9 DEF RelayLogs
    <3>11. [relayLog EXCEPT !.dropped = @ \union {<<session[s].letter, session[s].to>>}, !.harmed = @ \/ books' # books] = log
      BY <2>2, <3>1, <3>2, <3>3, <3>4
    <3>12. RelaySpend(log) BY <2>1, <3>11
    <3>13. /\ relayLog' \in RelayLogs /\ relayLog'.offered = log.offered /\ relayLog'.again = log.again
           /\ relayLog'.dropped = log.dropped /\ (relayLog'.harmed <=> log.harmed)
      BY <3>10, <3>12, RelayCounts
    <3> QED BY <3>1, <3>2, <3>3, <3>10, <3>13
  <2>10. \A t \in Sessions : session'[t].sent = session[t].sent /\ (Serving(t) => Serving(t)')
    BY <2>2, <2>6, <2>7, <2>8 DEF Serving
  <2>11. session'[s].letter = session[s].letter /\ session'[s].todo = session[s].todo /\ session'[s].pc = "next"
    BY <2>2, <2>6, <2>7
  <2>12. CASE UNCHANGED <<posted, books>>
    BY <1>t, <2>1, <2>7, <2>9, <2>12, <1>l, <2>2, <2>8, <1>y, <2>6, <2>11, LettersGoOn, <2>10, BooksStay DEF
       RelayTypes, ServesWell, RelayInv
  <2>13. CASE Mail(session[s].letter, session[s].to) /\ books' = [books EXCEPT !.mails = @ + 1]
    <3>1. books' \in RelayBooks /\ books'.mails = books.mails + 1 /\ books'.used = books.used
      BY <1>t, <2>13, MailsOne
    <3>2. posted' \in [Letters -> [Mailees -> Nat]] BY <1>m, <2>1, <2>13
    <3>3. RelayTypes' BY <1>t, <2>1, <2>7, <2>9, <3>1, <3>2 DEF RelayTypes
    <3>4. books' # books /\ books'.mails >= books.mails BY <1>b, <3>1
    <3>5. LettersInv' BY <1>y, <2>1, <2>7, <2>9, <2>11, <2>13, LettersMail
    <3>6. BooksInv' BY <1>y, <2>9, <2>10, <3>1, <3>3, <3>4, BooksLose
    <3> QED BY <3>3, <3>5, <3>6 DEF RelayInv
  <2> QED BY <2>1, <2>12, <2>13
\* The session is done with its letter.
<1>d. ASSUME NEW s \in Sessions, LetterDone(s)
      PROVE  /\ session' \in [Sessions -> SessRecords] /\ session'[s].sent = 0 /\ ~Serving(s)'
             /\ \A t \in Sessions \ {s} : session'[t] = session[t]
             /\ \A t \in Sessions : Serving(t)' => session'[t] = session[t]
  <2>1. PICK new : new = [Closed EXCEPT !.pc = "open", !.seen = session[s].seen] OBVIOUS
  <2>2. new \in SessRecords /\ new.pc = "open" /\ new.sent = 0 BY <1>n, <2>1, OpenIs
  <2>3. Sess(s, new) BY <1>d, <2>1 DEF LetterDone
  <2>4. session' \in [Sessions -> SessRecords] /\ session'[s] = new /\ \A t \in Sessions \ {s} : session'[t] = session[t]
    BY <1>t, <2>2, <2>3, NewSession
  <2> QED BY <2>2, <2>4 DEF Serving
<1>8. ASSUME NEW s \in Sessions, Accept(s) PROVE RelayInv'
  <2>1. session[s].pc = "next" /\ session[s].todo = {} /\ LetterDone(s) /\ Tell(s, "accepted") /\ UNCHANGED posted
    BY <1>8 DEF Accept
  <2>2. /\ session' \in [Sessions -> SessRecords] /\ session'[s].sent = 0 /\ ~Serving(s)'
        /\ \A t \in Sessions \ {s} : session'[t] = session[t]
        /\ \A t \in Sessions : Serving(t)' => session'[t] = session[t]
    BY <1>d, <2>1
  <2>3. /\ heard' \in [Letters -> {"nothing", "waiting", "accepted", "error", "refused"}]
        /\ \A m \in Letters : heard'[m] = heard[m] \/ (m = session[s].letter /\ heard'[m] = "accepted")
    BY <1>y, <2>1, TellIs
  <2>4. \A r \in Mailees : SeenTo(session[s].letter, r) BY <1>l, <2>1 DEF ServesWell, Serving
  <2>5. \A m \in Letters : heard'[m] = "accepted" => heard[m] = "accepted" \/ \A r \in Mailees : SeenTo(m, r)
    BY <2>3, <2>4
  <2>6. session[s].sent \in Nat BY <1>t DEF SessRecords
  <2>7. CASE books' = [books EXCEPT !.used = @ + SentCount(session[s])] /\ UNCHANGED relayLog
    BY <2>6, <1>t, <2>7, <2>1, <2>2, <2>3, <1>y, <2>5, LettersStay, BooksCharge DEF RelayBooks, SentCount,
       RelayTypes, RelayInv
  <2>8. CASE RelaySpend([relayLog EXCEPT !.harmed = TRUE]) /\ UNCHANGED books
    BY <1>t, HarmIs, <2>8, RelayCounts, <2>1, <2>2, <2>3, <1>y, <2>5, LettersStay, <1>b, BooksLose DEF
       RelayTypes, Serving, RelayInv
  <2> QED BY <1>8, <2>7, <2>8 DEF Accept
<1>9. ASSUME NEW s \in Sessions, LookupFails(s) PROVE RelayInv'
  BY <1>9, <1>d, <1>y, TellIs, <1>t, HarmIs, RelayCounts, LettersStay, <1>b, BooksLose DEF LookupFails,
     RelayTypes, Serving, RelayInv
<1>10. ASSUME NEW s \in Sessions, ClientLeaves(s) PROVE RelayInv'
  BY <1>10, <1>y, TellIs, <1>t, RelayCounts, LettersStay, BooksStay DEF ClientLeaves, RelayTypes, Serving,
     RelayInv
<1>11. CASE RelayDies
  BY <1>11, <1>c, <1>t, HarmIs, RelayCounts, <1>y, LettersStay, <1>b, BooksLose DEF RelayDies, Serving,
     RelayTypes, RelayInv
<1>12. ASSUME NEW r \in Mailees, SuppressMailee(r) PROVE RelayInv'
  BY <1>12, <1>t, RelayCounts, <1>y, LettersStay, BooksStay DEF SuppressMailee, RelayBooks, RelayTypes, Serving,
     RelayInv
<1>13. CASE UNCHANGED relayVars
  BY <1>13, <1>t, <1>y, LettersStay, BooksStay DEF relayVars, RelayTypes, Serving, RelayInv
<1> QED BY <1>1, <1>2, <1>3, <1>4, <1>5, <1>6, <1>7, <1>8, <1>9, <1>10, <1>11, <1>12, <1>13 DEF RelayNext

\* The invariant gives the property.
LEMMA RelayMeans == RelayInv => RelayHolds
<1> SUFFICES ASSUME RelayInv PROVE RelayHolds OBVIOUS
<1>1. posted \in [Letters -> [Mailees -> Nat]] /\ books.mails \in Nat /\ books.used \in Nat
  BY DEF RelayInv, RelayTypes, RelayBooks
<1>2. \A m \in Letters, r \in Mailees : LetterFacts(m, r) BY DEF RelayInv, LettersInv
<1>3. \A m \in Letters, r \in Mailees : /\ heard[m] = "accepted" => posted[m][r] > 0 \/ <<m, r>> \in relayLog.dropped
                                        /\ posted[m][r] > 1 => m \in relayLog.again
  <2>1. ASSUME NEW m \in Letters, NEW r \in Mailees, posted[m][r] > 1 PROVE m \in relayLog.again
    BY <1>1, <1>2, <2>1 DEF LetterFacts
  <2>2. \A m \in Letters, r \in Mailees : heard[m] = "accepted" => posted[m][r] > 0 \/ <<m, r>> \in relayLog.dropped
    BY <1>2 DEF LetterFacts, SeenTo
  <2> QED BY <2>1, <2>2
<1>4. PICK C, own : CountedBy(C, own) BY DEF RelayInv, BooksInv
<1>5. PICK N : N = 1 .. books.mails OBVIOUS
<1>6. IsFiniteSet(N) /\ Cardinality(N) = books.mails BY <1>1, <1>5, FS_Interval
<1>7. C \subseteq N /\ Cardinality(C) = books.used /\ \A s \in Sessions : own[s] \subseteq N
  BY <1>4, <1>5 DEF CountedBy
<1>8. books.used <= books.mails BY <1>6, <1>7, FS_Subset
<1>9. ASSUME ~relayLog.harmed, \A s \in Sessions : ~Serving(s) PROVE books.used = books.mails
  <2>1. \A s \in Sessions : session[s].sent = 0 BY <1>9 DEF RelayInv, BooksInv
  <2>2. ASSUME NEW s \in Sessions PROVE own[s] = {}
    BY <1>6, <1>7, FS_Subset, <1>4, <2>1, FS_EmptySet DEF CountedBy
  <2>3. N \subseteq C BY <1>4, <1>5, <1>9, <2>2 DEF CountedBy
  <2>4. C = N BY <1>7, <2>3
  <2> QED BY <1>6, <1>7, <2>4
<1> QED BY <1>1, <1>3, <1>8, <1>9 DEF RelayHolds

----------------------------------------------------------------------------
(***************************************************************************)
(* Engine.  A verification that goes to a provider without having looked   *)
(* over a verdict finds the cache empty; what the cache holds was not kept *)
(* over a bounce; and a free provider's domain is not remembered, nor ever *)
(* called, one that accepts everything.                                    *)
(***************************************************************************)

\* What is known of the address's mail server.
SmtpRecords == [checked : BOOLEAN, reach : {"null", "yes", "no"}, catch : BOOLEAN, grey : BOOLEAN,
                why : {"none", "busy", "unwelcome", "rejected"}, old : {"no", "excused"}]

\* The cache's row.
RowRecords == [left : Nat, smtp : SmtpRecords]

\* The reasons a domain that accepts everything gives.
CatchAllReasons == {"catch_all", "catch_all_role_account"}

\* A verification.
IsVer(r) == \E p, s, h, b, t, x, o, u :
  /\ r = [pc |-> p, smtp |-> s, host |-> h, by |-> b, try |-> t, raced |-> x, over |-> o, out |-> u]
  /\ s \in SmtpRecords

\* The verifications.
AreVers(f) == f = [w \in Verifiers |-> f[w]] /\ \A w \in Verifiers : IsVer(f[w])

\* What holds of a verification, given whether the cache has a row.
VerHolds(r, row) ==
  /\ r.pc \in {"ask", "asked"} /\ ~r.over => ~row
  /\ "free" \in flags => r.out.reason \notin CatchAllReasons

\* What the variables of Engine hold.
EngineTypes ==
  /\ verCache \in RowRecords /\ AreVers(ver)
  /\ \E n : verGhost = [acts |-> n, again |-> FALSE, stale |-> FALSE]

\* The inductive invariant of Engine.
EngineInv ==
  /\ EngineTypes
  /\ "free" \in flags => ~verCache.smtp.catch
  /\ \A v \in Verifiers : VerHolds(ver[v], CacheRow)

\* The rules, taken apart: fourteen conditions and verdicts, of which the eleventh alone
\* speaks of a domain that accepts everything.
LEMMA RulesAre ==
  ASSUME NEW f, NEW s \in SmtpRecords, NEW r, r = Rules(f, s)
  PROVE  /\ DOMAIN r = 1 .. 14 /\ r[14][1] /\ (~s.catch => ~r[11][1])
         /\ \A i \in 1 .. 14 : i # 11 => r[i][2].reason \notin {"catch_all", "catch_all_role_account"}
<1>1. DOMAIN r = 1 .. 14 BY SMT DEF Rules
<1>2. r[14][1] BY SMT DEF Rules
<1>3. ~s.catch => ~r[11][1] BY SMT DEF Rules, SmtpRecords
<1>4. r[1][2].reason \notin {"catch_all", "catch_all_role_account"} /\ r[2][2].reason \notin {"catch_all", "catch_all_role_account"} /\ r[3][2].reason \notin {"catch_all", "catch_all_role_account"}
  BY SMT DEF Rules, Verdict
<1>5. r[4][2].reason \notin {"catch_all", "catch_all_role_account"} /\ r[5][2].reason \notin {"catch_all", "catch_all_role_account"} /\ r[6][2].reason \notin {"catch_all", "catch_all_role_account"}
  BY SMT DEF Rules, Verdict
<1>6. r[7][2].reason \notin {"catch_all", "catch_all_role_account"} /\ r[8][2].reason \notin {"catch_all", "catch_all_role_account"} /\ r[9][2].reason \notin {"catch_all", "catch_all_role_account"}
  BY SMT DEF Rules, Verdict
<1>7. r[10][2].reason \notin {"catch_all", "catch_all_role_account"} /\ r[12][2].reason \notin {"catch_all", "catch_all_role_account"}
  BY SMT DEF Rules, Verdict
<1>8. r[13][2].reason \notin {"catch_all", "catch_all_role_account"} /\ r[14][2].reason \notin {"catch_all", "catch_all_role_account"}
  BY SMT DEF Rules, Verdict
<1>9. ASSUME NEW i \in 1 .. 14, i # 11 PROVE r[i][2].reason \notin {"catch_all", "catch_all_role_account"}
  <2>1. i = 1 \/ i = 2 \/ i = 3 \/ i = 4 \/ i = 5 \/ i = 6 \/ i = 7 \/ i = 8 \/ i = 9 \/ i = 10 \/ i = 12 \/ i = 13 \/ i = 14
    BY <1>9
  <2> QED BY <1>4, <1>5, <1>6, <1>7, <1>8, <2>1, Zenon
<1> QED BY <1>1, <1>2, <1>3, <1>9

\* Of conditions of which the last is true, one is the first that is.
LEMMA FirstRule ==
  ASSUME NEW r, r[14][1] PROVE \E i \in 1 .. 14 : r[i][1] /\ \A j \in 1 .. i - 1 : ~r[j][1]
<1> SUFFICES ASSUME ~\E i \in 1 .. 14 : r[i][1] /\ \A j \in 1 .. i - 1 : ~r[j][1] PROVE FALSE OBVIOUS
<1>0. \A i \in 1 .. 14 : (\A j \in 1 .. i - 1 : ~r[j][1]) => ~r[i][1] OBVIOUS
<1>k. ASSUME NEW k \in 1 .. 14, \A j \in 1 .. k - 1 : ~r[j][1] PROVE \A j \in 1 .. k : ~r[j][1] BY <1>0, <1>k
<1>1. \A j \in 1 .. 1 : ~r[j][1] BY <1>k
<1>2. \A j \in 1 .. 2 : ~r[j][1] BY <1>k, <1>1
<1>3. \A j \in 1 .. 3 : ~r[j][1] BY <1>k, <1>2
<1>4. \A j \in 1 .. 4 : ~r[j][1] BY <1>k, <1>3
<1>5. \A j \in 1 .. 5 : ~r[j][1] BY <1>k, <1>4
<1>6. \A j \in 1 .. 6 : ~r[j][1] BY <1>k, <1>5
<1>7. \A j \in 1 .. 7 : ~r[j][1] BY <1>k, <1>6
<1>8. \A j \in 1 .. 8 : ~r[j][1] BY <1>k, <1>7
<1>9. \A j \in 1 .. 9 : ~r[j][1] BY <1>k, <1>8
<1>10. \A j \in 1 .. 10 : ~r[j][1] BY <1>k, <1>9
<1>11. \A j \in 1 .. 11 : ~r[j][1] BY <1>k, <1>10
<1>12. \A j \in 1 .. 12 : ~r[j][1] BY <1>k, <1>11
<1>13. \A j \in 1 .. 13 : ~r[j][1] BY <1>k, <1>12
<1>14. \A j \in 1 .. 14 : ~r[j][1] BY <1>k, <1>13
<1> QED BY <1>14

\* Where the domain is not said to accept everything, no verdict says so.
LEMMA ScoreNeverCatchAll ==
  ASSUME NEW f, NEW s \in SmtpRecords, ~s.catch
  PROVE  ScoreOf(f, s).reason \notin {"catch_all", "catch_all_role_account"}
  BY RulesAre, FirstRule DEF ScoreOf

\* A verification of which "pc" is set.
LEMMA SetPc ==
  ASSUME NEW r, IsVer(r), NEW c, NEW q, q = [r EXCEPT !.pc = c]
  PROVE  IsVer(q) /\ q.pc = c /\ q.smtp = r.smtp /\ q.host = r.host /\ q.by = r.by /\ q.try = r.try /\ q.raced = r.raced /\ q.over = r.over /\ q.out = r.out
<1>1. PICK p, s, h, b, t, x, o, u : r = [pc |-> p, smtp |-> s, host |-> h, by |-> b, try |-> t, raced |-> x, over |-> o, out |-> u] /\ s \in SmtpRecords
  BY DEF IsVer
<1>2. q = [pc |-> c, smtp |-> s, host |-> h, by |-> b, try |-> t, raced |-> x, over |-> o, out |-> u] BY <1>1
<1>3. IsVer(q) BY <1>1, <1>2, Zenon DEF IsVer
<1>4. q.pc = c /\ q.smtp = r.smtp /\ q.host = r.host /\ q.by = r.by /\ q.try = r.try /\ q.raced = r.raced /\ q.over = r.over /\ q.out = r.out
  BY <1>1, <1>2
<1> QED BY <1>3, <1>4

\* A verification of which "smtp" is set.
LEMMA SetSmtp ==
  ASSUME NEW r, IsVer(r), NEW c, c \in SmtpRecords, NEW q, q = [r EXCEPT !.smtp = c]
  PROVE  IsVer(q) /\ q.smtp = c /\ q.pc = r.pc /\ q.host = r.host /\ q.by = r.by /\ q.try = r.try /\ q.raced = r.raced /\ q.over = r.over /\ q.out = r.out
  BY Zenon DEF IsVer

\* A verification of which "host" is set.
LEMMA SetHost ==
  ASSUME NEW r, IsVer(r), NEW c, NEW q, q = [r EXCEPT !.host = c]
  PROVE  IsVer(q) /\ q.host = c /\ q.pc = r.pc /\ q.smtp = r.smtp /\ q.by = r.by /\ q.try = r.try /\ q.raced = r.raced /\ q.over = r.over /\ q.out = r.out
<1>1. PICK p, s, h, b, t, x, o, u : r = [pc |-> p, smtp |-> s, host |-> h, by |-> b, try |-> t, raced |-> x, over |-> o, out |-> u] /\ s \in SmtpRecords
  BY DEF IsVer
<1>2. q = [pc |-> p, smtp |-> s, host |-> c, by |-> b, try |-> t, raced |-> x, over |-> o, out |-> u] BY <1>1
<1>3. IsVer(q) BY <1>1, <1>2, Zenon DEF IsVer
<1>4. q.host = c /\ q.pc = r.pc /\ q.smtp = r.smtp /\ q.by = r.by /\ q.try = r.try /\ q.raced = r.raced /\ q.over = r.over /\ q.out = r.out
  BY <1>1, <1>2
<1> QED BY <1>3, <1>4

\* A verification of which "by" is set.
LEMMA SetBy ==
  ASSUME NEW r, IsVer(r), NEW c, NEW q, q = [r EXCEPT !.by = c]
  PROVE  IsVer(q) /\ q.by = c /\ q.pc = r.pc /\ q.smtp = r.smtp /\ q.host = r.host /\ q.try = r.try /\ q.raced = r.raced /\ q.over = r.over /\ q.out = r.out
<1>1. PICK p, s, h, b, t, x, o, u : r = [pc |-> p, smtp |-> s, host |-> h, by |-> b, try |-> t, raced |-> x, over |-> o, out |-> u] /\ s \in SmtpRecords
  BY DEF IsVer
<1>2. q = [pc |-> p, smtp |-> s, host |-> h, by |-> c, try |-> t, raced |-> x, over |-> o, out |-> u] BY <1>1
<1>3. IsVer(q) BY <1>1, <1>2, Zenon DEF IsVer
<1>4. q.by = c /\ q.pc = r.pc /\ q.smtp = r.smtp /\ q.host = r.host /\ q.try = r.try /\ q.raced = r.raced /\ q.over = r.over /\ q.out = r.out
  BY <1>1, <1>2
<1> QED BY <1>3, <1>4

\* A verification of which "try" is set.
LEMMA SetTry ==
  ASSUME NEW r, IsVer(r), NEW c, NEW q, q = [r EXCEPT !.try = c]
  PROVE  IsVer(q) /\ q.try = c /\ q.pc = r.pc /\ q.smtp = r.smtp /\ q.host = r.host /\ q.by = r.by /\ q.raced = r.raced /\ q.over = r.over /\ q.out = r.out
<1>1. PICK p, s, h, b, t, x, o, u : r = [pc |-> p, smtp |-> s, host |-> h, by |-> b, try |-> t, raced |-> x, over |-> o, out |-> u] /\ s \in SmtpRecords
  BY DEF IsVer
<1>2. q = [pc |-> p, smtp |-> s, host |-> h, by |-> b, try |-> c, raced |-> x, over |-> o, out |-> u] BY <1>1
<1>3. IsVer(q) BY <1>1, <1>2, Zenon DEF IsVer
<1>4. q.try = c /\ q.pc = r.pc /\ q.smtp = r.smtp /\ q.host = r.host /\ q.by = r.by /\ q.raced = r.raced /\ q.over = r.over /\ q.out = r.out
  BY <1>1, <1>2
<1> QED BY <1>3, <1>4

\* A verification of which "out" is set.
LEMMA SetOut ==
  ASSUME NEW r, IsVer(r), NEW c, NEW q, q = [r EXCEPT !.out = c]
  PROVE  IsVer(q) /\ q.out = c /\ q.pc = r.pc /\ q.smtp = r.smtp /\ q.host = r.host /\ q.by = r.by /\ q.try = r.try /\ q.raced = r.raced /\ q.over = r.over
<1>1. PICK p, s, h, b, t, x, o, u : r = [pc |-> p, smtp |-> s, host |-> h, by |-> b, try |-> t, raced |-> x, over |-> o, out |-> u] /\ s \in SmtpRecords
  BY DEF IsVer
<1>2. q = [pc |-> p, smtp |-> s, host |-> h, by |-> b, try |-> t, raced |-> x, over |-> o, out |-> c] BY <1>1
<1>3. IsVer(q) BY <1>1, <1>2, Zenon DEF IsVer
<1>4. q.out = c /\ q.pc = r.pc /\ q.smtp = r.smtp /\ q.host = r.host /\ q.by = r.by /\ q.try = r.try /\ q.raced = r.raced /\ q.over = r.over
  BY <1>1, <1>2
<1> QED BY <1>3, <1>4

\* A verification of which "raced" is set.
LEMMA SetRaced ==
  ASSUME NEW r, IsVer(r), NEW c, NEW q, q = [r EXCEPT !.raced = c]
  PROVE  IsVer(q) /\ q.raced = c /\ q.pc = r.pc /\ q.smtp = r.smtp /\ q.host = r.host /\ q.by = r.by /\ q.try = r.try /\ q.over = r.over /\ q.out = r.out
<1>1. PICK p, s, h, b, t, x, o, u : r = [pc |-> p, smtp |-> s, host |-> h, by |-> b, try |-> t, raced |-> x, over |-> o, out |-> u] /\ s \in SmtpRecords
  BY DEF IsVer
<1>2. q = [pc |-> p, smtp |-> s, host |-> h, by |-> b, try |-> t, raced |-> c, over |-> o, out |-> u] BY <1>1
<1>3. IsVer(q) BY <1>1, <1>2, Zenon DEF IsVer
<1>4. q.raced = c /\ q.pc = r.pc /\ q.smtp = r.smtp /\ q.host = r.host /\ q.by = r.by /\ q.try = r.try /\ q.over = r.over /\ q.out = r.out
  BY <1>1, <1>2
<1> QED BY <1>3, <1>4

\* A verification of which "over" is set.
LEMMA SetOver ==
  ASSUME NEW r, IsVer(r), NEW c, NEW q, q = [r EXCEPT !.over = c]
  PROVE  IsVer(q) /\ q.over = c /\ q.pc = r.pc /\ q.smtp = r.smtp /\ q.host = r.host /\ q.by = r.by /\ q.try = r.try /\ q.raced = r.raced /\ q.out = r.out
<1>1. PICK p, s, h, b, t, x, o, u : r = [pc |-> p, smtp |-> s, host |-> h, by |-> b, try |-> t, raced |-> x, over |-> o, out |-> u] /\ s \in SmtpRecords
  BY DEF IsVer
<1>2. q = [pc |-> p, smtp |-> s, host |-> h, by |-> b, try |-> t, raced |-> x, over |-> c, out |-> u] BY <1>1
<1>3. IsVer(q) BY <1>1, <1>2, Zenon DEF IsVer
<1>4. q.over = c /\ q.pc = r.pc /\ q.smtp = r.smtp /\ q.host = r.host /\ q.by = r.by /\ q.try = r.try /\ q.raced = r.raced /\ q.out = r.out
  BY <1>1, <1>2
<1> QED BY <1>3, <1>4

\* One of the verifications has its "pc" set.
WithPc(f, v, c) == [f EXCEPT ![v].pc = c]

\* The same among the verifications.
LEMMA SetPcOf ==
  ASSUME NEW f, AreVers(f), NEW v \in Verifiers, NEW c, NEW g, g = WithPc(f, v, c)
  PROVE  AreVers(g) /\ g[v].pc = c /\ g[v].smtp = f[v].smtp /\ g[v].host = f[v].host /\ g[v].by = f[v].by /\ g[v].try = f[v].try /\ g[v].raced = f[v].raced /\ g[v].over = f[v].over /\ g[v].out = f[v].out /\ \A w \in Verifiers \ {v} : g[w] = f[w]
<1>1. PICK q : q = [f[v] EXCEPT !.pc = c] OBVIOUS
<1>2. IsVer(f[v]) BY DEF AreVers
<1>3. IsVer(q) /\ q.pc = c /\ q.smtp = f[v].smtp /\ q.host = f[v].host /\ q.by = f[v].by /\ q.try = f[v].try /\ q.raced = f[v].raced /\ q.over = f[v].over /\ q.out = f[v].out
  BY <1>1, <1>2, SetPc
<1>4. f = [w \in Verifiers |-> f[w]] BY DEF AreVers
<1>5. g = [w \in Verifiers |-> IF w = v THEN q ELSE f[w]] BY <1>1, <1>4 DEF WithPc
<1>6. IsVer(q) BY <1>3
<1>7. g[v] = q /\ \A w \in Verifiers \ {v} : g[w] = f[w] BY <1>5
<1>8. g = [w \in Verifiers |-> g[w]] BY <1>5
<1>9. \A w \in Verifiers : IsVer(g[w]) BY <1>6, <1>7, Zenon DEF AreVers
<1>10. AreVers(g) BY <1>8, <1>9, Zenon DEF AreVers
<1> QED BY <1>3, <1>7, <1>10

\* One of the verifications has its "smtp" set.
WithSmtp(f, v, c) == [f EXCEPT ![v].smtp = c]

\* The same among the verifications.
LEMMA SetSmtpOf ==
  ASSUME NEW f, AreVers(f), NEW v \in Verifiers, NEW c, c \in SmtpRecords, NEW g, g = WithSmtp(f, v, c)
  PROVE  AreVers(g) /\ g[v].smtp = c /\ g[v].pc = f[v].pc /\ g[v].host = f[v].host /\ g[v].by = f[v].by /\ g[v].try = f[v].try /\ g[v].raced = f[v].raced /\ g[v].over = f[v].over /\ g[v].out = f[v].out /\ \A w \in Verifiers \ {v} : g[w] = f[w]
<1>1. PICK q : q = [f[v] EXCEPT !.smtp = c] OBVIOUS
<1>2. IsVer(f[v]) BY DEF AreVers
<1>3. IsVer(q) /\ q.smtp = c /\ q.pc = f[v].pc /\ q.host = f[v].host /\ q.by = f[v].by /\ q.try = f[v].try /\ q.raced = f[v].raced /\ q.over = f[v].over /\ q.out = f[v].out
  BY <1>1, <1>2, SetSmtp
<1>4. f = [w \in Verifiers |-> f[w]] BY DEF AreVers
<1>5. g = [w \in Verifiers |-> IF w = v THEN q ELSE f[w]] BY <1>1, <1>4 DEF WithSmtp
<1>6. IsVer(q) BY <1>3
<1>7. g[v] = q /\ \A w \in Verifiers \ {v} : g[w] = f[w] BY <1>5
<1>8. g = [w \in Verifiers |-> g[w]] BY <1>5
<1>9. \A w \in Verifiers : IsVer(g[w]) BY <1>6, <1>7, Zenon DEF AreVers
<1>10. AreVers(g) BY <1>8, <1>9, Zenon DEF AreVers
<1> QED BY <1>3, <1>7, <1>10

\* One of the verifications has its "host" set.
WithHost(f, v, c) == [f EXCEPT ![v].host = c]

\* The same among the verifications.
LEMMA SetHostOf ==
  ASSUME NEW f, AreVers(f), NEW v \in Verifiers, NEW c, NEW g, g = WithHost(f, v, c)
  PROVE  AreVers(g) /\ g[v].host = c /\ g[v].pc = f[v].pc /\ g[v].smtp = f[v].smtp /\ g[v].by = f[v].by /\ g[v].try = f[v].try /\ g[v].raced = f[v].raced /\ g[v].over = f[v].over /\ g[v].out = f[v].out /\ \A w \in Verifiers \ {v} : g[w] = f[w]
<1>1. PICK q : q = [f[v] EXCEPT !.host = c] OBVIOUS
<1>2. IsVer(f[v]) BY DEF AreVers
<1>3. IsVer(q) /\ q.host = c /\ q.pc = f[v].pc /\ q.smtp = f[v].smtp /\ q.by = f[v].by /\ q.try = f[v].try /\ q.raced = f[v].raced /\ q.over = f[v].over /\ q.out = f[v].out
  BY <1>1, <1>2, SetHost
<1>4. f = [w \in Verifiers |-> f[w]] BY DEF AreVers
<1>5. g = [w \in Verifiers |-> IF w = v THEN q ELSE f[w]] BY <1>1, <1>4 DEF WithHost
<1>6. IsVer(q) BY <1>3
<1>7. g[v] = q /\ \A w \in Verifiers \ {v} : g[w] = f[w] BY <1>5
<1>8. g = [w \in Verifiers |-> g[w]] BY <1>5
<1>9. \A w \in Verifiers : IsVer(g[w]) BY <1>6, <1>7, Zenon DEF AreVers
<1>10. AreVers(g) BY <1>8, <1>9, Zenon DEF AreVers
<1> QED BY <1>3, <1>7, <1>10

\* One of the verifications has its "by" set.
WithBy(f, v, c) == [f EXCEPT ![v].by = c]

\* The same among the verifications.
LEMMA SetByOf ==
  ASSUME NEW f, AreVers(f), NEW v \in Verifiers, NEW c, NEW g, g = WithBy(f, v, c)
  PROVE  AreVers(g) /\ g[v].by = c /\ g[v].pc = f[v].pc /\ g[v].smtp = f[v].smtp /\ g[v].host = f[v].host /\ g[v].try = f[v].try /\ g[v].raced = f[v].raced /\ g[v].over = f[v].over /\ g[v].out = f[v].out /\ \A w \in Verifiers \ {v} : g[w] = f[w]
<1>1. PICK q : q = [f[v] EXCEPT !.by = c] OBVIOUS
<1>2. IsVer(f[v]) BY DEF AreVers
<1>3. IsVer(q) /\ q.by = c /\ q.pc = f[v].pc /\ q.smtp = f[v].smtp /\ q.host = f[v].host /\ q.try = f[v].try /\ q.raced = f[v].raced /\ q.over = f[v].over /\ q.out = f[v].out
  BY <1>1, <1>2, SetBy
<1>4. f = [w \in Verifiers |-> f[w]] BY DEF AreVers
<1>5. g = [w \in Verifiers |-> IF w = v THEN q ELSE f[w]] BY <1>1, <1>4 DEF WithBy
<1>6. IsVer(q) BY <1>3
<1>7. g[v] = q /\ \A w \in Verifiers \ {v} : g[w] = f[w] BY <1>5
<1>8. g = [w \in Verifiers |-> g[w]] BY <1>5
<1>9. \A w \in Verifiers : IsVer(g[w]) BY <1>6, <1>7, Zenon DEF AreVers
<1>10. AreVers(g) BY <1>8, <1>9, Zenon DEF AreVers
<1> QED BY <1>3, <1>7, <1>10

\* One of the verifications has its "try" set.
WithTry(f, v, c) == [f EXCEPT ![v].try = c]

\* The same among the verifications.
LEMMA SetTryOf ==
  ASSUME NEW f, AreVers(f), NEW v \in Verifiers, NEW c, NEW g, g = WithTry(f, v, c)
  PROVE  AreVers(g) /\ g[v].try = c /\ g[v].pc = f[v].pc /\ g[v].smtp = f[v].smtp /\ g[v].host = f[v].host /\ g[v].by = f[v].by /\ g[v].raced = f[v].raced /\ g[v].over = f[v].over /\ g[v].out = f[v].out /\ \A w \in Verifiers \ {v} : g[w] = f[w]
<1>1. PICK q : q = [f[v] EXCEPT !.try = c] OBVIOUS
<1>2. IsVer(f[v]) BY DEF AreVers
<1>3. IsVer(q) /\ q.try = c /\ q.pc = f[v].pc /\ q.smtp = f[v].smtp /\ q.host = f[v].host /\ q.by = f[v].by /\ q.raced = f[v].raced /\ q.over = f[v].over /\ q.out = f[v].out
  BY <1>1, <1>2, SetTry
<1>4. f = [w \in Verifiers |-> f[w]] BY DEF AreVers
<1>5. g = [w \in Verifiers |-> IF w = v THEN q ELSE f[w]] BY <1>1, <1>4 DEF WithTry
<1>6. IsVer(q) BY <1>3
<1>7. g[v] = q /\ \A w \in Verifiers \ {v} : g[w] = f[w] BY <1>5
<1>8. g = [w \in Verifiers |-> g[w]] BY <1>5
<1>9. \A w \in Verifiers : IsVer(g[w]) BY <1>6, <1>7, Zenon DEF AreVers
<1>10. AreVers(g) BY <1>8, <1>9, Zenon DEF AreVers
<1> QED BY <1>3, <1>7, <1>10

\* One of the verifications has its "out" set.
WithVerdict(f, v, c) == [f EXCEPT ![v].out = c]

\* The same among the verifications.
LEMMA SetOutOf ==
  ASSUME NEW f, AreVers(f), NEW v \in Verifiers, NEW c, NEW g, g = WithVerdict(f, v, c)
  PROVE  AreVers(g) /\ g[v].out = c /\ g[v].pc = f[v].pc /\ g[v].smtp = f[v].smtp /\ g[v].host = f[v].host /\ g[v].by = f[v].by /\ g[v].try = f[v].try /\ g[v].raced = f[v].raced /\ g[v].over = f[v].over /\ \A w \in Verifiers \ {v} : g[w] = f[w]
<1>1. PICK q : q = [f[v] EXCEPT !.out = c] OBVIOUS
<1>2. IsVer(f[v]) BY DEF AreVers
<1>3. IsVer(q) /\ q.out = c /\ q.pc = f[v].pc /\ q.smtp = f[v].smtp /\ q.host = f[v].host /\ q.by = f[v].by /\ q.try = f[v].try /\ q.raced = f[v].raced /\ q.over = f[v].over
  BY <1>1, <1>2, SetOut
<1>4. f = [w \in Verifiers |-> f[w]] BY DEF AreVers
<1>5. g = [w \in Verifiers |-> IF w = v THEN q ELSE f[w]] BY <1>1, <1>4 DEF WithVerdict
<1>6. IsVer(q) BY <1>3
<1>7. g[v] = q /\ \A w \in Verifiers \ {v} : g[w] = f[w] BY <1>5
<1>8. g = [w \in Verifiers |-> g[w]] BY <1>5
<1>9. \A w \in Verifiers : IsVer(g[w]) BY <1>6, <1>7, Zenon DEF AreVers
<1>10. AreVers(g) BY <1>8, <1>9, Zenon DEF AreVers
<1> QED BY <1>3, <1>7, <1>10

\* What a verification knows is a record of the kind.
LEMMA KnowsSmtp == ASSUME NEW r, IsVer(r) PROVE r.smtp \in SmtpRecords
  BY DEF IsVer

\* What is known before anything was asked.
LEMMA UnknownIs == SmtpUnknown \in SmtpRecords
  BY DEF SmtpUnknown, SmtpRecords

\* An answer is a record of the kind.
LEMMA CheckedIs == ASSUME NEW a \in {"null", "yes", "no"}, NEW c \in BOOLEAN PROVE SmtpChecked(a, c) \in SmtpRecords
  BY Zenon DEF SmtpUnknown, SmtpChecked, SmtpRecords

\* So is a rejection, with its reason.
LEMMA RejectedIs == ASSUME NEW s \in SmtpRecords, NEW c \in {"busy", "unwelcome", "rejected"} PROVE [s EXCEPT !.why = c] \in SmtpRecords
  BY DEF SmtpRecords

\* So is an answer that was put off.
LEMMA DeferredIs == ASSUME NEW s \in SmtpRecords PROVE [s EXCEPT !.grey = TRUE] \in SmtpRecords
  BY DEF SmtpRecords

\* So is an answer of which no more is believed than the address's kind allows.
LEMMA NotAllIs == ASSUME NEW s \in SmtpRecords PROVE [s EXCEPT !.catch = FALSE] \in SmtpRecords /\ ~[s EXCEPT !.catch = FALSE].catch
  BY DEF SmtpRecords

\* So is what enters the cache, and it never says of a free provider that it accepts everything.
LEMMA CorrectedIs ==
  ASSUME NEW s \in SmtpRecords
  PROVE  CorrectedCatchAll(s) \in SmtpRecords /\ ("free" \in flags => ~CorrectedCatchAll(s).catch)
  BY NotAllIs DEF CorrectedCatchAll

\* So is what is read from the cache.
LEMMA FromRowIs == ASSUME verCache \in RowRecords PROVE FromRow \in SmtpRecords
  BY Zenon DEF RowRecords, SmtpRecords, FromRow

\* So is what a probe makes of a conversation.
LEMMA LocalAnswerIs == ASSUME NEW c \in Conversation, NEW every \in BOOLEAN PROVE LocalAnswer(c, every) \in SmtpRecords
  BY CheckedIs, RejectedIs, DeferredIs, UnknownIs DEF LocalAnswer, Conversation

\* So are a relay's answer and a provider's.
LEMMA DefiniteIs == ASSUME NEW s \in Definite PROVE s \in SmtpRecords
  BY CheckedIs, RejectedIs, Zenon DEF Definite

\* So is the answer the probe keeps.
LEMMA ProbeAnswerIs == ASSUME NEW s \in SmtpRecords PROVE ProbeAnswer(s) \in SmtpRecords
  BY NotAllIs DEF ProbeAnswer

\* A verification that has not begun.
LEMMA IdleIs == IsVer(IdleVer) /\ IdleVer.pc = "idle" /\ IdleVer.out = NoVerdict /\ NoVerdict.reason \notin CatchAllReasons
  BY UnknownIs, Zenon DEF IsVer, IdleVer, NoVerdict, CatchAllReasons

\* The verdict that is kept, of an answer that does not say the domain accepts everything.
LEMMA PersistedIs ==
  ASSUME NEW f, NEW s \in SmtpRecords, ~s.catch PROVE Persisted(f, s).reason \notin CatchAllReasons
  BY ScoreNeverCatchAll, Zenon DEF CatchAllReasons, Persisted, Verdict

\* The invariant holds at the start.
LEMMA EngineStarts == EngineInit => EngineInv
<1> SUFFICES ASSUME EngineInit PROVE EngineInv OBVIOUS
<1>1. verCache = [left |-> 0, smtp |-> SmtpUnknown] BY DEF EngineInit, NoRow
<1>2. verCache \in RowRecords /\ ~CacheRow /\ verCache.smtp = SmtpUnknown
  BY <1>1, UnknownIs DEF RowRecords, CacheRow
<1>3. ~SmtpUnknown.catch BY DEF SmtpUnknown
<1>4. ver = [v \in Verifiers |-> IdleVer] BY DEF EngineInit
<1>5. ver = [v \in Verifiers |-> ver[v]] /\ \A v \in Verifiers : ver[v] = IdleVer BY <1>4
<1>6. AreVers(ver) BY <1>5, IdleIs, Zenon DEF AreVers
<1>7. \A v \in Verifiers : VerHolds(ver[v], CacheRow) BY <1>2, <1>5, IdleIs DEF VerHolds
<1>8. \E n : verGhost = [acts |-> n, again |-> FALSE, stale |-> FALSE] BY Zenon DEF EngineInit
<1> QED BY <1>2, <1>3, <1>6, <1>7, <1>8 DEF EngineInv, EngineTypes

\* Steps are counted, and nothing else.
LEMMA VerSpentCounts ==
  ASSUME EngineTypes, NEW k, VerSpent(k) PROVE \E n : verGhost' = [acts |-> n, again |-> FALSE, stale |-> FALSE]
<1>1. PICK n : verGhost = [acts |-> n, again |-> FALSE, stale |-> FALSE] BY DEF EngineTypes
<1>2. PICK m : m = n + k OBVIOUS
<1>3. verGhost.acts = n BY <1>1
<1>4. PICK h : h = [verGhost EXCEPT !.acts = m] OBVIOUS
<1>5. h = [acts |-> m, again |-> FALSE, stale |-> FALSE] BY <1>1, <1>4
<1>6. verGhost' = [verGhost EXCEPT !.acts = verGhost.acts + k] BY DEF VerSpent
<1>7. verGhost' = h BY <1>2, <1>3, <1>4, <1>6, Zenon
<1> QED BY <1>5, <1>7

\* Every step keeps the invariant.
LEMMA EngineStep == EngineInv /\ [EngineNext]_engineVars => EngineInv'
<1> SUFFICES ASSUME EngineInv, [EngineNext]_engineVars PROVE EngineInv' OBVIOUS
<1>t. verCache \in RowRecords /\ AreVers(ver) BY DEF EngineInv, EngineTypes
<1>n. PICK n : verGhost = [acts |-> n, again |-> FALSE, stale |-> FALSE] BY DEF EngineInv, EngineTypes
<1>i. ("free" \in flags => ~verCache.smtp.catch) /\ \A v \in Verifiers : VerHolds(ver[v], CacheRow)
  BY DEF EngineInv
<1>y. EngineTypes BY DEF EngineInv
<1>v. \A v \in Verifiers : IsVer(ver[v]) BY <1>t DEF AreVers
<1>g. ASSUME NEW z, AreVers(z), ver' = z, flags' = flags, verCache' \in RowRecords, "free" \in flags => ~verCache'.smtp.catch,
             \E m : verGhost' = [acts |-> m, again |-> FALSE, stale |-> FALSE], \A w \in Verifiers : VerHolds(z[w], CacheRow')
      PROVE EngineInv'
  BY <1>g, Zenon DEF AreVers, EngineTypes, VerHolds, EngineInv
<1>k. ASSUME NEW v \in Verifiers, NEW z, AreVers(z), \A w \in Verifiers \ {v} : z[w] = ver[w], ver' = z, flags' = flags, verCache' = verCache,
             \E m : verGhost' = [acts |-> m, again |-> FALSE, stale |-> FALSE], VerHolds(z[v], CacheRow)
      PROVE EngineInv'
  BY <1>k, <1>i, Zenon, <1>t, <1>g DEF CacheRow, VerHolds
<1>same. verGhost' = verGhost => \E m : verGhost' = [acts |-> m, again |-> FALSE, stale |-> FALSE] BY <1>n
<1>1. CASE VerifyEmail
  <2>1. \E v \in Verifiers : ver[v].pc = "idle" BY <1>1 DEF VerifyEmail
  <2>2. PICK v : v = FirstIdleVer OBVIOUS
  <2>3. v \in Verifiers /\ ver[v].pc = "idle" BY <2>1, <2>2 DEF FirstIdleVer
  <2>4. PICK c : c = IF Probes THEN "cache" ELSE "score" OBVIOUS
  <2>5. c \notin {"ask", "asked"} BY <2>4
  <2>6. PICK q : q = [IdleVer EXCEPT !.pc = c] OBVIOUS
  <2>7. IsVer(q) /\ q.pc = c /\ q.out = IdleVer.out BY <2>6, IdleIs, SetPc
  <2>8. ver' = [ver EXCEPT ![v] = q] BY <1>1, <2>2, <2>4, <2>6, Zenon DEF VerifyEmail
  <2>9. PICK z : z = [ver EXCEPT ![v] = q] OBVIOUS
  <2>10. ver = [w \in Verifiers |-> ver[w]] BY <1>t DEF AreVers
  <2>11. z = [w \in Verifiers |-> z[w]] /\ z[v] = q /\ \A w \in Verifiers \ {v} : z[w] = ver[w]
    BY <2>3, <2>9, <2>10
  <2>12. IsVer(q) BY <2>7
  <2>13. \A w \in Verifiers : IsVer(z[w]) BY <1>v, <2>11, <2>12, Zenon
  <2>14. AreVers(z) BY <2>11, <2>13, Zenon DEF AreVers
  <2>15. VerHolds(z[v], CacheRow) BY <2>5, <2>7, <2>11, IdleIs DEF VerHolds
  <2>16. \E k : VerSpent(k) BY <1>1 DEF VerifyEmail
  <2>17. \E m : verGhost' = [acts |-> m, again |-> FALSE, stale |-> FALSE] BY <1>y, <2>16, VerSpentCounts
  <2>18. flags' = flags /\ verCache' = verCache /\ ver' = z BY <1>1, <2>8, <2>9 DEF VerifyEmail
  <2> QED BY <1>k, <2>3, <2>11, <2>14, <2>15, <2>17, <2>18
<1>b. ASSUME NEW row, NEW mark \in {"no", "excused"}, Bounced(row, mark) \/ Bounced(NoRow, "kept"), row = verCache,
             \E m : verGhost' = [acts |-> m, again |-> FALSE, stale |-> FALSE]
      PROVE EngineInv'
  <2>1. PICK z : z = [v \in Verifiers |-> IF ver[v].pc # "idle" THEN [ver[v] EXCEPT !.raced = TRUE] ELSE ver[v]]
    OBVIOUS
  <2>2. ver' = z /\ flags' = flags BY <1>b, <2>1 DEF Bounced
  <2>3. ASSUME NEW v \in Verifiers PROVE IsVer(z[v]) /\ z[v].pc = ver[v].pc /\ z[v].over = ver[v].over /\ z[v].out = ver[v].out
    <3>1. PICK q : q = [ver[v] EXCEPT !.raced = TRUE] OBVIOUS
    <3>2. IsVer(ver[v]) BY <1>v
    <3>3. IsVer(q) /\ q.pc = ver[v].pc /\ q.over = ver[v].over /\ q.out = ver[v].out BY <3>1, <3>2, SetRaced
    <3>4. z[v] = q \/ z[v] = ver[v] BY <2>1, <3>1
    <3> QED BY <3>2, <3>3, <3>4
  <2>4. z = [v \in Verifiers |-> z[v]] BY <2>1
  <2>5. AreVers(z) BY <2>3, <2>4, Zenon DEF AreVers
  <2>6. verCache' \in RowRecords /\ ("free" \in flags => ~verCache'.smtp.catch) /\ (CacheRow' => CacheRow)
    <3>1. CASE verCache' = NoRow BY <3>1, UnknownIs DEF NoRow, RowRecords, CacheRow, SmtpUnknown
    <3>2. CASE verCache' = [verCache EXCEPT !.smtp.old = mark]
      BY <1>t, <1>b, <3>2, <1>i DEF RowRecords, SmtpRecords, CacheRow
    <3>3. verCache' = NoRow \/ verCache' = [verCache EXCEPT !.smtp.old = mark] BY <1>b, Zenon DEF Bounced
    <3> QED BY <3>1, <3>2, <3>3
  <2>7. \A w \in Verifiers : VerHolds(z[w], CacheRow') BY <1>i, <2>3, <2>6 DEF VerHolds
  <2> QED BY <1>b, <1>g, <2>2, <2>5, <2>6, <2>7
<1>2. CASE CorrectOnGroundTruth BY <1>2, <1>y, VerSpentCounts, <1>b DEF CorrectOnGroundTruth, Invalidated
<1>3. CASE InvalidateFails BY <1>3, <1>y, VerSpentCounts, <1>b DEF InvalidateFails
<1>4. CASE EngineTick
  BY <1>4, <1>y, VerSpentCounts, <1>t, <1>i, <1>g DEF EngineTick, RowRecords, CacheRow, VerHolds
<1>5. ASSUME NEW v \in Verifiers, GetSmtpCache(v) PROVE EngineInv'
  <2>1. PICK c : c = CASE CacheRow -> "score" [] verCache = NoRow -> "probe" [] OTHER -> "expired" OBVIOUS
  <2>2. c \notin {"ask", "asked"} BY <2>1
  <2>3. PICK y : y = WithPc(ver, v, c) OBVIOUS
  <2>4. AreVers(y) /\ y[v].pc = c /\ y[v].smtp = ver[v].smtp /\ y[v].out = ver[v].out /\ \A w \in Verifiers \ {v} : y[w] = ver[w]
    BY <1>t, <2>3, SetPcOf
  <2>5. PICK s : s = IF CacheRow THEN FromRow ELSE y[v].smtp OBVIOUS
  <2>6. ver[v].smtp \in SmtpRecords BY <1>v, KnowsSmtp
  <2>7. s \in SmtpRecords BY <1>t, <2>4, <2>5, <2>6, FromRowIs
  <2>8. PICK z : z = WithSmtp(y, v, s) OBVIOUS
  <2>9. AreVers(y) BY <2>4
  <2>10. AreVers(z) /\ z[v].pc = y[v].pc /\ z[v].out = y[v].out /\ \A w \in Verifiers \ {v} : z[w] = y[w]
    BY <2>7, <2>8, <2>9, SetSmtpOf
  <2>11. [ver EXCEPT ![v].pc = c, ![v].smtp = IF CacheRow THEN FromRow ELSE @] = [y EXCEPT ![v].smtp = IF CacheRow THEN FromRow ELSE @]
    BY <2>3 DEF WithPc
  <2>12. ver' = [ver EXCEPT ![v].pc = c, ![v].smtp = IF CacheRow THEN FromRow ELSE @]
    BY <1>5, <2>1, Zenon DEF GetSmtpCache
  <2>13. ver' = z BY <2>5, <2>8, <2>11, <2>12 DEF WithSmtp
  <2> QED BY <1>i, <2>2, <2>4, <2>10, <1>5, <1>k, <1>same, <2>13 DEF VerHolds, GetSmtpCache
<1>6. ASSUME NEW v \in Verifiers, SmtpVerifyWithCache(v) PROVE EngineInv'
  <2>1. PICK c : c = SecondLook(v) OBVIOUS
  <2>2. c # "asked" /\ (c = "ask" => ~CacheRow) BY <2>1 DEF CacheRow, NoRow, SecondLook
  <2>3. PICK y : y = WithPc(ver, v, c) OBVIOUS
  <2>4. AreVers(y) /\ y[v].pc = c /\ y[v].smtp = ver[v].smtp /\ y[v].out = ver[v].out /\ \A w \in Verifiers \ {v} : y[w] = ver[w]
    BY <1>t, <2>3, SetPcOf
  <2>5. PICK s : s = IF c = "score" THEN FromRow ELSE y[v].smtp OBVIOUS
  <2>6. ver[v].smtp \in SmtpRecords BY <1>v, KnowsSmtp
  <2>7. s \in SmtpRecords BY <1>t, <2>4, <2>5, <2>6, FromRowIs
  <2>8. PICK z : z = WithSmtp(y, v, s) OBVIOUS
  <2>9. AreVers(y) BY <2>4
  <2>10. AreVers(z) /\ z[v].pc = y[v].pc /\ z[v].out = y[v].out /\ \A w \in Verifiers \ {v} : z[w] = y[w]
    BY <2>7, <2>8, <2>9, SetSmtpOf
  <2>11. [ver EXCEPT ![v].pc = c, ![v].smtp = IF c = "score" THEN FromRow ELSE @] = [y EXCEPT ![v].smtp = IF c = "score" THEN FromRow ELSE @]
    BY <2>3 DEF WithPc
  <2>12. ver' = [ver EXCEPT ![v].pc = c, ![v].smtp = IF c = "score" THEN FromRow ELSE @]
    BY <1>6, <2>1, Zenon DEF SmtpVerifyWithCache
  <2>13. ver' = z BY <2>5, <2>8, <2>11, <2>12 DEF WithSmtp
  <2>14. VerHolds(z[v], CacheRow) BY <1>i, <2>2, <2>4, <2>10 DEF VerHolds
  <2>15. flags' = flags /\ verCache' = verCache /\ verGhost' = verGhost BY <1>6 DEF SmtpVerifyWithCache
  <2>16. \A w \in Verifiers \ {v} : z[w] = ver[w] BY <2>4, <2>10
  <2>17. AreVers(z) BY <2>10
  <2> QED BY <1>k, <1>same, <2>13, <2>14, <2>15, <2>16, <2>17
<1>7. ASSUME NEW v \in Verifiers, NEW r \in SmtpRecords, AfterProbe(v, r) PROVE EngineInv'
  <2>1. PICK s : s = ProbeAnswer(r) OBVIOUS
  <2>2. s \in SmtpRecords BY <2>1, ProbeAnswerIs
  <2>3. PICK x : x = WithSmtp(ver, v, s) OBVIOUS
  <2>4. AreVers(x) /\ x[v].host = ver[v].host /\ x[v].out = ver[v].out /\ \A w \in Verifiers \ {v} : x[w] = ver[w]
    BY <1>t, <2>2, <2>3, SetSmtpOf
  <2>5. PICK c : c = CASE r.checked -> "keepProbe" [] ~r.checked /\ ver[v].host < MxHosts -> "probe" [] OTHER -> "second"
    OBVIOUS
  <2>6. c \notin {"ask", "asked"} BY <2>5 DEF SmtpRecords
  <2>7. PICK y : y = WithPc(x, v, c) OBVIOUS
  <2>8. AreVers(x) BY <2>4
  <2>9. AreVers(y) /\ y[v].pc = c /\ y[v].host = x[v].host /\ y[v].out = x[v].out /\ \A w \in Verifiers \ {v} : y[w] = x[w]
    BY <2>7, <2>8, SetPcOf
  <2>10. PICK h : h = IF ~r.checked /\ y[v].host < MxHosts THEN y[v].host + 1 ELSE y[v].host OBVIOUS
  <2>11. PICK z : z = WithHost(y, v, h) OBVIOUS
  <2>12. AreVers(y) BY <2>9
  <2>13. AreVers(z) /\ z[v].pc = y[v].pc /\ z[v].out = y[v].out /\ \A w \in Verifiers \ {v} : z[w] = y[w]
    BY <2>11, <2>12, SetHostOf
  <2>14. ver' = [ver EXCEPT ![v].smtp = s, ![v].pc = c, ![v].host = IF ~r.checked /\ @ < MxHosts THEN @ + 1 ELSE @]
    BY <1>7, <2>1, <2>5, Zenon DEF AfterProbe
  <2>15. [ver EXCEPT ![v].smtp = s, ![v].pc = c, ![v].host = IF ~r.checked /\ @ < MxHosts THEN @ + 1 ELSE @]
         = [x EXCEPT ![v].pc = c, ![v].host = IF ~r.checked /\ @ < MxHosts THEN @ + 1 ELSE @]
    BY <2>3 DEF WithSmtp
  <2>16. [x EXCEPT ![v].pc = c, ![v].host = IF ~r.checked /\ @ < MxHosts THEN @ + 1 ELSE @]
         = [y EXCEPT ![v].host = IF ~r.checked /\ @ < MxHosts THEN @ + 1 ELSE @]
    BY <2>7 DEF WithPc
  <2>17. [y EXCEPT ![v].host = IF ~r.checked /\ @ < MxHosts THEN @ + 1 ELSE @] = z BY <2>10, <2>11 DEF WithHost
  <2>18. ver' = z BY <2>14, <2>15, <2>16, <2>17, Zenon
  <2>19. VerHolds(z[v], CacheRow) BY <1>i, <2>4, <2>6, <2>9, <2>13 DEF VerHolds
  <2>20. flags' = flags /\ verCache' = verCache /\ verGhost' = verGhost BY <1>7 DEF AfterProbe
  <2>21. \A w \in Verifiers \ {v} : z[w] = ver[w] BY <2>4, <2>9, <2>13
  <2>22. AreVers(z) BY <2>13
  <2> QED BY <1>k, <1>same, <2>18, <2>19, <2>20, <2>21, <2>22
<1>8. ASSUME NEW v \in Verifiers, LocalProbe(v) PROVE EngineInv' BY <1>8, LocalAnswerIs, <1>7 DEF LocalProbe
<1>9. ASSUME NEW v \in Verifiers, RemoteProbe(v) PROVE EngineInv'
  BY <1>9, CheckedIs, DeferredIs, RejectedIs, UnknownIs, Zenon, <1>7 DEF RemoteProbe
<1>p. ASSUME NEW v \in Verifiers, NEW c, ver' = [ver EXCEPT ![v].pc = c], c \notin {"ask", "asked"}, flags' = flags, verCache' = verCache,
             \E m : verGhost' = [acts |-> m, again |-> FALSE, stale |-> FALSE]
      PROVE EngineInv'
  <2>1. PICK z : z = WithPc(ver, v, c) OBVIOUS
  <2>2. AreVers(z) /\ z[v].pc = c /\ z[v].out = ver[v].out /\ \A w \in Verifiers \ {v} : z[w] = ver[w]
    BY <1>t, <2>1, SetPcOf
  <2>3. ver' = z BY <1>p, <2>1 DEF WithPc
  <2>4. VerHolds(z[v], CacheRow) BY <1>i, <1>p, <2>2 DEF VerHolds
  <2> QED BY <1>k, <1>p, <2>2, <2>3, <2>4
<1>10. ASSUME NEW v \in Verifiers, RelayUnreachable(v) PROVE EngineInv'
  <2>1. \E m : verGhost' = [acts |-> m, again |-> FALSE, stale |-> FALSE]
    BY <1>10, <1>y, VerSpentCounts DEF RelayUnreachable
  <2>2. PICK c : c = "second" OBVIOUS
  <2>3. ver' = [ver EXCEPT ![v].pc = c] /\ flags' = flags /\ verCache' = verCache
    BY <1>10, <2>2 DEF RelayUnreachable
  <2>4. c \notin {"ask", "asked"} BY <2>2
  <2> QED BY <1>p, <2>1, <2>3, <2>4
<1>11. ASSUME NEW v \in Verifiers, StoreFails(v) PROVE EngineInv'
  <2>1. \E m : verGhost' = [acts |-> m, again |-> FALSE, stale |-> FALSE]
    BY <1>11, <1>y, VerSpentCounts DEF StoreFails
  <2>2. PICK c : c = "score" OBVIOUS
  <2>3. ver' = [ver EXCEPT ![v].pc = c] /\ flags' = flags /\ verCache' = verCache BY <1>11, <2>2 DEF StoreFails
  <2>4. c \notin {"ask", "asked"} BY <2>2
  <2> QED BY <1>p, <2>1, <2>3, <2>4
<1>12. ASSUME NEW v \in Verifiers, AskProvider(v) PROVE EngineInv'
  <2>1. PICK c : c = "asked" OBVIOUS
  <2>2. PICK y : y = WithPc(ver, v, c) OBVIOUS
  <2>3. AreVers(y) /\ y[v].pc = c /\ y[v].over = ver[v].over /\ y[v].out = ver[v].out /\ \A w \in Verifiers \ {v} : y[w] = ver[w]
    BY <1>t, <2>2, SetPcOf
  <2>4. PICK b : b = IF y[v].by = 1 /\ ~zeroBounce THEN 2 ELSE y[v].by OBVIOUS
  <2>5. PICK z : z = WithBy(y, v, b) OBVIOUS
  <2>6. AreVers(y) BY <2>3
  <2>7. AreVers(z) /\ z[v].pc = y[v].pc /\ z[v].over = y[v].over /\ z[v].out = y[v].out /\ \A w \in Verifiers \ {v} : z[w] = y[w]
    BY <2>5, <2>6, SetByOf
  <2>8. ver' = [ver EXCEPT ![v].pc = c, ![v].by = IF @ = 1 /\ ~zeroBounce THEN 2 ELSE @]
    BY <1>12, <2>1 DEF AskProvider
  <2>9. [ver EXCEPT ![v].pc = c, ![v].by = IF @ = 1 /\ ~zeroBounce THEN 2 ELSE @] = [y EXCEPT ![v].by = IF @ = 1 /\ ~zeroBounce THEN 2 ELSE @]
    BY <2>2 DEF WithPc
  <2>10. [y EXCEPT ![v].by = IF @ = 1 /\ ~zeroBounce THEN 2 ELSE @] = z BY <2>4, <2>5 DEF WithBy
  <2>11. ver' = z BY <2>8, <2>9, <2>10, Zenon
  <2>12. ver[v].pc = "ask" /\ flags' = flags /\ verCache' = verCache BY <1>12 DEF AskProvider
  <2>13. VerHolds(ver[v], CacheRow) BY <1>i
  <2>14. VerHolds(z[v], CacheRow) BY <2>3, <2>7, <2>12, <2>13 DEF VerHolds
  <2>15. ~(CacheRow /\ ~ver[v].over) BY <2>12, <2>13 DEF VerHolds
  <2>16. verGhost.again = FALSE BY <1>n
  <2>17. PICK a \in BOOLEAN : a = (verGhost.again \/ (CacheRow /\ ~ver[v].over)) BY Zenon
  <2>18. a = FALSE BY <2>15, <2>16, <2>17, Zenon
  <2>19. verGhost' = [verGhost EXCEPT !.again = a] BY <1>12, <2>17, Zenon DEF AskProvider
  <2>20. verGhost' = [acts |-> n, again |-> a, stale |-> FALSE] BY <1>n, <2>19
  <2>21. \E m : verGhost' = [acts |-> m, again |-> FALSE, stale |-> FALSE] BY <2>18, <2>20
  <2>22. AreVers(z) BY <2>7
  <2>23. \A w \in Verifiers \ {v} : z[w] = ver[w] BY <2>3, <2>7
  <2> QED BY <1>k, <2>11, <2>12, <2>14, <2>21, <2>22, <2>23
<1>13. ASSUME NEW v \in Verifiers, NEW s \in Definite, Bought(v, s), flags' = flags, verCache' = verCache, verGhost' = verGhost PROVE EngineInv'
  <2>1. s \in SmtpRecords BY DefiniteIs
  <2>2. PICK y : y = WithSmtp(ver, v, s) OBVIOUS
  <2>3. AreVers(y) /\ y[v].out = ver[v].out /\ \A w \in Verifiers \ {v} : y[w] = ver[w]
    BY <1>t, <2>1, <2>2, SetSmtpOf
  <2>4. PICK c : c = "keepPaid" OBVIOUS
  <2>5. PICK z : z = WithPc(y, v, c) OBVIOUS
  <2>6. AreVers(y) BY <2>3
  <2>7. AreVers(z) /\ z[v].pc = c /\ z[v].out = y[v].out /\ \A w \in Verifiers \ {v} : z[w] = y[w]
    BY <2>5, <2>6, SetPcOf
  <2>8. [ver EXCEPT ![v].smtp = s, ![v].pc = c] = [y EXCEPT ![v].pc = c] BY <2>2 DEF WithSmtp
  <2>9. ver' = z BY <1>13, <2>4, <2>5, <2>8, Zenon DEF Bought, WithPc
  <2>10. VerHolds(z[v], CacheRow) BY <1>i, <2>3, <2>4, <2>7 DEF VerHolds
  <2>11. \A w \in Verifiers \ {v} : z[w] = ver[w] BY <2>3, <2>7
  <2>12. AreVers(z) BY <2>7
  <2> QED BY <1>k, <1>same, <1>13, <2>9, <2>10, <2>11, <2>12
<1>14. ASSUME NEW v \in Verifiers, ver[v].pc = "asked", AskAgain(v), flags' = flags, verCache' = verCache, verGhost' = verGhost PROVE EngineInv'
  <2>1. PICK t : t = ver[v].try + 1 OBVIOUS
  <2>2. PICK y : y = WithTry(ver, v, t) OBVIOUS
  <2>3. AreVers(y) /\ y[v].over = ver[v].over /\ y[v].out = ver[v].out /\ \A w \in Verifiers \ {v} : y[w] = ver[w]
    BY <1>t, <2>2, SetTryOf
  <2>4. PICK c : c = "ask" OBVIOUS
  <2>5. PICK z : z = WithPc(y, v, c) OBVIOUS
  <2>6. AreVers(y) BY <2>3
  <2>7. AreVers(z) /\ z[v].pc = c /\ z[v].over = y[v].over /\ z[v].out = y[v].out /\ \A w \in Verifiers \ {v} : z[w] = y[w]
    BY <2>5, <2>6, SetPcOf
  <2>8. [ver EXCEPT ![v].try = t, ![v].pc = c] = [y EXCEPT ![v].pc = c] BY <2>2 DEF WithTry
  <2>9. ver' = [ver EXCEPT ![v].try = t, ![v].pc = c] BY <1>14, <2>1, <2>4 DEF AskAgain
  <2>10. ver' = z BY <2>5, <2>8, <2>9, Zenon DEF WithPc
  <2>11. VerHolds(ver[v], CacheRow) BY <1>i
  <2>12. VerHolds(z[v], CacheRow) BY <1>14, <2>3, <2>4, <2>7, <2>11 DEF VerHolds
  <2>13. \A w \in Verifiers \ {v} : z[w] = ver[w] BY <2>3, <2>7
  <2>14. AreVers(z) BY <2>7
  <2> QED BY <1>k, <1>same, <1>14, <2>10, <2>12, <2>13, <2>14
<1>15. ASSUME NEW v \in Verifiers, CallZeroBounce(v) PROVE EngineInv'
  <2>1. ver[v].pc = "asked" /\ flags' = flags /\ verCache' = verCache /\ verGhost' = verGhost
    BY <1>15 DEF CallZeroBounce
  <2>2. ASSUME NEW s \in Definite, Bought(v, s) PROVE EngineInv' BY <1>13, <2>1, <2>2
  <2>3. CASE AskAgain(v) BY <1>14, <2>1, <2>3
  <2>4. CASE ver' = [ver EXCEPT ![v].pc = "ask", ![v].by = 2, ![v].try = 1]
    <3>1. PICK c : c = "ask" OBVIOUS
    <3>2. PICK x : x = WithPc(ver, v, c) OBVIOUS
    <3>3. AreVers(x) /\ x[v].pc = c /\ x[v].over = ver[v].over /\ x[v].out = ver[v].out /\ \A w \in Verifiers \ {v} : x[w] = ver[w]
      BY <1>t, <3>2, SetPcOf
    <3>4. PICK y : y = WithBy(x, v, 2) OBVIOUS
    <3>5. AreVers(x) BY <3>3
    <3>6. AreVers(y) /\ y[v].pc = x[v].pc /\ y[v].over = x[v].over /\ y[v].out = x[v].out /\ \A w \in Verifiers \ {v} : y[w] = x[w]
      BY <3>4, <3>5, SetByOf
    <3>7. PICK z : z = WithTry(y, v, 1) OBVIOUS
    <3>8. AreVers(y) BY <3>6
    <3>9. AreVers(z) /\ z[v].pc = y[v].pc /\ z[v].over = y[v].over /\ z[v].out = y[v].out /\ \A w \in Verifiers \ {v} : z[w] = y[w]
      BY <3>7, <3>8, SetTryOf
    <3>10. [ver EXCEPT ![v].pc = c, ![v].by = 2, ![v].try = 1] = [x EXCEPT ![v].by = 2, ![v].try = 1]
      BY <3>2 DEF WithPc
    <3>11. [x EXCEPT ![v].by = 2, ![v].try = 1] = [y EXCEPT ![v].try = 1] BY <3>4 DEF WithBy
    <3>12. ver' = z BY <2>4, <3>1, <3>7, <3>10, <3>11, Zenon DEF WithTry
    <3>13. VerHolds(ver[v], CacheRow) BY <1>i
    <3>14. VerHolds(z[v], CacheRow) BY <2>1, <3>1, <3>3, <3>6, <3>9, <3>13 DEF VerHolds
    <3>15. \A w \in Verifiers \ {v} : z[w] = ver[w] BY <3>3, <3>6, <3>9
    <3>16. AreVers(z) BY <3>9
    <3> QED BY <1>k, <1>same, <2>1, <3>12, <3>14, <3>15, <3>16
  <2>5. (\E s \in Definite : Bought(v, s)) \/ AskAgain(v) \/ ver' = [ver EXCEPT ![v].pc = "ask", ![v].by = 2, ![v].try = 1]
    BY <1>15, Zenon DEF CallZeroBounce
  <2> QED BY <2>2, <2>3, <2>4, <2>5
<1>16. ASSUME NEW v \in Verifiers, CallMillionVerifier(v) PROVE EngineInv'
  <2>1. ver[v].pc = "asked" /\ flags' = flags /\ verCache' = verCache /\ verGhost' = verGhost
    BY <1>16 DEF CallMillionVerifier
  <2>2. ASSUME NEW s \in Definite, Bought(v, s) PROVE EngineInv' BY <1>13, <2>1, <2>2
  <2>3. CASE AskAgain(v) BY <1>14, <2>1, <2>3
  <2>4. CASE ver' = [ver EXCEPT ![v].pc = "score"]
    <3>1. PICK c : c = "score" OBVIOUS
    <3>2. c \notin {"ask", "asked"} /\ ver' = [ver EXCEPT ![v].pc = c] BY <2>4, <3>1
    <3> QED BY <1>p, <1>same, <2>1, <3>2
  <2>5. (\E s \in Definite : Bought(v, s)) \/ AskAgain(v) \/ ver' = [ver EXCEPT ![v].pc = "score"]
    BY <1>16, Zenon DEF CallMillionVerifier
  <2> QED BY <2>2, <2>3, <2>4, <2>5
<1>17. ASSUME NEW v \in Verifiers, StoreCache(v) PROVE EngineInv'
  <2>1. PICK r : r = ver[v].smtp OBVIOUS
  <2>2. r \in SmtpRecords BY <1>v, <2>1, KnowsSmtp
  <2>3. PICK m \in {"no", "excused"} : m = IF ver[v].raced THEN "excused" ELSE "no" OBVIOUS
  <2>4. PICK s : s = [r EXCEPT !.old = m] OBVIOUS
  <2>5. s \in SmtpRecords BY <2>2, <2>4 DEF SmtpRecords
  <2>6. PICK d : d = CorrectedCatchAll(s) OBVIOUS
  <2>7. d \in SmtpRecords /\ ("free" \in flags => ~d.catch) BY <2>5, <2>6, CorrectedIs
  <2>8. PICK l : l = Lifetime(s) OBVIOUS
  <2>9. l \in Nat BY <2>8 DEF Lifetime
  <2>10. verCache' = [left |-> l, smtp |-> d]
    BY <1>17, <2>1, <2>3, <2>4, <2>6, <2>8, Zenon DEF StoreCache, StoredRow
  <2>11. verCache' \in RowRecords /\ ("free" \in flags => ~verCache'.smtp.catch)
    BY <2>7, <2>9, <2>10 DEF RowRecords
  <2>12. PICK y : y = Overlooked(v) OBVIOUS
  <2>13. ASSUME NEW w \in Verifiers
         PROVE  IsVer(y[w]) /\ y[w].pc = ver[w].pc /\ y[w].out = ver[w].out /\ (w # v => (y[w].pc \in {"ask", "asked"} => y[w].over))
    BY <1>v, SetOver, <2>12 DEF Overlooked
  <2>14. y = [w \in Verifiers |-> y[w]] BY <2>12 DEF Overlooked
  <2>15. AreVers(y) BY <2>13, <2>14, Zenon DEF AreVers
  <2>16. PICK c : c = "score" OBVIOUS
  <2>17. PICK z : z = WithPc(y, v, c) OBVIOUS
  <2>18. AreVers(z) /\ z[v].pc = c /\ z[v].out = y[v].out /\ \A w \in Verifiers \ {v} : z[w] = y[w]
    BY <2>15, <2>17, SetPcOf
  <2>19. ver' = z BY <1>17, <2>12, <2>16, <2>17, Zenon DEF StoreCache, WithPc
  <2>20. \A w \in Verifiers : VerHolds(z[w], CacheRow')
    <3>1. VerHolds(z[v], CacheRow') BY <1>i, <2>13, <2>16, <2>18 DEF VerHolds
    <3>2. ASSUME NEW w \in Verifiers, w # v PROVE VerHolds(z[w], CacheRow')
      BY <1>i, <2>13, <2>18, <3>2 DEF VerHolds
    <3> QED BY <3>1, <3>2
  <2>21. flags' = flags /\ verGhost' = verGhost BY <1>17 DEF StoreCache
  <2>22. AreVers(z) BY <2>18
  <2> QED BY <1>g, <1>same, <2>11, <2>19, <2>20, <2>21, <2>22
<1>18. ASSUME NEW v \in Verifiers, DeleteExpired(v) PROVE EngineInv'
  <2>1. verCache' = [left |-> 0, smtp |-> SmtpUnknown] BY <1>18 DEF DeleteExpired, NoRow
  <2>2. verCache' \in RowRecords /\ verCache'.smtp = SmtpUnknown /\ ~CacheRow'
    BY <2>1, UnknownIs DEF RowRecords, CacheRow
  <2>3. ~SmtpUnknown.catch BY DEF SmtpUnknown
  <2>4. PICK c : c = IF ver[v].pc = "expired" THEN "probe" ELSE "ask" OBVIOUS
  <2>5. PICK z : z = WithPc(ver, v, c) OBVIOUS
  <2>6. AreVers(z) /\ z[v].out = ver[v].out /\ \A w \in Verifiers \ {v} : z[w] = ver[w] BY <1>t, <2>5, SetPcOf
  <2>7. ver' = z BY <1>18, <2>4, <2>5 DEF DeleteExpired, WithPc
  <2>8. \A w \in Verifiers : VerHolds(z[w], CacheRow')
    <3>1. VerHolds(z[v], CacheRow') BY <1>i, <2>2, <2>6 DEF VerHolds
    <3>2. ASSUME NEW w \in Verifiers, w # v PROVE VerHolds(z[w], CacheRow')
      BY <1>i, <2>2, <2>6, <3>2 DEF VerHolds
    <3> QED BY <3>1, <3>2
  <2>9. flags' = flags /\ verGhost' = verGhost BY <1>18 DEF DeleteExpired
  <2>10. AreVers(z) BY <2>6
  <2>11. "free" \in flags => ~verCache'.smtp.catch BY <2>2, <2>3
  <2>12. verCache' \in RowRecords BY <2>2
  <2> QED BY <1>g, <1>same, <2>7, <2>8, <2>9, <2>10, <2>11, <2>12
<1>19. ASSUME NEW v \in Verifiers, PersistAndReturn(v) PROVE EngineInv'
  <2>1. PICK r : r = ver[v].smtp OBVIOUS
  <2>2. r \in SmtpRecords BY <1>v, <2>1, KnowsSmtp
  <2>3. PICK d : d = CorrectedCatchAll(r) OBVIOUS
  <2>4. d \in SmtpRecords /\ ("free" \in flags => ~d.catch) BY <2>2, <2>3, CorrectedIs
  <2>5. PICK c : c = "answered" OBVIOUS
  <2>6. PICK x : x = WithPc(ver, v, c) OBVIOUS
  <2>7. AreVers(x) /\ x[v].pc = c /\ x[v].smtp = ver[v].smtp /\ \A w \in Verifiers \ {v} : x[w] = ver[w]
    BY <1>t, <2>6, SetPcOf
  <2>8. PICK y : y = WithSmtp(x, v, d) OBVIOUS
  <2>9. AreVers(x) /\ d \in SmtpRecords BY <2>4, <2>7
  <2>10. AreVers(y) /\ y[v].pc = x[v].pc /\ \A w \in Verifiers \ {v} : y[w] = x[w] BY <2>8, <2>9, SetSmtpOf
  <2>11. PICK u : u = Persisted(flags, d) OBVIOUS
  <2>12. PICK z : z = WithVerdict(y, v, u) OBVIOUS
  <2>13. AreVers(y) BY <2>10
  <2>14. AreVers(z) /\ z[v].out = u /\ z[v].pc = y[v].pc /\ \A w \in Verifiers \ {v} : z[w] = y[w]
    BY <2>12, <2>13, SetOutOf
  <2>15. "free" \in flags => u.reason \notin CatchAllReasons BY <2>4, <2>11, PersistedIs
  <2>16. ver' = [ver EXCEPT ![v].pc = c, ![v].smtp = CorrectedCatchAll(@), ![v].out = u]
    BY <1>19, <2>1, <2>3, <2>5, <2>11 DEF PersistAndReturn
  <2>17. [ver EXCEPT ![v].pc = c, ![v].smtp = CorrectedCatchAll(@), ![v].out = u] = [x EXCEPT ![v].smtp = CorrectedCatchAll(@), ![v].out = u]
    BY <2>6 DEF WithPc
  <2>18. CorrectedCatchAll(x[v].smtp) = d BY <2>1, <2>3, <2>7
  <2>19. [x EXCEPT ![v].smtp = CorrectedCatchAll(@), ![v].out = u] = [y EXCEPT ![v].out = u]
    BY <2>8, <2>18 DEF WithSmtp
  <2>20. ver' = z BY <2>12, <2>16, <2>17, <2>19, Zenon DEF WithVerdict
  <2>21. VerHolds(z[v], CacheRow) BY <2>5, <2>7, <2>10, <2>14, <2>15 DEF VerHolds
  <2>22. r.old # "kept" BY <2>2 DEF SmtpRecords
  <2>23. PICK b \in BOOLEAN : b = (verGhost.stale \/ (ver[v].smtp.old = "kept" /\ ~ver[v].raced)) BY Zenon
  <2>24. verGhost.stale = FALSE BY <1>n
  <2>25. b = FALSE BY <2>1, <2>22, <2>23, <2>24, Zenon
  <2>26. verGhost' = [verGhost EXCEPT !.stale = b] BY <1>19, <2>23, Zenon DEF PersistAndReturn
  <2>27. verGhost' = [acts |-> n, again |-> FALSE, stale |-> b] BY <1>n, <2>26
  <2>28. \E m : verGhost' = [acts |-> m, again |-> FALSE, stale |-> FALSE] BY <2>25, <2>27
  <2>29. flags' = flags /\ verCache' = verCache BY <1>19 DEF PersistAndReturn
  <2>30. \A w \in Verifiers \ {v} : z[w] = ver[w] BY <2>7, <2>10, <2>14
  <2>31. AreVers(z) BY <2>14
  <2> QED BY <1>k, <2>20, <2>21, <2>28, <2>29, <2>30, <2>31
<1>20. ASSUME NEW v \in Verifiers, VerAnswer(v) PROVE EngineInv'
  <2>1. PICK z : z = [ver EXCEPT ![v] = IdleVer] OBVIOUS
  <2>2. ver = [w \in Verifiers |-> ver[w]] BY <1>t DEF AreVers
  <2>3. z = [w \in Verifiers |-> z[w]] /\ z[v] = IdleVer /\ \A w \in Verifiers \ {v} : z[w] = ver[w]
    BY <2>1, <2>2
  <2>4. IsVer(IdleVer) BY IdleIs
  <2>5. \A w \in Verifiers : IsVer(z[w]) BY <1>v, <2>3, <2>4, Zenon
  <2>6. AreVers(z) BY <2>3, <2>5, Zenon DEF AreVers
  <2>7. VerHolds(z[v], CacheRow) BY <2>3, IdleIs DEF VerHolds
  <2>8. ver' = z /\ flags' = flags /\ verCache' = verCache /\ verGhost' = verGhost BY <1>20, <2>1 DEF VerAnswer
  <2> QED BY <1>k, <1>same, <2>3, <2>6, <2>7, <2>8
<1>21. CASE UNCHANGED engineVars BY <1>21, <1>i, <1>t, <1>g, <1>same DEF engineVars, CacheRow
<1> QED
  BY <1>1, <1>2, <1>3, <1>4, <1>5, <1>6, <1>8, <1>9, <1>10, <1>11, <1>12, <1>15, <1>16, <1>17, <1>18, <1>19, <1>20, <1>21 DEF EngineNext

\* What it says of the properties.
LEMMA EngineMeans == EngineInv => VerdictsHold
  BY DEF EngineInv, EngineTypes, VerHolds, CatchAllReasons, VerdictsHold, BounceForgets, BoughtOnce,
     FreeNeverCatchAll

----------------------------------------------------------------------------
(***************************************************************************)
(* ApiKeys.  A copy that lacks a change was younger than the change, and   *)
(* its age runs with its time; a request that is about to revoke has, or   *)
(* has made, another key that is not the one to go.                        *)
(***************************************************************************)

\* A copy of a row.
CopyRecords == [left : Nat, stale : Nat, late : BOOLEAN]

\* A request.
IsAsk(r) == \E p, k, t, s :
  /\ r = [pc |-> p, key |-> k, target |-> t, stale |-> s]
  /\ p \in {"idle", "found", "in", "replace", "retire", "first"} /\ s \in Nat

\* A row.
IsKeyRow(r) == \E s, e : r = [st |-> s, exp |-> e]

\* What the variables of ApiKeys hold.
KeyTypes ==
  /\ keyRow = [k \in KeyIds |-> keyRow[k]] /\ \A k \in KeyIds : IsKeyRow(keyRow[k])
  /\ keyCopy \in [KeyIds -> CopyRecords]
  /\ ask = [c \in Callers |-> ask[c]] /\ \A c \in Callers : IsAsk(ask[c])
  /\ \E o, d, n : served = [overdue |-> FALSE, out |-> o, dead |-> d, acts |-> n] /\ {o, d} \subseteq BOOLEAN

\* A copy's time is up a minute after the first change it lacks, unless the lookup lacked it.
CopyHolds(e) == e.left <= TTL /\ (e.left > 0 /\ e.stale > 0 /\ ~e.late => e.stale + e.left <= TTL + 1)

\* A request is in by a key there is, and revokes another.
AskHolds(r, row) ==
  /\ r.pc \in {"found", "in", "replace", "retire"} => r.key \in KeyIds
  /\ r.pc \in {"replace", "retire"} => r.target \in KeyIds /\ row[r.target].st # "absent"
  /\ r.pc = "retire" => r.key # r.target

\* The inductive invariant of ApiKeys.
ApiKeysInv ==
  /\ KeyTypes
  /\ \A k \in KeyIds : CopyHolds(keyCopy[k])
  /\ \A c \in Callers : AskHolds(ask[c], keyRow)
  /\ NeverLockedOut

\* A request that begins.
NewAsk(p, k) == [NoAsk EXCEPT !.pc = p, !.key = k]

\* It is one, and holds what it is given.
LEMMA AskIs ==
  ASSUME NEW p \in {"idle", "found", "in", "replace", "retire", "first"}, NEW k, NEW r, r = NewAsk(p, k)
  PROVE  IsAsk(r) /\ r.pc = p /\ r.key = k
  BY Zenon DEF NoAsk, NewAsk, IsAsk

\* A request that has not begun.
LEMMA NoAskIs == IsAsk(NoAsk) /\ NoAsk.pc = "idle"
  BY DEF NoAsk, IsAsk

\* The invariant holds at the start.
LEMMA ApiKeysStarts == ApiKeysInit => ApiKeysInv
<1> SUFFICES ASSUME ApiKeysInit PROVE ApiKeysInv OBVIOUS
<1>1. keyRow = [k \in KeyIds |-> IF k = 1 THEN [st |-> "live", exp |-> "never"] ELSE Absent] BY DEF ApiKeysInit
<1>2. keyRow = [k \in KeyIds |-> keyRow[k]] /\ \A k \in KeyIds : keyRow[k] = [st |-> "live", exp |-> "never"] \/ keyRow[k] = [st |-> "absent", exp |-> "never"]
  BY <1>1 DEF Absent
<1>3. \A k \in KeyIds : IsKeyRow(keyRow[k]) BY <1>2, Zenon DEF IsKeyRow
<1>4. 1 \in KeyIds /\ keyRow[1].st = "live" BY <1>1, KeyAssumption DEF KeyIds
<1>5. keyCopy \in [KeyIds -> CopyRecords] /\ \A k \in KeyIds : keyCopy[k].left = 0
  BY DEF ApiKeysInit, NoCopy, CopyRecords
<1>6. ask = [c \in Callers |-> ask[c]] /\ \A c \in Callers : ask[c] = NoAsk BY DEF ApiKeysInit
<1>7. \A c \in Callers : IsAsk(ask[c]) /\ ask[c].pc = "idle" BY <1>6, NoAskIs
<1>8. \E o, d, n : served = [overdue |-> FALSE, out |-> o, dead |-> d, acts |-> n] /\ {o, d} \subseteq BOOLEAN
  BY DEF ApiKeysInit
<1>9. KeyTypes BY <1>2, <1>3, <1>5, <1>6, <1>7, <1>8 DEF KeyTypes
<1>10. \A k \in KeyIds : CopyHolds(keyCopy[k]) BY <1>5, KeyAssumption DEF CopyHolds
<1> QED BY <1>4, <1>7, <1>9, <1>10 DEF ApiKeysInv, AskHolds, NeverLockedOut, Live

\* The next key is one that there is not yet, if there is one.
LEMMA NextIsAbsent == ASSUME KeyTypes, Room PROVE NextKey \in KeyIds /\ keyRow[NextKey] = Absent
<1>1. PICK A : A = {k \in KeyIds : keyRow[k] = Absent} OBVIOUS
<1>2. A \subseteq Nat /\ A # {} BY <1>1, KeyAssumption DEF Room, KeyIds
<1>3. PICK k \in A : \A j \in A : k <= j BY <1>2, LeastOf
<1>4. k \in KeyIds /\ keyRow[k] = Absent /\ \A j \in KeyIds : j < k => keyRow[j] # Absent
  BY <1>1, <1>3, KeyAssumption DEF KeyIds
<1> QED BY <1>4 DEF NextKey

\* A new key is live; no other changes.
LEMMA NewKeyIs ==
  ASSUME KeyTypes, Room, NewKey
  PROVE  /\ keyRow' = [k \in KeyIds |-> keyRow'[k]] /\ \A k \in KeyIds : IsKeyRow(keyRow'[k])
         /\ \A k \in KeyIds : keyRow'[k] = keyRow[k] \/ keyRow'[k].st = "live"
         /\ NextKey \in Live'
<1>1. PICK n : n = NextKey OBVIOUS
<1>2. n \in KeyIds BY <1>1, NextIsAbsent
<1>3. PICK r : r = [st |-> "live", exp |-> "never"] OBVIOUS
<1>4. IsKeyRow(r) /\ r.st = "live" BY <1>3 DEF IsKeyRow
<1>5. keyRow = [k \in KeyIds |-> keyRow[k]] /\ \A k \in KeyIds : IsKeyRow(keyRow[k]) BY DEF KeyTypes
<1>6. keyRow' = [keyRow EXCEPT ![n] = r] BY <1>1, <1>3 DEF NewKey
<1>7. keyRow' = [k \in KeyIds |-> keyRow'[k]] /\ keyRow'[n] = r /\ \A k \in KeyIds : k # n => keyRow'[k] = keyRow[k]
  BY <1>2, <1>5, <1>6
<1>8. \A k \in KeyIds : IsKeyRow(keyRow'[k]) BY <1>4, <1>5, <1>7, Zenon
<1>9. n \in Live' BY <1>2, <1>4, <1>7 DEF Live
<1> QED BY <1>1, <1>4, <1>7, <1>8, <1>9

\* A change dates the copies that lack it.
LEMMA OutdatedKeeps ==
  ASSUME KeyTypes, \A k \in KeyIds : CopyHolds(keyCopy[k]), NEW S, Outdated(S)
  PROVE  keyCopy' \in [KeyIds -> CopyRecords] /\ \A k \in KeyIds : CopyHolds(keyCopy'[k])
<1>1. keyCopy' = [k \in KeyIds |-> IF k \in S /\ keyCopy[k].left > 0 /\ keyCopy[k].stale = 0 THEN [keyCopy[k] EXCEPT !.stale = 1] ELSE keyCopy[k]]
  BY DEF Outdated
<1>2. ASSUME NEW k \in KeyIds PROVE keyCopy'[k] \in CopyRecords /\ CopyHolds(keyCopy'[k])
  BY <1>1, KeyAssumption DEF KeyTypes, CopyRecords, CopyHolds
<1>3. keyCopy' = [k \in KeyIds |-> keyCopy'[k]] BY <1>1
<1> QED BY <1>2, <1>3

\* It dates the lookups that lack it, and changes nothing else of a request.
LEMMA OutdatedAskKeeps ==
  ASSUME KeyTypes, NEW S, NEW z, z = OutdatedAsk(S)
  PROVE  /\ z = [c \in Callers |-> z[c]]
         /\ \A c \in Callers : IsAsk(z[c]) /\ z[c].pc = ask[c].pc /\ z[c].key = ask[c].key /\ z[c].target = ask[c].target
<1>1. z = [c \in Callers |-> IF ask[c].pc = "found" /\ ask[c].key \in S /\ ask[c].stale = 0 THEN [ask[c] EXCEPT !.stale = 1] ELSE ask[c]]
  BY DEF OutdatedAsk
<1>2. ASSUME NEW c \in Callers PROVE IsAsk(z[c]) /\ z[c].pc = ask[c].pc /\ z[c].key = ask[c].key /\ z[c].target = ask[c].target
  <2>1. IsAsk(ask[c]) BY DEF KeyTypes
  <2>2. CASE ask[c].pc = "found" /\ ask[c].key \in S /\ ask[c].stale = 0
    <3>1. PICK p, k, t, s : ask[c] = [pc |-> p, key |-> k, target |-> t, stale |-> s] /\ p \in {"idle", "found", "in", "replace", "retire", "first"}
      BY <2>1 DEF IsAsk
    <3>2. PICK m \in Nat : m = 1 OBVIOUS
    <3>3. z[c] = [pc |-> p, key |-> k, target |-> t, stale |-> m] BY <1>1, <2>2, <3>1, <3>2
    <3>4. IsAsk(z[c]) BY <3>1, <3>2, <3>3, Zenon DEF IsAsk
    <3> QED BY <3>1, <3>3, <3>4
  <2>3. CASE ~(ask[c].pc = "found" /\ ask[c].key \in S /\ ask[c].stale = 0) BY <1>1, <2>1, <2>3
  <2> QED BY <2>2, <2>3
<1>3. z = [c \in Callers |-> z[c]] BY <1>1
<1> QED BY <1>2, <1>3

\* What a request holds to survives any change that makes no key absent.
LEMMA AskHoldsOn ==
  ASSUME NEW r, NEW q, q.pc = r.pc, q.key = r.key, q.target = r.target, AskHolds(r, keyRow),
         \A k \in KeyIds : keyRow'[k].st = "absent" => keyRow[k].st = "absent"
  PROVE  AskHolds(q, keyRow')
  BY DEF AskHolds

\* A number is positive or not.
LEMMA AnyOrNone == ASSUME NEW s \in Nat PROVE \E b \in BOOLEAN : b = (s > 0)
<1>1. PICK b : b = (s > 0) BY Zenon
<1>2. b \in BOOLEAN BY <1>1
<1> QED BY <1>1, <1>2, Zenon

\* A copy after a tick.
Aged(e, j, b) == [e EXCEPT !.left = j, !.stale = b]

\* Its fields.
LEMMA AgedIs ==
  ASSUME NEW e, NEW l, NEW a, NEW t, NEW j, NEW b, e = [left |-> l, stale |-> a, late |-> t]
  PROVE  Aged(e, j, b) = [left |-> j, stale |-> b, late |-> t]
<1>1. PICK y : y = [e EXCEPT !.left = j] OBVIOUS
<1>2. y = [left |-> j, stale |-> a, late |-> t] BY <1>1
<1>3. [y EXCEPT !.stale = b] = [left |-> j, stale |-> b, late |-> t] BY <1>2
<1>4. Aged(e, j, b) = [y EXCEPT !.stale = b] BY <1>1 DEF Aged
<1> QED BY <1>3, <1>4

\* What was served, with one more mark.
LEMMA WithDead ==
  ASSUME NEW y, NEW f, NEW o, NEW d, NEW n, NEW v, y = [overdue |-> f, out |-> o, dead |-> d, acts |-> n]
  PROVE  [y EXCEPT !.dead = v] = [overdue |-> f, out |-> o, dead |-> v, acts |-> n]
  OBVIOUS

\* Every step keeps the invariant.
LEMMA ApiKeysStep == ApiKeysInv /\ [ApiKeysNext]_keyVars => ApiKeysInv'
<1> SUFFICES ASSUME ApiKeysInv, [ApiKeysNext]_keyVars PROVE ApiKeysInv' OBVIOUS
<1>y. KeyTypes BY DEF ApiKeysInv
<1>r. keyRow = [k \in KeyIds |-> keyRow[k]] /\ \A k \in KeyIds : IsKeyRow(keyRow[k]) BY <1>y DEF KeyTypes
<1>c. keyCopy \in [KeyIds -> CopyRecords] /\ \A k \in KeyIds : CopyHolds(keyCopy[k]) BY DEF ApiKeysInv, KeyTypes
<1>a. ask = [c \in Callers |-> ask[c]] /\ (\A c \in Callers : IsAsk(ask[c])) /\ \A c \in Callers : AskHolds(ask[c], keyRow)
  BY DEF ApiKeysInv, KeyTypes
<1>s. PICK o \in BOOLEAN, d \in BOOLEAN : \E n : served = [overdue |-> FALSE, out |-> o, dead |-> d, acts |-> n]
  BY <1>y DEF KeyTypes
<1>n. PICK n : served = [overdue |-> FALSE, out |-> o, dead |-> d, acts |-> n] BY <1>s
<1>l. Live # {} \/ o \/ d BY <1>n DEF ApiKeysInv, NeverLockedOut
<1>sa. ASSUME served' = [served EXCEPT !.acts = @ + 1] PROVE \E m : served' = [overdue |-> FALSE, out |-> o, dead |-> d, acts |-> m]
  BY <1>n, <1>sa
<1>sb. ASSUME served' = served PROVE \E m : served' = [overdue |-> FALSE, out |-> o, dead |-> d, acts |-> m]
  BY <1>n, <1>sb
<1>g. ASSUME NEW z, z = [c \in Callers |-> z[c]], \A c \in Callers : IsAsk(z[c]), \A c \in Callers : AskHolds(z[c], keyRow'), ask' = z,
             keyRow' = [k \in KeyIds |-> keyRow'[k]], \A k \in KeyIds : IsKeyRow(keyRow'[k]),
             keyCopy' \in [KeyIds -> CopyRecords], \A k \in KeyIds : CopyHolds(keyCopy'[k]),
             NEW p \in BOOLEAN, NEW e \in BOOLEAN, \E m : served' = [overdue |-> FALSE, out |-> p, dead |-> e, acts |-> m],
             Live' # {} \/ p \/ e
      PROVE ApiKeysInv'
  <2>1. (ask = [c \in Callers |-> ask[c]] /\ \A c \in Callers : IsAsk(ask[c]))' BY <1>g, Zenon DEF IsAsk
  <2>2. (keyRow = [k \in KeyIds |-> keyRow[k]] /\ \A k \in KeyIds : IsKeyRow(keyRow[k]))'
    BY <1>g, Zenon DEF IsKeyRow
  <2>3. (\A k \in KeyIds : CopyHolds(keyCopy[k]))' BY <1>g DEF CopyHolds
  <2>4. (\A c \in Callers : AskHolds(ask[c], keyRow))' BY <1>g DEF AskHolds
  <2>5. PICK m : served' = [overdue |-> FALSE, out |-> p, dead |-> e, acts |-> m] BY <1>g
  <2>6. (\E a, b, m_1 : served = [overdue |-> FALSE, out |-> a, dead |-> b, acts |-> m_1] /\ {a, b} \subseteq BOOLEAN)'
    BY <2>5, Zenon
  <2>7. KeyTypes' BY <1>g, <2>1, <2>2, <2>6, Zenon DEF KeyTypes
  <2>8. NeverLockedOut' BY <1>g, <2>5 DEF NeverLockedOut
  <2> QED BY <2>3, <2>4, <2>7, <2>8 DEF ApiKeysInv
<1>o. ASSUME NEW c \in Callers, NEW r, IsAsk(r), AskHolds(r, keyRow'), ask' = [ask EXCEPT ![c] = r],
             \A k \in KeyIds : keyRow'[k].st = "absent" => keyRow[k].st = "absent",
             keyRow' = [k \in KeyIds |-> keyRow'[k]], \A k \in KeyIds : IsKeyRow(keyRow'[k]),
             keyCopy' \in [KeyIds -> CopyRecords], \A k \in KeyIds : CopyHolds(keyCopy'[k]),
             NEW p \in BOOLEAN, NEW e \in BOOLEAN, \E m : served' = [overdue |-> FALSE, out |-> p, dead |-> e, acts |-> m],
             Live' # {} \/ p \/ e
      PROVE ApiKeysInv'
  <2>1. PICK z : z = [ask EXCEPT ![c] = r] OBVIOUS
  <2>2. z = [b \in Callers |-> z[b]] /\ z[c] = r /\ \A b \in Callers : b # c => z[b] = ask[b] BY <1>a, <2>1
  <2>3. \A b \in Callers : IsAsk(z[b]) BY <1>a, <1>o, <2>2, Zenon
  <2>4. ASSUME NEW b \in Callers PROVE AskHolds(z[b], keyRow') BY <1>o, <2>2, <1>a, AskHoldsOn
  <2>5. ask' = z BY <1>o, <2>1
  <2> QED BY <1>g, <1>o, <2>2, <2>3, <2>4, <2>5
<1>i. (\E c \in Callers : ask[c] = NoAsk) => FirstIdle \in Callers BY DEF FirstIdle
<1>e. \A r, q : r.pc \notin {"found", "in", "replace", "retire"} => AskHolds(r, q) BY DEF AskHolds
<1>v. keyRow' = keyRow => /\ keyRow' = [k \in KeyIds |-> keyRow'[k]] /\ \A k \in KeyIds : IsKeyRow(keyRow'[k])
                          /\ \A k \in KeyIds : keyRow'[k].st = "absent" => keyRow[k].st = "absent"
                          /\ Live' = Live
  BY <1>r DEF Live
<1>u. keyCopy' = keyCopy => keyCopy' \in [KeyIds -> CopyRecords] /\ \A k \in KeyIds : CopyHolds(keyCopy'[k])
  BY <1>c
<1>k. ASSUME Room, NewKey
      PROVE  /\ keyRow' = [k \in KeyIds |-> keyRow'[k]] /\ \A k \in KeyIds : IsKeyRow(keyRow'[k])
             /\ \A k \in KeyIds : keyRow'[k].st = "absent" => keyRow[k].st = "absent"
             /\ Live' # {}
  BY <1>k, <1>y, NewKeyIs
<1>1. ASSUME NEW k \in KeyIds, CachedKey(k) PROVE ApiKeysInv'
  <2>1. keyCopy[k].left > 0 /\ (\E c \in Callers : ask[c] = NoAsk) /\ keyRow' = keyRow BY <1>1 DEF CachedKey
  <2>2. PICK p \in {"idle", "found", "in", "replace", "retire", "first"} : p = "in" OBVIOUS
  <2>3. PICK r : r = NewAsk(p, k) OBVIOUS
  <2>4. IsAsk(r) /\ r.pc = p /\ r.key = k BY <2>3, AskIs
  <2>5. PICK c : c = FirstIdle OBVIOUS
  <2>6. c \in Callers BY <1>i, <2>1, <2>5
  <2>7. [NoAsk EXCEPT !.pc = p, !.key = k] = r BY <2>3 DEF NewAsk
  <2>8. ask' = [ask EXCEPT ![c] = r] BY <1>1, <2>2, <2>5, <2>7 DEF CachedKey
  <2>9. AskHolds(r, keyRow') BY <2>2, <2>4 DEF AskHolds
  <2>10. PICK l \in Nat, a \in Nat, t \in BOOLEAN : keyCopy[k] = [left |-> l, stale |-> a, late |-> t]
    BY <1>c DEF CopyRecords
  <2>11. [keyCopy[k] EXCEPT !.left = l] = keyCopy[k] BY <2>10
  <2>12. keyCopy' = [keyCopy EXCEPT ![k].left = l] BY <1>1, <2>10 DEF CachedKey, LeftAfterHit
  <2>13. keyCopy' = keyCopy BY <1>c, <2>11, <2>12
  <2>14. ~(keyCopy[k].stale > TTL /\ ~keyCopy[k].late) BY <1>c, <2>1, <2>10, KeyAssumption DEF CopyHolds
  <2>15. PICK v \in BOOLEAN : v = (served.overdue \/ (keyCopy[k].stale > TTL /\ ~keyCopy[k].late)) BY Zenon
  <2>16. served.overdue = FALSE /\ served.acts = n BY <1>n
  <2>17. v = FALSE BY <2>14, <2>15, <2>16, Zenon
  <2>18. PICK m : m = n + 1 OBVIOUS
  <2>19. PICK z : z = [served EXCEPT !.acts = m] OBVIOUS
  <2>20. z = [overdue |-> FALSE, out |-> o, dead |-> d, acts |-> m] BY <1>n, <2>19
  <2>21. [z EXCEPT !.overdue = v] = [overdue |-> v, out |-> o, dead |-> d, acts |-> m] BY <2>20
  <2>22. [served EXCEPT !.acts = m, !.overdue = v] = [z EXCEPT !.overdue = v] BY <2>19
  <2>23. served' = [served EXCEPT !.acts = served.acts + 1, !.overdue = served.overdue \/ (keyCopy[k].stale > TTL /\ ~keyCopy[k].late)]
    BY <1>1 DEF CachedKey
  <2>24. served' = [served EXCEPT !.acts = m, !.overdue = v] BY <2>15, <2>16, <2>18, <2>23, Zenon
  <2>25. \E b : served' = [overdue |-> FALSE, out |-> o, dead |-> d, acts |-> b] BY <2>17, <2>21, <2>22, <2>24
  <2>26. IsAsk(r) BY <2>4
  <2> QED BY <1>l, <1>o, <1>u, <1>v, <2>1, <2>6, <2>8, <2>9, <2>13, <2>25, <2>26
<1>2. ASSUME NEW k \in KeyIds, LookUpKey(k) PROVE ApiKeysInv'
  <2>1. BeginAsk("found", k) /\ keyRow' = keyRow /\ keyCopy' = keyCopy BY <1>2 DEF LookUpKey
  <2>2. PICK p \in {"idle", "found", "in", "replace", "retire", "first"} : p = "found" OBVIOUS
  <2>3. PICK r : r = NewAsk(p, k) OBVIOUS
  <2>4. IsAsk(r) /\ r.pc = p /\ r.key = k BY <2>3, AskIs
  <2>5. PICK c : c = FirstIdle OBVIOUS
  <2>6. c \in Callers BY <1>i, <2>1, <2>5 DEF BeginAsk
  <2>7. [NoAsk EXCEPT !.pc = p, !.key = k] = r BY <2>3 DEF NewAsk
  <2>8. ask' = [ask EXCEPT ![c] = r] BY <2>1, <2>2, <2>5, <2>7 DEF BeginAsk
  <2>9. AskHolds(r, keyRow') BY <2>2, <2>4 DEF AskHolds
  <2>10. served' = served \/ served' = [served EXCEPT !.acts = @ + 1] BY <2>1 DEF BeginAsk
  <2>11. \E b : served' = [overdue |-> FALSE, out |-> o, dead |-> d, acts |-> b] BY <1>sa, <1>sb, <2>10
  <2>12. IsAsk(r) BY <2>4
  <2> QED BY <1>l, <1>o, <1>u, <1>v, <2>1, <2>6, <2>8, <2>9, <2>11, <2>12
<1>3. ASSUME NEW c \in Callers, SetCachedKey(c) PROVE ApiKeysInv'
  <2>1. PICK p, k, t, s : ask[c] = [pc |-> p, key |-> k, target |-> t, stale |-> s] /\ s \in Nat
    BY <1>a DEF IsAsk
  <2>2. p = "found" /\ keyRow' = keyRow /\ served' = served BY <1>3, <2>1 DEF SetCachedKey
  <2>3. k \in KeyIds BY <1>a, <2>1, <2>2 DEF AskHolds
  <2>4. PICK b \in BOOLEAN : b = (s > 0) BY AnyOrNone, <2>1
  <2>5. PICK q : q = [left |-> TTL, stale |-> s, late |-> b] OBVIOUS
  <2>6. q \in CopyRecords BY <2>1, <2>5, KeyAssumption DEF CopyRecords
  <2>7. b \/ ~(s > 0) BY <2>4
  <2>8. CopyHolds(q) BY <2>1, <2>5, <2>7, KeyAssumption DEF CopyHolds
  <2>9. ask[c].key = k /\ ask[c].stale = s BY <2>1
  <2>10. keyCopy' = [keyCopy EXCEPT ![k] = [left |-> TTL, stale |-> s, late |-> s > 0]]
    BY <1>3, <2>9 DEF SetCachedKey
  <2>11. keyCopy' = [keyCopy EXCEPT ![k] = q] BY <2>4, <2>5, <2>10, Zenon
  <2>12. keyCopy' \in [KeyIds -> CopyRecords] BY <1>c, <2>3, <2>6, <2>11
  <2>13. \A j \in KeyIds : keyCopy'[j] = q \/ keyCopy'[j] = keyCopy[j] BY <1>c, <2>3, <2>11
  <2>14. \A j \in KeyIds : CopyHolds(keyCopy'[j]) BY <1>c, <2>8, <2>13, Zenon
  <2>15. PICK u, w : u = "in" /\ w = 0 OBVIOUS
  <2>16. PICK r : r = [pc |-> u, key |-> k, target |-> t, stale |-> s] OBVIOUS
  <2>17. PICK h : h = [pc |-> u, key |-> k, target |-> t, stale |-> w] OBVIOUS
  <2>18. r = [ask[c] EXCEPT !.pc = u] /\ h = [r EXCEPT !.stale = w] BY <2>1, <2>16, <2>17
  <2>19. PICK x : x = [ask EXCEPT ![c] = r] OBVIOUS
  <2>20. x[c] = r BY <1>a, <2>19
  <2>21. [ask EXCEPT ![c].pc = u, ![c].stale = w] = [x EXCEPT ![c].stale = w] BY <2>18, <2>19
  <2>22. [x EXCEPT ![c].stale = w] = [ask EXCEPT ![c] = h] BY <1>a, <2>18, <2>19, <2>20
  <2>23. ask' = [ask EXCEPT ![c].pc = u, ![c].stale = w] BY <1>3, <2>15 DEF SetCachedKey
  <2>24. ask' = [ask EXCEPT ![c] = h] BY <2>21, <2>22, <2>23, Zenon
  <2>25. IsAsk(h) BY <2>15, <2>17 DEF IsAsk
  <2>26. AskHolds(h, keyRow') BY <2>3, <2>15, <2>17 DEF AskHolds
  <2> QED BY <1>l, <1>o, <1>sb, <1>v, <2>2, <2>12, <2>14, <2>24, <2>25, <2>26
<1>d. ASSUME NEW c \in Callers, AskDone(c), keyCopy' = keyCopy, \A k \in KeyIds : keyRow'[k].st = "absent" => keyRow[k].st = "absent",
             keyRow' = [k \in KeyIds |-> keyRow'[k]], \A k \in KeyIds : IsKeyRow(keyRow'[k]),
             served' = served \/ served' = [served EXCEPT !.acts = @ + 1], Live' # {} \/ o \/ d
      PROVE ApiKeysInv'
  BY NoAskIs, <1>e, <1>d, <1>sa, <1>sb, <1>o, <1>u DEF AskDone
<1>4. ASSUME NEW c \in Callers, UseKey(c) PROVE ApiKeysInv' BY <1>4, <1>d, <1>l, <1>v DEF UseKey
<1>5. ASSUME NEW c \in Callers, CreateKey(c) PROVE ApiKeysInv' BY <1>5, <1>d, <1>k DEF CreateKey
<1>6. ASSUME NEW c \in Callers, RequestEnds(c) PROVE ApiKeysInv' BY <1>6, <1>d, <1>l, <1>v DEF RequestEnds
<1>7. ASSUME NEW c \in Callers, FirstKey(c) PROVE ApiKeysInv' BY <1>7, <1>d, <1>k DEF FirstKey
<1>8. CASE DirectoryAdds BY <1>8, <1>a, <1>k, AskHoldsOn, <1>sa, <1>g, <1>u DEF DirectoryAdds
<1>9. ASSUME NEW c \in Callers, NEW t \in KeyIds, RotateKey(c, t) PROVE ApiKeysInv'
  <2>1. ask[c].pc = "in" /\ keyRow[t].st = "live" /\ keyRow' = keyRow /\ keyCopy' = keyCopy /\ served' = [served EXCEPT !.acts = @ + 1]
    BY <1>9 DEF RotateKey
  <2>2. PICK p, k, g, s : ask[c] = [pc |-> p, key |-> k, target |-> g, stale |-> s] /\ s \in Nat
    BY <1>a DEF IsAsk
  <2>3. k \in KeyIds BY <1>a, <2>1, <2>2 DEF AskHolds
  <2>4. PICK u : u = "replace" OBVIOUS
  <2>5. PICK r : r = [pc |-> u, key |-> k, target |-> g, stale |-> s] OBVIOUS
  <2>6. PICK h : h = [pc |-> u, key |-> k, target |-> t, stale |-> s] OBVIOUS
  <2>7. r = [ask[c] EXCEPT !.pc = u] /\ h = [r EXCEPT !.target = t] BY <2>2, <2>5, <2>6
  <2>8. PICK x : x = [ask EXCEPT ![c] = r] OBVIOUS
  <2>9. x[c] = r BY <1>a, <2>8
  <2>10. [ask EXCEPT ![c].pc = u, ![c].target = t] = [x EXCEPT ![c].target = t] BY <2>7, <2>8
  <2>11. [x EXCEPT ![c].target = t] = [ask EXCEPT ![c] = h] BY <1>a, <2>7, <2>8, <2>9
  <2>12. ask' = [ask EXCEPT ![c].pc = u, ![c].target = t] BY <1>9, <2>4 DEF RotateKey
  <2>13. ask' = [ask EXCEPT ![c] = h] BY <2>10, <2>11, <2>12, Zenon
  <2>14. IsAsk(h) BY <2>2, <2>4, <2>6 DEF IsAsk
  <2>15. AskHolds(h, keyRow') BY <2>1, <2>3, <2>4, <2>6 DEF AskHolds
  <2>16. \E b : served' = [overdue |-> FALSE, out |-> o, dead |-> d, acts |-> b] BY <1>sa, <2>1
  <2> QED BY <1>l, <1>o, <1>u, <1>v, <2>1, <2>13, <2>14, <2>15, <2>16
<1>10. ASSUME NEW c \in Callers, ReplaceKey(c) PROVE ApiKeysInv'
  <2>1. ask[c].pc = "replace" /\ Room /\ NewKey /\ keyCopy' = keyCopy /\ served' = served
    BY <1>10 DEF ReplaceKey
  <2>2. PICK p, k, g, s : ask[c] = [pc |-> p, key |-> k, target |-> g, stale |-> s] /\ s \in Nat
    BY <1>a DEF IsAsk
  <2>3. g \in KeyIds /\ keyRow[g].st # "absent" BY <1>a, <2>1, <2>2 DEF AskHolds
  <2>4. PICK t : t = NextKey OBVIOUS
  <2>5. t \in KeyIds /\ keyRow[t] = Absent BY <1>y, <2>1, <2>4, NextIsAbsent
  <2>6. t # g BY <2>3, <2>5 DEF Absent
  <2>7. PICK u : u = "retire" OBVIOUS
  <2>8. PICK r : r = [pc |-> u, key |-> k, target |-> g, stale |-> s] OBVIOUS
  <2>9. PICK h : h = [pc |-> u, key |-> t, target |-> g, stale |-> s] OBVIOUS
  <2>10. r = [ask[c] EXCEPT !.pc = u] /\ h = [r EXCEPT !.key = t] BY <2>2, <2>8, <2>9
  <2>11. PICK x : x = [ask EXCEPT ![c] = r] OBVIOUS
  <2>12. x[c] = r BY <1>a, <2>11
  <2>13. [ask EXCEPT ![c].pc = u, ![c].key = t] = [x EXCEPT ![c].key = t] BY <2>10, <2>11
  <2>14. [x EXCEPT ![c].key = t] = [ask EXCEPT ![c] = h] BY <1>a, <2>10, <2>11, <2>12
  <2>15. ask' = [ask EXCEPT ![c].pc = u, ![c].key = t] BY <1>10, <2>4, <2>7 DEF ReplaceKey
  <2>16. ask' = [ask EXCEPT ![c] = h] BY <2>13, <2>14, <2>15, Zenon
  <2>17. IsAsk(h) BY <2>2, <2>7, <2>9 DEF IsAsk
  <2>18. /\ keyRow' = [j \in KeyIds |-> keyRow'[j]] /\ \A j \in KeyIds : IsKeyRow(keyRow'[j])
         /\ \A j \in KeyIds : keyRow'[j].st = "absent" => keyRow[j].st = "absent"
         /\ Live' # {}
    BY <1>k, <2>1
  <2>19. AskHolds(h, keyRow') BY <2>3, <2>5, <2>6, <2>7, <2>9, <2>18 DEF AskHolds
  <2>20. \E b : served' = [overdue |-> FALSE, out |-> o, dead |-> d, acts |-> b] BY <1>sb, <2>1
  <2> QED BY <1>o, <1>u, <2>1, <2>16, <2>17, <2>18, <2>19, <2>20
<1>11. CASE SignIn
  <2>1. (\E c \in Callers : ask[c] = NoAsk) /\ keyRow' = keyRow /\ keyCopy' = keyCopy /\ served' = [served EXCEPT !.acts = @ + 1]
    BY <1>11 DEF SignIn
  <2>2. PICK u : u = "first" OBVIOUS
  <2>3. PICK r : r = [NoAsk EXCEPT !.pc = u] OBVIOUS
  <2>4. r = [pc |-> u, key |-> 0, target |-> 0, stale |-> 0] BY <2>3 DEF NoAsk
  <2>5. IsAsk(r) BY <2>2, <2>4 DEF IsAsk
  <2>6. AskHolds(r, keyRow') BY <2>2, <2>4 DEF AskHolds
  <2>7. PICK c : c = FirstIdle OBVIOUS
  <2>8. c \in Callers BY <1>i, <2>1, <2>7
  <2>9. ask' = [ask EXCEPT ![c] = r] BY <1>11, <2>2, <2>3, <2>7 DEF SignIn
  <2>10. \E b : served' = [overdue |-> FALSE, out |-> o, dead |-> d, acts |-> b] BY <1>sa, <2>1
  <2> QED BY <1>l, <1>o, <1>u, <1>v, <2>1, <2>5, <2>6, <2>8, <2>9, <2>10
<1>m. ASSUME NEW c \in Callers, NEW S, NEW z, z = OutdatedAsk(S), ask' = [z EXCEPT ![c] = NoAsk], Outdated(S),
             \A k \in KeyIds : keyRow'[k].st = "absent" => keyRow[k].st = "absent",
             keyRow' = [k \in KeyIds |-> keyRow'[k]], \A k \in KeyIds : IsKeyRow(keyRow'[k]),
             NEW p \in BOOLEAN, NEW e \in BOOLEAN, \E m : served' = [overdue |-> FALSE, out |-> p, dead |-> e, acts |-> m],
             Live' # {} \/ p \/ e
      PROVE ApiKeysInv'
  <2>1. /\ z = [b \in Callers |-> z[b]]
        /\ \A b \in Callers : IsAsk(z[b]) /\ z[b].pc = ask[b].pc /\ z[b].key = ask[b].key /\ z[b].target = ask[b].target
    BY <1>m, <1>y, OutdatedAskKeeps
  <2>2. PICK x : x = [z EXCEPT ![c] = NoAsk] OBVIOUS
  <2>3. x = [b \in Callers |-> x[b]] /\ x[c] = NoAsk /\ \A b \in Callers : b # c => x[b] = z[b] BY <2>1, <2>2
  <2>4. IsAsk(NoAsk) /\ AskHolds(NoAsk, keyRow') BY <1>e, NoAskIs
  <2>5. \A b \in Callers : IsAsk(x[b]) BY <2>1, <2>3, <2>4, Zenon
  <2>6. ASSUME NEW b \in Callers PROVE AskHolds(x[b], keyRow') BY <2>3, <2>4, <1>a, <1>m, <2>1, AskHoldsOn
  <2>7. keyCopy' \in [KeyIds -> CopyRecords] /\ \A k \in KeyIds : CopyHolds(keyCopy'[k])
    BY <1>c, <1>m, <1>y, OutdatedKeeps
  <2>8. ask' = x BY <1>m, <2>2
  <2> QED BY <1>g, <1>m, <2>3, <2>5, <2>6, <2>7, <2>8
<1>12. ASSUME NEW c \in Callers, NEW t \in KeyIds, PatchKey(c, t) PROVE ApiKeysInv'
  BY <1>12, <1>sa, <1>l, <1>m, <1>v DEF PatchKey
<1>13. ASSUME NEW c \in Callers, NEW t \in KeyIds, NEW x, SetExpiry(c, t, x) PROVE ApiKeysInv'
  <2>1. Outdated({t}) /\ keyRow' = [keyRow EXCEPT ![t].exp = x] /\ served' = [served EXCEPT !.acts = @ + 1]
    BY <1>13 DEF SetExpiry
  <2>2. PICK z : z = OutdatedAsk({t}) OBVIOUS
  <2>3. ask' = [z EXCEPT ![c] = NoAsk] BY <1>13, <2>2 DEF SetExpiry
  <2>4. \E b : served' = [overdue |-> FALSE, out |-> o, dead |-> d, acts |-> b] BY <1>sa, <2>1
  <2>5. PICK a, e : keyRow[t] = [st |-> a, exp |-> e] BY <1>r DEF IsKeyRow
  <2>6. PICK r : r = [st |-> a, exp |-> x] OBVIOUS
  <2>7. r = [keyRow[t] EXCEPT !.exp = x] /\ r.st = keyRow[t].st BY <2>5, <2>6
  <2>8. keyRow' = [keyRow EXCEPT ![t] = r] BY <2>1, <2>7
  <2>9. keyRow' = [k \in KeyIds |-> keyRow'[k]] /\ keyRow'[t] = r /\ \A k \in KeyIds : k # t => keyRow'[k] = keyRow[k]
    BY <1>r, <2>8
  <2>10. \A k \in KeyIds : keyRow'[k].st = keyRow[k].st BY <2>7, <2>9
  <2>11. IsKeyRow(r) BY <2>6, Zenon DEF IsKeyRow
  <2>12. \A k \in KeyIds : IsKeyRow(keyRow'[k]) BY <1>r, <2>9, <2>11, Zenon
  <2>13. Live' = Live BY <2>10 DEF Live
  <2>14. PICK S : S = {t} OBVIOUS
  <2>15. z = OutdatedAsk(S) /\ Outdated(S) BY <2>1, <2>2, <2>14
  <2> QED BY <1>l, <1>m, <2>3, <2>4, <2>9, <2>10, <2>12, <2>13, <2>15
<1>w. ASSUME NEW c \in Callers, NEW t \in KeyIds, RevokedBy(c, t), ask[c].key \in KeyIds, ask[c].key # t PROVE ApiKeysInv'
  <2>1. Outdated({t}) /\ keyRow' = [keyRow EXCEPT ![t].st = "revoked"] BY <1>w DEF RevokedBy
  <2>2. PICK z : z = OutdatedAsk({t}) OBVIOUS
  <2>3. ask' = [z EXCEPT ![c] = NoAsk] BY <1>w, <2>2 DEF RevokedBy
  <2>4. PICK S : S = {t} OBVIOUS
  <2>5. z = OutdatedAsk(S) /\ Outdated(S) BY <2>1, <2>2, <2>4
  <2>6. PICK a, e : keyRow[t] = [st |-> a, exp |-> e] BY <1>r DEF IsKeyRow
  <2>7. PICK u : u = "revoked" OBVIOUS
  <2>8. PICK r : r = [st |-> u, exp |-> e] OBVIOUS
  <2>9. r = [keyRow[t] EXCEPT !.st = u] /\ r.st = u BY <2>6, <2>8
  <2>10. keyRow' = [keyRow EXCEPT ![t] = r] BY <2>1, <2>7, <2>9
  <2>11. keyRow' = [k \in KeyIds |-> keyRow'[k]] /\ keyRow'[t] = r /\ \A k \in KeyIds : k # t => keyRow'[k] = keyRow[k]
    BY <1>r, <2>10
  <2>12. \A k \in KeyIds : keyRow'[k].st = "absent" => keyRow[k].st = "absent" BY <2>7, <2>9, <2>11
  <2>13. IsKeyRow(r) BY <2>8, Zenon DEF IsKeyRow
  <2>14. \A k \in KeyIds : IsKeyRow(keyRow'[k]) BY <1>r, <2>11, <2>13, Zenon
  <2>15. PICK h : h = ask[c].key OBVIOUS
  <2>16. h \in KeyIds /\ h # t /\ keyRow'[h] = keyRow[h] BY <1>w, <2>11, <2>15
  <2>17. PICK v \in BOOLEAN : v = (served.dead \/ (t # ask[c].key /\ keyRow[ask[c].key].st # "live")) BY Zenon
  <2>18. served.acts = n BY <1>n
  <2>19. keyRow[h].st = "live" => h \in Live' BY <2>16 DEF Live
  <2>20. v \/ keyRow[h].st = "live" BY <2>15, <2>16, <2>17, Zenon
  <2>21. Live' # {} \/ v BY <2>19, <2>20
  <2>22. PICK m : m = n + 1 OBVIOUS
  <2>23. PICK y : y = [served EXCEPT !.acts = m] OBVIOUS
  <2>24. y = [overdue |-> FALSE, out |-> o, dead |-> d, acts |-> m] BY <1>n, <2>23
  <2>f. PICK f : f = FALSE OBVIOUS
  <2>j. y = [overdue |-> f, out |-> o, dead |-> d, acts |-> m] BY <2>24, <2>f
  <2>25. [y EXCEPT !.dead = v] = [overdue |-> f, out |-> o, dead |-> v, acts |-> m] BY <2>j, WithDead
  <2>26. [served EXCEPT !.acts = m, !.dead = v] = [y EXCEPT !.dead = v] BY <2>23
  <2>27. served' = [served EXCEPT !.acts = served.acts + 1, !.dead = served.dead \/ (t # ask[c].key /\ keyRow[ask[c].key].st # "live")]
    BY <1>w DEF RevokedBy
  <2>28. served' = [served EXCEPT !.acts = m, !.dead = v] BY <2>17, <2>18, <2>22, <2>27, Zenon
  <2>29. \E b : served' = [overdue |-> FALSE, out |-> o, dead |-> v, acts |-> b]
    BY <2>f, <2>25, <2>26, <2>28, Zenon
  <2>30. Live' # {} \/ o \/ v BY <2>21
  <2> QED BY <1>m, <2>3, <2>5, <2>11, <2>12, <2>14, <2>29, <2>30
<1>14. ASSUME NEW c \in Callers, NEW t \in KeyIds, RevokeKey(c, t) PROVE ApiKeysInv'
  BY <1>14, <1>a, <1>w DEF RevokeKey, MayRevoke, AskHolds
<1>15. ASSUME NEW c \in Callers, RetireKey(c) PROVE ApiKeysInv' BY <1>15, <1>a, <1>w DEF RetireKey, AskHolds
<1>16. ASSUME NEW S, TakenAway(S) PROVE ApiKeysInv'
  <2>1. Outdated(S) /\ keyRow' = [k \in KeyIds |-> IF k \in S THEN [keyRow[k] EXCEPT !.st = "revoked"] ELSE keyRow[k]]
    BY <1>16 DEF TakenAway
  <2>2. PICK z : z = OutdatedAsk(S) OBVIOUS
  <2>3. ask' = z BY <1>16, <2>2 DEF TakenAway
  <2>4. ASSUME NEW k \in KeyIds PROVE IsKeyRow(keyRow'[k]) /\ (keyRow'[k].st = "absent" => keyRow[k].st = "absent")
    BY <1>r, <2>1, Zenon DEF IsKeyRow
  <2>5. keyRow' = [k \in KeyIds |-> keyRow'[k]] BY <2>1
  <2>6. /\ z = [c \in Callers |-> z[c]]
        /\ \A c \in Callers : IsAsk(z[c]) /\ z[c].pc = ask[c].pc /\ z[c].key = ask[c].key /\ z[c].target = ask[c].target
    BY <1>y, <2>2, OutdatedAskKeeps
  <2>7. ASSUME NEW c \in Callers PROVE AskHolds(z[c], keyRow') BY <1>a, <2>4, <2>6, AskHoldsOn
  <2>8. keyCopy' \in [KeyIds -> CopyRecords] /\ \A k \in KeyIds : CopyHolds(keyCopy'[k])
    BY <1>c, <1>y, <2>1, OutdatedKeeps
  <2>9. PICK p \in BOOLEAN : p = TRUE OBVIOUS
  <2>10. PICK m : m = n + 1 OBVIOUS
  <2>11. served' = [overdue |-> FALSE, out |-> p, dead |-> d, acts |-> m]
    BY <1>16, <1>n, <2>9, <2>10 DEF TakenAway
  <2>12. \E b : served' = [overdue |-> FALSE, out |-> p, dead |-> d, acts |-> b] BY <2>11
  <2>13. Live' # {} \/ p \/ d BY <2>9
  <2>14. \A c \in Callers : IsAsk(z[c]) BY <2>6
  <2>15. \A k \in KeyIds : IsKeyRow(keyRow'[k]) BY <2>4
  <2>16. z = [c \in Callers |-> z[c]] BY <2>6
  <2> QED BY <1>g, <2>3, <2>5, <2>7, <2>8, <2>12, <2>13, <2>14, <2>15, <2>16
<1>17. CASE KeyTick
  <2>1. ask' = ask /\ served' = [served EXCEPT !.acts = @ + 1] BY <1>17 DEF KeyTick
  <2>2. PICK S : /\ keyRow' = [k \in KeyIds |-> IF k \in S THEN [keyRow[k] EXCEPT !.exp = "past"] ELSE keyRow[k]]
                 /\ keyCopy' = [k \in KeyIds |->
                      IF keyCopy[k].left <= 1 THEN NoCopy
                      ELSE [keyCopy[k] EXCEPT !.left = keyCopy[k].left - 1,
                                              !.stale = IF keyCopy[k].stale \in 1 .. TTL \/ (keyCopy[k].stale = 0 /\ k \in S)
                                                        THEN keyCopy[k].stale + 1 ELSE keyCopy[k].stale]]
    BY <1>17 DEF KeyTick
  <2>a. keyRow' = [k \in KeyIds |-> IF k \in S THEN [keyRow[k] EXCEPT !.exp = "past"] ELSE keyRow[k]] BY <2>2
  <2>b. \A k \in KeyIds : keyCopy'[k] = IF keyCopy[k].left <= 1 THEN NoCopy
          ELSE Aged(keyCopy[k], keyCopy[k].left - 1, IF keyCopy[k].stale \in 1 .. TTL \/ (keyCopy[k].stale = 0 /\ k \in S)
                                                     THEN keyCopy[k].stale + 1 ELSE keyCopy[k].stale)
    BY <2>2 DEF Aged
  <2>3. ASSUME NEW k \in KeyIds PROVE IsKeyRow(keyRow'[k]) /\ keyRow'[k].st = keyRow[k].st
    <3>1. PICK a, e : keyRow[k] = [st |-> a, exp |-> e] BY <1>r DEF IsKeyRow
    <3>2. PICK u : u = "past" OBVIOUS
    <3>3. keyRow'[k] = [st |-> a, exp |-> u] \/ keyRow'[k] = keyRow[k] BY <2>a, <3>1, <3>2
    <3>4. IsKeyRow(keyRow'[k]) BY <1>r, <3>3, Zenon DEF IsKeyRow
    <3>5. keyRow'[k].st = keyRow[k].st BY <3>1, <3>3
    <3> QED BY <3>4, <3>5
  <2>4. keyRow' = [k \in KeyIds |-> keyRow'[k]] BY <2>2
  <2>5. Live' = Live BY <2>3 DEF Live
  <2>6. ASSUME NEW k \in KeyIds PROVE keyCopy'[k] \in CopyRecords /\ CopyHolds(keyCopy'[k])
    <3>1. PICK l \in Nat, a \in Nat, t \in BOOLEAN : keyCopy[k] = [left |-> l, stale |-> a, late |-> t]
      BY <1>c DEF CopyRecords
    <3>2. l <= TTL /\ (l > 0 /\ a > 0 /\ ~t => a + l <= TTL + 1) BY <1>c, <3>1 DEF CopyHolds
    <3>3. CASE l <= 1
      <4>4. keyCopy[k].left <= 1 BY <3>1, <3>3
      <4>5. keyCopy'[k] = NoCopy BY <2>b, <4>4, Zenon
      <4>6. NoCopy = [left |-> 0, stale |-> 0, late |-> FALSE] BY DEF NoCopy
      <4>1. keyCopy'[k] = [left |-> 0, stale |-> 0, late |-> FALSE] BY <4>5, <4>6
      <4>2. keyCopy'[k] \in CopyRecords BY <4>1 DEF CopyRecords
      <4>3. CopyHolds(keyCopy'[k]) BY <4>1, KeyAssumption DEF CopyHolds
      <4> QED BY <4>2, <4>3
    <3>4. CASE ~(l <= 1)
      <4>1. keyCopy[k].left = l /\ keyCopy[k].stale = a /\ ~(keyCopy[k].left <= 1) BY <3>1, <3>4
      <4>a. PICK b : b = (IF keyCopy[k].stale \in 1 .. TTL \/ (keyCopy[k].stale = 0 /\ k \in S) THEN keyCopy[k].stale + 1 ELSE keyCopy[k].stale)
        OBVIOUS
      <4>b. b \in Nat /\ (b = a + 1 \/ b = a) BY <3>1, <4>1, <4>a
      <4>2. b = a + 1 \/ (b = a /\ (a = 0 \/ a > TTL)) BY <3>1, <4>1, <4>a, KeyAssumption
      <4>3. PICK j : j = keyCopy[k].left - 1 OBVIOUS
      <4>c. j \in Nat /\ j = l - 1 BY <3>1, <3>4, <4>1, <4>3
      <4>d. keyCopy'[k] = Aged(keyCopy[k], j, b) BY <2>b, <4>1, <4>a, <4>3, Zenon
      <4>5. keyCopy'[k] = [left |-> j, stale |-> b, late |-> t] BY <3>1, <4>d, AgedIs
      <4>6. keyCopy'[k] \in CopyRecords BY <4>5, <4>b, <4>c DEF CopyRecords
      <4>7. CopyHolds(keyCopy'[k]) BY <3>2, <3>4, <4>2, <4>b, <4>c, <4>5, KeyAssumption DEF CopyHolds
      <4> QED BY <4>6, <4>7
    <3> QED BY <3>3, <3>4
  <2>7. keyCopy' = [k \in KeyIds |-> keyCopy'[k]] BY <2>2
  <2>8. keyCopy' \in [KeyIds -> CopyRecords] /\ \A k \in KeyIds : CopyHolds(keyCopy'[k]) BY <2>6, <2>7
  <2>9. \A c \in Callers : AskHolds(ask[c], keyRow') BY <1>a, <2>3, AskHoldsOn
  <2>10. \E b : served' = [overdue |-> FALSE, out |-> o, dead |-> d, acts |-> b] BY <1>sa, <2>1
  <2>11. \A k \in KeyIds : IsKeyRow(keyRow'[k]) BY <2>3
  <2> QED BY <1>a, <1>g, <1>l, <2>1, <2>4, <2>5, <2>8, <2>9, <2>10, <2>11
<1>18. CASE UNCHANGED keyVars BY <1>18, <1>a, <1>sb, <1>g, <1>l, <1>u, <1>v DEF keyVars
<1> QED
  <2>1. CASE ApiKeysNext
    BY <1>1, <1>2, <1>16, <1>3, <1>4, <1>5, <1>6, <1>7, <1>10, <1>15, <1>9, <1>12, <1>14, <1>13, <1>8, <1>11,
      <1>17, <2>1, Zenon DEF OrgRevokesKey, DirectoryRemoves, DeleteAccount, ApiKeysNext
  <2> QED BY <1>18, <2>1

\* What the invariant says of the keys.
LEMMA ApiKeysMean == ApiKeysInv => KeysHold
  BY DEF ApiKeysInv, KeyTypes, KeysHold, RevokedIsRefused

----------------------------------------------------------------------------
(***************************************************************************)
(* AccountDeletion.  While the transaction runs, a table that was passed   *)
(* has no listed row of the key left; a row that cannot be without its     *)
(* parent has it; and unless a row was added meanwhile, all there is was   *)
(* listed, so that children gone before their parents leave no reference.  *)
(***************************************************************************)

\* A deletion.
IsDeletion(d) == \E s, k, l, g, m :
    /\ d = [stage |-> s, step |-> k, listed |-> l, gone |-> g, met |-> m]
    /\ s \in {"idle", "deleting", "revoke", "answered", "refused", "lost"} /\ k \in Nat /\ m \in BOOLEAN

\* What the variables of AccountDeletion hold.  Rows are dated by the steps spent.
DeletionTypes ==
    /\ IsDeletion(deletion) /\ delActs \in Nat
    /\ \A r \in rows \union deletion.listed \union deletion.gone : r.at \in Nat /\ r.at <= delActs

\* The tables of the steps before the present one.
Passed == {DeletionOrder[i] : i \in 1 .. deletion.step - 1}

\* What restricts has its parent: for the others, in the list, and once all is undone.
HasParents(some, set) == \A r \in some : r.table \in Restricting => ParentIn(r, set)

\* What holds while the transaction runs.
WhileDeleting ==
    /\ deletion.step \in 1 .. 21 /\ HasParents(deletion.listed, deletion.listed)
    /\ HasParents(deletion.gone, rows \union deletion.gone)
    /\ deletion.listed \subseteq rows \union deletion.gone
    /\ ~deletion.met => rows \subseteq deletion.listed
    /\ \A r \in deletion.listed : Owned(r) /\ r.table \in Passed => r \notin rows

\* What holds when it has committed.
AfterDeleting == \A r \in deletion.listed : Owned(r) => r \notin rows

\* The inductive invariant of AccountDeletion.
DeletionInv ==
    /\ DeletionTypes /\ HasParents(rows, rows)
    /\ Deleting => WhileDeleting
    /\ ~Deleting => deletion.gone = {}
    /\ deletion.stage \in {"revoke", "answered"} => AfterDeleting
    /\ deletion.stage = "answered" => ~keyActive
    /\ deletion.stage = "refused" => deletion.met
    /\ deletion.stage \in {"refused", "lost"} => deletion.listed \subseteq rows

\* The steps in their order.
LEMMA OrderIs ==
    /\ Len(DeletionOrder) = 21
    /\ DeletionOrder[1] = "replyEvents" /\ DeletionOrder[3] = "monitorChecks" /\ DeletionOrder[4] = "webhookDeliveries"
    /\ DeletionOrder[8] = "automationEnrollments" /\ DeletionOrder[9] = "automations" /\ DeletionOrder[12] = "mailboxes"
    /\ DeletionOrder[20] = "webhooks" /\ DeletionOrder[21] = "monitors"
  BY DEF DeletionOrder

\* The tables that are deleted are those of the steps.
LEMMA DeletedIs == Deleted = {DeletionOrder[i] : i \in 1 .. 21}
  BY OrderIs DEF Deleted

\* Each parent has one step.
LEMMA ParentSteps ==
  ASSUME NEW k \in 1 .. 21
  PROVE  /\ DeletionOrder[k] = "mailboxes" => k = 12
         /\ DeletionOrder[k] = "monitors" => k = 21
         /\ DeletionOrder[k] = "webhooks" => k = 20
         /\ DeletionOrder[k] = "automations" => k = 9
  BY DEF DeletionOrder

\* The tables whose rows may not lose their parent, and their parents.
LEMMA ParentIs ==
    /\ Restricting = {"replyEvents", "monitorChecks", "webhookDeliveries", "automationEnrollments"}
    /\ Parent["replyEvents"] = "mailboxes" /\ Parent["monitorChecks"] = "monitors"
    /\ Parent["webhookDeliveries"] = "webhooks" /\ Parent["automationEnrollments"] = "automations"
    /\ DOMAIN Parent = Restricting \cup {"trackingEvents"}
  BY DEF Parent, Restricting

\* Children come before their parents.
LEMMA ChildrenFirst ==
  ASSUME NEW t \in Restricting, NEW k \in 1 .. 21, DeletionOrder[k] = Parent[t]
  PROVE  t \in Deleted /\ t \in {DeletionOrder[i] : i \in 1 .. k - 1}
  BY ParentIs, ParentSteps, OrderIs, DeletedIs

\* The invariant holds at the start.
LEMMA DeletionStarts == DeletionInit => DeletionInv
<1> SUFFICES ASSUME DeletionInit PROVE DeletionInv OBVIOUS
<1>1. rows = {Row(t, 1, 0) : t \in Deleted \union Kept} /\ deletion = NoDeletion /\ delActs = 0
  BY DEF DeletionInit
<1>2. IsDeletion(deletion) BY <1>1 DEF IsDeletion, NoDeletion
<1>3. deletion.listed = {} /\ deletion.gone = {} /\ deletion.stage = "idle" BY <1>1 DEF NoDeletion
<1>4. \A r \in rows : r.at = 0 BY <1>1 DEF Row
<1>5. ASSUME NEW r \in rows, r.table \in Restricting PROVE ParentIn(r, rows)
  <2>1. r.of = 1 BY <1>1 DEF Row
  <2>2. PICK q : q = Parent[r.table] OBVIOUS
  <2>3. q \in Deleted BY <1>5, <2>2, ParentIs, OrderIs, DeletedIs
  <2>4. PICK p : p = Row(q, 1, 0) OBVIOUS
  <2>5. p \in rows BY <1>1, <2>3, <2>4
  <2>6. p.table = q /\ p.of = 1 BY <2>4 DEF Row
  <2> QED BY <2>1, <2>2, <2>5, <2>6 DEF ParentIn
<1> QED BY <1>1, <1>2, <1>3, <1>4, <1>5 DEF DeletionInv, DeletionTypes, HasParents, Deleting

\* A deletion of which one or more fields are set.
LEMMA StageIs ==
  ASSUME NEW d, IsDeletion(d), NEW c \in {"idle", "deleting", "revoke", "answered", "refused", "lost"}, NEW e, e = [d EXCEPT !.stage = c]
  PROVE  IsDeletion(e) /\ e.stage = c /\ e.step = d.step /\ e.listed = d.listed /\ e.gone = d.gone /\ e.met = d.met
<1>1. PICK s, k, l, g, m : d = [stage |-> s, step |-> k, listed |-> l, gone |-> g, met |-> m] /\ k \in Nat /\ m \in BOOLEAN
  BY DEF IsDeletion
<1>2. e = [stage |-> c, step |-> k, listed |-> l, gone |-> g, met |-> m] BY <1>1
<1>3. IsDeletion(e) BY <1>1, <1>2, Zenon DEF IsDeletion
<1>4. e.stage = c /\ e.step = d.step /\ e.listed = d.listed /\ e.gone = d.gone /\ e.met = d.met BY <1>1, <1>2
<1> QED BY <1>3, <1>4

\* The same of the rows it keeps for a roll back.
LEMMA GoneIs ==
  ASSUME NEW d, IsDeletion(d), NEW c, NEW e, e = [d EXCEPT !.gone = c]
  PROVE  IsDeletion(e) /\ e.gone = c /\ e.step = d.step /\ e.listed = d.listed /\ e.stage = d.stage /\ e.met = d.met
<1>1. PICK s \in {"idle", "deleting", "revoke", "answered", "refused", "lost"}, k \in Nat : \E l, g, m :
        d = [stage |-> s, step |-> k, listed |-> l, gone |-> g, met |-> m] /\ m \in BOOLEAN
  BY DEF IsDeletion
<1>2. PICK l, g, m : d = [stage |-> s, step |-> k, listed |-> l, gone |-> g, met |-> m] /\ m \in BOOLEAN BY <1>1
<1>3. e = [stage |-> s, step |-> k, listed |-> l, gone |-> c, met |-> m] BY <1>2
<1>4. IsDeletion(e) BY <1>2, <1>3, Zenon DEF IsDeletion
<1>5. e.gone = c /\ e.step = d.step /\ e.listed = d.listed /\ e.stage = d.stage /\ e.met = d.met BY <1>2, <1>3
<1> QED BY <1>4, <1>5

\* The same of its step.
LEMMA StepIs ==
  ASSUME NEW d, IsDeletion(d), NEW c \in Nat, NEW e, e = [d EXCEPT !.step = c]
  PROVE  IsDeletion(e) /\ e.step = c /\ e.gone = d.gone /\ e.listed = d.listed /\ e.stage = d.stage /\ e.met = d.met
<1>1. PICK s \in {"idle", "deleting", "revoke", "answered", "refused", "lost"}, k \in Nat : \E l, g, m :
        d = [stage |-> s, step |-> k, listed |-> l, gone |-> g, met |-> m] /\ m \in BOOLEAN
  BY DEF IsDeletion
<1>2. PICK l, g, m : d = [stage |-> s, step |-> k, listed |-> l, gone |-> g, met |-> m] /\ m \in BOOLEAN BY <1>1
<1>3. e = [stage |-> s, step |-> c, listed |-> l, gone |-> g, met |-> m] BY <1>2
<1>4. IsDeletion(e) BY <1>2, <1>3, Zenon DEF IsDeletion
<1>5. e.step = c /\ e.gone = d.gone /\ e.listed = d.listed /\ e.stage = d.stage /\ e.met = d.met BY <1>2, <1>3
<1> QED BY <1>4, <1>5

\* The same of whether it met a row that was added.
LEMMA MetIs ==
  ASSUME NEW d, IsDeletion(d), NEW c \in BOOLEAN, NEW e, e = [d EXCEPT !.met = c]
  PROVE  IsDeletion(e) /\ e.met = c /\ e.gone = d.gone /\ e.listed = d.listed /\ e.stage = d.stage /\ e.step = d.step
<1>1. PICK s \in {"idle", "deleting", "revoke", "answered", "refused", "lost"}, k \in Nat : \E l, g, m :
        d = [stage |-> s, step |-> k, listed |-> l, gone |-> g, met |-> m] /\ m \in BOOLEAN
  BY DEF IsDeletion
<1>2. PICK l, g, m : d = [stage |-> s, step |-> k, listed |-> l, gone |-> g, met |-> m] /\ m \in BOOLEAN BY <1>1
<1>3. e = [stage |-> s, step |-> k, listed |-> l, gone |-> g, met |-> c] BY <1>2
<1>4. IsDeletion(e) BY <1>2, <1>3, Zenon DEF IsDeletion
<1>5. e.met = c /\ e.gone = d.gone /\ e.listed = d.listed /\ e.stage = d.stage /\ e.step = d.step BY <1>2, <1>3
<1> QED BY <1>4, <1>5

\* Every step keeps the invariant.
LEMMA DeletionStep == DeletionInv /\ [DeletionNext]_deletionVars => DeletionInv'
<1> SUFFICES ASSUME DeletionInv, [DeletionNext]_deletionVars PROVE DeletionInv' OBVIOUS
<1>t. IsDeletion(deletion) /\ delActs \in Nat /\ \A r \in rows \union deletion.listed \union deletion.gone : r.at \in Nat /\ r.at <= delActs
  BY DEF DeletionInv, DeletionTypes
<1>i. /\ HasParents(rows, rows)
      /\ Deleting => WhileDeleting
      /\ ~Deleting => deletion.gone = {}
      /\ deletion.stage \in {"revoke", "answered"} => AfterDeleting
      /\ deletion.stage = "answered" => ~keyActive
      /\ deletion.stage = "refused" => deletion.met
      /\ deletion.stage \in {"refused", "lost"} => deletion.listed \subseteq rows
  BY DEF DeletionInv
<1>1. CASE RequestDeletion
  <2>1. PICK s, k : s = "deleting" /\ k = 1 OBVIOUS
  <2>2. deletion' = [NoDeletion EXCEPT !.stage = s, !.step = k, !.listed = rows] /\ rows' = rows /\ delActs' = delActs + 1
    BY <1>1, <2>1 DEF RequestDeletion, DelSpend
  <2>3. deletion' = [stage |-> s, step |-> k, listed |-> rows, gone |-> {}, met |-> FALSE]
    BY <2>2 DEF NoDeletion
  <2>4. IsDeletion(deletion') BY <2>1, <2>3 DEF IsDeletion
  <2>5. deletion'.stage = "deleting" /\ deletion'.step = 1 /\ deletion'.listed = rows /\ deletion'.gone = {} /\ deletion'.met = FALSE
    BY <2>1, <2>3
  <2>6. \A r \in rows' \union deletion'.listed \union deletion'.gone : r.at \in Nat /\ r.at <= delActs'
    BY <1>t, <2>2, <2>5
  <2>7. DeletionTypes'
    <3>1. IsDeletion(deletion)' BY <2>4, Zenon DEF IsDeletion
    <3>2. delActs' \in Nat BY <1>t, <2>2
    <3> QED BY <2>6, <3>1, <3>2 DEF DeletionTypes
  <2>8. Passed' = {} BY <2>5 DEF Passed
  <2>9. HasParents(rows, rows)' BY <1>i, <2>2 DEF HasParents, ParentIn
  <2>10. WhileDeleting' BY <1>i, <2>2, <2>5, <2>8 DEF WhileDeleting, HasParents, ParentIn
  <2> QED BY <2>5, <2>7, <2>9, <2>10 DEF DeletionInv, Deleting
<1>2. CASE DeleteStep
  <2>1. PICK t : t = DeletionOrder[deletion.step] OBVIOUS
  <2>2. PICK D : D = Doomed(t) OBVIOUS
  <2>3. Deleting /\ ~StillReferred(t) /\ rows' = rows \ D /\ keyActive' = keyActive /\ delActs' = delActs
    BY <1>2, <2>1, <2>2 DEF DeleteStep
  <2>4. WhileDeleting BY <1>i, <2>3
  <2>5. D \subseteq rows /\ \A r \in D : r.table = t BY <2>2 DEF Doomed
  <2>6. ASSUME NEW r \in rows, r.table \in Restricting PROVE ParentIn(r, rows \ D)
    BY <1>i, <2>6, <2>2, <2>3 DEF HasParents, ParentIn, StillReferred
  <2>7. HasParents(rows', rows') BY <2>3, <2>6 DEF HasParents
  <2>8. ASSUME NEW r \in deletion.listed, Owned(r), r.table = t PROVE r \notin rows'
    BY <2>4, <2>8, ParentIs, <2>2, <2>3 DEF WhileDeleting, HasParents, Owned, Doomed
  <2>9. deletion.step \in 1 .. 21 /\ Len(DeletionOrder) = 21 BY <2>4, OrderIs DEF WhileDeleting
  <2>10. ASSUME NEW r \in deletion.listed, Owned(r), r.table \in {DeletionOrder[i] : i \in 1 .. deletion.step} PROVE r \notin rows'
    BY <2>1, <2>9, <2>10, <2>4, <2>3, <2>8 DEF Passed, WhileDeleting
  <2>11. CASE deletion.step = 21
    <3>1. PICK c \in {"idle", "deleting", "revoke", "answered", "refused", "lost"} : c = "revoke" OBVIOUS
    <3>2. PICK e : e = [deletion EXCEPT !.stage = c] OBVIOUS
    <3>3. IsDeletion(e) /\ e.stage = c /\ e.step = deletion.step /\ e.listed = deletion.listed /\ e.gone = deletion.gone /\ e.met = deletion.met
      BY <1>t, <3>2, StageIs
    <3>4. PICK g : g = {} OBVIOUS
    <3>5. PICK d : d = [e EXCEPT !.gone = g] OBVIOUS
    <3>6. IsDeletion(e) BY <3>3
    <3>7. IsDeletion(d) /\ d.gone = g /\ d.step = e.step /\ d.listed = e.listed /\ d.stage = e.stage /\ d.met = e.met
      BY <3>5, <3>6, GoneIs
    <3>8. [deletion EXCEPT !.stage = c, !.gone = g] = [e EXCEPT !.gone = g] BY <3>2
    <3>9. deletion' = [deletion EXCEPT !.stage = c, !.gone = g] BY <1>2, <2>9, <2>11, <3>1, <3>4 DEF DeleteStep
    <3>10. deletion' = d BY <3>5, <3>8, <3>9, Zenon
    <3>11. deletion'.stage = "revoke" /\ deletion'.listed = deletion.listed /\ deletion'.gone = {} /\ IsDeletion(deletion')
      BY <3>1, <3>3, <3>4, <3>7, <3>10
    <3>12. DeletionTypes' BY <1>t, <2>3, <3>11 DEF DeletionTypes, IsDeletion
    <3>13. \A r \in deletion.listed : Owned(r) => r \notin rows' BY <2>10, <2>11, DeletedIs DEF Owned
    <3>14. AfterDeleting' BY <3>11, <3>13 DEF AfterDeleting, Owned, ParentIn
    <3>15. HasParents(rows, rows)' BY <2>7 DEF HasParents, ParentIn
    <3> QED BY <3>11, <3>12, <3>14, <3>15 DEF DeletionInv, Deleting
  <2>12. CASE deletion.step # 21
    <3>1. PICK k \in Nat : k = deletion.step + 1 BY <2>9
    <3>2. PICK e : e = [deletion EXCEPT !.step = k] OBVIOUS
    <3>3. IsDeletion(e) /\ e.step = k /\ e.stage = deletion.stage /\ e.listed = deletion.listed /\ e.gone = deletion.gone /\ e.met = deletion.met
      BY <1>t, <3>2, StepIs
    <3>4. PICK g : g = deletion.gone \union D OBVIOUS
    <3>5. PICK d : d = [e EXCEPT !.gone = g] OBVIOUS
    <3>6. IsDeletion(e) BY <3>3
    <3>7. IsDeletion(d) /\ d.gone = g /\ d.step = e.step /\ d.listed = e.listed /\ d.stage = e.stage /\ d.met = e.met
      BY <3>5, <3>6, GoneIs
    <3>8. [deletion EXCEPT !.step = k, !.gone = @ \union D] = [e EXCEPT !.gone = @ \union D] BY <3>2
    <3>9. deletion' = [deletion EXCEPT !.step = k, !.gone = @ \union D]
      BY <1>2, <2>1, <2>2, <2>9, <2>12, <3>1 DEF DeleteStep
    <3>10. [e EXCEPT !.gone = @ \union D] = d BY <3>3, <3>4, <3>5
    <3>11. deletion' = d BY <3>8, <3>9, <3>10, Zenon
    <3>12. /\ deletion'.stage = "deleting" /\ deletion'.listed = deletion.listed /\ deletion'.gone = deletion.gone \union D
           /\ deletion'.step = deletion.step + 1 /\ deletion'.met = deletion.met /\ IsDeletion(deletion')
      BY <2>3, <3>1, <3>3, <3>4, <3>7, <3>11 DEF Deleting
    <3>13. rows' \union deletion'.gone = rows \union deletion.gone BY <2>3, <2>5, <3>12
    <3>14. \A r \in rows' \union deletion'.listed \union deletion'.gone : r.at \in Nat /\ r.at <= delActs
      BY <1>t, <3>12, <3>13
    <3>15. DeletionTypes' BY <1>t, <2>3, <3>12, <3>14 DEF DeletionTypes, IsDeletion
    <3>16. Passed' = {DeletionOrder[i] : i \in 1 .. deletion.step} BY <2>9, <3>12 DEF Passed
    <3>17. ASSUME NEW r \in deletion'.gone, r.table \in Restricting PROVE ParentIn(r, rows \union deletion.gone)
      BY <2>5, <3>12, <3>17, <1>i, <2>4 DEF WhileDeleting, HasParents, ParentIn
    <3>18. HasParents(deletion'.gone, rows' \union deletion'.gone) BY <3>13, <3>17 DEF HasParents
    <3>19. HasParents(deletion'.listed, deletion'.listed) BY <2>4, <3>12 DEF WhileDeleting
    <3>20. deletion'.listed \subseteq rows' \union deletion'.gone /\ (~deletion'.met => rows' \subseteq deletion'.listed)
      BY <2>3, <2>4, <3>12, <3>13 DEF WhileDeleting
    <3>21. \A r \in deletion'.listed : Owned(r) /\ r.table \in Passed' => r \notin rows' BY <2>10, <3>12, <3>16
    <3>22. (\A r \in deletion.listed : Owned(r) /\ r.table \in Passed => r \notin rows)'
      BY <3>12, <3>21 DEF Owned, ParentIn
    <3>23. deletion'.step \in 1 .. 21 BY <2>9, <2>12, <3>12
    <3>24. WhileDeleting' BY <3>18, <3>19, <3>20, <3>22, <3>23 DEF WhileDeleting, HasParents, ParentIn
    <3>25. HasParents(rows, rows)' BY <2>7 DEF HasParents, ParentIn
    <3> QED BY <3>12, <3>15, <3>24, <3>25 DEF DeletionInv, Deleting
  <2> QED BY <2>11, <2>12
<1>r. ASSUME NEW c \in {"refused", "lost"}, RollBack(c), c = "refused" => deletion.met, delActs' \in Nat, delActs' >= delActs
      PROVE DeletionInv'
  <2>1. Deleting /\ rows' = rows \union deletion.gone /\ keyActive' = keyActive BY <1>r DEF RollBack
  <2>2. WhileDeleting BY <1>i, <2>1
  <2>3. PICK a \in {"idle", "deleting", "revoke", "answered", "refused", "lost"} : a = c OBVIOUS
  <2>4. PICK e : e = [deletion EXCEPT !.stage = a] OBVIOUS
  <2>5. IsDeletion(e) /\ e.stage = a /\ e.step = deletion.step /\ e.listed = deletion.listed /\ e.gone = deletion.gone /\ e.met = deletion.met
    BY <1>t, <2>4, StageIs
  <2>6. PICK g : g = {} OBVIOUS
  <2>7. PICK d : d = [e EXCEPT !.gone = g] OBVIOUS
  <2>8. IsDeletion(e) BY <2>5
  <2>9. IsDeletion(d) /\ d.gone = g /\ d.step = e.step /\ d.listed = e.listed /\ d.stage = e.stage /\ d.met = e.met
    BY <2>7, <2>8, GoneIs
  <2>10. [deletion EXCEPT !.stage = a, !.gone = g] = [e EXCEPT !.gone = g] BY <2>4
  <2>11. deletion' = [deletion EXCEPT !.stage = a, !.gone = g] BY <1>r, <2>3, <2>6 DEF RollBack
  <2>12. deletion' = d BY <2>7, <2>10, <2>11, Zenon
  <2>13. deletion'.stage = c /\ deletion'.listed = deletion.listed /\ deletion'.gone = {} /\ deletion'.met = deletion.met /\ IsDeletion(deletion')
    BY <2>3, <2>5, <2>6, <2>9, <2>12
  <2>14. \A r \in rows' \union deletion'.listed \union deletion'.gone : r.at \in Nat /\ r.at <= delActs
    BY <1>t, <2>1, <2>13
  <2>15. \A r \in rows' \union deletion'.listed \union deletion'.gone : r.at \in Nat /\ r.at <= delActs'
    BY <1>t, <1>r, <2>14
  <2>16. IsDeletion(deletion)' BY <2>13, Zenon DEF IsDeletion
  <2>17. DeletionTypes' BY <1>r, <2>15, <2>16 DEF DeletionTypes
  <2>18. ASSUME NEW r \in rows', r.table \in Restricting PROVE ParentIn(r, rows')
    BY <2>1, <2>18, <1>i, <2>2 DEF HasParents, ParentIn, WhileDeleting
  <2>19. HasParents(rows, rows)' BY <2>18 DEF HasParents, ParentIn
  <2>20. deletion'.listed \subseteq rows' BY <2>1, <2>2, <2>13 DEF WhileDeleting
  <2>21. deletion'.stage = "refused" => deletion'.met BY <1>r, <2>13
  <2> QED BY <2>13, <2>17, <2>19, <2>20, <2>21 DEF DeletionInv, Deleting
<1>3. CASE DeletionRefused
  <2>1. Deleting /\ StillReferred(DeletionOrder[deletion.step]) /\ RollBack("refused") /\ delActs' = delActs
    BY <1>3 DEF DeletionRefused
  <2>2. WhileDeleting BY <1>i, <2>1
  <2>3. PICK k \in 1 .. 21 : k = deletion.step BY <2>2 DEF WhileDeleting
  <2>4. ASSUME ~deletion.met PROVE FALSE
    BY <2>1, <2>3, ChildrenFirst, <2>2, <2>4, ParentIs DEF StillReferred, ParentIn, Doomed, WhileDeleting, Owned,
       Passed
  <2>5. deletion.met BY <2>4
  <2>6. delActs' \in Nat /\ delActs' >= delActs BY <1>t, <2>1
  <2>7. PICK c \in {"refused", "lost"} : c = "refused" OBVIOUS
  <2>8. RollBack(c) BY <2>1, <2>7
  <2> QED BY <1>r, <2>5, <2>6, <2>8
<1>4. CASE DeletionLost BY <1>4, <1>t, <1>r DEF DeletionLost, DelSpend
<1>5. CASE RevokeOwnKey
  <2>1. deletion.stage = "revoke" /\ keyActive' = FALSE /\ rows' = rows /\ delActs' = delActs
    BY <1>5 DEF RevokeOwnKey
  <2>2. PICK a \in {"idle", "deleting", "revoke", "answered", "refused", "lost"} : a = "answered" OBVIOUS
  <2>3. deletion' = [deletion EXCEPT !.stage = a] BY <1>5, <2>2 DEF RevokeOwnKey
  <2>4. IsDeletion(deletion') /\ deletion'.stage = "answered" /\ deletion'.listed = deletion.listed /\ deletion'.gone = deletion.gone
    BY <1>t, <2>2, <2>3, StageIs
  <2>5. deletion.gone = {} /\ AfterDeleting BY <1>i, <2>1 DEF Deleting
  <2>6. \A r \in rows' \union deletion'.listed \union deletion'.gone : r.at \in Nat /\ r.at <= delActs'
    BY <1>t, <2>1, <2>4
  <2>7. IsDeletion(deletion)' BY <2>4, Zenon DEF IsDeletion
  <2>8. DeletionTypes' BY <1>t, <2>1, <2>6, <2>7 DEF DeletionTypes
  <2>9. HasParents(rows, rows)' BY <1>i, <2>1 DEF HasParents, ParentIn
  <2>10. AfterDeleting' BY <2>1, <2>4, <2>5 DEF AfterDeleting, Owned, ParentIn
  <2> QED BY <2>1, <2>4, <2>5, <2>8, <2>9, <2>10 DEF DeletionInv, Deleting
<1>6. CASE NotRevoked
  <2>1. deletion.stage = "revoke" /\ keyActive' = keyActive /\ rows' = rows /\ delActs' = delActs + 1
    BY <1>6 DEF NotRevoked, DelSpend
  <2>2. PICK s \in {"idle", "deleting", "revoke", "answered", "refused", "lost"}, k \in Nat : \E l, g, m :
          deletion = [stage |-> s, step |-> k, listed |-> l, gone |-> g, met |-> m] /\ m \in BOOLEAN
    BY <1>t DEF IsDeletion
  <2>3. PICK l, g, m : deletion = [stage |-> s, step |-> k, listed |-> l, gone |-> g, met |-> m] /\ m \in BOOLEAN
    BY <2>2
  <2>4. PICK a \in {"idle", "deleting", "revoke", "answered", "refused", "lost"} : a = "lost" OBVIOUS
  <2>5. PICK e : e = [deletion EXCEPT !.stage = a] OBVIOUS
  <2>6. e = [stage |-> a, step |-> k, listed |-> l, gone |-> g, met |-> m] BY <2>3, <2>5
  <2>7. PICK h : h = {} OBVIOUS
  <2>8. PICK d : d = [e EXCEPT !.listed = h] OBVIOUS
  <2>9. d = [stage |-> a, step |-> k, listed |-> h, gone |-> g, met |-> m] BY <2>6, <2>8
  <2>10. [deletion EXCEPT !.stage = a, !.listed = h] = [e EXCEPT !.listed = h] BY <2>5
  <2>11. deletion' = [deletion EXCEPT !.stage = a, !.listed = h] BY <1>6, <2>4, <2>7 DEF NotRevoked
  <2>12. deletion' = d BY <2>8, <2>10, <2>11, Zenon
  <2>13. IsDeletion(d) BY <2>3, <2>9, Zenon DEF IsDeletion
  <2>14. IsDeletion(deletion)' BY <2>12, <2>13, Zenon DEF IsDeletion
  <2>15. deletion'.stage = "lost" /\ deletion'.listed = {} /\ deletion'.gone = deletion.gone /\ deletion.gone = {}
    BY <1>i, <2>1, <2>3, <2>4, <2>7, <2>9, <2>12 DEF Deleting
  <2>16. \A r \in rows' \union deletion'.listed \union deletion'.gone : r.at \in Nat /\ r.at <= delActs'
    BY <1>t, <2>1, <2>15
  <2>17. delActs' \in Nat BY <1>t, <2>1
  <2>18. DeletionTypes' BY <2>14, <2>16, <2>17 DEF DeletionTypes
  <2>19. HasParents(rows, rows)' BY <1>i, <2>1 DEF HasParents, ParentIn
  <2> QED BY <2>15, <2>18, <2>19 DEF DeletionInv, Deleting
<1>7. ASSUME NEW t \in Written, AddRow(t) PROVE DeletionInv'
  <2>1. PICK n \in 1 .. 2 :
          /\ t \in Restricting => ParentIn(Row(t, n, 0), rows)
          /\ rows' = rows \union {Row(t, n, delActs + 1)} /\ delActs' = delActs + 1 /\ keyActive' = keyActive
    BY <1>7 DEF AddRow, DelSpend
  <2>2. PICK q : q = Row(t, n, delActs + 1) OBVIOUS
  <2>3. q.at = delActs + 1 /\ q.table = t /\ q.of = n BY <2>2 DEF Row
  <2>4. q \notin rows /\ q \notin deletion.listed /\ rows' = rows \union {q} BY <1>t, <2>1, <2>2, <2>3
  <2>5. deletion.met \in BOOLEAN BY <1>t DEF IsDeletion
  <2>6. PICK b \in BOOLEAN : b = (deletion.met \/ Deleting) BY Zenon
  <2>7. deletion' = [deletion EXCEPT !.met = b] BY <1>7, <2>6, Zenon DEF AddRow
  <2>8. IsDeletion(deletion') /\ deletion'.met = b /\ deletion'.gone = deletion.gone /\ deletion'.listed = deletion.listed /\ deletion'.stage = deletion.stage /\ deletion'.step = deletion.step
    BY <1>t, <2>7, MetIs
  <2>9. (deletion.met => b) /\ (Deleting => b) BY <2>5, <2>6
  <2>10. IsDeletion(deletion)' BY <2>8, Zenon DEF IsDeletion
  <2>11. \A r \in rows' \union deletion'.listed \union deletion'.gone : r.at \in Nat /\ r.at <= delActs'
    BY <1>t, <2>1, <2>3, <2>4, <2>8
  <2>12. delActs' \in Nat BY <1>t, <2>1
  <2>13. DeletionTypes' BY <2>10, <2>11, <2>12 DEF DeletionTypes
  <2>14. t \in Restricting => ParentIn(q, rows) BY <2>1, <2>3 DEF ParentIn, Row
  <2>15. HasParents(rows, rows)' BY <1>i, <2>3, <2>4, <2>14 DEF HasParents, ParentIn
  <2>16. ASSUME NEW r \in deletion.listed PROVE r \in rows' <=> r \in rows BY <2>4
  <2>17. Deleting' => WhileDeleting'
    <3>1. SUFFICES ASSUME Deleting' PROVE WhileDeleting' OBVIOUS
    <3>2. Deleting /\ WhileDeleting BY <1>i, <2>8, <3>1 DEF Deleting
    <3>3. deletion'.step \in 1 .. 21 /\ HasParents(deletion'.listed, deletion'.listed) /\ deletion'.listed \subseteq rows' \union deletion'.gone
      BY <2>4, <2>8, <3>2 DEF WhileDeleting
    <3>4. HasParents(deletion'.gone, rows' \union deletion'.gone)
      BY <2>4, <2>8, <3>2 DEF WhileDeleting, HasParents, ParentIn
    <3>5. deletion'.met BY <2>8, <2>9, <3>2
    <3>6. Passed' = Passed BY <2>8 DEF Passed
    <3>7. \A r \in deletion.listed : Owned(r) /\ r.table \in Passed => r \notin rows'
      BY <2>16, <3>2 DEF WhileDeleting
    <3>8. (\A r \in deletion.listed : Owned(r) /\ r.table \in Passed => r \notin rows)'
      BY <2>8, <3>6, <3>7 DEF Owned, ParentIn
    <3> QED BY <3>3, <3>4, <3>5, <3>8 DEF WhileDeleting, HasParents, ParentIn
  <2>18. deletion.stage \in {"revoke", "answered"} => \A r \in deletion.listed : Owned(r) => r \notin rows'
    BY <1>i, <2>16 DEF AfterDeleting
  <2>19. (deletion.stage \in {"revoke", "answered"} => AfterDeleting)'
    BY <2>8, <2>18 DEF AfterDeleting, Owned, ParentIn
  <2>20. (~Deleting => deletion.gone = {})' /\ (deletion.stage = "refused" => deletion.met)'
    BY <1>i, <2>8, <2>9 DEF Deleting
  <2>21. (deletion.stage = "answered" => ~keyActive)' BY <1>i, <2>1, <2>8
  <2>22. (deletion.stage \in {"refused", "lost"} => deletion.listed \subseteq rows)' BY <1>i, <2>4, <2>8
  <2> QED BY <2>13, <2>15, <2>17, <2>19, <2>20, <2>21, <2>22 DEF DeletionInv
<1>8. CASE UNCHANGED deletionVars
  <2>1. rows' = rows /\ deletion' = deletion /\ keyActive' = keyActive /\ delActs' = delActs
    BY <1>8 DEF deletionVars
  <2>2. IsDeletion(deletion)' BY <1>t, <2>1, Zenon DEF IsDeletion
  <2>3. DeletionTypes' BY <1>t, <2>1, <2>2 DEF DeletionTypes
  <2>4. Passed' = Passed BY <2>1 DEF Passed
  <2>5. HasParents(rows, rows)' BY <1>i, <2>1 DEF HasParents, ParentIn
  <2>6. (Deleting => WhileDeleting)'
    BY <1>i, <2>1, <2>4 DEF Deleting, WhileDeleting, HasParents, ParentIn, Owned
  <2>7. (deletion.stage \in {"revoke", "answered"} => AfterDeleting)'
    BY <1>i, <2>1 DEF AfterDeleting, Owned, ParentIn
  <2> QED BY <1>i, <2>1, <2>3, <2>5, <2>6, <2>7 DEF DeletionInv, Deleting
<1> QED BY <1>1, <1>2, <1>3, <1>4, <1>5, <1>6, <1>7, <1>8 DEF DeletionNext

\* What it says of the property.
LEMMA DeletionMeans == DeletionInv => DeletionHolds
  BY DEF DeletionInv, AfterDeleting, DeletionHolds

----------------------------------------------------------------------------
(***************************************************************************)
(* UsageMeter.  No date runs further ahead than one month, so a reset is   *)
(* of this month or still due; and of the calls that bill the allowance at *)
(* once, each has at most the whole of it to take.                         *)
(***************************************************************************)

\* A request as the code leaves it.
RequestRecords == [pc : {"idle", "meter", "zeroed", "serve"}, api : Apis \cup {NoRecord},
                   obj : Objects \cup {NoRecord}, meter : Meters \cup {NoRecord}, now : Nat]

\* A call that bills leads.
ChargerRecords == [pc : {"idle", "write"}, count : Nat, remaining : Nat]

\* A request at work holds a record and a counter, and is not older than the calendar.
RequestHolds(q, n) ==
  /\ q.pc = "idle" => q.obj = NoRecord
  /\ q.pc # "idle" => q.obj \in Objects /\ q.meter \in Meters /\ q.now <= n

\* No reset is dated later than the month to come, and one that is done began from nothing.
DatesHold(k, n, s) == \A m \in Meters : k.reset[m] <= n + 1 /\ (k.reset[m] > n => k.used[m] <= s[m])

\* The calls that have read something left and not billed it.
Overlapping(c) == {f \in Chargers : c[f].pc = "write" /\ c[f].remaining > 0}

\* What n calls may bill at the most.
Worth(n) == n * FinderLimit

\* The calls to come may each take a whole allowance; or one of those under way read it
\* late enough.
AllowanceHolds(c, v) ==
  \/ v <= Worth(Cardinality(Chargers) - Cardinality(Overlapping(c)))
  \/ \E f \in Overlapping(c) : c[f].remaining + v <= Worth(Cardinality(Chargers) - Cardinality(Overlapping(c)) + 1)

\* The inductive invariant of UsageMeter.
MeterInv ==
  /\ MeterTypeOK
  /\ \A r \in Requests : RequestHolds(request[r], month)
  /\ DatesHold(key, month, spent)
  /\ \A f \in Chargers : charger[f].remaining <= FinderLimit
  /\ AllowanceHolds(charger, key.finder)

\* The constants.
LEMMA MeterConstants ==
  /\ FinderLimit \in Nat \ {0} /\ FINDER_OVERFLOW_VERIFICATION_COST \in Nat \ {0} /\ Quota \in Nat \ {0} /\ MaxLeads \in Nat \ {0}
  /\ NoRecord \notin Objects
  /\ IsFiniteSet(Apis) /\ IsFiniteSet(Requests) /\ IsFiniteSet(Objects) /\ IsFiniteSet(Chargers)
  BY MeterAssumption, Zenon

\* What one call more is worth.
LEMMA WorthOfOneMore == ASSUME NEW n \in Int PROVE Worth(n) \in Int /\ Worth(n + 1) = Worth(n) + FinderLimit
  BY MeterConstants DEF Worth

\* What no call less than none is worth.
LEMMA WorthIsPositive == ASSUME NEW n \in Nat PROVE Worth(n) \in Nat
  BY MeterConstants DEF Worth

\* More calls are worth more.
LEMMA WorthGrows == ASSUME NEW n \in Int, NEW m \in Int, n <= m PROVE Worth(n) <= Worth(m)
  BY MeterConstants, WorthIsPositive, WorthOfOneMore DEF Worth

\* The values of a function on a finite set are no more than the set.
LEMMA FewerValues ==
  ASSUME NEW S, IsFiniteSet(S), NEW g
  PROVE  \E T : T = {g[x] : x \in S} /\ IsFiniteSet(T) /\ Cardinality(T) <= Cardinality(S)
<1>1. PICK T : T = {g[x] : x \in S} OBVIOUS
<1>2. PICK f : f = [x \in S |-> g[x]] OBVIOUS
<1>3. f \in Surjection(S, T) BY <1>1, <1>2 DEF Surjection
<1>4. IsFiniteSet(T) /\ Cardinality(T) <= Cardinality(S) BY <1>3, FS_Surjection
<1> QED BY <1>1, <1>4

\* The calls under way are some of the calls there are.
LEMMA OverlappingAre ==
  ASSUME NEW c
  PROVE  IsFiniteSet(Overlapping(c)) /\ Cardinality(Overlapping(c)) \in Nat /\ Cardinality(Chargers) \in Nat
         /\ Cardinality(Overlapping(c)) <= Cardinality(Chargers)
  BY MeterConstants, FS_Subset, FS_CardinalityType, Zenon DEF Overlapping

\* A counter that begins anew leaves room for all.
LEMMA NothingBilled == ASSUME NEW c PROVE AllowanceHolds(c, 0)
  BY OverlappingAre, WorthIsPositive DEF AllowanceHolds

\* What the invariant of the allowance says.
LEMMA AllowanceMeans ==
  ASSUME NEW c \in [Chargers -> ChargerRecords], NEW v \in Nat, AllowanceHolds(c, v)
  PROVE  v <= Worth(Cardinality(Chargers))
<1>1. PICK n, p, S : n = Cardinality(Chargers) /\ S = Overlapping(c) /\ p = Cardinality(S) OBVIOUS
<1>2. n \in Nat /\ p \in Nat /\ p <= n /\ IsFiniteSet(S) BY <1>1, OverlappingAre
<1>3. Worth(n) \in Int /\ Worth(n - p) <= Worth(n) BY <1>2, WorthGrows, WorthOfOneMore
<1>4. CASE v <= Worth(n - p) BY <1>2, WorthOfOneMore, <1>1, <1>3, <1>4
<1>5. CASE \E f \in S : c[f].remaining + v <= Worth(n - p + 1)
  <2>1. PICK f \in S : c[f].remaining + v <= Worth(n - p + 1) BY <1>5
  <2>2. c[f].remaining \in Nat BY <1>1, <2>1 DEF Overlapping, ChargerRecords
  <2>3. p # 0 BY <1>1, <1>2, <2>1, FS_EmptySet
  <2>4. n - p + 1 \in Int /\ n - p + 1 <= n BY <1>2, <2>3
  <2>5. Worth(n - p + 1) <= Worth(n) /\ Worth(n - p + 1) \in Int BY <1>2, <2>4, WorthGrows, WorthOfOneMore
  <2> QED BY <1>1, <1>3, <2>1, <2>2, <2>5
<1> QED BY <1>1, <1>4, <1>5 DEF AllowanceHolds

\* A call that reads the allowance.
LEMMA AllowanceRead ==
  ASSUME NEW c \in [Chargers -> ChargerRecords], NEW v \in Nat, AllowanceHolds(c, v),
         NEW f \in Chargers, c[f].pc = "idle", NEW q \in ChargerRecords, q.pc = "write",
         q.remaining = IF v <= FinderLimit THEN FinderLimit - v ELSE 0,
         NEW d, d = [c EXCEPT ![f] = q]
  PROVE  AllowanceHolds(d, v)
<1>0. FinderLimit \in Nat BY MeterConstants
<1>1. d \in [Chargers -> ChargerRecords] /\ d[f] = q /\ \A g \in Chargers : g # f => d[g] = c[g] OBVIOUS
<1>2. PICK n, p, S : n = Cardinality(Chargers) /\ S = Overlapping(c) /\ p = Cardinality(S) OBVIOUS
<1>3. n \in Nat /\ p \in Nat /\ p <= n /\ IsFiniteSet(S) BY <1>2, OverlappingAre
<1>4. f \notin S BY <1>2 DEF Overlapping
<1>5. CASE q.remaining > 0
  <2>1. Overlapping(d) = S \cup {f} BY <1>1, <1>2, <1>5 DEF Overlapping
  <2>2. Cardinality(S \cup {f}) = p + 1 BY <1>2, <1>3, <1>4, FS_AddElement
  <2>3. Cardinality(Overlapping(d)) = p + 1 /\ f \in Overlapping(d) BY <2>1, <2>2
  <2>4. p + 1 <= n BY <1>2, <2>3, OverlappingAre
  <2>5. d[f].remaining + v = FinderLimit BY <1>0, <1>1, <1>5
  <2>6. n - (p + 1) + 1 \in Int /\ 1 <= n - (p + 1) + 1 BY <1>3, <2>4
  <2>7. Worth(1) = FinderLimit BY <1>0 DEF Worth
  <2>8. FinderLimit <= Worth(n - (p + 1) + 1) BY <2>6, <2>7, WorthGrows
  <2>9. d[f].remaining + v <= Worth(n - (p + 1) + 1) BY <2>5, <2>8
  <2> QED BY <1>2, <2>3, <2>9 DEF AllowanceHolds
<1>6. CASE ~(q.remaining > 0) BY <1>1, <1>2, <1>4, <1>6 DEF Overlapping, AllowanceHolds
<1> QED BY <1>5, <1>6

\* A call that bills what it read.
LEMMA AllowanceBilled ==
  ASSUME NEW c \in [Chargers -> ChargerRecords], NEW v \in Nat, AllowanceHolds(c, v), \A g \in Chargers : c[g].remaining <= FinderLimit,
         NEW f \in Chargers, c[f].pc = "write", NEW o \in Nat, o <= c[f].remaining,
         NEW q \in ChargerRecords, q.pc = "idle", NEW d, d = [c EXCEPT ![f] = q]
  PROVE  AllowanceHolds(d, v + o)
<1>0. FinderLimit \in Nat BY MeterConstants
<1>1. d \in [Chargers -> ChargerRecords] /\ d[f] = q /\ \A g \in Chargers : g # f => d[g] = c[g] OBVIOUS
<1>2. PICK n, p, S : n = Cardinality(Chargers) /\ S = Overlapping(c) /\ p = Cardinality(S) OBVIOUS
<1>3. n \in Nat /\ p \in Nat /\ p <= n /\ IsFiniteSet(S) BY <1>2, OverlappingAre
<1>4. c[f].remaining \in Nat /\ o <= FinderLimit BY <1>0 DEF ChargerRecords
<1>5. CASE f \in S
  <2>1. Overlapping(d) = S \ {f} BY <1>1, <1>2 DEF Overlapping
  <2>2. Cardinality(S \ {f}) = p - 1 BY <1>2, <1>3, <1>5, FS_RemoveElement
  <2>3. Cardinality(Overlapping(d)) = p - 1 BY <2>1, <2>2
  <2>4. n - (p - 1) = n - p + 1 /\ n - p \in Int /\ n - p + 1 \in Int BY <1>3
  <2>5. Worth(n - p + 1) = Worth(n - p) + FinderLimit /\ Worth(n - p) \in Int /\ Worth(n - p + 1) \in Int
    BY <2>4, WorthOfOneMore
  <2>6. Worth(n - p + 1 + 1) = Worth(n - p + 1) + FinderLimit BY <2>4, WorthOfOneMore
  <2>7. CASE v <= Worth(n - p) BY <1>0, <1>4, <2>5, <2>7, <2>4, <1>2, <2>3 DEF AllowanceHolds
  <2>8. ASSUME NEW g \in S, c[g].remaining + v <= Worth(n - p + 1) PROVE AllowanceHolds(d, v + o)
    <3>1. c[g].remaining \in Nat BY <1>2 DEF Overlapping, ChargerRecords
    <3>2. CASE g = f BY <1>4, <2>5, <2>8, <3>2, <2>4, <1>2, <2>3 DEF AllowanceHolds
    <3>3. CASE g # f
      <4>1. g \in Overlapping(d) /\ d[g] = c[g] BY <1>1, <1>2, <2>1, <3>3 DEF Overlapping
      <4>2. c[g].remaining + (v + o) <= Worth(n - p + 1) + FinderLimit BY <1>0, <1>4, <2>5, <2>8, <3>1
      <4>3. d[g].remaining + (v + o) <= Worth(n - (p - 1) + 1) BY <2>4, <2>6, <4>1, <4>2
      <4> QED BY <1>2, <2>3, <4>1, <4>3 DEF AllowanceHolds
    <3> QED BY <3>2, <3>3
  <2> QED BY <1>2, <2>7, <2>8 DEF AllowanceHolds
<1>6. CASE f \notin S
  <2>1. o = 0 BY <1>2, <1>4, <1>6 DEF Overlapping
  <2>2. Overlapping(d) = S BY <1>1, <1>2, <1>6 DEF Overlapping
  <2>3. \A g \in S : d[g] = c[g] BY <1>1, <1>2, <1>6 DEF Overlapping
  <2>4. v + o = v BY <2>1
  <2> QED BY <1>2, <2>2, <2>3, <2>4 DEF AllowanceHolds
<1> QED BY <1>5, <1>6
\* A counter and its date go back to the start of a month.
LEMMA ZeroedIs ==
  ASSUME NEW k \in KeyType, NEW m \in Meters, NEW n \in Nat
  PROVE  /\ Zeroed(k, m, n) \in KeyType /\ Zeroed(k, m, n).used[m] = 0 /\ Zeroed(k, m, n).reset[m] = n + 1
         /\ Zeroed(k, m, n).finder = 0 \/ Zeroed(k, m, n).finder = k.finder
         /\ \A j \in Meters : j # m => Zeroed(k, m, n).used[j] = k.used[j] /\ Zeroed(k, m, n).reset[j] = k.reset[j]
<1>1. PICK u \in [Meters -> Nat], i \in Nat, s \in [Meters -> Nat], a \in Nat : k = [used |-> u, finder |-> i, reset |-> s, alertSent |-> a]
  BY DEF KeyType
<1>2. PICK v : v = [u EXCEPT ![m] = 0] OBVIOUS
<1>3. v \in [Meters -> Nat] /\ v[m] = 0 /\ \A j \in Meters : j # m => v[j] = u[j] BY <1>2
<1>4. PICK t : t = [s EXCEPT ![m] = n + 1] OBVIOUS
<1>5. t \in [Meters -> Nat] /\ t[m] = n + 1 /\ \A j \in Meters : j # m => t[j] = s[j] BY <1>4
<1>6. PICK e \in Nat : e = (IF m = "verify" THEN 0 ELSE i) /\ (e = 0 \/ e = i) BY <1>1
<1>8. PICK x : x = n + 1 OBVIOUS
<1>9. k.finder = i BY <1>1
<1>10. e = IF m = "verify" THEN 0 ELSE k.finder BY <1>6, <1>9
<1>11. Zeroed(k, m, n) = [k EXCEPT !.used[m] = 0, !.reset[m] = x, !.finder = e] BY <1>8, <1>10, Zenon DEF Zeroed
<1>12. [k EXCEPT !.used[m] = 0, !.reset[m] = x, !.finder = e] = [used |-> v, finder |-> e, reset |-> t, alertSent |-> a]
  <2>1. PICK y : y = [k EXCEPT !.used[m] = 0] OBVIOUS
  <2>2. y = [used |-> v, finder |-> i, reset |-> s, alertSent |-> a] BY <1>1, <1>2, <2>1
  <2>3. PICK z : z = [y EXCEPT !.reset[m] = x] OBVIOUS
  <2>4. z = [used |-> v, finder |-> i, reset |-> t, alertSent |-> a] BY <1>4, <1>8, <2>2, <2>3
  <2>5. [z EXCEPT !.finder = e] = [used |-> v, finder |-> e, reset |-> t, alertSent |-> a] BY <2>4
  <2>6. [k EXCEPT !.used[m] = 0, !.reset[m] = x, !.finder = e] = [z EXCEPT !.finder = e] BY <2>1, <2>3
  <2> QED BY <2>5, <2>6, Zenon
<1>7. Zeroed(k, m, n) = [used |-> v, finder |-> e, reset |-> t, alertSent |-> a] BY <1>11, <1>12, Zenon
<1> QED BY <1>1, <1>3, <1>5, <1>6, <1>7 DEF KeyType

\* The invariant holds at the start.
LEMMA MeterStarts == MeterInit => MeterInv
  BY NothingBilled, MeterConstants DEF FreshKey, KeyType, MeterInit, DatesHold, IdleRequest, RequestRecords,
     RequestHolds, IdleCharger, ChargerRecords, MeterTypeOK, MeterInv

\* There is an object that nobody uses when a request begins with an empty cache.
LEMMA AnObjectIsFree ==
  ASSUME MeterTypeOK, NEW r \in Requests, request[r].obj = NoRecord, NEW p \in Apis, cache[p] = NoRecord
  PROVE  \E o \in Objects : ~InUse(o)
<1>1. SUFFICES ASSUME \A o \in Objects : InUse(o) PROVE FALSE OBVIOUS
<1>2. IsFiniteSet(Apis) /\ IsFiniteSet(Requests) /\ IsFiniteSet(Objects) /\ NoRecord \notin Objects
  BY MeterConstants
<1>3. PICK A, Q : A = Apis \ {p} /\ Q = Requests \ {r} OBVIOUS
<1>4. IsFiniteSet(A) /\ Cardinality(A) = Cardinality(Apis) - 1 BY <1>2, <1>3, FS_RemoveElement
<1>5. IsFiniteSet(Q) /\ Cardinality(Q) = Cardinality(Requests) - 1 BY <1>2, <1>3, FS_RemoveElement
<1>6. PICK U : U = {cache[x] : x \in A} /\ IsFiniteSet(U) /\ Cardinality(U) <= Cardinality(A)
  BY <1>4, FewerValues
<1>7. PICK g : g = [x \in Requests |-> request[x].obj] OBVIOUS
<1>8. PICK V : V = {g[x] : x \in Q} /\ IsFiniteSet(V) /\ Cardinality(V) <= Cardinality(Q) BY <1>5, FewerValues
<1>9. PICK W : W = U \cup V OBVIOUS
<1>10. Cardinality(W) = Cardinality(U) + Cardinality(V) - Cardinality(U \cap V) /\ IsFiniteSet(W)
  BY <1>6, <1>8, <1>9, FS_Union
<1>11. Cardinality(U \cap V) \in Nat BY <1>6, FS_Intersection, FS_CardinalityType
<1>12. Objects \in SUBSET W
  <2>1. ASSUME NEW o \in Objects PROVE o \in W BY <1>2, <1>3, <1>6, <1>9, <1>7, <1>8, <1>1 DEF InUse
  <2> QED BY <2>1
<1>13. Cardinality(Objects) <= Cardinality(W) BY <1>10, <1>12, FS_Subset
<1>14. /\ Cardinality(Objects) \in Nat /\ Cardinality(Apis) \in Nat /\ Cardinality(Requests) \in Nat
       /\ Cardinality(U) \in Nat /\ Cardinality(V) \in Nat /\ Cardinality(W) \in Nat
  BY <1>2, <1>6, <1>8, <1>10, FS_CardinalityType
<1>15. Cardinality(Objects) >= Cardinality(Apis) + Cardinality(Requests) - 1 BY MeterAssumption
<1> QED BY <1>4, <1>5, <1>6, <1>8, <1>10, <1>11, <1>13, <1>14, <1>15

\* Every step keeps the invariant.
LEMMA MeterStep == MeterInv /\ [MeterNext]_meterVars => MeterInv'
<1> SUFFICES ASSUME MeterInv, [MeterNext]_meterVars PROVE MeterInv' OBVIOUS
<1>m. month \in Nat /\ alert \in Nat /\ tally \in Nat BY DEF MeterInv, MeterTypeOK
<1>k. key \in KeyType /\ key.finder \in Nat /\ DatesHold(key, month, spent)
  BY DEF MeterInv, MeterTypeOK, KeyType
<1>o. object \in [Objects -> KeyType] /\ cache \in [Apis -> Objects \cup {NoRecord}]
  BY DEF MeterInv, MeterTypeOK
<1>r. request \in [Requests -> RequestRecords] /\ \A r \in Requests : RequestHolds(request[r], month)
  BY DEF MeterInv, MeterTypeOK, RequestRecords
<1>p. pending \in [Meters -> Nat] /\ spent \in [Meters -> Nat] BY DEF MeterInv, MeterTypeOK
<1>c. charger \in [Chargers -> ChargerRecords] /\ (\A f \in Chargers : charger[f].remaining <= FinderLimit) /\ AllowanceHolds(charger, key.finder)
  BY DEF MeterInv, MeterTypeOK, ChargerRecords
<1>g. ASSUME month' \in Nat, key' \in KeyType, object' \in [Objects -> KeyType], cache' \in [Apis -> Objects \cup {NoRecord}],
             request' \in [Requests -> RequestRecords], pending' \in [Meters -> Nat], charger' \in [Chargers -> ChargerRecords],
             alert' \in Nat, spent' \in [Meters -> Nat], tally' \in Nat,
             \A r \in Requests : RequestHolds(request'[r], month'), DatesHold(key', month', spent'),
             \A f \in Chargers : charger'[f].remaining <= FinderLimit, AllowanceHolds(charger', key'.finder)
      PROVE MeterInv'
  BY <1>g DEF MeterTypeOK, RequestRecords, ChargerRecords, KeyType, RequestHolds, DatesHold, AllowanceHolds,
     Overlapping, Worth, MeterInv
<1>q. ASSUME NEW r \in Requests, NEW q \in RequestRecords, RequestHolds(q, month), request' = [request EXCEPT ![r] = q]
      PROVE request' \in [Requests -> RequestRecords] /\ \A s \in Requests : RequestHolds(request'[s], month)
  <2>1. request' \in [Requests -> RequestRecords] /\ request'[r] = q /\ \A s \in Requests : s # r => request'[s] = request[s]
    BY <1>q, <1>r
  <2>2. ASSUME NEW s \in Requests PROVE RequestHolds(request'[s], month) BY <1>q, <2>1, <1>r
  <2> QED BY <2>1, <2>2
<1>w. ASSUME NEW r \in Requests, NEW z \in {"meter", "zeroed", "serve"}, request[r].pc # "idle", Goto(r, z)
      PROVE request' \in [Requests -> RequestRecords] /\ \A s \in Requests : RequestHolds(request'[s], month)
  BY <1>r, <1>w, <1>q DEF RequestRecords, RequestHolds, Goto
<1>i. IdleRequest \in RequestRecords /\ RequestHolds(IdleRequest, month)
  BY DEF IdleRequest, RequestRecords, RequestHolds
<1>1. ASSUME NEW r \in Requests, NEW p \in Apis, NEW m \in Meters, CacheHit(r, p, m) PROVE MeterInv'
  <2>1. PICK q : q = [pc |-> "meter", api |-> p, obj |-> cache[p], meter |-> m, now |-> month] OBVIOUS
  <2>2. cache[p] \in Objects BY <1>1, <1>o DEF CacheHit
  <2>3. q \in RequestRecords BY <1>m, <2>1, <2>2 DEF RequestRecords
  <2>4. RequestHolds(q, month) BY <1>m, <2>1, <2>2 DEF RequestHolds
  <2>5. request' = [request EXCEPT ![r] = q] /\ tally' = tally + 1 BY <1>1, <2>1 DEF CacheHit
  <2>6. UNCHANGED <<month, key, object, cache, pending, charger, alert, spent>> BY <1>1 DEF CacheHit
  <2>7. request' \in [Requests -> RequestRecords] /\ \A s \in Requests : RequestHolds(request'[s], month)
    BY <1>q, <2>3, <2>4, <2>5
  <2> QED BY <1>g, <1>m, <1>k, <1>o, <1>p, <1>c, <2>5, <2>6, <2>7
<1>2. ASSUME NEW r \in Requests, NEW p \in Apis, NEW m \in Meters, CacheMiss(r, p, m) PROVE MeterInv'
  BY <1>2, <1>r, AnObjectIsFree, <1>m, <1>q, <1>k, <1>o, <1>g, <1>p, <1>c DEF CacheMiss, RequestHolds, MeterInv,
     RequestRecords
<1>3. ASSUME NEW p \in Apis, CacheExpires(p) PROVE MeterInv'
  BY <1>3, <1>o, <1>g, <1>m, <1>k, <1>r, <1>p, <1>c DEF CacheExpires
<1>4. ASSUME NEW r \in Requests, ResetCounter(r) PROVE MeterInv'
  <2>1. request[r].pc = "meter" /\ Goto(r, "zeroed") /\ UNCHANGED <<month, object, cache, pending, charger, alert, spent, tally>>
    BY <1>4 DEF ResetCounter
  <2>2. PICK m, n : m = request[r].meter /\ n = request[r].now OBVIOUS
  <2>3. m \in Meters /\ n \in Nat /\ n <= month BY <1>r, <2>1, <2>2 DEF RequestHolds, RequestRecords
  <2>4. key' = Zeroed(key, m, n) BY <1>4, <2>2 DEF ResetCounter, Meter
  <2>5. /\ key' \in KeyType /\ key'.used[m] = 0 /\ key'.reset[m] = n + 1 /\ (key'.finder = 0 \/ key'.finder = key.finder)
        /\ \A j \in Meters : j # m => key'.used[j] = key.used[j] /\ key'.reset[j] = key.reset[j]
    BY <1>k, <2>3, <2>4, ZeroedIs
  <2>6. spent[m] \in Nat BY <1>p, <2>3
  <2>7. DatesHold(key', month, spent) BY <1>k, <1>m, <2>3, <2>5, <2>6 DEF DatesHold
  <2>8. AllowanceHolds(charger, key'.finder) BY <1>c, <2>5, NothingBilled
  <2>9. request' \in [Requests -> RequestRecords] /\ \A s \in Requests : RequestHolds(request'[s], month)
    BY <1>w, <2>1
  <2>10. key' \in KeyType BY <2>5
  <2> QED BY <1>g, <1>m, <1>o, <1>p, <1>c, <2>1, <2>7, <2>8, <2>9, <2>10
<1>5. ASSUME NEW r \in Requests, UpdateRecord(r) PROVE MeterInv'
  BY <1>5, <1>r, <1>o, ZeroedIs, <1>w, <1>g, <1>m, <1>k, <1>p, <1>c DEF UpdateRecord, RequestHolds,
     RequestRecords, Meter
<1>6. ASSUME NEW r \in Requests, Refuse(r) PROVE MeterInv'
  BY <1>6, <1>i, <1>q, <1>g, <1>m, <1>k, <1>o, <1>p, <1>c DEF Refuse
<1>7. ASSUME NEW r \in Requests, Admit(r) PROVE MeterInv'
  BY <1>7, <1>w, <1>m, <1>g, <1>k, <1>o, <1>p, <1>c DEF Admit, ReadyToCheck
<1>8. ASSUME NEW r \in Requests, Serve(r) PROVE MeterInv'
  BY <1>8, <1>r, <1>p, <1>i, <1>q, <1>g, <1>m, <1>k, <1>o, <1>c DEF Serve, RequestHolds, Meter
<1>t. PICK u \in [Meters -> Nat], i \in Nat, s \in [Meters -> Nat], a \in Nat : key = [used |-> u, finder |-> i, reset |-> s, alertSent |-> a]
  BY <1>k DEF KeyType
<1>9. ASSUME NEW m \in Meters, Increment(m) PROVE MeterInv'
  <2>1. pending[m] > 0 /\ pending' = [pending EXCEPT ![m] = @ - 1] /\ spent' = [spent EXCEPT ![m] = @ + 1] /\ UNCHANGED <<month, object, cache, request, charger, alert, tally>>
    BY <1>9 DEF Increment
  <2>2. pending' \in [Meters -> Nat] /\ spent' \in [Meters -> Nat] /\ spent'[m] = spent[m] + 1 /\ \A j \in Meters : j # m => spent'[j] = spent[j]
    BY <1>p, <2>1
  <2>3. PICK v : v = [u EXCEPT ![m] = @ + 1] OBVIOUS
  <2>4. v \in [Meters -> Nat] /\ v[m] = u[m] + 1 /\ \A j \in Meters : j # m => v[j] = u[j] BY <2>3
  <2>5. key' = [used |-> v, finder |-> i, reset |-> s, alertSent |-> a] BY <1>9, <1>t, <2>3 DEF Increment
  <2>6. key' \in KeyType BY <2>4, <2>5 DEF KeyType
  <2>7. DatesHold(key', month, spent') BY <1>k, <1>m, <1>p, <1>t, <2>2, <2>4, <2>5 DEF DatesHold
  <2>8. AllowanceHolds(charger, key'.finder) BY <1>c, <1>t, <2>5
  <2> QED BY <1>g, <1>m, <1>o, <1>r, <1>c, <2>1, <2>2, <2>6, <2>7, <2>8
<1>10. CASE SendUsageAlert
  BY <1>10, <1>m, <1>t, <1>k, <1>c, <1>g, <1>o, <1>p, <1>r DEF SendUsageAlert, KeyType, DatesHold
<1>11. ASSUME NEW f \in Chargers, ReadAllowance(f) PROVE MeterInv'
  <2>1. charger[f].pc = "idle" /\ tally' = tally + 1 /\ UNCHANGED <<month, key, object, cache, request, pending, alert, spent>>
    BY <1>11 DEF ReadAllowance
  <2>2. PICK n \in 1 .. MaxLeads : charger' = [charger EXCEPT ![f] = [pc |-> "write", count |-> n, remaining |-> FinderRemaining(key)]]
    BY <1>11 DEF ReadAllowance
  <2>3. PICK e : e = FinderRemaining(key) OBVIOUS
  <2>4. e = (IF key.finder <= FinderLimit THEN FinderLimit - key.finder ELSE 0) /\ e \in Nat /\ e <= FinderLimit
    BY <1>k, <2>3, MeterConstants DEF FinderRemaining
  <2>5. PICK q : q = [pc |-> "write", count |-> n, remaining |-> e] OBVIOUS
  <2>6. q \in ChargerRecords BY <2>4, <2>5, MeterConstants DEF ChargerRecords
  <2>7. q.pc = "write" /\ q.remaining = e BY <2>5
  <2>8. charger' = [charger EXCEPT ![f] = q] BY <2>2, <2>3, <2>5
  <2>9. PICK v : v = key.finder OBVIOUS
  <2>10. v \in Nat /\ AllowanceHolds(charger, v) /\ q.remaining = IF v <= FinderLimit THEN FinderLimit - v ELSE 0
    BY <1>c, <1>k, <2>4, <2>7, <2>9
  <2>11. AllowanceHolds(charger', v) BY <1>c, <2>1, <2>6, <2>7, <2>8, <2>10, AllowanceRead
  <2>12. charger' \in [Chargers -> ChargerRecords] /\ \A g \in Chargers : charger'[g].remaining <= FinderLimit
    BY <1>c, <2>4, <2>6, <2>7, <2>8
  <2>13. AllowanceHolds(charger', key'.finder) BY <2>1, <2>9, <2>11
  <2> QED BY <1>g, <1>m, <1>k, <1>o, <1>p, <1>r, <2>1, <2>12, <2>13
<1>12. ASSUME NEW f \in Chargers, BillLeads(f) PROVE MeterInv'
  <2>1. charger[f].pc = "write" /\ charger' = [charger EXCEPT ![f] = IdleCharger] /\ UNCHANGED <<month, object, cache, request, pending, alert, tally>>
    BY <1>12 DEF BillLeads
  <2>2. PICK x, y : x = FromAllowance(charger[f]) /\ y = Overflow(charger[f]) OBVIOUS
  <2>3. charger[f].count \in Nat /\ charger[f].remaining \in Nat BY <1>c DEF ChargerRecords
  <2>4. x \in Nat /\ x <= charger[f].remaining /\ charger[f].count - x \in Nat BY <2>2, <2>3 DEF FromAllowance
  <2>5. y = (charger[f].count - x) * FINDER_OVERFLOW_VERIFICATION_COST BY <2>2 DEF Overflow
  <2>6. y \in Nat BY <2>4, <2>5, MeterConstants
  <2>7. PICK m : m = "verify" OBVIOUS
  <2>8. m \in Meters BY <2>7 DEF Meters
  <2>9. PICK v : v = [u EXCEPT ![m] = @ + y] OBVIOUS
  <2>10. v \in [Meters -> Nat] /\ v[m] = u[m] + y /\ \A j \in Meters : j # m => v[j] = u[j] BY <2>6, <2>8, <2>9
  <2>11. key' = [key EXCEPT !.finder = @ + x, !.used[m] = @ + y] /\ spent' = [spent EXCEPT ![m] = @ + y]
    BY <1>12, <2>2, <2>7 DEF BillLeads
  <2>12. key' = [used |-> v, finder |-> i + x, reset |-> s, alertSent |-> a] BY <1>t, <2>9, <2>11
  <2>13. key' \in KeyType BY <2>4, <2>10, <2>12 DEF KeyType
  <2>14. spent' \in [Meters -> Nat] /\ spent'[m] = spent[m] + y /\ \A j \in Meters : j # m => spent'[j] = spent[j]
    BY <1>p, <2>6, <2>8, <2>11
  <2>15. DatesHold(key', month, spent') BY <1>k, <1>m, <1>p, <1>t, <2>6, <2>8, <2>10, <2>12, <2>14 DEF DatesHold
  <2>16. IdleCharger \in ChargerRecords /\ IdleCharger.pc = "idle" /\ IdleCharger.remaining = 0
    BY DEF IdleCharger, ChargerRecords
  <2>17. AllowanceHolds(charger, i) BY <1>c, <1>t
  <2>18. AllowanceHolds(charger', i + x) BY <1>c, <2>1, <2>4, <2>16, <2>17, AllowanceBilled
  <2>19. AllowanceHolds(charger', key'.finder) BY <2>12, <2>18
  <2>20. charger' \in [Chargers -> ChargerRecords] /\ \A g \in Chargers : charger'[g].remaining <= FinderLimit
    BY <1>c, <2>1, <2>16, MeterConstants
  <2> QED BY <1>g, <1>m, <1>o, <1>p, <1>r, <2>1, <2>13, <2>14, <2>15, <2>19, <2>20
<1>13. CASE MonitorSweep
  <2>1. UNCHANGED <<month, object, cache, request, pending, charger, alert, spent, tally>>
    BY <1>13 DEF MonitorSweep
  <2>2. PICK m : m = "verify" OBVIOUS
  <2>3. m \in Meters BY <2>2 DEF Meters
  <2>4. PICK v, t : v = [u EXCEPT ![m] = 0] /\ t = [s EXCEPT ![m] = month + 1] OBVIOUS
  <2>5. v \in [Meters -> Nat] /\ v[m] = 0 /\ \A j \in Meters : j # m => v[j] = u[j] BY <2>3, <2>4
  <2>6. t \in [Meters -> Nat] /\ t[m] = month + 1 /\ \A j \in Meters : j # m => t[j] = s[j] BY <1>m, <2>3, <2>4
  <2>7. key' = [key EXCEPT !.used[m] = 0, !.reset[m] = month + 1] BY <1>13, <2>2 DEF MonitorSweep
  <2>8. key' = [used |-> v, finder |-> i, reset |-> t, alertSent |-> a] BY <1>t, <2>4, <2>7
  <2>9. key' \in KeyType BY <2>5, <2>6, <2>8 DEF KeyType
  <2>10. DatesHold(key', month, spent) BY <1>k, <1>m, <1>p, <1>t, <2>3, <2>5, <2>6, <2>8 DEF DatesHold
  <2>11. AllowanceHolds(charger, key'.finder) BY <1>c, <1>t, <2>8
  <2> QED BY <1>g, <1>m, <1>o, <1>p, <1>r, <1>c, <2>1, <2>9, <2>10, <2>11
<1>14. CASE MonthPasses
  BY <1>14, <1>m, <1>k, <1>r, <1>g, <1>o, <1>p, <1>c DEF MonthPasses, KeyType, DatesHold, RequestRecords,
     RequestHolds
<1>15. CASE UNCHANGED meterVars BY <1>15, <1>g, <1>m, <1>k, <1>o, <1>p, <1>r, <1>c DEF meterVars
<1> QED
  <2>1. ASSUME NEW r \in Requests, RequestNext(r) PROVE MeterInv'
    BY <1>1, <1>2, <1>4, <1>5, <1>6, <1>7, <1>8, <2>1 DEF RequestNext
  <2>2. CASE MeterNext BY <1>3, <1>9, <1>10, <1>11, <1>12, <1>13, <1>14, <2>1, <2>2 DEF MeterNext
  <2> QED BY <1>15, <2>2

\* What the invariant says of the counters.
LEMMA MeterMeans == MeterInv => CountersHold
  BY AllowanceMeans DEF MeterInv, MeterTypeOK, ChargerRecords, KeyType, DatesHold, StartsFromZero, CountersHold,
     OverdrawBounded, Worth

----------------------------------------------------------------------------
(***************************************************************************)
(* The parts together.  A step of MCSpec is a step of one part and leaves  *)
(* the variables of the others alone, so what a part keeps, all keep.      *)
(***************************************************************************)

\* A step of the whole is a step of Meter's part, or none of it.
LEMMA MeterAlone == [MCNext]_all => [MeterNext]_meterVars
  BY DEF MCNext, all, Use_, Key_, Team_, Eng_, Fin_, Aud_, Trk_, Con_, Daily_, Mail_, Rate_, Del_, Rel_, Tpl_

\* A step of the whole is a step of ApiKeys's part, or none of it.
LEMMA ApiKeysAlone == [MCNext]_all => [ApiKeysNext]_keyVars
  BY DEF MCNext, all, Use_, Key_, Team_, Eng_, Fin_, Aud_, Trk_, Con_, Daily_, Mail_, Rate_, Del_, Rel_, Tpl_

\* A step of the whole is a step of Teams's part, or none of it.
LEMMA TeamsAlone == [MCNext]_all => [TeamsNext]_teamVars
  BY DEF MCNext, all, Use_, Key_, Team_, Eng_, Fin_, Aud_, Trk_, Con_, Daily_, Mail_, Rate_, Del_, Rel_, Tpl_

\* A step of the whole is a step of Engine's part, or none of it.
LEMMA EngineAlone == [MCNext]_all => [EngineNext]_engineVars
  BY DEF MCNext, all, Use_, Key_, Team_, Eng_, Fin_, Aud_, Trk_, Con_, Daily_, Mail_, Rate_, Del_, Rel_, Tpl_

\* A step of the whole is a step of Finder's part, or none of it.
LEMMA FinderAlone == [MCNext]_all => [FinderNext]_finderVars
  BY DEF MCNext, all, Use_, Key_, Team_, Eng_, Fin_, Aud_, Trk_, Con_, Daily_, Mail_, Rate_, Del_, Rel_, Tpl_

\* A step of the whole is a step of Audience's part, or none of it.
LEMMA AudienceAlone == [MCNext]_all => [AudienceNext]_audVars
  BY DEF MCNext, all, Use_, Key_, Team_, Eng_, Fin_, Aud_, Trk_, Con_, Daily_, Mail_, Rate_, Del_, Rel_, Tpl_

\* A step of the whole is a step of Track's part, or none of it.
LEMMA TrackAlone == [MCNext]_all => [TrackNext]_trackVars
  BY DEF MCNext, all, Use_, Key_, Team_, Eng_, Fin_, Aud_, Trk_, Con_, Daily_, Mail_, Rate_, Del_, Rel_, Tpl_

\* A step of the whole is a step of Connector's part, or none of it.
LEMMA ConnectorAlone == [MCNext]_all => [ConnectorNext]_connectorVars
  BY DEF MCNext, all, Use_, Key_, Team_, Eng_, Fin_, Aud_, Trk_, Con_, Daily_, Mail_, Rate_, Del_, Rel_, Tpl_

\* A step of the whole is a step of Daily's part, or none of it.
LEMMA DailyAlone == [MCNext]_all => [DailyNext]_dailyVars
  BY DEF MCNext, all, Use_, Key_, Team_, Eng_, Fin_, Aud_, Trk_, Con_, Daily_, Mail_, Rate_, Del_, Rel_, Tpl_

\* A step of the whole is a step of Lifecycle's part, or none of it.
LEMMA LifecycleAlone == [MCNext]_all => [LifecycleNext]_lifecycleVars
  BY DEF MCNext, all, Use_, Key_, Team_, Eng_, Fin_, Aud_, Trk_, Con_, Daily_, Mail_, Rate_, Del_, Rel_, Tpl_

\* A step of the whole is a step of Rate's part, or none of it.
LEMMA RateAlone == [MCNext]_all => [RateNext]_rateVars
  BY DEF MCNext, all, Use_, Key_, Team_, Eng_, Fin_, Aud_, Trk_, Con_, Daily_, Mail_, Rate_, Del_, Rel_, Tpl_

\* A step of the whole is a step of Deletion's part, or none of it.
LEMMA DeletionAlone == [MCNext]_all => [DeletionNext]_deletionVars
  BY DEF MCNext, all, Use_, Key_, Team_, Eng_, Fin_, Aud_, Trk_, Con_, Daily_, Mail_, Rate_, Del_, Rel_, Tpl_

\* A step of the whole is a step of Relay's part, or none of it.
LEMMA RelayAlone == [MCNext]_all => [RelayNext]_relayVars
  BY DEF MCNext, all, Use_, Key_, Team_, Eng_, Fin_, Aud_, Trk_, Con_, Daily_, Mail_, Rate_, Del_, Rel_, Tpl_

\* A step of the whole is a step of Templates's part, or none of it.
LEMMA TemplatesAlone == [MCNext]_all => [TemplatesNext]_templateVars
  BY DEF MCNext, all, Use_, Key_, Team_, Eng_, Fin_, Aud_, Trk_, Con_, Daily_, Mail_, Rate_, Del_, Rel_, Tpl_

\* A counter that was reset this month holds nothing of the month before, whoever reset it
\* and in whatever order; and calls that overlap bill the finder's allowance once each
\* (UsageMeter.CountersHold).
THEOREM CountersAreRight == MCSpec => []CountersHold
  BY MeterStarts, MeterAlone, MeterStep, MeterMeans, PTL DEF MCInit, MCSpec

\* A key that was revoked or changed is served as it was for a minute and no longer, but
\* for a lookup under way at the change; and whoever manages the keys with them is left one,
\* but for the named acts of others (ApiKeys.KeysHold).
THEOREM KeysAreRight == MCSpec => []KeysHold
  BY ApiKeysStarts, ApiKeysAlone, ApiKeysStep, ApiKeysMean, PTL DEF MCInit, MCSpec

\* Who was removed does not come back by an invitation that was used up or withdrawn before,
\* and a member that the identity service has deactivated is not active here, but for a
\* removal that broke off or a sign-in that had read it before (Teams.MembersHold).
THEOREM MembersAreRight == MCSpec => []MembersHold
  BY TeamsStarts, TeamsAlone, TeamsStep, TeamsMean, PTL DEF MCInit, MCSpec

\* What a bounce has disproved is not said again, nobody pays twice for an address while its
\* verdict is good, and a free mailbox is never called catch-all (Engine.VerdictsHold).
THEOREM VerdictsAreRight == MCSpec => []VerdictsHold
  BY EngineStarts, EngineAlone, EngineStep, EngineMeans, PTL DEF MCInit, MCSpec

\* A search is verified by one job however often it is polled, unless two requests both found
\* none before either made one (Finder.VerifiedByOneJob).
THEOREM OneJobVerifies == MCSpec => []VerifiedByOneJob
  BY FinderStarts, FinderAlone, FinderStep, FinderMeans, PTL DEF MCInit, MCSpec

\* Who opted out cannot be mailed again until the customer deletes the entry, unless the wish
\* found an entry of another customer; and who left a list stays out of it through imports
\* and confirmations (Audience.WishesHold).
THEOREM WishesAreKept == MCSpec => []WishesHold
  BY AudienceStarts, AudienceAlone, AudienceStep, AudienceMeans, PTL DEF MCInit, MCSpec

\* A request from an address that had touched too many messages counts nowhere, and the
\* counters of the variants add up to the opens taken for people's (Tracking.ScannersDontCount).
THEOREM OpensArePeoples == MCSpec => []ScannersDontCount
  BY TrackStarts, TrackAlone, TrackStep, TrackMeans, PTL DEF MCInit, MCSpec

\* However often a lead is pushed or a payment reported, an enrollment that was stopped is not
\* started again, and the journal shows each template that was sent, but for rows that were
\* lost (Connectors.RepeatsAreHarmless).
THEOREM RepeatsDoNoHarm == MCSpec => []RepeatsAreHarmless
  BY ConnectorStarts, ConnectorAlone, ConnectorStep, ConnectorMeans, PTL DEF MCInit, MCSpec

\* No warning is written twice and no A/B test decided twice, whatever dies and begins again,
\* but for a record that was lost (DailyChecks.WarnedOnce).
THEOREM WarningsComeOnce == MCSpec => []WarnedOnce
  BY DailyStarts, DailyAlone, DailyStep, DailyMeans, PTL DEF MCInit, MCSpec

\* However many sweeps run, no lifecycle mail is written twice, but one that the provider took
\* without answering (LifecycleMails.WrittenOnce).
THEOREM LettersComeOnce == MCSpec => []WrittenOnce
  BY LifecycleStarts, LifecycleAlone, LifecycleStep, PTL DEF MCInit, LifecycleInv, MCSpec

\* No window admits more requests than its limit, and one that has begun ends, or somebody is
\* about to say when, unless that command or its sender was lost (RateLimit.WindowHolds).
THEOREM WindowsHold == MCSpec => []WindowHolds
  BY RateStarts, RateAlone, RateStep, PTL DEF MCInit, RateInv, MCSpec

\* An account that is told it is deleted is revoked and without every row that was there when
\* it asked; it is refused only when a row was added meanwhile, and a deletion that is refused
\* or fails leaves everything (AccountDeletion.DeletionHolds).
THEOREM AccountsGoWhole == MCSpec => []DeletionHolds
  BY DeletionStarts, DeletionAlone, DeletionStep, DeletionMeans, PTL DEF MCInit, MCSpec

\* Whoever is not passed over is mailed when a letter is accepted, once unless its client handed
\* it over again, and the key is charged for no more than that (SmtpRelay.RelayHolds).
THEOREM RelayAnswers == MCSpec => []RelayHolds
  BY RelayStarts, RelayAlone, RelayStep, RelayMeans, PTL DEF MCInit, MCSpec

\* Whatever a template once said can be restored, unless its save failed or two requests
\* overlapped and one overwrote what it had not read (Templates.HistoryKeepsAll).
THEOREM HistoryIsKept == MCSpec => []HistoryKeepsAll
  BY TemplatesStarts, TemplatesAlone, TemplatesStep, TemplatesMean, PTL DEF MCInit, MCSpec

\* What is counted, sent or told comes once, and what was accepted or replaced is not lost:
\* the six parts' properties together, in every reachable state.
THEOREM OnceAndNotLostAlways == MCSpec => []OnceAndNotLost
  BY OpensArePeoples, RepeatsDoNoHarm, LettersComeOnce, WarningsComeOnce, RelayAnswers, HistoryIsKept, PTL DEF
     OnceAndNotLost

\* The counters that ration the service hold: the month's usage and the window's requests.
THEOREM LimitsHoldAlways == MCSpec => []LimitsHold
  BY CountersAreRight, WindowsHold, PTL DEF LimitsHold

\* Keys stay somebody's and usable no longer than that, and an account goes as a whole.
THEOREM AccountsHoldAlways == MCSpec => []AccountsHold
  BY KeysAreRight, AccountsGoWhole, PTL DEF AccountsHold

=============================================================================
