--------------------------- MODULE Outreach_proofs ---------------------------
(***************************************************************************)
(* Proofs about the drip sequences (a lead gets each step once, and who is *)
(* stopped stays stopped) and about the agents' runs (what a run drafts is *)
(* sent once, a cancelled run rests, a search is charged once), for any    *)
(* number of leads, sequences, runs, workers, polls and requests.  The     *)
(* inductive invariants say of each enrollment, and of each run, what its  *)
(* row, the workers and requests that have it in hand, the mails that went *)
(* out and the marks on it must agree on; one lemma for each way a row is  *)
(* disturbed, one for each action, and the theorems at the end of a part.  *)
(***************************************************************************)
EXTENDS MCOutreach, FiniteSetTheorems, SequenceTheorems, TLAPS

------------------------------------------------------------------------------
\* Sequences: what is stored.

\* What the tables and the processes hold.
StepRecords == [id : StepIds, kind : StepTypes, cond : Conditions]
SequenceRecords == [exists : BOOLEAN, stop : BOOLEAN, steps : Seq(StepRecords), made : Nat]
Statuses == {None, "active", "awaiting_manual_action", "completed", "paused", "replied", "bounced",
             "unsubscribed"}
RowRecords == [status : Statuses, step : Nat, due : {"now", "later", "never"}, box : Boxes \cup {None}, replied : BOOLEAN]
Polls == {IdlePoll} \cup [pc : {"found", "share"}, lead : Leads, seq : SequenceIds,
                          stop : BOOLEAN, kind : Kinds \cup {"unknown"}]
Enrolling == {IdleRequest} \cup [pc : {"create"}, seq : SequenceIds, lead : Leads, force : BOOLEAN]
Answers == [lead : Leads, box : Boxes, seq : SequenceIds, kind : Kinds]
Marks == {"again", "overlap", "overtaken", "rejoined", "stuck", "missed", "unshared", "boxless"}
Tallies == [events : Nat, from : SUBSET (SequenceIds \X Leads \X Boxes), stopped : SUBSET Pairs,
            refused : SUBSET Pairs, listed : [Workers -> SUBSET Pairs],
            unblocked : [Workers -> SUBSET Leads], unwelcome : SUBSET Pairs,
            intruded : SUBSET Leads, marred : [Pairs -> SUBSET Marks]]
AllSequences == [SequenceIds -> SequenceRecords]
AllRows == [SequenceIds -> [Leads -> RowRecords]]
AllSent == [SequenceIds -> [Leads -> [StepIds -> Nat]]]

\* A worker has an enrollment in hand: still to decide, or mailed and not recorded.
Todo(k, w, p) == p \in k[w].todo
Sending(k, w, p) == k[w].pc = "sent" /\ k[w].at = p
Holding(k, w, p) == Todo(k, w, p) \/ Sending(k, w, p)
StepOf(k, w, p)  == k[w].rows[p].step
StepsOf(k, w, p) == k[w].steps[p[1]]

\* A tick, and the snapshot it works on.
IsTick(k) ==
    /\ \E pc, todo, rows, steps, reasons, at, b :
          k = [pc |-> pc, todo |-> todo, rows |-> rows, steps |-> steps, blocked |-> reasons,
               at |-> at, box |-> b]
    /\ k.pc \in {"idle", "run", "sent", "follow"} /\ k.todo \subseteq Pairs
    /\ k.pc = "idle" => k.todo = {}
    /\ k.pc \in {"sent", "follow"} => k.at \in Pairs
    /\ k.pc = "sent" => k.at \notin k.todo
    /\ \A p \in Pairs : p \in k.todo \/ (k.pc = "sent" /\ k.at = p) =>
          k.rows[p] \in RowRecords /\ k.steps[p[1]] \in Seq(StepRecords)
Ticks(k) == k = [w \in Workers |-> k[w]] /\ \A w \in Workers : IsTick(k[w])

\* The types of the sequences' state.
SequenceTypes ==
    /\ sequence \in AllSequences /\ row \in AllRows /\ sent \in AllSent /\ Ticks(tick)
    /\ poll \in [Pollers -> Polls] /\ request \in [Requests -> Enrolling]
    /\ inbox \subseteq Answers /\ tally \in Tallies

------------------------------------------------------------------------------
\* The ghosts.

\* A pair that no mishap of these kinds touched.
SpareS(t, p) == t.marred[p] \cap {"overtaken", "rejoined"} = {}
SpareO(t, p) == t.marred[p] \cap {"again", "overlap"} = {}

\* Only marks are added, and the counts that no property of the sequences uses change.
Worse(t, u) ==
    /\ u \in Tallies /\ u.stopped = t.stopped /\ u.listed = t.listed /\ u.unblocked = t.unblocked
    /\ u.unwelcome = t.unwelcome /\ u.intruded = t.intruded
    /\ \A p \in Pairs : t.marred[p] \subseteq u.marred[p]

\* Marks that grow spare less.
LEMMA WorseSpares ==
    ASSUME NEW t, NEW u, NEW p, t.marred[p] \subseteq u.marred[p]
    PROVE  /\ SpareS(u, p) => SpareS(t, p)
           /\ SpareO(u, p) => SpareO(t, p)
BY DEF SpareS, SpareO

\* Nothing is worse than itself, and worse than worse is worse.
LEMMA WorseSelf == ASSUME NEW t \in Tallies PROVE Worse(t, t)
BY DEF Worse

\* Worse than worse is worse.
LEMMA WorseTwice == ASSUME NEW t, NEW u, NEW v, Worse(t, u), Worse(u, v) PROVE Worse(t, v)
BY DEF Worse

\* A mark is put on some pairs.
LEMMA MarkWorse ==
    ASSUME NEW t \in Tallies, NEW P, NEW mark \in Marks
    PROVE  /\ Worse(t, Mark(t, P, mark))
           /\ \A p \in Pairs : p \in P => mark \in Mark(t, P, mark).marred[p]
           /\ \A p \in Pairs : p \notin P => Mark(t, P, mark).marred[p] = t.marred[p]
  BY DEF Tallies, Mark, Worse

\* An event is counted.
LEMMA SpendWorse ==
    ASSUME NEW t \in Tallies, NEW cost \in Nat, NEW u, u = [t EXCEPT !.events = @ + cost]
    PROVE  Worse(t, u) /\ u.marred = t.marred
  BY DEF Tallies, Worse

\* Event and Mishap.
LEMMA EventWorse ==
    ASSUME NEW t \in Tallies, Event(t) \/ Mishap(t) PROVE Worse(t, tally') /\ tally'.marred = t.marred
  BY SpendWorse DEF Event, Spend, Mishap

\* An enrollment is stopped.
LEMMA StopWorse ==
    ASSUME NEW t \in Tallies, NEW p \in Pairs, NEW me, NEW u, u = Stop(t, p, me)
    PROVE  /\ u \in Tallies /\ u.stopped = t.stopped \cup {p}
           /\ u.listed = t.listed /\ u.unblocked = t.unblocked
           /\ u.unwelcome = t.unwelcome /\ u.intruded = t.intruded
           /\ \A o \in Pairs : t.marred[o] \subseteq u.marred[o]
           /\ InHand(p, me) => ~SpareS(u, p)
<1> PICK v : v = [t EXCEPT !.stopped = @ \cup {p}] OBVIOUS
<1>1. v \in Tallies /\ v.stopped = t.stopped \cup {p} /\ v.marred = t.marred BY DEF Tallies
<1>2. /\ v.listed = t.listed /\ v.unblocked = t.unblocked
      /\ v.unwelcome = t.unwelcome /\ v.intruded = t.intruded
  BY DEF Tallies
<1> PICK P : P = IF InHand(p, me) THEN {p} ELSE {} BY Zenon
<1>3. u = Mark(v, P, "overtaken") BY Zenon DEF Stop
<1>4. /\ Worse(v, u)
      /\ \A o \in Pairs : o \in P => "overtaken" \in u.marred[o]
  <2>1. "overtaken" \in Marks BY DEF Marks
  <2>2. /\ Worse(v, Mark(v, P, "overtaken"))
        /\ \A o \in Pairs : o \in P => "overtaken" \in Mark(v, P, "overtaken").marred[o]
    BY <1>1, <2>1, MarkWorse
  <2> QED BY <1>3, <2>2, Zenon
<1>5. InHand(p, me) => "overtaken" \in u.marred[p] BY <1>4
<1> QED BY <1>1, <1>2, <1>4, <1>5 DEF Worse, SpareS

------------------------------------------------------------------------------
\* What holds of each enrollment, in terms of the tables q (sequences), r (rows), k
\* (ticks), m (mails) and t (ghosts).

\* A sequence that was there and is not, and the status of an enrollment.
Deleted(q, s) == ~q[s].exists /\ q[s].made > 0
StatusOf(r, p) == r[p[1]][p[2]].status

\* Who is stopped stays stopped: what an enrollment in the hands of a tick must meet.
StoppedOK(q, r, k, t, p) ==
    /\ p \in t.unwelcome => ~SpareS(t, p)
    /\ p \in t.stopped =>
         /\ SpareS(t, p) => StatusOf(r, p) \notin {"active", "awaiting_manual_action"}
         /\ StatusOf(r, p) = None => Deleted(q, p[1])
    /\ \A w \in Workers : Todo(k, w, p) =>
         /\ p \in t.listed[w] \/ ~SpareS(t, p)
         /\ p \in t.stopped => ~SpareS(t, p)
         /\ k[w].blocked[p[2]] = None => p[2] \in t.unblocked[w]

\* A row is there with its sequence, nothing was mailed for one that never was, and
\* the steps a tick works on are those of the sequence or older ones.
SnapshotOK(q, S, s) ==
    /\ \A i \in DOMAIN S, j \in DOMAIN q[s].steps : S[i].id = q[s].steps[j].id => j <= i
    /\ \A i, j \in DOMAIN S : S[i].id = S[j].id => i = j
    /\ q[s].made < Len(Design[s]) => \A i \in DOMAIN S : \E j \in 1..q[s].made : S[i].id = Design[s][j].id
RowOK(q, r, k, m, p) ==
    /\ StatusOf(r, p) # None => q[p[1]].exists
    /\ StatusOf(r, p) = None /\ ~Deleted(q, p[1]) => \A i \in StepIds : m[p[1]][p[2]][i] = 0
    /\ \A w \in Workers : Holding(k, w, p) =>
          (StatusOf(r, p) = None => Deleted(q, p[1])) /\ SnapshotOK(q, StepsOf(k, w, p), p[1])
    /\ q[p[1]].made < Len(Design[p[1]]) =>
          \A j \in 1..Len(Design[p[1]]) : j > q[p[1]].made => m[p[1]][p[2]][Design[p[1]][j].id] = 0

\* A lead gets each step once: one tick at most has the enrollment, its step is the one
\* on record, and no step from there on was mailed, but the one that is being recorded.
TickOK(r, k, m, w, p) ==
    /\ Holding(k, w, p) =>
         /\ StatusOf(r, p) # "awaiting_manual_action"
         /\ StatusOf(r, p) = None \/ r[p[1]][p[2]].step = StepOf(k, w, p)
    /\ Todo(k, w, p) => \A j \in DOMAIN StepsOf(k, w, p) :
         j > StepOf(k, w, p) => m[p[1]][p[2]][StepsOf(k, w, p)[j].id] = 0
    /\ Sending(k, w, p) =>
         /\ StepOf(k, w, p) + 1 \in DOMAIN StepsOf(k, w, p)
         /\ \A j \in DOMAIN StepsOf(k, w, p) :
              j > StepOf(k, w, p) + 1 => m[p[1]][p[2]][StepsOf(k, w, p)[j].id] = 0
BeingRecorded(k, p, id) ==
    \E w \in Workers : Sending(k, w, p) /\ id = StepsOf(k, w, p)[StepOf(k, w, p) + 1].id
OnceOK(q, r, k, m, t, p) ==
    SpareO(t, p) =>
      /\ \A i \in StepIds : m[p[1]][p[2]][i] <= 1
      /\ \A w, v \in Workers : Holding(k, w, p) /\ Holding(k, v, p) => w = v
      /\ \A w \in Workers : TickOK(r, k, m, w, p)
      /\ StatusOf(r, p) # None => \A j \in DOMAIN q[p[1]].steps : j > r[p[1]][p[2]].step =>
            m[p[1]][p[2]][q[p[1]].steps[j].id] = 0 \/ BeingRecorded(k, p, q[p[1]].steps[j].id)

\* The steps of a sequence differ, and are those of its design as far as it is made; one
\* that is not there has none.
InOrder(c, design) ==
    /\ ~c.exists => c.steps = << >>
    /\ \A i, j \in DOMAIN c.steps : c.steps[i].id = c.steps[j].id => i = j
    /\ c.made < Len(design) =>
         \A i \in DOMAIN c.steps : \E j \in 1..c.made : c.steps[i].id = design[j].id
StepsOK(q, s) == InOrder(q[s], Design[s])

\* All of it, for one enrollment.
PairOK(q, r, k, m, t, p) ==
    StoppedOK(q, r, k, t, p) /\ RowOK(q, r, k, m, p) /\ OnceOK(q, r, k, m, t, p)
PairsOK(q, r, k, m, t) == \A p \in Pairs : PairOK(q, r, k, m, t, p)
SequencesOK(q) == \A s \in SequenceIds : StepsOK(q, s)

\* The inductive invariant of the sequences.
SequenceInv ==
    /\ SequenceTypes /\ SequencesOK(sequence) /\ tally.intruded = {}
    /\ PairsOK(sequence, row, tick, sent, tally)

------------------------------------------------------------------------------
\* What changes an enrollment, one table at a time.

\* More marks do no harm.
LEMMA WorsePair ==
    ASSUME NEW q, NEW r, NEW k, NEW m, NEW t, NEW u, NEW p \in Pairs, PairOK(q, r, k, m, t, p), Worse(t, u)
    PROVE  PairOK(q, r, k, m, u, p)
  BY WorseSpares, Zenon DEF Worse, PairOK, StoppedOK, OnceOK

\* A row that changes: an enrollment that is not there is made, at its first step, or one
\* that is there gets another status, or a later step when no tick has it in hand.
Rewritten(q, r, r2, k, t, p) ==
    LET a == r[p[1]][p[2]]
        b == r2[p[1]][p[2]]
    IN  /\ a.status = None => \/ b.status = None /\ b.step = a.step
                              \/ (q[p[1]].exists /\ b.step = 0 /\ b.status = "active")
        /\ a.status # None =>
             /\ b.status # None
             /\ b.step = a.step \/ (SpareO(t, p) => b.step > a.step /\ \A w \in Workers : ~Holding(k, w, p))
             /\ b.status = "awaiting_manual_action" /\ SpareO(t, p) =>
                  a.status = "awaiting_manual_action" \/ \A w \in Workers : ~Holding(k, w, p)

\* The row is still in order.
LEMMA RewrittenRow ==
    ASSUME NEW q, NEW r, NEW r2, NEW k, NEW m, NEW t, NEW p \in Pairs,
           RowOK(q, r, k, m, p), Rewritten(q, r, r2, k, t, p)
    PROVE  RowOK(q, r2, k, m, p)
  BY Zenon DEF Rewritten, StatusOf, Deleted, RowOK

\* No step is mailed twice.
LEMMA RewrittenOnce ==
    ASSUME NEW q \in AllSequences, NEW r \in AllRows, NEW r2 \in AllRows, NEW k, NEW m \in AllSent, NEW t,
           NEW p \in Pairs,
           RowOK(q, r, k, m, p), OnceOK(q, r, k, m, t, p), Rewritten(q, r, r2, k, t, p)
    PROVE  OnceOK(q, r2, k, m, t, p)
<1> SUFFICES ASSUME SpareO(t, p) PROVE OnceOK(q, r2, k, m, t, p) BY Zenon DEF OnceOK
<1>p. p[1] \in SequenceIds /\ p[2] \in Leads BY DEF Pairs
<1> PICK a : a = r[p[1]][p[2]] OBVIOUS
<1> PICK b : b = r2[p[1]][p[2]] OBVIOUS
<1>n. a.step \in Nat /\ b.step \in Nat BY <1>p DEF AllRows, RowRecords
<1> PICK C : C = q[p[1]].steps OBVIOUS
<1>c. C \in Seq(StepRecords) BY <1>p DEF AllSequences, SequenceRecords
<1>d. \A j \in DOMAIN C : j \in Nat /\ j > 0 /\ C[j].id \in StepIds
  <2>1. \A j \in DOMAIN C : j \in Nat /\ j > 0 /\ C[j] \in StepRecords BY <1>c
  <2> QED BY <2>1 DEF StepRecords
<1>o. /\ \A i \in StepIds : m[p[1]][p[2]][i] <= 1
      /\ \A w, v \in Workers : Holding(k, w, p) /\ Holding(k, v, p) => w = v
      /\ \A w \in Workers : TickOK(r, k, m, w, p)
      /\ a.status # None => \A j \in DOMAIN C : j > a.step =>
            m[p[1]][p[2]][C[j].id] = 0 \/ BeingRecorded(k, p, C[j].id)
  BY Zenon DEF OnceOK, StatusOf
<1>1. CASE a.status = None /\ b.status = None /\ b.step = a.step
  BY <1>1, <1>o, Zenon DEF TickOK, StatusOf, OnceOK
<1>2. CASE a.status = None /\ ~(b.status = None /\ b.step = a.step)
  BY <1>2, Zenon, <1>d, <1>o DEF Rewritten, Deleted, RowOK, StatusOf, TickOK, Holding, OnceOK
<1>3. CASE a.status # None
  <2>1. /\ b.step = a.step \/ (b.step > a.step /\ \A w \in Workers : ~Holding(k, w, p))
        /\ b.status = "awaiting_manual_action" =>
             a.status = "awaiting_manual_action" \/ \A w \in Workers : ~Holding(k, w, p)
        /\ b.status # None
    BY <1>3, Zenon DEF Rewritten
  <2>2. \A w \in Workers : TickOK(r2, k, m, w, p)
    <3> TAKE w \in Workers
    <3>1. TickOK(r, k, m, w, p) BY <1>o
    <3>2. CASE Holding(k, w, p) BY <3>2, <2>1, Zenon, <3>1, <1>3 DEF TickOK, StatusOf
    <3>3. CASE ~Holding(k, w, p) BY <3>1, <3>3, Zenon DEF TickOK
    <3> QED BY <3>2, <3>3
  <2>3. \A j \in DOMAIN C : j > b.step =>
            m[p[1]][p[2]][C[j].id] = 0 \/ BeingRecorded(k, p, C[j].id)
    <3> SUFFICES ASSUME NEW j \in DOMAIN C, j > b.step
                 PROVE  m[p[1]][p[2]][C[j].id] = 0 \/ BeingRecorded(k, p, C[j].id)
      OBVIOUS
    <3>1. j > a.step BY <2>1, <1>n, <1>d
    <3> QED BY <3>1, <1>o, <1>3
  <2> QED BY <1>o, <2>2, <2>3, Zenon DEF OnceOK
<1> QED BY <1>1, <1>2, <1>3

\* Who is stopped stays stopped, when rows change and some are stopped.
LEMMA RewrittenStopped ==
    ASSUME NEW q, NEW r, NEW r2, NEW k, NEW t, NEW u, NEW p \in Pairs,
           StoppedOK(q, r, k, t, p),
           u.listed = t.listed, u.unblocked = t.unblocked, u.unwelcome = t.unwelcome,
           t.marred[p] \subseteq u.marred[p],
           p \in u.stopped => p \in t.stopped \/ \A w \in Workers : Todo(k, w, p) => ~SpareS(u, p),
           p \in u.stopped /\ SpareS(u, p) => StatusOf(r2, p) \notin {"active", "awaiting_manual_action"},
           p \in u.stopped /\ StatusOf(r2, p) = None => Deleted(q, p[1])
    PROVE  StoppedOK(q, r2, k, u, p)
<1>1. SpareS(u, p) => SpareS(t, p) BY WorseSpares
<1>2. p \in u.unwelcome => ~SpareS(u, p) BY <1>1, Zenon DEF StoppedOK
<1>3. ASSUME NEW w \in Workers, Todo(k, w, p)
      PROVE  /\ p \in u.listed[w] \/ ~SpareS(u, p)
             /\ p \in u.stopped => ~SpareS(u, p)
             /\ k[w].blocked[p[2]] = None => p[2] \in u.unblocked[w]
  BY <1>3, Zenon, <1>1 DEF StoppedOK
<1> QED BY <1>2, <1>3, Zenon DEF StoppedOK

\* A tick that takes nothing more in hand, and keeps the snapshot of what it has.
Fewer(k, k2, w, p) ==
    /\ Todo(k2, w, p) => Todo(k, w, p)
    /\ Sending(k2, w, p) => Sending(k, w, p)
    /\ Holding(k2, w, p) => /\ k2[w].rows = k[w].rows /\ k2[w].steps = k[w].steps
                            /\ k2[w].blocked = k[w].blocked

\* A mail that is not recorded is a mishap: the rest is as it was.
LEMMA FewerPair ==
    ASSUME NEW q, NEW r, NEW k, NEW k2, NEW m, NEW t, NEW u, NEW p \in Pairs,
           PairOK(q, r, k, m, t, p),
           p \in u.stopped => p \in t.stopped, p \in u.unwelcome => p \in t.unwelcome,
           t.marred[p] \subseteq u.marred[p],
           \A w \in Workers : Fewer(k, k2, w, p),
           \A w \in Workers : Todo(k2, w, p) => u.listed[w] = t.listed[w] /\ u.unblocked[w] = t.unblocked[w],
           \A w \in Workers : Sending(k, w, p) /\ ~Sending(k2, w, p) => ~SpareO(u, p)
    PROVE  PairOK(q, r, k2, m, u, p)
<1>1. /\ SpareS(u, p) => SpareS(t, p)
      /\ SpareO(u, p) => SpareO(t, p)
  BY WorseSpares
<1>2. StoppedOK(q, r, k, t, p) /\ RowOK(q, r, k, m, p) /\ OnceOK(q, r, k, m, t, p) BY Zenon DEF PairOK
<1>3. StoppedOK(q, r, k2, u, p)
  <2>1. ASSUME NEW w \in Workers, Todo(k2, w, p)
        PROVE  /\ p \in u.listed[w] \/ ~SpareS(u, p)
               /\ p \in u.stopped => ~SpareS(u, p)
               /\ k2[w].blocked[p[2]] = None => p[2] \in u.unblocked[w]
    BY <2>1, Zenon, <1>2, <1>1 DEF Fewer, Holding, StoppedOK
  <2> QED BY <2>1, <1>1, <1>2, Zenon DEF StoppedOK
<1>4. \A w \in Workers : Holding(k2, w, p) =>
         /\ Holding(k, w, p) /\ StepsOf(k2, w, p) = StepsOf(k, w, p) /\ StepOf(k2, w, p) = StepOf(k, w, p)
  BY Zenon DEF Fewer, Holding, StepsOf, StepOf
<1>5. RowOK(q, r, k2, m, p)
  <2>1. \A w \in Workers : Holding(k2, w, p) =>
            (StatusOf(r, p) = None => Deleted(q, p[1])) /\ SnapshotOK(q, StepsOf(k2, w, p), p[1])
    <3> SUFFICES ASSUME NEW w \in Workers, Holding(k2, w, p)
                 PROVE  (StatusOf(r, p) = None => Deleted(q, p[1])) /\ SnapshotOK(q, StepsOf(k2, w, p), p[1])
      OBVIOUS
    <3>1. Holding(k, w, p) /\ StepsOf(k2, w, p) = StepsOf(k, w, p) BY <1>4
    <3>2. (StatusOf(r, p) = None => Deleted(q, p[1])) /\ SnapshotOK(q, StepsOf(k, w, p), p[1])
      BY <3>1, <1>2, Zenon DEF RowOK
    <3> QED BY <3>1, <3>2, Zenon
  <2> QED BY <2>1, <1>2, Zenon DEF RowOK
<1>6. OnceOK(q, r, k2, m, u, p)
  <2> SUFFICES ASSUME SpareO(u, p) PROVE OnceOK(q, r, k2, m, u, p) BY Zenon DEF OnceOK
  <2>1. /\ \A i \in StepIds : m[p[1]][p[2]][i] <= 1
        /\ \A w, v \in Workers : Holding(k, w, p) /\ Holding(k, v, p) => w = v
        /\ \A w \in Workers : TickOK(r, k, m, w, p)
        /\ StatusOf(r, p) # None => \A j \in DOMAIN q[p[1]].steps : j > r[p[1]][p[2]].step =>
            m[p[1]][p[2]][q[p[1]].steps[j].id] = 0 \/ BeingRecorded(k, p, q[p[1]].steps[j].id)
    BY <1>1, <1>2, Zenon DEF OnceOK
  <2>2. \A w, v \in Workers : Holding(k2, w, p) /\ Holding(k2, v, p) => w = v BY <2>1, <1>4, Zenon
  <2>3. \A w \in Workers : TickOK(r, k2, m, w, p)
    <3> TAKE w \in Workers
    <3>1. TickOK(r, k, m, w, p) /\ Fewer(k, k2, w, p) BY <2>1, Zenon
    <3>2. CASE Holding(k2, w, p) BY <1>4, <3>2, <3>1, Zenon DEF TickOK, Fewer
    <3>3. CASE ~Holding(k2, w, p) BY <3>3, Zenon DEF TickOK, Holding
    <3> QED BY <3>2, <3>3
  <2>4. \A id : BeingRecorded(k, p, id) => BeingRecorded(k2, p, id)
    <3> SUFFICES ASSUME NEW id, NEW w \in Workers, Sending(k, w, p),
                        id = StepsOf(k, w, p)[StepOf(k, w, p) + 1].id
                 PROVE  BeingRecorded(k2, p, id)
      BY Zenon DEF BeingRecorded
    <3>1. Sending(k2, w, p) /\ Holding(k2, w, p) BY Zenon DEF Holding
    <3>2. StepsOf(k2, w, p) = StepsOf(k, w, p) /\ StepOf(k2, w, p) = StepOf(k, w, p) BY <3>1, <1>4
    <3> QED BY <3>1, <3>2, Zenon DEF BeingRecorded
  <2> QED BY <2>1, <2>2, <2>3, <2>4, Zenon DEF OnceOK
<1> QED BY <1>3, <1>5, <1>6, Zenon DEF PairOK

\* What happens to other enrollments is no matter.
LEMMA ElsewherePair ==
    ASSUME NEW q, NEW q2, NEW r, NEW r2, NEW k, NEW m, NEW m2, NEW t, NEW p \in Pairs,
           PairOK(q, r, k, m, t, p),
           q2[p[1]] = q[p[1]], r2[p[1]][p[2]] = r[p[1]][p[2]], m2[p[1]][p[2]] = m[p[1]][p[2]]
    PROVE  PairOK(q2, r2, k, m2, t, p)
<1>0. StoppedOK(q, r, k, t, p) /\ RowOK(q, r, k, m, p) /\ OnceOK(q, r, k, m, t, p) BY Zenon DEF PairOK
<1>1. /\ Deleted(q2, p[1]) <=> Deleted(q, p[1])
      /\ StatusOf(r2, p) = StatusOf(r, p)
      /\ \A S : SnapshotOK(q, S, p[1]) => SnapshotOK(q2, S, p[1])
  BY Zenon DEF Deleted, StatusOf, SnapshotOK
<1>2. StoppedOK(q2, r2, k, t, p) BY <1>0, <1>1, Zenon DEF StoppedOK
<1>3. RowOK(q2, r2, k, m2, p) BY <1>0, <1>1, Zenon DEF RowOK
<1>4. \A w \in Workers : TickOK(r, k, m, w, p) => TickOK(r2, k, m2, w, p) BY <1>1, Zenon DEF TickOK
<1>5. OnceOK(q2, r2, k, m2, t, p) BY <1>0, <1>1, <1>4, Zenon DEF OnceOK
<1> QED BY <1>2, <1>3, <1>5, Zenon DEF PairOK

\* A tick takes an enrollment that is due, as it is.
LEMMA TakenPair ==
    ASSUME NEW q \in AllSequences, NEW r \in AllRows, NEW k, NEW k2, NEW m, NEW t, NEW u,
           NEW p \in Pairs, NEW w \in Workers,
           PairOK(q, r, k, m, t, p), StepsOK(q, p[1]), StatusOf(r, p) = "active",
           ~Holding(k, w, p),
           \A v \in Workers : v # w =>
              k2[v] = k[v] /\ u.listed[v] = t.listed[v] /\ u.unblocked[v] = t.unblocked[v],
           Todo(k2, w, p), ~Sending(k2, w, p),
           StepOf(k2, w, p) = r[p[1]][p[2]].step, StepsOf(k2, w, p) = q[p[1]].steps,
           u.stopped = t.stopped, u.unwelcome = t.unwelcome, t.marred[p] \subseteq u.marred[p],
           p \in u.listed[w] \/ p \in t.stopped,
           k2[w].blocked[p[2]] = None => p[2] \in u.unblocked[w],
           SpareO(u, p) => \A v \in Workers : ~Holding(k, v, p)
    PROVE  PairOK(q, r, k2, m, u, p)
<1>p. p[1] \in SequenceIds BY DEF Pairs
<1> PICK S : S = q[p[1]].steps OBVIOUS
<1>s. \A j \in DOMAIN S : j \in Nat BY <1>p DEF AllSequences, SequenceRecords
<1>1. /\ SpareS(u, p) => SpareS(t, p)
      /\ SpareO(u, p) => SpareO(t, p)
  BY WorseSpares
<1>2. StoppedOK(q, r, k, t, p) /\ RowOK(q, r, k, m, p) /\ OnceOK(q, r, k, m, t, p) BY Zenon DEF PairOK
<1>n. StatusOf(r, p) # None /\ StatusOf(r, p) # "awaiting_manual_action" BY DEF None
<1>3. StoppedOK(q, r, k2, u, p)
  <2>0. p \in t.stopped => ~SpareS(u, p) BY <1>1, <1>2, Zenon DEF StoppedOK
  <2>1. ASSUME NEW v \in Workers, Todo(k2, v, p)
        PROVE  /\ p \in u.listed[v] \/ ~SpareS(u, p)
               /\ p \in u.stopped => ~SpareS(u, p)
               /\ k2[v].blocked[p[2]] = None => p[2] \in u.unblocked[v]
    BY <2>0, Zenon, <2>1, <1>2, <1>1 DEF Todo, StoppedOK
  <2>2. p \in u.unwelcome => ~SpareS(u, p) BY <1>1, <1>2, Zenon DEF StoppedOK
  <2> QED BY <1>n, <2>0, <2>1, <2>2, Zenon DEF StoppedOK
<1>4. SnapshotOK(q, S, p[1])
  <2>1. /\ \A i, j \in DOMAIN S : S[i].id = S[j].id => i = j
        /\ q[p[1]].made < Len(Design[p[1]]) =>
             \A i \in DOMAIN S : \E j \in 1..q[p[1]].made : S[i].id = Design[p[1]][j].id
    BY <1>p, Zenon DEF StepsOK, InOrder
  <2>2. \A i, j \in DOMAIN S : S[i].id = S[j].id => j <= i BY <2>1, <1>s
  <2> QED BY <2>1, <2>2, Zenon DEF SnapshotOK
<1>5. RowOK(q, r, k2, m, p)
  <2>1. \A v \in Workers : Holding(k2, v, p) => SnapshotOK(q, StepsOf(k2, v, p), p[1])
    <3> SUFFICES ASSUME NEW v \in Workers, Holding(k2, v, p) PROVE SnapshotOK(q, StepsOf(k2, v, p), p[1])
      OBVIOUS
    <3>1. CASE v = w BY <3>1, <1>4, Zenon
    <3>2. CASE v # w
      <4>1. Holding(k, v, p) /\ StepsOf(k2, v, p) = StepsOf(k, v, p)
        BY <3>2, Zenon DEF Holding, Todo, Sending, StepsOf
      <4> QED BY <4>1, <1>2, Zenon DEF RowOK
    <3> QED BY <3>1, <3>2
  <2> QED BY <2>1, <1>n, <1>2, Zenon DEF RowOK
<1>6. OnceOK(q, r, k2, m, u, p)
  <2> SUFFICES ASSUME SpareO(u, p) PROVE OnceOK(q, r, k2, m, u, p) BY Zenon DEF OnceOK
  <2>1. \A v \in Workers : v # w => ~Holding(k2, v, p) BY Zenon DEF Holding, Todo, Sending
  <2>2. /\ \A i \in StepIds : m[p[1]][p[2]][i] <= 1
        /\ \A j \in DOMAIN S : j > r[p[1]][p[2]].step =>
              m[p[1]][p[2]][S[j].id] = 0 \/ BeingRecorded(k, p, S[j].id)
    BY <1>1, <1>2, <1>n, Zenon DEF OnceOK
  <2>3. \A j \in DOMAIN S : j > r[p[1]][p[2]].step => m[p[1]][p[2]][S[j].id] = 0
    BY <2>2, Zenon DEF BeingRecorded, Holding
  <2>4. \A v \in Workers : TickOK(r, k2, m, v, p)
    <3> TAKE v \in Workers
    <3>1. CASE v = w BY <3>1, <2>3, <1>n, Zenon DEF TickOK
    <3>2. CASE v # w BY <3>2, <2>1, Zenon DEF TickOK, Holding
    <3> QED BY <3>1, <3>2
  <2>5. \A v, v2 \in Workers : Holding(k2, v, p) /\ Holding(k2, v2, p) => v = v2 BY <2>1, Zenon
  <2> QED BY <2>2, <2>3, <2>4, <2>5, Zenon DEF OnceOK
<1> QED BY <1>3, <1>5, <1>6, Zenon DEF PairOK

\* The steps of a design differ.
LEMMA DesignDiffers ==
    ASSUME NEW s \in SequenceIds, NEW i \in 1..Len(Design[s]), NEW j \in 1..Len(Design[s]),
           Design[s][i].id = Design[s][j].id
    PROVE  i = j
<1> PICK ids : ids = [n \in DOMAIN Design[s] |-> Design[s][n].id] OBVIOUS
<1>1. Design[s] \in Seq([id : Range(ids), kind : StepTypes, cond : Conditions]) /\ IsInjective(ids)
  BY OutreachAssumption, Zenon
<1>2. DOMAIN Design[s] = 1..Len(Design[s]) BY <1>1
<1> QED BY <1>1, <1>2 DEF IsInjective

\* A sequence over a set is one over a larger set.
LEMMA SequenceOver ==
    ASSUME NEW S, NEW T, NEW D \in Seq(S)
    PROVE  /\ \A n \in DOMAIN D : D[n] \in S
           /\ Len(D) \in Nat
           /\ S \subseteq T => D \in Seq(T)
<1>1. Len(D) \in Nat /\ DOMAIN D = 1..Len(D) /\ \A n \in DOMAIN D : D[n] \in S OBVIOUS
<1>2. ASSUME S \subseteq T PROVE D \in Seq(T) BY <1>1, <1>2
<1> QED BY <1>1, <1>2

\* A design is a sequence of steps, and has one.
LEMMA DesignOK ==
    ASSUME NEW s \in SequenceIds
    PROVE  Design[s] \in Seq(StepRecords) /\ Len(Design[s]) > 0 /\ Len(Design[s]) \in Nat
<1> PICK ids : ids = [n \in DOMAIN Design[s] |-> Design[s][n].id] OBVIOUS
<1> PICK S : S = [id : Range(ids), kind : StepTypes, cond : Conditions] OBVIOUS
<1> PICK D : D = Design[s] OBVIOUS
<1>1. D \in Seq(S) /\ D # << >> BY OutreachAssumption, Zenon
<1>2. \A n \in DOMAIN D : D[n] \in S BY <1>1, SequenceOver, Zenon
<1>3. Range(ids) \subseteq StepIds
  <2>1. ASSUME NEW n \in DOMAIN D PROVE D[n].id \in StepIds
    <3>1. D[n].id \in {Design[s][i].id : i \in DOMAIN Design[s]} OBVIOUS
    <3> QED BY <3>1, Zenon DEF StepIds
  <2>2. DOMAIN ids = DOMAIN D /\ \A n \in DOMAIN D : ids[n] = D[n].id OBVIOUS
  <2> QED BY <2>1, <2>2, Zenon DEF Range
<1>4. S \subseteq StepRecords BY <1>3 DEF StepRecords
<1>5. D \in Seq(StepRecords) /\ Len(D) \in Nat BY <1>1, <1>4, SequenceOver, Zenon
<1>6. Len(D) > 0 BY <1>1, <1>5
<1> QED BY <1>5, <1>6

\* A step that is mailed.
LEMMA MailedRow ==
    ASSUME NEW q \in AllSequences, NEW r, NEW k, NEW k2, NEW m \in AllSent, NEW m2 \in AllSent,
           NEW p \in Pairs, NEW w \in Workers, NEW id \in StepIds, NEW n \in DOMAIN StepsOf(k, w, p),
           RowOK(q, r, k, m, p), Holding(k, w, p), id = StepsOf(k, w, p)[n].id,
           \A v \in Workers : Holding(k2, v, p) => Holding(k, v, p) /\ StepsOf(k2, v, p) = StepsOf(k, v, p),
           \A i \in StepIds : i # id => m2[p[1]][p[2]][i] = m[p[1]][p[2]][i]
    PROVE  RowOK(q, r, k2, m2, p)
<1>p. p[1] \in SequenceIds BY DEF Pairs
<1> PICK D : D = Design[p[1]] OBVIOUS
<1> PICK made : made = q[p[1]].made OBVIOUS
<1>0. made \in Nat /\ Len(D) \in Nat /\ D \in Seq(StepRecords)
  BY <1>p, DesignOK DEF AllSequences, SequenceRecords
<1>1. StatusOf(r, p) = None => Deleted(q, p[1]) BY Zenon DEF RowOK
<1>2. \A v \in Workers : Holding(k2, v, p) =>
          (StatusOf(r, p) = None => Deleted(q, p[1])) /\ SnapshotOK(q, StepsOf(k2, v, p), p[1])
  BY Zenon DEF RowOK
<1>3. ASSUME made < Len(D), NEW j \in 1..Len(D), j > made PROVE m2[p[1]][p[2]][D[j].id] = 0
  <2>1. PICK i \in 1..made : id = D[i].id
    <3>1. SnapshotOK(q, StepsOf(k, w, p), p[1]) BY Zenon DEF RowOK
    <3> QED BY <3>1, <1>3, Zenon DEF SnapshotOK
  <2>2. i \in 1..Len(D) /\ i # j BY <1>0, <1>3
  <2>3. D[j].id # id BY <2>1, <2>2, <1>p, DesignDiffers
  <2>4. D[j] \in StepRecords BY <1>0
  <2>5. D[j].id \in StepIds BY <2>4 DEF StepRecords
  <2>6. m[p[1]][p[2]][D[j].id] = 0 BY <1>3, Zenon DEF RowOK
  <2> QED BY <2>3, <2>5, <2>6
<1>4. StatusOf(r, p) # None => q[p[1]].exists BY Zenon DEF RowOK
<1> QED BY <1>1, <1>2, <1>3, <1>4, Zenon DEF RowOK

\* Who is stopped stays stopped, when a mail goes out.
LEMMA MailedStopped ==
    ASSUME NEW q, NEW r, NEW k, NEW k2, NEW t, NEW u, NEW p \in Pairs, NEW w \in Workers,
           StoppedOK(q, r, k, t, p), Todo(k, w, p),
           u.stopped = t.stopped, u.listed = t.listed, u.unblocked = t.unblocked,
           p \in u.unwelcome => p \in t.unwelcome \/ p \notin t.listed[w], t.marred[p] \subseteq u.marred[p],
           \A v \in Workers : Todo(k2, v, p) => Todo(k, v, p) /\ k2[v].blocked = k[v].blocked
    PROVE  StoppedOK(q, r, k2, u, p)
<1>1. SpareS(u, p) => SpareS(t, p) BY WorseSpares
<1>2. p \in u.unwelcome => ~SpareS(u, p) BY <1>1, Zenon DEF StoppedOK
<1>3. ASSUME NEW v \in Workers, Todo(k2, v, p)
      PROVE  /\ p \in u.listed[v] \/ ~SpareS(u, p)
             /\ p \in u.stopped => ~SpareS(u, p)
             /\ k2[v].blocked[p[2]] = None => p[2] \in u.unblocked[v]
  BY <1>3, <1>1, Zenon DEF StoppedOK
<1> QED BY <1>1, <1>2, <1>3, Zenon DEF StoppedOK

\* The step that is next for an enrollment in hand, and a mail of it.
NextStep(k, w, p, id) ==
    /\ StepOf(k, w, p) \in Nat /\ StepsOf(k, w, p) \in Seq(StepRecords)
    /\ StepOf(k, w, p) < Len(StepsOf(k, w, p))
    /\ id \in StepIds /\ id = StepsOf(k, w, p)[StepOf(k, w, p) + 1].id
OneMore(m, m2, p, id)  == m2[p[1]][p[2]][id] = m[p[1]][p[2]][id] + 1
SameElse(m, m2, p, id) == \A i \in StepIds : i # id => m2[p[1]][p[2]][i] = m[p[1]][p[2]][i]

\* The mail of the step that is next, for an enrollment in hand.
LEMMA MailedPair ==
    ASSUME NEW q \in AllSequences, NEW r \in AllRows, NEW k, NEW k2, NEW m \in AllSent, NEW m2 \in AllSent,
           NEW t, NEW u, NEW p \in Pairs, NEW w \in Workers, NEW id,
           PairOK(q, r, k, m, t, p), Todo(k, w, p), k[w].pc # "sent", ~Todo(k2, w, p), Sending(k2, w, p),
           StepOf(k2, w, p) = StepOf(k, w, p), StepsOf(k2, w, p) = StepsOf(k, w, p),
           NextStep(k, w, p, id),
           \A v \in Workers : v # w => k2[v] = k[v],
           u.stopped = t.stopped, u.listed = t.listed, u.unblocked = t.unblocked,
           p \in u.unwelcome => p \in t.unwelcome \/ p \notin t.listed[w], t.marred[p] \subseteq u.marred[p],
           OneMore(m, m2, p, id), SameElse(m, m2, p, id)
    PROVE  PairOK(q, r, k2, m2, u, p)
<1>a. /\ StepOf(k, w, p) \in Nat /\ StepsOf(k, w, p) \in Seq(StepRecords)
      /\ StepOf(k, w, p) < Len(StepsOf(k, w, p))
      /\ id \in StepIds /\ id = StepsOf(k, w, p)[StepOf(k, w, p) + 1].id
  BY DEF NextStep
<1>b. /\ m2[p[1]][p[2]][id] = m[p[1]][p[2]][id] + 1
      /\ \A i \in StepIds : i # id => m2[p[1]][p[2]][i] = m[p[1]][p[2]][i]
  BY DEF OneMore, SameElse
<1>p. p[1] \in SequenceIds /\ p[2] \in Leads BY DEF Pairs
<1> PICK S : S = StepsOf(k, w, p) OBVIOUS
<1> PICK n : n = StepOf(k, w, p) OBVIOUS
<1>s. DOMAIN S = 1..Len(S) /\ n + 1 \in DOMAIN S /\ \A j \in DOMAIN S : j \in Nat /\ S[j] \in StepRecords
  BY <1>a
<1>i. \A j \in DOMAIN S : S[j].id \in StepIds BY <1>s DEF StepRecords
<1>1. /\ SpareS(u, p) => SpareS(t, p)
      /\ SpareO(u, p) => SpareO(t, p)
  BY WorseSpares
<1>2. StoppedOK(q, r, k, t, p) /\ RowOK(q, r, k, m, p) /\ OnceOK(q, r, k, m, t, p) BY Zenon DEF PairOK
<1>3. \A v \in Workers : v # w => (Todo(k2, v, p) => Todo(k, v, p)) /\ (Sending(k2, v, p) => Sending(k, v, p))
        /\ (Holding(k2, v, p) => Holding(k, v, p)) /\ StepsOf(k2, v, p) = StepsOf(k, v, p)
  BY Zenon DEF Holding, Todo, Sending, StepsOf
<1>4. StoppedOK(q, r, k2, u, p)
  <2>1. \A v \in Workers : Todo(k2, v, p) => Todo(k, v, p) /\ k2[v].blocked = k[v].blocked BY <1>3, Zenon
  <2> QED BY <1>2, <2>1, MailedStopped
<1>h. Holding(k, w, p) BY Zenon DEF Holding
<1>5. RowOK(q, r, k2, m2, p) BY <1>3, <1>h, Zenon, <1>a, <1>b, <1>2, <1>s, MailedRow
<1>6. OnceOK(q, r, k2, m2, u, p)
  <2> SUFFICES ASSUME SpareO(u, p) PROVE OnceOK(q, r, k2, m2, u, p) BY Zenon DEF OnceOK
  <2>1. /\ \A i \in StepIds : m[p[1]][p[2]][i] <= 1
        /\ \A v, v2 \in Workers : Holding(k, v, p) /\ Holding(k, v2, p) => v = v2
        /\ \A v \in Workers : TickOK(r, k, m, v, p)
        /\ StatusOf(r, p) # None => \A j \in DOMAIN q[p[1]].steps : j > r[p[1]][p[2]].step =>
            m[p[1]][p[2]][q[p[1]].steps[j].id] = 0 \/ BeingRecorded(k, p, q[p[1]].steps[j].id)
    BY <1>1, <1>2, Zenon DEF OnceOK
  <2>2. \A j \in DOMAIN S : j > n => m[p[1]][p[2]][S[j].id] = 0 BY <2>1, Zenon DEF TickOK
  <2>3. m[p[1]][p[2]][id] = 0 BY <2>2, <1>s, <1>a
  <2>4. \A i \in StepIds : m2[p[1]][p[2]][i] <= 1 BY <2>1, <2>3, <1>a, <1>b
  <2>5. \A v \in Workers : v # w => ~Holding(k2, v, p) BY <2>1, <1>3, <1>h, Zenon
  <2>6. \A v, v2 \in Workers : Holding(k2, v, p) /\ Holding(k2, v2, p) => v = v2 BY <2>5, Zenon
  <2>7. \A j \in DOMAIN S : j > n + 1 => m2[p[1]][p[2]][S[j].id] = 0
    <3> SUFFICES ASSUME NEW j \in DOMAIN S, j > n + 1 PROVE m2[p[1]][p[2]][S[j].id] = 0 OBVIOUS
    <3>1. SnapshotOK(q, S, p[1]) BY <1>2, <1>h, Zenon DEF RowOK
    <3>2. S[j].id = S[n + 1].id => j = n + 1 BY <3>1, <1>s, Zenon DEF SnapshotOK
    <3>3. S[j].id # id /\ j > n BY <3>2, <1>s, <1>a
    <3> QED BY <3>3, <2>2, <1>i, <1>b
  <2>8. TickOK(r, k2, m2, w, p) BY <2>1, <1>h, <1>s, <2>7, Zenon DEF TickOK, Holding
  <2>9. \A v \in Workers : TickOK(r, k2, m2, v, p) BY <2>5, <2>8, Zenon DEF TickOK, Holding
  <2>10. ASSUME StatusOf(r, p) # None, NEW j \in DOMAIN q[p[1]].steps, j > r[p[1]][p[2]].step
         PROVE  \/ m2[p[1]][p[2]][q[p[1]].steps[j].id] = 0
                \/ BeingRecorded(k2, p, q[p[1]].steps[j].id)
    <3>1. ~BeingRecorded(k, p, q[p[1]].steps[j].id) BY <2>1, <1>h, Zenon DEF Holding, Sending, BeingRecorded
    <3>2. m[p[1]][p[2]][q[p[1]].steps[j].id] = 0 BY <2>10, <2>1, <3>1
    <3>3. CASE q[p[1]].steps[j].id = id BY <3>3, <1>a, Zenon DEF BeingRecorded
    <3>4. CASE q[p[1]].steps[j].id # id
      <4>1. q[p[1]].steps \in Seq(StepRecords) BY <1>p DEF AllSequences, SequenceRecords
      <4>2. q[p[1]].steps[j] \in StepRecords BY <4>1
      <4>3. q[p[1]].steps[j].id \in StepIds BY <4>2 DEF StepRecords
      <4> QED BY <3>2, <3>4, <4>3, <1>b
    <3> QED BY <3>3, <3>4
  <2> QED BY <2>4, <2>6, <2>9, <2>10, Zenon DEF OnceOK
<1> QED BY <1>4, <1>5, <1>6, Zenon DEF PairOK

\* A mail of which the worker does not know.
LEMMA UnknownPair ==
    ASSUME NEW q \in AllSequences, NEW r \in AllRows, NEW k, NEW k2, NEW m \in AllSent, NEW m2 \in AllSent,
           NEW t, NEW u, NEW p \in Pairs, NEW w \in Workers, NEW id,
           PairOK(q, r, k, m, t, p), Todo(k, w, p), ~Holding(k2, w, p),
           NextStep(k, w, p, id),
           \A v \in Workers : v # w => k2[v] = k[v],
           u.stopped = t.stopped, u.listed = t.listed, u.unblocked = t.unblocked,
           p \in u.unwelcome => p \in t.unwelcome \/ p \notin t.listed[w], t.marred[p] \subseteq u.marred[p],
           ~SpareO(u, p),
           SameElse(m, m2, p, id)
    PROVE  PairOK(q, r, k2, m2, u, p)
<1>a. /\ StepOf(k, w, p) \in Nat /\ StepsOf(k, w, p) \in Seq(StepRecords)
      /\ StepOf(k, w, p) < Len(StepsOf(k, w, p))
      /\ id \in StepIds /\ id = StepsOf(k, w, p)[StepOf(k, w, p) + 1].id
  BY DEF NextStep
<1>b. \A i \in StepIds : i # id => m2[p[1]][p[2]][i] = m[p[1]][p[2]][i] BY DEF SameElse
<1>s. StepOf(k, w, p) + 1 \in DOMAIN StepsOf(k, w, p) BY <1>a
<1>2. StoppedOK(q, r, k, t, p) /\ RowOK(q, r, k, m, p) BY Zenon DEF PairOK
<1>4. StoppedOK(q, r, k2, u, p)
  <2>1. \A v \in Workers : Todo(k2, v, p) => Todo(k, v, p) /\ k2[v].blocked = k[v].blocked
    BY Zenon DEF Holding, Todo
  <2> QED BY <1>2, <2>1, MailedStopped
<1>5. RowOK(q, r, k2, m2, p)
  <2>1. \A v \in Workers : Holding(k2, v, p) => Holding(k, v, p) /\ StepsOf(k2, v, p) = StepsOf(k, v, p)
    BY Zenon DEF Holding, Todo, Sending, StepsOf
  <2>2. Holding(k, w, p) BY Zenon DEF Holding
  <2> QED BY <1>a, <1>b, <1>2, <2>1, <2>2, <1>s, MailedRow
<1> QED BY <1>4, <1>5, Zenon DEF PairOK, OnceOK

\* A step that was mailed is recorded: on the row, if it is still there.
LEMMA AdvancedPair ==
    ASSUME NEW q \in AllSequences, NEW r \in AllRows, NEW r2 \in AllRows, NEW k, NEW k2, NEW m \in AllSent,
           NEW t, NEW p \in Pairs, NEW w \in Workers,
           PairOK(q, r, k, m, t, p), Sending(k, w, p), ~Todo(k, w, p), ~Holding(k2, w, p),
           StepOf(k, w, p) \in Nat,
           \A v \in Workers : v # w => k2[v] = k[v],
           StatusOf(r, p) = None => r2[p[1]][p[2]] = r[p[1]][p[2]],
           StatusOf(r, p) # None => /\ r2[p[1]][p[2]].step = StepOf(k, w, p) + 1
                                    /\ StatusOf(r2, p) \in {StatusOf(r, p), "completed"}
    PROVE  PairOK(q, r2, k2, m, t, p)
<1>p. p[1] \in SequenceIds /\ p[2] \in Leads BY DEF Pairs
<1> PICK S : S = StepsOf(k, w, p) OBVIOUS
<1> PICK n : n = StepOf(k, w, p) OBVIOUS
<1> PICK C : C = q[p[1]].steps OBVIOUS
<1>c. \A j \in DOMAIN C : j \in Nat BY <1>p DEF AllSequences, SequenceRecords
<1>2. StoppedOK(q, r, k, t, p) /\ RowOK(q, r, k, m, p) /\ OnceOK(q, r, k, m, t, p) BY Zenon DEF PairOK
<1>n. /\ StatusOf(r2, p) = None <=> StatusOf(r, p) = None
      /\ StatusOf(r2, p) \in {"active", "awaiting_manual_action"} => StatusOf(r2, p) = StatusOf(r, p)
  BY DEF None, StatusOf
<1>3. \A v \in Workers : (Todo(k2, v, p) => Todo(k, v, p)) /\ (Holding(k2, v, p) => Holding(k, v, p) /\ v # w)
        /\ (Holding(k2, v, p) => k2[v] = k[v])
  BY Zenon DEF Holding, Todo, Sending
<1>4. StoppedOK(q, r2, k2, t, p)
  <2>1. p \in t.stopped =>
         /\ SpareS(t, p) => StatusOf(r2, p) \notin {"active", "awaiting_manual_action"}
         /\ StatusOf(r2, p) = None => Deleted(q, p[1])
    BY <1>2, <1>n, Zenon DEF StoppedOK
  <2>2. ASSUME NEW v \in Workers, Todo(k2, v, p)
        PROVE  /\ p \in t.listed[v] \/ ~SpareS(t, p)
               /\ p \in t.stopped => ~SpareS(t, p)
               /\ k2[v].blocked[p[2]] = None => p[2] \in t.unblocked[v]
    BY <2>2, <1>3, Zenon, <1>2 DEF Holding, StoppedOK
  <2> QED BY <2>1, <2>2, <1>2, Zenon DEF StoppedOK
<1>h. Holding(k, w, p) BY Zenon DEF Holding
<1>5. RowOK(q, r2, k2, m, p)
  <2>1. \A v \in Workers : Holding(k2, v, p) => Holding(k, v, p) /\ StepsOf(k2, v, p) = StepsOf(k, v, p)
    BY <1>3, Zenon DEF StepsOf
  <2>2. \A v \in Workers : Holding(k2, v, p) =>
          (StatusOf(r2, p) = None => Deleted(q, p[1])) /\ SnapshotOK(q, StepsOf(k2, v, p), p[1])
    <3> TAKE v \in Workers
    <3>1. Holding(k, v, p) => (StatusOf(r, p) = None => Deleted(q, p[1])) /\ SnapshotOK(q, StepsOf(k, v, p), p[1])
      BY <1>2, Zenon DEF RowOK
    <3> QED BY <3>1, <2>1, <1>n, Zenon
  <2> QED BY <1>2, <1>n, <2>2, Zenon DEF RowOK
<1>6. OnceOK(q, r2, k2, m, t, p)
  <2> SUFFICES ASSUME SpareO(t, p) PROVE OnceOK(q, r2, k2, m, t, p) BY Zenon DEF OnceOK
  <2>1. /\ \A i \in StepIds : m[p[1]][p[2]][i] <= 1
        /\ \A v, v2 \in Workers : Holding(k, v, p) /\ Holding(k, v2, p) => v = v2
        /\ \A v \in Workers : TickOK(r, k, m, v, p)
        /\ StatusOf(r, p) # None => \A j \in DOMAIN C : j > r[p[1]][p[2]].step =>
            m[p[1]][p[2]][C[j].id] = 0 \/ BeingRecorded(k, p, C[j].id)
    BY <1>2, Zenon DEF OnceOK
  <2>2. \A v \in Workers : ~Holding(k2, v, p) BY <2>1, <1>3, <1>h, Zenon
  <2>3. \A v \in Workers : TickOK(r2, k2, m, v, p) BY <2>2, Zenon DEF TickOK, Holding
  <2>4. ASSUME StatusOf(r2, p) # None, NEW j \in DOMAIN C, j > r2[p[1]][p[2]].step
        PROVE  m[p[1]][p[2]][C[j].id] = 0
    <3>1. StatusOf(r, p) # None BY <2>4, <1>n, Zenon
    <3>2. r2[p[1]][p[2]].step = n + 1 BY <3>1, Zenon
    <3>3. TickOK(r, k, m, w, p) BY <2>1
    <3>4. n + 1 \in DOMAIN S /\ r[p[1]][p[2]].step = n BY <3>1, <3>3, <1>h, Zenon DEF TickOK
    <3>5. j > n + 1 /\ j > r[p[1]][p[2]].step BY <2>4, <3>2, <3>4, <1>c
    <3>6. SUFFICES ASSUME BeingRecorded(k, p, C[j].id) PROVE FALSE BY <2>1, <3>1, <3>5
    <3>7. PICK v \in Workers : Sending(k, v, p) /\ C[j].id = StepsOf(k, v, p)[StepOf(k, v, p) + 1].id
      BY <3>6, Zenon DEF BeingRecorded
    <3>8. v = w BY <3>7, <2>1, <1>h, Zenon DEF Holding
    <3>9. S[n + 1].id = C[j].id BY <3>7, <3>8, Zenon
    <3>10. SnapshotOK(q, S, p[1]) BY <1>2, <1>h, Zenon DEF RowOK
    <3>11. j <= n + 1 BY <3>4, <3>9, <3>10, Zenon DEF SnapshotOK
    <3> QED BY <3>5, <3>11, <1>c
  <2> QED BY <2>1, <2>2, <2>3, <2>4, Zenon DEF OnceOK
<1> QED BY <1>4, <1>5, <1>6, Zenon DEF PairOK

------------------------------------------------------------------------------
\* Sequences that change.

\* The steps of a sequence are edited: each is an older one, or the next of the design.
Edited(c, d, design) ==
    /\ c.exists /\ d.exists /\ d.made >= c.made
    /\ \A j \in DOMAIN d.steps :
         \/ \E i \in DOMAIN c.steps : i >= j /\ d.steps[j].id = c.steps[i].id
         \/ c.made < Len(design) /\ d.made = c.made + 1 /\ d.steps[j].id = design[c.made + 1].id

\* The enrollments of the sequence are still in order.
LEMMA EditedPair ==
    ASSUME NEW q \in AllSequences, NEW q2 \in AllSequences, NEW r \in AllRows, NEW k, NEW m \in AllSent,
           NEW t, NEW p \in Pairs, Ticks(k),
           PairOK(q, r, k, m, t, p), Edited(q[p[1]], q2[p[1]], Design[p[1]])
    PROVE  PairOK(q2, r, k, m, t, p)
<1>p. p[1] \in SequenceIds /\ p[2] \in Leads BY DEF Pairs
<1> PICK D : D = Design[p[1]] OBVIOUS
<1> PICK c : c = q[p[1]] OBVIOUS
<1> PICK d : d = q2[p[1]] OBVIOUS
<1>0. /\ c.made \in Nat /\ d.made \in Nat /\ Len(D) \in Nat
      /\ c.steps \in Seq(StepRecords) /\ d.steps \in Seq(StepRecords)
  BY <1>p, DesignOK DEF AllSequences, SequenceRecords
<1>d. (\A i \in DOMAIN c.steps : i \in Nat) /\ (\A i \in DOMAIN d.steps : i \in Nat) BY <1>0
<1>1. /\ c.exists /\ d.exists /\ d.made >= c.made
      /\ \A j \in DOMAIN d.steps :
           \/ \E i \in DOMAIN c.steps : i >= j /\ d.steps[j].id = c.steps[i].id
           \/ c.made < Len(D) /\ d.made = c.made + 1 /\ d.steps[j].id = D[c.made + 1].id
  BY Zenon DEF Edited
<1>2. StoppedOK(q, r, k, t, p) /\ RowOK(q, r, k, m, p) /\ OnceOK(q, r, k, m, t, p) BY Zenon DEF PairOK
<1>3. ~Deleted(q, p[1]) /\ ~Deleted(q2, p[1]) BY <1>1, Zenon DEF Deleted
<1>4. StoppedOK(q2, r, k, t, p) BY <1>2, <1>3, Zenon DEF StoppedOK
<1>5. \A S : (\A i \in DOMAIN S : i \in Nat) /\ SnapshotOK(q, S, p[1]) => SnapshotOK(q2, S, p[1])
  <2> SUFFICES ASSUME NEW S, \A i \in DOMAIN S : i \in Nat, SnapshotOK(q, S, p[1]) PROVE SnapshotOK(q2, S, p[1])
    OBVIOUS
  <2>1. /\ \A i \in DOMAIN S, j \in DOMAIN c.steps : S[i].id = c.steps[j].id => j <= i
        /\ \A i, j \in DOMAIN S : S[i].id = S[j].id => i = j
        /\ c.made < Len(D) => \A i \in DOMAIN S : \E j \in 1..c.made : S[i].id = D[j].id
    BY Zenon DEF SnapshotOK
  <2>2. ASSUME NEW i \in DOMAIN S, NEW j \in DOMAIN d.steps, S[i].id = d.steps[j].id PROVE j <= i
    <3>1. CASE \E n \in DOMAIN c.steps : n >= j /\ d.steps[j].id = c.steps[n].id BY <3>1, <2>1, <2>2, <1>d
    <3>2. CASE c.made < Len(D) /\ d.made = c.made + 1 /\ d.steps[j].id = D[c.made + 1].id
      <4>1. PICK n \in 1..c.made : S[i].id = D[n].id BY <2>1, <3>2
      <4>2. n \in 1..Len(D) /\ c.made + 1 \in 1..Len(D) /\ n # c.made + 1 BY <3>2, <1>0
      <4> QED BY <4>1, <4>2, <2>2, <3>2, <1>p, DesignDiffers
    <3> QED BY <3>1, <3>2, <1>1
  <2>3. d.made < Len(D) => \A i \in DOMAIN S : \E j \in 1..d.made : S[i].id = D[j].id
    <3> SUFFICES ASSUME d.made < Len(D), NEW i \in DOMAIN S PROVE \E j \in 1..d.made : S[i].id = D[j].id OBVIOUS
    <3>1. PICK j \in 1..c.made : S[i].id = D[j].id BY <2>1, <1>1, <1>0
    <3>2. j \in 1..d.made BY <1>1, <1>0
    <3> QED BY <3>1, <3>2
  <2> QED BY <2>1, <2>2, <2>3, Zenon DEF SnapshotOK
<1>6. ASSUME NEW w \in Workers, Holding(k, w, p) PROVE \A i \in DOMAIN StepsOf(k, w, p) : i \in Nat
  <2>1. StepsOf(k, w, p) \in Seq(StepRecords) BY <1>6, Zenon DEF Ticks, IsTick, Holding, Todo, Sending, StepsOf
  <2> QED BY <2>1
<1>7. RowOK(q2, r, k, m, p)
  <2>1. d.made < Len(D) => \A j \in 1..Len(D) : j > d.made => m[p[1]][p[2]][D[j].id] = 0
    <3> SUFFICES ASSUME d.made < Len(D), NEW j \in 1..Len(D), j > d.made PROVE m[p[1]][p[2]][D[j].id] = 0
      OBVIOUS
    <3>1. c.made < Len(D) /\ j > c.made BY <1>0, <1>1
    <3> QED BY <3>1, <1>2, Zenon DEF RowOK
  <2>2. \A w \in Workers : Holding(k, w, p) =>
            (StatusOf(r, p) = None => Deleted(q2, p[1])) /\ SnapshotOK(q2, StepsOf(k, w, p), p[1])
    <3> SUFFICES ASSUME NEW w \in Workers, Holding(k, w, p)
                 PROVE  (StatusOf(r, p) = None => Deleted(q2, p[1])) /\ SnapshotOK(q2, StepsOf(k, w, p), p[1])
      OBVIOUS
    <3>1. (StatusOf(r, p) = None => Deleted(q, p[1])) /\ SnapshotOK(q, StepsOf(k, w, p), p[1])
      BY <1>2, Zenon DEF RowOK
    <3> QED BY <3>1, <1>3, <1>5, <1>6, Zenon
  <2>3. StatusOf(r, p) = None => \A i \in StepIds : m[p[1]][p[2]][i] = 0 BY <1>2, <1>3, Zenon DEF RowOK
  <2> QED BY <1>1, <2>1, <2>2, <2>3, Zenon DEF RowOK
<1>8. OnceOK(q2, r, k, m, t, p)
  <2> SUFFICES ASSUME SpareO(t, p) PROVE OnceOK(q2, r, k, m, t, p) BY Zenon DEF OnceOK
  <2>1. /\ \A i \in StepIds : m[p[1]][p[2]][i] <= 1
        /\ \A w, v \in Workers : Holding(k, w, p) /\ Holding(k, v, p) => w = v
        /\ \A w \in Workers : TickOK(r, k, m, w, p)
        /\ StatusOf(r, p) # None => \A j \in DOMAIN c.steps : j > r[p[1]][p[2]].step =>
            m[p[1]][p[2]][c.steps[j].id] = 0 \/ BeingRecorded(k, p, c.steps[j].id)
    BY <1>2, Zenon DEF OnceOK
  <2>2. ASSUME StatusOf(r, p) # None, NEW j \in DOMAIN d.steps, j > r[p[1]][p[2]].step
        PROVE  m[p[1]][p[2]][d.steps[j].id] = 0 \/ BeingRecorded(k, p, d.steps[j].id)
    <3>1. CASE \E n \in DOMAIN c.steps : n >= j /\ d.steps[j].id = c.steps[n].id
      <4>1. PICK n \in DOMAIN c.steps : n >= j /\ d.steps[j].id = c.steps[n].id BY <3>1
      <4>2. r[p[1]][p[2]].step \in Nat BY <1>p DEF AllRows, RowRecords
      <4>3. n > r[p[1]][p[2]].step BY <4>1, <4>2, <2>2, <1>d
      <4>4. m[p[1]][p[2]][c.steps[n].id] = 0 \/ BeingRecorded(k, p, c.steps[n].id) BY <2>1, <2>2, <4>3
      <4> QED BY <4>1, <4>4, Zenon
    <3>2. CASE c.made < Len(D) /\ d.made = c.made + 1 /\ d.steps[j].id = D[c.made + 1].id
      <4>1. c.made + 1 \in 1..Len(D) /\ c.made + 1 > c.made BY <3>2, <1>0
      <4>2. m[p[1]][p[2]][D[c.made + 1].id] = 0 BY <3>2, <4>1, <1>2, Zenon DEF RowOK
      <4> QED BY <4>2, <3>2, Zenon
    <3> QED BY <3>1, <3>2, <1>1
  <2> QED BY <2>1, <2>2, Zenon DEF OnceOK
<1> QED BY <1>4, <1>7, <1>8, Zenon DEF PairOK

\* A sequence that never was has no enrollments, and none when it is made.
LEMMA CreatedPair ==
    ASSUME NEW q \in AllSequences, NEW q2 \in AllSequences, NEW r \in AllRows, NEW k, NEW m \in AllSent,
           NEW t, NEW p \in Pairs,
           PairOK(q, r, k, m, t, p), ~q[p[1]].exists, q[p[1]].made = 0, q2[p[1]].exists
    PROVE  PairOK(q2, r, k, m, t, p)
<1>p. p[1] \in SequenceIds /\ p[2] \in Leads BY DEF Pairs
<1>2. StoppedOK(q, r, k, t, p) /\ RowOK(q, r, k, m, p) /\ OnceOK(q, r, k, m, t, p) BY Zenon DEF PairOK
<1>3. ~Deleted(q, p[1]) /\ ~Deleted(q2, p[1]) BY DEF Deleted
<1>4. StatusOf(r, p) = None BY <1>2, Zenon DEF RowOK
<1>5. p \notin t.stopped BY <1>2, <1>3, <1>4, Zenon DEF StoppedOK
<1>6. \A w \in Workers : ~Holding(k, w, p) BY <1>2, <1>3, <1>4, Zenon DEF RowOK
<1>7. \A i \in StepIds : m[p[1]][p[2]][i] = 0 BY <1>2, <1>3, <1>4, Zenon DEF RowOK
<1>8. StoppedOK(q2, r, k, t, p) BY <1>2, <1>5, Zenon DEF StoppedOK
<1>9. \A j \in 1..Len(Design[p[1]]) : m[p[1]][p[2]][Design[p[1]][j].id] = 0
  <2> TAKE j \in 1..Len(Design[p[1]])
  <2>1. Design[p[1]][j] \in StepRecords BY <1>p, DesignOK
  <2>2. Design[p[1]][j].id \in StepIds BY <2>1 DEF StepRecords
  <2> QED BY <2>2, <1>7
<1>10. RowOK(q2, r, k, m, p) BY <1>4, <1>6, <1>7, <1>9, Zenon DEF RowOK
<1>11. OnceOK(q2, r, k, m, t, p) BY <1>2, <1>4, Zenon DEF OnceOK
<1> QED BY <1>8, <1>10, <1>11, Zenon DEF PairOK

\* A sequence is deleted, with its enrollments.
LEMMA DeletedPair ==
    ASSUME NEW q \in AllSequences, NEW q2 \in AllSequences, NEW r \in AllRows, NEW r2 \in AllRows, NEW k,
           NEW m \in AllSent, NEW t, NEW p \in Pairs, Ticks(k),
           PairOK(q, r, k, m, t, p), ~q2[p[1]].exists, q2[p[1]].made = Len(Design[p[1]]),
           q2[p[1]].steps = << >>, r2[p[1]][p[2]] = NoRow
    PROVE  PairOK(q2, r2, k, m, t, p)
<1>p. p[1] \in SequenceIds /\ p[2] \in Leads BY DEF Pairs
<1>0. Len(Design[p[1]]) > 0 /\ Len(Design[p[1]]) \in Nat BY <1>p, DesignOK
<1>1. Deleted(q2, p[1]) /\ ~(q2[p[1]].made < Len(Design[p[1]])) BY <1>0 DEF Deleted
<1>2. StoppedOK(q, r, k, t, p) /\ RowOK(q, r, k, m, p) /\ OnceOK(q, r, k, m, t, p) BY Zenon DEF PairOK
<1>3. StatusOf(r2, p) = None BY DEF StatusOf, NoRow
<1>n. None \notin {"active", "awaiting_manual_action"} BY DEF None
<1>4. StoppedOK(q2, r2, k, t, p) BY <1>1, <1>2, <1>3, <1>n, Zenon DEF StoppedOK
<1>e. q2[p[1]].steps = << >> /\ DOMAIN q2[p[1]].steps = {} OBVIOUS
<1>5. RowOK(q2, r2, k, m, p) BY <1>1, <1>e, Zenon, <1>2, <1>3 DEF SnapshotOK, RowOK
<1>6. OnceOK(q2, r2, k, m, t, p) BY <1>3, <1>n, Zenon, <1>2 DEF TickOK, OnceOK
<1> QED BY <1>4, <1>5, <1>6, Zenon DEF PairOK

------------------------------------------------------------------------------
\* Rows that change.

\* One row is replaced.
RowPut(r, s, l, x) == [r EXCEPT ![s][l] = x]

\* The row is there, and the others are as they were.
LEMMA WithRow ==
    ASSUME NEW r \in AllRows, NEW s \in SequenceIds, NEW l \in Leads, NEW x \in RowRecords,
           NEW r2, r2 = RowPut(r, s, l, x)
    PROVE  /\ r2 \in AllRows /\ r2[s][l] = x
           /\ \A p \in Pairs : p[1] = s /\ p[2] = l => r2[p[1]][p[2]] = x
           /\ \A p \in Pairs : ~(p[1] = s /\ p[2] = l) => r2[p[1]][p[2]] = r[p[1]][p[2]]
           /\ \A a \in SequenceIds, b \in Leads : a # s \/ b # l => r2[a][b] = r[a][b]
<1> PICK g : g = [r[s] EXCEPT ![l] = x] OBVIOUS
<1>1. g \in [Leads -> RowRecords] /\ g[l] = x /\ \A b \in Leads : b # l => g[b] = r[s][b] BY DEF AllRows
<1>2. r2 = [r EXCEPT ![s] = g] BY DEF AllRows, RowPut
<1>3. r2 \in AllRows /\ r2[s] = g /\ \A a \in SequenceIds : a # s => r2[a] = r[a] BY <1>1, <1>2 DEF AllRows
<1>4. \A p \in Pairs : p[1] \in SequenceIds /\ p[2] \in Leads BY DEF Pairs
<1>5. r2[s][l] = x BY <1>1, <1>3
<1>6. \A a \in SequenceIds, b \in Leads : a # s \/ b # l => r2[a][b] = r[a][b]
  <2> TAKE a \in SequenceIds, b \in Leads
  <2>1. CASE a = s BY <2>1, <1>1, <1>3
  <2>2. CASE a # s BY <2>2, <1>3
  <2> QED BY <2>1, <2>2
<1> QED BY <1>3, <1>4, <1>5, <1>6

\* A new row, and the fields of one that is updated.
LEMMA NewRows ==
    ASSUME NEW due \in {"now", "later", "never"}
    PROVE  /\ NewRow(due) \in RowRecords /\ NewRow(due).status = "active" /\ NewRow(due).step = 0
           /\ NoRow \in RowRecords /\ NoRow.status = None
  BY DEF NoRow, RowRecords, Statuses, NewRow

\* A row with another status.
LEMMA StatusRow ==
    ASSUME NEW x \in RowRecords, NEW v \in Statuses, NEW y, y = [x EXCEPT !.status = v]
    PROVE  /\ y \in RowRecords /\ y.status = v /\ y.step = x.step /\ y.due = x.due
           /\ y.replied = x.replied /\ y.box = x.box
BY DEF RowRecords

\* A row that is due at another time.
LEMMA DueRow ==
    ASSUME NEW x \in RowRecords, NEW v \in {"now", "later", "never"}, NEW y, y = [x EXCEPT !.due = v]
    PROVE  y \in RowRecords /\ y.status = x.status /\ y.step = x.step
BY DEF RowRecords

\* A row at another step.
LEMMA StepRow ==
    ASSUME NEW x \in RowRecords, NEW v \in Nat, NEW y, y = [x EXCEPT !.step = v]
    PROVE  y \in RowRecords /\ y.status = x.status /\ y.step = v
BY DEF RowRecords

\* A row whose lead has replied.
LEMMA RepliedRow ==
    ASSUME NEW x \in RowRecords, NEW v \in BOOLEAN, NEW y, y = [x EXCEPT !.replied = v]
    PROVE  y \in RowRecords /\ y.status = x.status /\ y.step = x.step
BY DEF RowRecords

\* A row with another mailbox on record.
LEMMA BoxRow ==
    ASSUME NEW x \in RowRecords, NEW v \in Boxes \cup {None}, NEW y, y = [x EXCEPT !.box = v]
    PROVE  y \in RowRecords /\ y.status = x.status /\ y.step = x.step
BY DEF RowRecords

\* Enrollments that are made where there are none, by a sequence that is there.
LEMMA EnteredRows ==
    ASSUME sequence \in AllSequences, NEW r \in AllRows, NEW cs, NEW l \in Leads, NEW r2, r2 = Entered(r, cs, l)
    PROVE  /\ r2 \in AllRows
           /\ \A s \in SequenceIds, b \in Leads :
                 \/ r2[s][b] = r[s][b]
                 \/ s \in cs /\ r[s][b].status = None /\ r2[s][b].step = 0 /\ r2[s][b].status = "active"
<1>1. ASSUME NEW s \in SequenceIds
      PROVE  /\ r2[s] \in [Leads -> RowRecords]
             /\ \A b \in Leads : \/ r2[s][b] = r[s][b]
                                 \/ s \in cs /\ r[s][b].status = None /\ r2[s][b].step = 0
                                    /\ r2[s][b].status = "active"
  BY NewRows, Zenon DEF Entered, AllRows
<1>2. r2 = [s \in SequenceIds |-> r2[s]] BY DEF Entered
<1>3. r2 \in AllRows BY <1>1, <1>2 DEF AllRows
<1> QED BY <1>1, <1>3

\* Enrollments that are paused.
LEMMA PausedRows ==
    ASSUME row \in AllRows, NEW l \in Leads, NEW but, NEW r2, r2 = Paused(l, but)
    PROVE  /\ r2 \in AllRows
           /\ \A s \in SequenceIds, b \in Leads :
                 \/ r2[s][b] = row[s][b]
                 \/ row[s][b].status = "active" /\ r2[s][b].step = row[s][b].step /\ r2[s][b].status = "paused"
<1>1. ASSUME NEW s \in SequenceIds
      PROVE  /\ r2[s] \in [Leads -> RowRecords]
             /\ \A b \in Leads : \/ r2[s][b] = row[s][b]
                                 \/ row[s][b].status = "active" /\ r2[s][b].step = row[s][b].step
                                    /\ r2[s][b].status = "paused"
  <2>0. row[s] \in [Leads -> RowRecords] BY DEF AllRows
  <2>1. CASE s # but /\ Is(s, l, {"active"})
    <3> PICK x : x = [row[s][l] EXCEPT !.status = "paused"] OBVIOUS
    <3>1. row[s][l] \in RowRecords /\ row[s][l].status = "active" BY <2>0, <2>1 DEF Is
    <3>2. "paused" \in Statuses BY DEF Statuses
    <3>3. x \in RowRecords /\ x.status = "paused" /\ x.step = row[s][l].step BY <3>1, <3>2, StatusRow
    <3>4. r2[s] = [row[s] EXCEPT ![l].status = "paused"] BY <2>1, Zenon DEF Paused
    <3>5. r2[s] = [row[s] EXCEPT ![l] = x] BY <3>4
    <3> QED BY <2>0, <3>1, <3>3, <3>5
  <2>2. CASE ~(s # but /\ Is(s, l, {"active"})) BY <2>2, Zenon, <2>0 DEF Paused
  <2> QED BY <2>1, <2>2
<1>2. r2 = [s \in SequenceIds |-> r2[s]] BY DEF Paused
<1>3. r2 \in AllRows BY <1>1, <1>2 DEF AllRows
<1> QED BY <1>1, <1>3

\* Rows that are rewritten, and an enrollment that may be stopped on the way.
LEMMA RowsMove ==
    ASSUME NEW q \in AllSequences, NEW r \in AllRows, NEW r2 \in AllRows, NEW k, NEW m \in AllSent, NEW t, NEW u,
           PairsOK(q, r, k, m, t),
           u.listed = t.listed, u.unblocked = t.unblocked, u.unwelcome = t.unwelcome,
           \A p \in Pairs : t.marred[p] \subseteq u.marred[p],
           \A p \in Pairs : Rewritten(q, r, r2, k, t, p),
           \A p \in Pairs : p \in u.stopped =>
              /\ p \in t.stopped \/ (StatusOf(r, p) # None /\ \A w \in Workers : Todo(k, w, p) => ~SpareS(u, p))
              /\ SpareS(u, p) => \/ StatusOf(r2, p) \notin {"active", "awaiting_manual_action"}
                                 \/ p \in t.stopped /\ StatusOf(r, p) \in {None, "active", "awaiting_manual_action"}
    PROVE  PairsOK(q, r2, k, m, u)
<1> SUFFICES ASSUME NEW p \in Pairs PROVE PairOK(q, r2, k, m, u, p) BY Zenon DEF PairsOK
<1>1. StoppedOK(q, r, k, t, p) /\ RowOK(q, r, k, m, p) /\ OnceOK(q, r, k, m, t, p) BY Zenon DEF PairsOK, PairOK
<1>2. RowOK(q, r2, k, m, p) BY <1>1, RewrittenRow
<1>3. OnceOK(q, r2, k, m, t, p) BY <1>1, RewrittenOnce
<1>4. OnceOK(q, r2, k, m, u, p) BY WorseSpares, <1>3, Zenon DEF OnceOK
<1>5. StatusOf(r, p) # None => StatusOf(r2, p) # None BY Zenon DEF Rewritten, StatusOf
<1>6. StatusOf(r, p) = None /\ p \in t.stopped => StatusOf(r2, p) = None /\ Deleted(q, p[1])
  <2>1. SUFFICES ASSUME StatusOf(r, p) = None, p \in t.stopped PROVE StatusOf(r2, p) = None /\ Deleted(q, p[1])
    OBVIOUS
  <2>2. Deleted(q, p[1]) /\ ~q[p[1]].exists BY <1>1, <2>1, Zenon DEF StoppedOK, Deleted
  <2> QED BY <2>1, <2>2, Zenon DEF Rewritten, StatusOf
<1>n. None \notin {"active", "awaiting_manual_action"} BY DEF None
<1>s. SpareS(u, p) => SpareS(t, p) BY WorseSpares
<1>7. p \in u.stopped /\ SpareS(u, p) => StatusOf(r2, p) \notin {"active", "awaiting_manual_action"}
  <2>1. SUFFICES ASSUME p \in u.stopped, SpareS(u, p), p \in t.stopped,
                        StatusOf(r, p) \in {None, "active", "awaiting_manual_action"}
                 PROVE  StatusOf(r2, p) \notin {"active", "awaiting_manual_action"}
    OBVIOUS
  <2>2. StatusOf(r, p) \notin {"active", "awaiting_manual_action"} BY <1>1, <1>s, <2>1, Zenon DEF StoppedOK
  <2> QED BY <2>1, <2>2, <1>6, <1>n
<1>8. p \in u.stopped /\ StatusOf(r2, p) = None => Deleted(q, p[1]) BY <1>5, <1>6
<1>9. p \in u.stopped => p \in t.stopped \/ \A w \in Workers : Todo(k, w, p) => ~SpareS(u, p) OBVIOUS
<1>10. StoppedOK(q, r2, k, u, p) BY <1>1, <1>7, <1>8, <1>9, RewrittenStopped
<1> QED BY <1>2, <1>4, <1>10, Zenon DEF PairOK

------------------------------------------------------------------------------
\* The steps that change no enrollment.

\* The polls, the requests and the answers.
LEMMA QuietSteps ==
    ASSUME SequenceInv, UNCHANGED <<sequence, row, tick, sent>>, Worse(tally, tally'),
           poll' \in [Pollers -> Polls], request' \in [Requests -> Enrolling], inbox' \subseteq Answers
    PROVE  SequenceInv'
  BY WorsePair, Zenon DEF SequenceInv, SequenceTypes, Worse, PairsOK

\* What is known of the pairs of a lead.
LEMMA PairsAre ==
    /\ \A s \in SequenceIds, l \in Leads : <<s, l>> \in Pairs /\ <<s, l>>[1] = s /\ <<s, l>>[2] = l
    /\ \A p \in Pairs : p[1] \in SequenceIds /\ p[2] \in Leads /\ p = <<p[1], p[2]>>
BY DEF Pairs

\* The marks that there are.
LEMMA MarksAre == /\ {"again", "overlap", "overtaken", "rejoined"} \subseteq Marks
                  /\ {"stuck", "missed", "unshared", "boxless"} \subseteq Marks
BY DEF Marks

\* An event or a mishap that leaves a mark, or none.
LEMMA MarkedEvent ==
    ASSUME NEW t \in Tallies, NEW P, NEW mark \in Marks, Event(Mark(t, P, mark)) \/ Mishap(Mark(t, P, mark))
    PROVE  /\ Worse(t, tally')
           /\ \A p \in Pairs : p \in P => mark \in tally'.marred[p]
  BY MarkWorse, EventWorse, WorseTwice DEF Worse

\* A lead answers.
LEMMA ReplyStep == ASSUME SequenceInv, NEW l \in Leads, Reply(l) PROVE SequenceInv'
<1>0. SequenceTypes BY DEF SequenceInv
<1>1. PICK f \in tally.from, k \in Kinds :
          /\ f[2] = l /\ inbox' = inbox \cup {[lead |-> l, box |-> f[3], seq |-> f[1], kind |-> k]}
          /\ Event(IF HardStop(k) THEN [tally EXCEPT !.refused = @ \cup {<<f[1], l>>}] ELSE tally)
  BY Zenon DEF Reply
<1>2. f \in SequenceIds \X Leads \X Boxes BY <1>0 DEF SequenceTypes, Tallies
<1>3. [lead |-> l, box |-> f[3], seq |-> f[1], kind |-> k] \in Answers BY <1>2 DEF Answers
<1>4. inbox' \subseteq Answers BY <1>0, <1>1, <1>3 DEF SequenceTypes
<1>5. tally \in Tallies BY <1>0 DEF SequenceTypes
<1>6. Worse(tally, tally')
  <2>1. CASE HardStop(k)
    <3> PICK g : g = tally.refused \cup {<<f[1], l>>} OBVIOUS
    <3>1. <<f[1], l>> \in Pairs BY <1>2 DEF Pairs
    <3>2. g \subseteq Pairs BY <1>5, <3>1 DEF Tallies
    <3> PICK u : u = [tally EXCEPT !.refused = g] OBVIOUS
    <3>3. u \in Tallies BY <1>5, <3>2 DEF Tallies
    <3>4. /\ u.stopped = tally.stopped /\ u.listed = tally.listed /\ u.unblocked = tally.unblocked
          /\ u.unwelcome = tally.unwelcome /\ u.intruded = tally.intruded /\ u.marred = tally.marred
      BY <1>5 DEF Tallies
    <3>5. Worse(tally, u) BY <3>3, <3>4 DEF Worse
    <3>6. Event(u) BY <1>1, <2>1, Zenon
    <3> QED BY <3>3, <3>5, <3>6, EventWorse, WorseTwice
  <2>2. CASE ~HardStop(k) BY <1>1, <1>5, <2>2, EventWorse
  <2> QED BY <2>1, <2>2
<1> QED BY <1>0, <1>4, <1>6, QuietSteps DEF Reply, SequenceTypes

\* An answer is gone.
LEMMA ExpireStep == ASSUME SequenceInv, NEW m \in inbox, Expire(m) PROVE SequenceInv'
  BY Zenon, MarksAre, MarkWorse, WorseSelf, QuietSteps DEF SequenceInv, SequenceTypes, Expire

\* A poll finds an enrollment to which an answer belongs.
LEMMA PollReadStep == ASSUME SequenceInv, NEW p \in Pollers, NEW m \in inbox, PollRead(p, m) PROVE SequenceInv'
<1>0. SequenceTypes /\ tally \in Tallies BY DEF SequenceInv, SequenceTypes
<1>m. m \in Answers BY <1>0 DEF SequenceTypes
<1>u. UNCHANGED <<sequence, row, tick, sent, request, inbox>> BY DEF PollRead
<1>1. CASE Found(m) = {} BY <1>1, Zenon, <1>0, <1>u, WorseSelf, QuietSteps DEF PollRead, SequenceTypes
<1>2. CASE Found(m) # {}
  <2>1. PICK s \in Found(m), k \in {m.kind, "unknown"} :
           /\ poll' = [poll EXCEPT ![p] = [pc |-> "found", lead |-> m.lead, seq |-> s,
                                           stop |-> sequence[s].stop, kind |-> k]]
           /\ IF k = m.kind THEN UNCHANGED tally ELSE Mishap(Mark(tally, {<<s, m.lead>>}, "missed"))
    BY <1>2, Zenon DEF PollRead
  <2> PICK x : x = [pc |-> "found", lead |-> m.lead, seq |-> s, stop |-> sequence[s].stop, kind |-> k] OBVIOUS
  <2>2. s \in SequenceIds BY DEF Found
  <2>3. sequence[s].stop \in BOOLEAN BY <1>0, <2>2 DEF SequenceTypes, AllSequences, SequenceRecords
  <2>4. m.lead \in Leads /\ k \in Kinds \cup {"unknown"} BY <1>m DEF Answers
  <2>5. x \in Polls BY <2>2, <2>3, <2>4 DEF Polls
  <2>6. poll' \in [Pollers -> Polls] BY <1>0, <2>1, <2>5 DEF SequenceTypes
  <2>7. Worse(tally, tally') BY <2>1, <1>0, MarksAre, MarkedEvent, WorseSelf
  <2> QED BY <1>0, <1>u, <2>6, <2>7, QuietSteps DEF SequenceTypes
<1> QED BY <1>1, <1>2

\* A poll is done.
LEMMA IdlePolls ==
    ASSUME SequenceTypes, NEW p, poll' = [poll EXCEPT ![p] = IdlePoll] PROVE poll' \in [Pollers -> Polls]
  BY DEF Polls, SequenceTypes
\* What a poll that has found an enrollment has in hand.
LEMMA PollHas ==
    ASSUME SequenceTypes, NEW p \in Pollers, poll[p].pc \in {"found", "share"}
    PROVE  /\ poll[p] \in [pc : {"found", "share"}, lead : Leads, seq : SequenceIds,
                           stop : BOOLEAN, kind : Kinds \cup {"unknown"}]
           /\ poll[p].lead \in Leads /\ poll[p].seq \in SequenceIds
  BY DEF SequenceTypes, IdlePoll, Polls

\* An opt-out is shared, or is not.
LEMMA ShareStep == ASSUME SequenceInv, NEW p \in Pollers, Share(p) PROVE SequenceInv'
  BY Zenon, MarksAre, MarkedEvent, WorseSelf, IdlePolls, QuietSteps DEF SequenceInv, SequenceTypes, Share

\* A poll dies.
LEMMA PollDiesStep == ASSUME SequenceInv, NEW p \in Pollers, PollDies(p) PROVE SequenceInv'
  BY Zenon, MarksAre, MarkedEvent, EventWorse, IdlePolls, QuietSteps DEF SequenceInv, SequenceTypes, PollDies,
     people

\* A mailbox changes, an address is suppressed, an enrollment is looked up.
LEMMA BoxChangesStep == ASSUME SequenceInv, NEW b, NEW state, BoxChanges(b, state) PROVE SequenceInv'
  BY Zenon, MarksAre, MarkedEvent, EventWorse, QuietSteps DEF SequenceInv, SequenceTypes, BoxChanges, people,
     doers

\* An address is suppressed by another channel.
LEMMA SuppressStep == ASSUME SequenceInv, NEW l, NEW reason, Suppress(l, reason) PROVE SequenceInv'
  BY EventWorse, QuietSteps DEF SequenceInv, SequenceTypes, Suppress, doers

\* A request looks an address up.
LEMMA EnrollReadsStep ==
    ASSUME SequenceInv, NEW r \in Requests, NEW s \in SequenceIds, NEW l \in Leads, NEW force \in BOOLEAN,
           EnrollReads(r, s, l, force)
    PROVE  SequenceInv'
  BY EventWorse, QuietSteps DEF SequenceInv, SequenceTypes, EnrollReads, people, Enrolling

------------------------------------------------------------------------------
\* The steps that change rows.

\* A row that is left as it is, made, or ended.
Tidy(q, a, b, s) ==
    \/ b.status = a.status /\ b.step = a.step
    \/ a.status = None /\ q[s].exists /\ b.step = 0 /\ b.status = "active"
    \/ a.status # None /\ b.step = a.step /\ b.status \notin {None, "active", "awaiting_manual_action"}

\* Such rows are rewritten as they may be.
LEMMA TidyIsRewritten ==
    ASSUME NEW q, NEW r, NEW r2, NEW k, NEW t, NEW p, Tidy(q, r[p[1]][p[2]], r2[p[1]][p[2]], p[1])
    PROVE  /\ Rewritten(q, r, r2, k, t, p)
           /\ StatusOf(r2, p) \in {"active", "awaiting_manual_action"} =>
                 StatusOf(r, p) \in {None, "active", "awaiting_manual_action"}
  BY Zenon DEF None, Tidy, Rewritten, StatusOf

\* The step of the whole, when rows change.
LEMMA RowSteps ==
    ASSUME SequenceInv, UNCHANGED <<sequence, tick, sent, inbox>>, row' \in AllRows,
           poll' \in [Pollers -> Polls], request' \in [Requests -> Enrolling], tally' \in Tallies,
           tally'.listed = tally.listed, tally'.unblocked = tally.unblocked,
           tally'.unwelcome = tally.unwelcome, tally'.intruded = tally.intruded,
           \A p \in Pairs : tally.marred[p] \subseteq tally'.marred[p],
           \A p \in Pairs : Rewritten(sequence, row, row', tick, tally, p),
           \A p \in Pairs : p \in tally'.stopped =>
              /\ \/ p \in tally.stopped
                 \/ StatusOf(row, p) # None /\ \A w \in Workers : Todo(tick, w, p) => ~SpareS(tally', p)
              /\ SpareS(tally', p) =>
                   \/ StatusOf(row', p) \notin {"active", "awaiting_manual_action"}
                   \/ p \in tally.stopped /\ StatusOf(row, p) \in {None, "active", "awaiting_manual_action"}
    PROVE  SequenceInv'
  BY RowsMove DEF SequenceInv, SequenceTypes

\* And when they are left, made or ended, and nobody is stopped.
LEMMA TidySteps ==
    ASSUME SequenceInv, UNCHANGED <<sequence, tick, sent, inbox>>, row' \in AllRows,
           poll' \in [Pollers -> Polls], request' \in [Requests -> Enrolling], Worse(tally, tally'),
           \A s \in SequenceIds, l \in Leads : Tidy(sequence, row[s][l], row'[s][l], s)
    PROVE  SequenceInv'
  BY PairsAre, TidyIsRewritten, RowSteps DEF Worse

\* Time passes, a lead is closed in Salesforce.
LEMMA ElapseStep == ASSUME SequenceInv, NEW s \in SequenceIds, NEW l \in Leads, Elapse(s, l) PROVE SequenceInv'
<1>0. SequenceTypes /\ tally \in Tallies /\ row \in AllRows BY DEF SequenceInv, SequenceTypes
<1>1. UNCHANGED <<sequence, tick, sent, inbox, poll, request, tally>> BY DEF Elapse, people, doers
<1>y. PICK x : x = [row[s][l] EXCEPT !.due = "now"] OBVIOUS
<1>2. row[s][l] \in RowRecords BY <1>0 DEF AllRows
<1>3. x \in RowRecords /\ x.status = row[s][l].status /\ x.step = row[s][l].step BY <1>2, <1>y, DueRow
<1>x. x \in RowRecords BY <1>3
<1>4. row' = RowPut(row, s, l, x) BY <1>y, Zenon DEF Elapse, With, RowPut
<1>r. row \in AllRows BY <1>0
<1>5. /\ row' \in AllRows /\ row'[s][l] = x
      /\ \A a \in SequenceIds, b \in Leads : a # s \/ b # l => row'[a][b] = row[a][b]
  BY <1>r, <1>x, <1>4, WithRow
<1>6. \A a \in SequenceIds, b \in Leads : Tidy(sequence, row[a][b], row'[a][b], a) BY <1>3, <1>5, Zenon DEF Tidy
<1>7. Worse(tally, tally') BY <1>0, <1>1, WorseSelf
<1> QED BY <1>0, <1>1, <1>5, <1>6, <1>7, TidySteps DEF SequenceTypes

\* A lead is closed in Salesforce: the enrollments that were active are paused.
LEMMA SalesforceStep == ASSUME SequenceInv, NEW l \in Leads, SalesforceStops(l) PROVE SequenceInv'
<1>0. SequenceTypes /\ tally \in Tallies /\ row \in AllRows BY DEF SequenceInv, SequenceTypes
<1>1. UNCHANGED <<sequence, tick, sent, inbox, poll, request>> /\ Event(tally) /\ row' = Paused(l, None)
  BY DEF SalesforceStops, doers
<1>2. /\ row' \in AllRows
      /\ \A a \in SequenceIds, b \in Leads :
            \/ row'[a][b] = row[a][b]
            \/ row[a][b].status = "active" /\ row'[a][b].step = row[a][b].step /\ row'[a][b].status = "paused"
  BY <1>0, <1>1, PausedRows
<1>n. "active" # None /\ "paused" \notin {None, "active", "awaiting_manual_action"} BY DEF None
<1>3. \A a \in SequenceIds, b \in Leads : Tidy(sequence, row[a][b], row'[a][b], a) BY <1>2, <1>n, Zenon DEF Tidy
<1>4. Worse(tally, tally') BY <1>0, <1>1, EventWorse
<1> QED BY <1>0, <1>1, <1>2, <1>3, <1>4, TidySteps DEF SequenceTypes

\* Enrollments that get stuck are marked.
LEMMA StrandedWorse == ASSUME NEW t \in Tallies, NEW rows PROVE Worse(t, Stranded(t, rows))
BY MarkWorse, MarksAre DEF Stranded

\* A lead is enrolled.
LEMMA EnrollWritesStep == ASSUME SequenceInv, NEW r \in Requests, EnrollWrites(r) PROVE SequenceInv'
<1>0. SequenceTypes /\ tally \in Tallies /\ row \in AllRows /\ sequence \in AllSequences
  BY DEF SequenceInv, SequenceTypes
<1> PICK s : s = request[r].seq OBVIOUS
<1> PICK l : l = request[r].lead OBVIOUS
<1>1. UNCHANGED <<sequence, tick, sent, inbox, poll>> /\ request' = [request EXCEPT ![r] = IdleRequest]
  BY DEF EnrollWrites, people
<1>2. s \in SequenceIds /\ l \in Leads BY <1>0 DEF EnrollWrites, SequenceTypes, IdleRequest, Enrolling
<1>3. request' \in [Requests -> Enrolling] BY <1>0, <1>1 DEF Enrolling, SequenceTypes
<1>4. CASE ~(sequence[s].exists /\ Is(s, l, {None}))
  BY <1>4, Zenon, <1>0, WorseSelf, <1>1, <1>3, TidySteps DEF EnrollWrites, Tidy, SequenceTypes
<1>5. CASE sequence[s].exists /\ Is(s, l, {None})
  <2>b. PICK base : base = IF request[r].force THEN Paused(l, s) ELSE row BY Zenon
  <2>1. /\ base \in AllRows
        /\ \A a \in SequenceIds, b \in Leads :
              \/ base[a][b] = row[a][b]
              \/ row[a][b].status = "active" /\ base[a][b].step = row[a][b].step /\ base[a][b].status = "paused"
    <3>0. base = row \/ base = Paused(l, s) BY <2>b
    <3>1. CASE base = row BY <1>0, <3>1
    <3>2. CASE base = Paused(l, s)
      <4>1. row \in AllRows BY <1>0
      <4>p. PICK P : P = Paused(l, s) OBVIOUS
      <4>2. /\ P \in AllRows
            /\ \A a \in SequenceIds, b \in Leads :
                 \/ P[a][b] = row[a][b]
                 \/ row[a][b].status = "active" /\ P[a][b].step = row[a][b].step /\ P[a][b].status = "paused"
        BY <1>2, <4>1, <4>p, PausedRows
      <4>3. base = P BY <3>2, <4>p
      <4> QED BY <4>2, <4>3, Zenon
    <3> QED BY <3>0, <3>1, <3>2, Zenon
  <2>2. PICK due \in {"now", "later", "never"} : due = FirstDue(s) BY DEF FirstDue
  <2> PICK x : x = NewRow(due) OBVIOUS
  <2>3. x \in RowRecords /\ x.status = "active" /\ x.step = 0 BY NewRows
  <2>4. row' = RowPut(base, s, l, x) /\ tally' = Stranded(tally, row')
    BY <1>5, <2>2, <2>b, Zenon DEF EnrollWrites, RowPut
  <2>5. /\ row' \in AllRows /\ row'[s][l] = x
        /\ \A a \in SequenceIds, b \in Leads : a # s \/ b # l => row'[a][b] = base[a][b]
    BY <1>2, <2>1, <2>3, <2>4, WithRow
  <2>n. "active" # None /\ "paused" \notin {None, "active", "awaiting_manual_action"} BY DEF None
  <2>6. row[s][l].status = None BY <1>5 DEF Is
  <2>7. ASSUME NEW a \in SequenceIds, NEW b \in Leads PROVE Tidy(sequence, row[a][b], row'[a][b], a)
    <3>1. CASE a = s /\ b = l BY <3>1, <1>5, <2>3, <2>5, <2>6, Zenon DEF Tidy
    <3>2. CASE ~(a = s /\ b = l)
      <4>1. row'[a][b] = base[a][b] BY <3>2, <2>5, Zenon
      <4>2. \/ row'[a][b] = row[a][b]
            \/ row[a][b].status = "active" /\ row'[a][b].step = row[a][b].step /\ row'[a][b].status = "paused"
        BY <2>1, <4>1
      <4> QED BY <4>2, <2>n, Zenon DEF Tidy
    <3> QED BY <3>1, <3>2
  <2>8. Worse(tally, tally') BY <1>0, <2>4, StrandedWorse
  <2> QED BY <1>0, <1>1, <1>3, <2>5, <2>7, <2>8, TidySteps DEF SequenceTypes
<1> QED BY <1>4, <1>5

\* An enrollment is made on the side.
LEMMA UpsertStep == ASSUME SequenceInv, NEW s \in SequenceIds, NEW l \in Leads, Upsert(s, l) PROVE SequenceInv'
<1>0. SequenceTypes /\ tally \in Tallies /\ row \in AllRows BY DEF SequenceInv, SequenceTypes
<1>1. UNCHANGED <<sequence, tick, sent, inbox, poll, request>> /\ Event(tally) BY DEF Upsert, people, doers
<1> PICK x : x = NewRow("now") OBVIOUS
<1>3. x \in RowRecords /\ x.status = "active" /\ x.step = 0 BY NewRows
<1>4. row' = RowPut(row, s, l, x) BY Zenon DEF Upsert, With, RowPut
<1>5. /\ row' \in AllRows /\ row'[s][l] = x
      /\ \A a \in SequenceIds, b \in Leads : a # s \/ b # l => row'[a][b] = row[a][b]
  BY <1>0, <1>3, <1>4, WithRow
<1>6. sequence[s].exists /\ row[s][l].status = None BY DEF Upsert, Is
<1>7. \A a \in SequenceIds, b \in Leads : Tidy(sequence, row[a][b], row'[a][b], a)
  BY <1>3, <1>5, <1>6, Zenon DEF Tidy
<1>8. Worse(tally, tally') BY <1>0, <1>1, EventWorse
<1> QED BY <1>0, <1>1, <1>5, <1>7, <1>8, TidySteps DEF SequenceTypes

\* A lead is put in a subsequence by hand.
LEMMA TriggerSubStep ==
    ASSUME SequenceInv, NEW s \in SequenceIds, NEW c \in SequenceIds, NEW l \in Leads, TriggerSub(s, c, l)
    PROVE  SequenceInv'
<1>0. SequenceTypes /\ tally \in Tallies /\ row \in AllRows /\ sequence \in AllSequences
  BY DEF SequenceInv, SequenceTypes
<1> PICK rows : rows = Entered(row, {c}, l) OBVIOUS
<1>1. UNCHANGED <<sequence, tick, sent, inbox, poll, request>> /\ row' = rows /\ sequence[c].exists
  BY DEF TriggerSub, people, doers
<1>2. Event(Stranded(tally, rows)) BY Zenon DEF TriggerSub
<1>3. /\ rows \in AllRows
      /\ \A a \in SequenceIds, b \in Leads :
            \/ rows[a][b] = row[a][b]
            \/ a \in {c} /\ row[a][b].status = None /\ rows[a][b].step = 0 /\ rows[a][b].status = "active"
  BY <1>0, EnteredRows
<1>4. ASSUME NEW a \in SequenceIds, NEW b \in Leads PROVE Tidy(sequence, row[a][b], row'[a][b], a)
  BY <1>1, <1>3, Zenon DEF Tidy
<1>5. Worse(tally, Stranded(tally, rows)) BY <1>0, StrandedWorse
<1>6. Worse(tally, tally') BY <1>5, <1>2, EventWorse, WorseTwice DEF Worse
<1> QED BY <1>0, <1>1, <1>3, <1>4, <1>6, TidySteps DEF SequenceTypes

\* Rows that are left, made or ended, whatever the ticks do.
LEMMA TidyMove ==
    ASSUME NEW q \in AllSequences, NEW r \in AllRows, NEW r2 \in AllRows, NEW k, NEW m \in AllSent, NEW t, NEW u,
           PairsOK(q, r, k, m, t), Worse(t, u),
           \A s \in SequenceIds, l \in Leads : Tidy(q, r[s][l], r2[s][l], s)
    PROVE  PairsOK(q, r2, k, m, u)
  BY PairsAre, TidyIsRewritten, RowsMove DEF Worse

\* Out of office: the next step waits.
LEMMA PostponeStep == ASSUME SequenceInv, NEW p \in Pollers, Postpone(p) PROVE SequenceInv'
<1>0. SequenceTypes /\ tally \in Tallies /\ row \in AllRows BY DEF SequenceInv, SequenceTypes
<1>s. PICK s : s = poll[p].seq OBVIOUS
<1>l. PICK l : l = poll[p].lead OBVIOUS
<1>1. UNCHANGED <<sequence, tick, sent, inbox, request>> /\ poll' = [poll EXCEPT ![p] = IdlePoll]
  BY DEF Postpone
<1>2. s \in SequenceIds /\ l \in Leads BY <1>0, <1>s, <1>l, PollHas DEF Postpone
<1>3. poll' \in [Pollers -> Polls] BY <1>0, <1>1, IdlePolls
<1>4. Worse(tally, tally') BY <1>s, <1>l, Zenon, <1>0, MarksAre, MarkWorse, WorseSelf DEF Postpone
<1>5. row' \in AllRows /\ \A a \in SequenceIds, b \in Leads : Tidy(sequence, row[a][b], row'[a][b], a)
  <2>1. CASE Is(s, l, {None}) BY <2>1, <1>s, <1>l, Zenon, <1>0 DEF Postpone, Tidy
  <2>2. CASE ~Is(s, l, {None})
    <3>y. PICK x : x = [row[s][l] EXCEPT !.due = "later"] OBVIOUS
    <3>1. row[s][l] \in RowRecords BY <1>0, <1>2 DEF AllRows
    <3>2. x \in RowRecords /\ x.status = row[s][l].status /\ x.step = row[s][l].step BY <3>1, <3>y, DueRow
    <3>3. row' = RowPut(row, s, l, x) BY <2>2, <3>y, <1>s, <1>l, Zenon DEF Postpone, With, RowPut
    <3>4. /\ row' \in AllRows /\ row'[s][l] = x
          /\ \A a \in SequenceIds, b \in Leads : a # s \/ b # l => row'[a][b] = row[a][b]
      BY <1>0, <1>2, <3>2, <3>3, WithRow
    <3> QED BY <3>2, <3>4, Zenon DEF Tidy
  <2> QED BY <2>1, <2>2
<1> QED BY <1>0, <1>1, <1>3, <1>4, <1>5, TidySteps DEF SequenceTypes

\* The owner stops an enrollment.
LEMMA UnenrollStep == ASSUME SequenceInv, NEW s \in SequenceIds, NEW l \in Leads, Unenroll(s, l) PROVE SequenceInv'
<1>0. SequenceTypes /\ tally \in Tallies /\ row \in AllRows BY DEF SequenceInv, SequenceTypes
<1>1. UNCHANGED <<sequence, tick, sent, inbox, poll, request>> BY DEF Unenroll, people, doers
<1>p. PICK o : o = <<s, l>> OBVIOUS
<1>o. o \in Pairs /\ o[1] = s /\ o[2] = l BY <1>p, PairsAre
<1>u. PICK u : u = Stop(tally, o, None) OBVIOUS
<1>2. /\ u \in Tallies /\ u.stopped = tally.stopped \cup {o}
      /\ u.listed = tally.listed /\ u.unblocked = tally.unblocked
      /\ u.unwelcome = tally.unwelcome /\ u.intruded = tally.intruded
      /\ \A p \in Pairs : tally.marred[p] \subseteq u.marred[p]
      /\ InHand(o, None) => ~SpareS(u, o)
  BY <1>0, <1>o, <1>u, StopWorse
<1>3. Worse(u, tally') /\ tally'.marred = u.marred BY <1>p, <1>u, Zenon, <1>2, EventWorse DEF Unenroll
<1>4. /\ tally' \in Tallies /\ tally'.stopped = tally.stopped \cup {o}
      /\ tally'.listed = tally.listed /\ tally'.unblocked = tally.unblocked
      /\ tally'.unwelcome = tally.unwelcome /\ tally'.intruded = tally.intruded
      /\ \A p \in Pairs : tally.marred[p] \subseteq tally'.marred[p]
  BY <1>2, <1>3 DEF Worse
<1>5. \A w \in Workers : Todo(tick, w, o) => ~SpareS(tally', o)
  <2>1. ASSUME NEW w \in Workers, Todo(tick, w, o) PROVE ~SpareS(tally', o)
    BY OutreachAssumption, <2>1, Zenon, <1>2, <1>3 DEF None, InHand, Todo, SpareS
  <2> QED BY <2>1
<1>y. PICK x : x = [row[s][l] EXCEPT !.status = "unsubscribed"] OBVIOUS
<1>6. row[s][l] \in RowRecords /\ row[s][l].status \notin {None, "unsubscribed"}
  BY <1>0 DEF AllRows, Unenroll, Is
<1>v. "unsubscribed" \in Statuses /\ "unsubscribed" \notin {None, "active", "awaiting_manual_action"}
  BY DEF Statuses, None
<1>7. x \in RowRecords /\ x.status = "unsubscribed" /\ x.step = row[s][l].step BY <1>6, <1>y, <1>v, StatusRow
<1>8. row' = RowPut(row, s, l, x) BY <1>y, Zenon DEF Unenroll, With, RowPut
<1>9. /\ row' \in AllRows /\ row'[s][l] = x
      /\ \A a \in SequenceIds, b \in Leads : a # s \/ b # l => row'[a][b] = row[a][b]
  BY <1>0, <1>7, <1>8, WithRow
<1>r. PICK r2 : r2 = row' OBVIOUS
<1>10. \A a \in SequenceIds, b \in Leads : Tidy(sequence, row[a][b], r2[a][b], a)
  BY <1>6, <1>7, <1>9, <1>v, <1>r, Zenon DEF Tidy
<1>11. \A p \in Pairs : /\ Rewritten(sequence, row, r2, tick, tally, p)
                        /\ StatusOf(r2, p) \in {"active", "awaiting_manual_action"} =>
                             StatusOf(row, p) \in {None, "active", "awaiting_manual_action"}
  BY <1>10, PairsAre, TidyIsRewritten
<1>12. ASSUME NEW p \in Pairs, p \in tally'.stopped
       PROVE  /\ \/ p \in tally.stopped
                 \/ StatusOf(row, p) # None /\ \A w \in Workers : Todo(tick, w, p) => ~SpareS(tally', p)
              /\ SpareS(tally', p) =>
                   \/ StatusOf(r2, p) \notin {"active", "awaiting_manual_action"}
                   \/ p \in tally.stopped /\ StatusOf(row, p) \in {None, "active", "awaiting_manual_action"}
  BY <1>o, <1>6, <1>7, <1>9, <1>v, <1>r, <1>5, <1>12, <1>4, <1>11 DEF StatusOf
<1> QED BY <1>0, <1>1, <1>4, <1>9, <1>11, <1>12, <1>r, RowSteps DEF SequenceTypes

\* One row changes: what the others must meet, they do.
LEMMA OneRow ==
    ASSUME NEW q, NEW r, NEW r2, NEW k, NEW t, NEW s \in SequenceIds, NEW l \in Leads,
           \A a \in SequenceIds, b \in Leads : a # s \/ b # l => Tidy(q, r[a][b], r2[a][b], a),
           Rewritten(q, r, r2, k, t, <<s, l>>)
    PROVE  /\ \A p \in Pairs : Rewritten(q, r, r2, k, t, p)
           /\ \A p \in Pairs : p # <<s, l>> /\ StatusOf(r2, p) \in {"active", "awaiting_manual_action"} =>
                 StatusOf(r, p) \in {None, "active", "awaiting_manual_action"}
<1>1. ASSUME NEW p \in Pairs, p # <<s, l>>
      PROVE  /\ Rewritten(q, r, r2, k, t, p)
             /\ StatusOf(r2, p) \in {"active", "awaiting_manual_action"} =>
                   StatusOf(r, p) \in {None, "active", "awaiting_manual_action"}
  BY <1>1, TidyIsRewritten DEF Pairs
<1> QED BY <1>1

\* The MCP tool makes an enrollment, or makes one active again.
LEMMA McpEnrollStep == ASSUME SequenceInv, NEW s \in SequenceIds, NEW l \in Leads, McpEnroll(s, l) PROVE SequenceInv'
<1>0. SequenceTypes /\ tally \in Tallies /\ row \in AllRows BY DEF SequenceInv, SequenceTypes
<1>1. UNCHANGED <<sequence, tick, sent, inbox, poll, request>> /\ sequence[s].exists
  BY DEF McpEnroll, people, doers
<1>p. PICK o : o = <<s, l>> OBVIOUS
<1>o. o \in Pairs /\ o[1] = s /\ o[2] = l BY <1>p, PairsAre
<1>2. Worse(tally, tally') /\ (o \in tally.stopped => ~SpareS(tally', o))
  BY <1>p, Zenon, <1>0, <1>o, MarkedEvent, MarksAre, EventWorse DEF McpEnroll, SpareS
<1>3. row[s][l] \in RowRecords BY <1>0 DEF AllRows
<1>n. "active" # None /\ "active" \in Statuses /\ "active" # "awaiting_manual_action" BY DEF Statuses, None
<1>4. PICK x \in RowRecords : /\ row' = RowPut(row, s, l, x) /\ x.status = "active"
                              /\ row[s][l].status = None => x.step = 0
                              /\ row[s][l].status # None => x.step = row[s][l].step
  <2>1. CASE Is(s, l, {None}) BY <2>1, Zenon, NewRows DEF McpEnroll, With, RowPut, Is
  <2>2. CASE ~Is(s, l, {None})
    <3>y. PICK y : y = [row[s][l] EXCEPT !.status = "active"] OBVIOUS
    <3>1. y \in RowRecords /\ y.status = "active" /\ y.step = row[s][l].step BY <1>3, <1>n, <3>y, StatusRow
    <3>x. PICK x : x = [y EXCEPT !.due = "now"] OBVIOUS
    <3>2. x \in RowRecords /\ x.status = "active" /\ x.step = row[s][l].step BY <3>1, <3>x, DueRow
    <3>3. x = [row[s][l] EXCEPT !.status = "active", !.due = "now"] BY <3>x, <3>y
    <3>4. row' = RowPut(row, s, l, x) BY <2>2, <3>3, Zenon DEF McpEnroll, With, RowPut
    <3>5. row[s][l].status # None BY <2>2 DEF Is
    <3> QED BY <3>2, <3>4, <3>5
  <2> QED BY <2>1, <2>2
<1>9. /\ row' \in AllRows /\ row'[s][l] = x
      /\ \A a \in SequenceIds, b \in Leads : a # s \/ b # l => row'[a][b] = row[a][b]
  BY <1>0, <1>4, WithRow
<1>r. PICK r2 : r2 = row' OBVIOUS
<1>10. \A a \in SequenceIds, b \in Leads : a # s \/ b # l => Tidy(sequence, row[a][b], r2[a][b], a)
  BY <1>9, <1>r, Zenon DEF Tidy
<1>11. Rewritten(sequence, row, r2, tick, tally, o) BY <1>9, <1>r, <1>o, <1>1, <1>4, <1>n, Zenon DEF Rewritten
<1>12. /\ \A p \in Pairs : Rewritten(sequence, row, r2, tick, tally, p)
       /\ \A p \in Pairs : p # o /\ StatusOf(r2, p) \in {"active", "awaiting_manual_action"} =>
                 StatusOf(row, p) \in {None, "active", "awaiting_manual_action"}
  BY <1>10, <1>11, <1>p, OneRow
<1>13. /\ tally' \in Tallies /\ tally'.stopped = tally.stopped
       /\ tally'.listed = tally.listed /\ tally'.unblocked = tally.unblocked
       /\ tally'.unwelcome = tally.unwelcome /\ tally'.intruded = tally.intruded
       /\ \A p \in Pairs : tally.marred[p] \subseteq tally'.marred[p]
  BY <1>2 DEF Worse
<1>14. ASSUME NEW p \in Pairs, p \in tally'.stopped
       PROVE  /\ p \in tally.stopped
              /\ SpareS(tally', p) =>
                   \/ StatusOf(r2, p) \notin {"active", "awaiting_manual_action"}
                   \/ p \in tally.stopped /\ StatusOf(row, p) \in {None, "active", "awaiting_manual_action"}
  BY <1>13, <1>14, <1>2, <1>12
<1> QED BY <1>0, <1>1, <1>9, <1>12, <1>13, <1>14, <1>r, RowSteps DEF SequenceTypes

\* A manual step is done.
LEMMA CompleteTaskStep ==
    ASSUME SequenceInv, NEW s \in SequenceIds, NEW l \in Leads, CompleteTask(s, l) PROVE SequenceInv'
<1>0. SequenceTypes /\ tally \in Tallies /\ row \in AllRows /\ sequence \in AllSequences
  BY DEF SequenceInv, SequenceTypes
<1>1. UNCHANGED <<sequence, tick, sent, inbox, poll, request>> /\ Event(tally)
  BY DEF CompleteTask, people, doers
<1>p. PICK o : o = <<s, l>> OBVIOUS
<1>o. o \in Pairs /\ o[1] = s /\ o[2] = l BY <1>p, PairsAre
<1>2. Worse(tally, tally') BY <1>0, <1>1, EventWorse
<1>3. row[s][l] \in RowRecords /\ row[s][l].status = "awaiting_manual_action"
  BY <1>0 DEF AllRows, CompleteTask, Is
<1>n. /\ "active" # None /\ "completed" # None /\ "awaiting_manual_action" # None
      /\ "completed" \notin {"active", "awaiting_manual_action"} /\ "active" # "awaiting_manual_action"
      /\ {"active", "completed"} \subseteq Statuses
  BY DEF Statuses, None
<1>4. PICK x \in RowRecords : /\ row' = RowPut(row, s, l, x) /\ x.status \in {"active", "completed"}
                              /\ x.step = row[s][l].step + 1
  <2>n. PICK n : n = row[s][l].step + 1 OBVIOUS
  <2>1. n \in Nat BY <1>3, <2>n DEF RowRecords
  <2>d. PICK due : due = NextDue(sequence[s].steps, n - 1) OBVIOUS
  <2>2. due \in {"now", "later", "never"} BY <2>d DEF NextDue
  <2>v. PICK v : v = IF n >= Len(sequence[s].steps) THEN "completed" ELSE "active" BY Zenon
  <2>3. v \in {"active", "completed"} /\ v \in Statuses BY <2>v, <1>n
  <2>y. PICK y : y = [row[s][l] EXCEPT !.step = n] OBVIOUS
  <2>4. y \in RowRecords /\ y.step = n BY <1>3, <2>1, <2>y, StepRow
  <2>z. PICK z : z = [y EXCEPT !.due = due] OBVIOUS
  <2>5. z \in RowRecords /\ z.step = n BY <2>2, <2>4, <2>z, DueRow
  <2>x. PICK x : x = [z EXCEPT !.status = v] OBVIOUS
  <2>6. x \in RowRecords /\ x.step = n /\ x.status = v BY <2>3, <2>5, <2>x, StatusRow
  <2>7. x = [row[s][l] EXCEPT !.step = n, !.due = due, !.status = v] BY <2>x, <2>y, <2>z
  <2>8. row' = RowPut(row, s, l, x) BY <2>7, <2>n, <2>d, <2>v, Zenon DEF CompleteTask, With, RowPut
  <2> QED BY <2>3, <2>6, <2>8, <2>n
<1>9. /\ row' \in AllRows /\ row'[s][l] = x
      /\ \A a \in SequenceIds, b \in Leads : a # s \/ b # l => row'[a][b] = row[a][b]
  BY <1>0, <1>4, WithRow
<1>r. PICK r2 : r2 = row' OBVIOUS
<1>10. \A a \in SequenceIds, b \in Leads : a # s \/ b # l => Tidy(sequence, row[a][b], r2[a][b], a)
  BY <1>9, <1>r, Zenon DEF Tidy
<1>h. SpareO(tally, o) => \A w \in Workers : ~Holding(tick, w, o)
  <2>1. SUFFICES ASSUME SpareO(tally, o), NEW w \in Workers PROVE ~Holding(tick, w, o) OBVIOUS
  <2>2. TickOK(row, tick, sent, w, o) BY <1>o, <2>1, Zenon DEF SequenceInv, PairsOK, PairOK, OnceOK
  <2>3. StatusOf(row, o) = "awaiting_manual_action" BY <1>3, <1>o DEF StatusOf
  <2> QED BY <2>2, <2>3, Zenon DEF TickOK
<1>11. Rewritten(sequence, row, r2, tick, tally, o)
  <2>1. r2[o[1]][o[2]] = x /\ row[o[1]][o[2]] = row[s][l] BY <1>9, <1>r, <1>o
  <2>2. x.step > row[s][l].step BY <1>3, <1>4 DEF RowRecords
  <2>3. x.status # None /\ row[s][l].status # None BY <1>3, <1>4, <1>n
  <2> QED BY <2>1, <2>2, <2>3, <1>3, <1>h, Zenon DEF Rewritten
<1>12. /\ \A p \in Pairs : Rewritten(sequence, row, r2, tick, tally, p)
       /\ \A p \in Pairs : p # o /\ StatusOf(r2, p) \in {"active", "awaiting_manual_action"} =>
                 StatusOf(row, p) \in {None, "active", "awaiting_manual_action"}
  BY <1>10, <1>11, <1>p, OneRow
<1>13. /\ tally' \in Tallies /\ tally'.stopped = tally.stopped
       /\ tally'.listed = tally.listed /\ tally'.unblocked = tally.unblocked
       /\ tally'.unwelcome = tally.unwelcome /\ tally'.intruded = tally.intruded
       /\ \A p \in Pairs : tally.marred[p] \subseteq tally'.marred[p]
  BY <1>2 DEF Worse
<1>14. ASSUME NEW p \in Pairs, p \in tally'.stopped
       PROVE  /\ p \in tally.stopped
              /\ SpareS(tally', p) =>
                   \/ StatusOf(r2, p) \notin {"active", "awaiting_manual_action"}
                   \/ p \in tally.stopped /\ StatusOf(row, p) \in {None, "active", "awaiting_manual_action"}
  BY <1>13, <1>14, <1>3, <1>o, <1>12 DEF StatusOf
<1> QED BY <1>0, <1>1, <1>9, <1>12, <1>13, <1>14, <1>r, RowSteps DEF SequenceTypes

\* The sequences that a reply or an end leads to are there.
LEMMA SubsAreThere ==
    ASSUME NEW s, NEW trigger, NEW a \in SequenceIds, a \in Subs(s, trigger) PROVE sequence[a].exists
BY DEF Subs

\* What a reply does to the rows.
LEMMA RepliedRows ==
    ASSUME SequenceTypes, NEW p \in Pollers, NoteReply(p),
           NEW s, s = poll[p].seq, NEW l, l = poll[p].lead, ~Is(s, l, {None})
    PROVE  /\ row' \in AllRows /\ s \in SequenceIds /\ l \in Leads
           /\ row'[s][l].step = row[s][l].step /\ row'[s][l].status = ReplyStatus(p)
           /\ ReplyStatus(p) \in {"active", "replied", "bounced", "unsubscribed"}
           /\ \A a \in SequenceIds, b \in Leads : a # s \/ b # l => Tidy(sequence, row[a][b], row'[a][b], a)
<1>0. row \in AllRows /\ sequence \in AllSequences BY DEF SequenceTypes
<1>1. s \in SequenceIds /\ l \in Leads BY PollHas DEF NoteReply
<1>2. row[s][l] \in RowRecords BY <1>0, <1>1 DEF AllRows
<1>v. PICK v : v = ReplyStatus(p) OBVIOUS
<1>3. v \in {"active", "replied", "bounced", "unsubscribed"} /\ v \in Statuses BY <1>v DEF ReplyStatus, Statuses
<1>t. PICK yes \in BOOLEAN : yes = TRUE OBVIOUS
<1>y. PICK y : y = [row[s][l] EXCEPT !.status = v] OBVIOUS
<1>4. y \in RowRecords /\ y.status = v /\ y.step = row[s][l].step BY <1>2, <1>3, <1>y, StatusRow
<1>x. PICK x : x = [y EXCEPT !.replied = yes] OBVIOUS
<1>5. x \in RowRecords /\ x.status = v /\ x.step = row[s][l].step BY <1>4, <1>x, RepliedRow
<1>6. x = [row[s][l] EXCEPT !.status = v, !.replied = TRUE] BY <1>x, <1>y, <1>t
<1>m. PICK mine : mine = RowPut(row, s, l, x) OBVIOUS
<1>7. /\ mine \in AllRows /\ mine[s][l] = x
      /\ \A a \in SequenceIds, b \in Leads : a # s \/ b # l => mine[a][b] = row[a][b]
  BY <1>0, <1>1, <1>5, <1>m, WithRow
<1>8. row' = mine \/ row' = Entered(mine, Subs(s, "REPLIED"), l)
  BY <1>6, <1>m, <1>v, Zenon DEF With, RowPut, NoteReply
<1>9. /\ row' \in AllRows
      /\ \A a \in SequenceIds, b \in Leads :
            \/ row'[a][b] = mine[a][b]
            \/ a \in Subs(s, "REPLIED") /\ mine[a][b].status = None /\ row'[a][b].step = 0
               /\ row'[a][b].status = "active"
  BY <1>7, <1>0, <1>1, EnteredRows, <1>8
<1>n. v # None BY <1>3 DEF None
<1>10. row'[s][l] = x BY <1>5, <1>7, <1>n, <1>1, <1>9
<1>11. ASSUME NEW a \in SequenceIds, NEW b \in Leads, a # s \/ b # l
       PROVE  Tidy(sequence, row[a][b], row'[a][b], a)
  <2>1. mine[a][b] = row[a][b] BY <1>7, <1>11
  <2>2. CASE row'[a][b] = mine[a][b] BY <2>1, <2>2, Zenon DEF Tidy
  <2>3. CASE /\ a \in Subs(s, "REPLIED") /\ mine[a][b].status = None
             /\ row'[a][b].step = 0 /\ row'[a][b].status = "active"
    BY <2>3, SubsAreThere, <2>1, Zenon DEF Tidy
  <2> QED BY <1>9, <2>2, <2>3
<1> QED BY <1>1, <1>3, <1>5, <1>9, <1>10, <1>11, <1>v

\* A reply gives an enrollment a new status.
LEMMA NoteReplyStep == ASSUME SequenceInv, NEW p \in Pollers, NoteReply(p) PROVE SequenceInv'
<1>0. SequenceTypes /\ tally \in Tallies /\ row \in AllRows BY DEF SequenceInv, SequenceTypes
<1>s. PICK s : s = poll[p].seq OBVIOUS
<1>l. PICK l : l = poll[p].lead OBVIOUS
<1>1. UNCHANGED <<sequence, tick, sent, inbox, request>> BY DEF NoteReply
<1>2. poll' \in [Pollers -> Polls]
  <2>1. poll' = [poll EXCEPT ![p] = IdlePoll] \/ poll' = [poll EXCEPT ![p].pc = "share"] BY Zenon DEF NoteReply
  <2>2. CASE poll' = [poll EXCEPT ![p] = IdlePoll] BY <1>0, <2>2, IdlePolls
  <2>3. CASE poll' = [poll EXCEPT ![p].pc = "share"] BY <1>0, PollHas, <2>3 DEF NoteReply, Polls, SequenceTypes
  <2> QED BY <2>1, <2>2, <2>3
<1>3. CASE Is(s, l, {None})
  BY <1>3, <1>s, <1>l, Zenon, <1>0, WorseSelf, <1>1, <1>2, TidySteps DEF NoteReply, Tidy, SequenceTypes
<1>4. CASE ~Is(s, l, {None})
  <2>1. /\ row' \in AllRows /\ s \in SequenceIds /\ l \in Leads
        /\ row'[s][l].step = row[s][l].step /\ row'[s][l].status = ReplyStatus(p)
        /\ ReplyStatus(p) \in {"active", "replied", "bounced", "unsubscribed"}
        /\ \A a \in SequenceIds, b \in Leads : a # s \/ b # l => Tidy(sequence, row[a][b], row'[a][b], a)
    BY <1>0, <1>4, <1>s, <1>l, RepliedRows
  <2>p. PICK o : o = <<s, l>> OBVIOUS
  <2>o. o \in Pairs /\ o[1] = s /\ o[2] = l BY <2>1, <2>p, PairsAre
  <2>r. PICK r2 : r2 = row' OBVIOUS
  <2>n. /\ "active" # None /\ "active" # "awaiting_manual_action"
        /\ {"replied", "bounced", "unsubscribed"} \cap {None, "active", "awaiting_manual_action"} = {}
    BY DEF None
  <2>2. StatusOf(r2, o) = ReplyStatus(p) /\ StatusOf(row, o) = row[s][l].status /\ row[s][l].status # None
    BY <2>1, <2>o, <2>r, <1>4 DEF StatusOf, Is
  <2>3. Rewritten(sequence, row, r2, tick, tally, o) BY <2>o, <2>1, <2>n, <2>r, <2>2, Zenon DEF Rewritten
  <2>4. /\ \A q \in Pairs : Rewritten(sequence, row, r2, tick, tally, q)
        /\ \A q \in Pairs : q # o /\ StatusOf(r2, q) \in {"active", "awaiting_manual_action"} =>
                 StatusOf(row, q) \in {None, "active", "awaiting_manual_action"}
    BY <2>1, <2>3, <2>p, <2>r, OneRow
  <2>t. PICK t : t = Stranded(tally, row') OBVIOUS
  <2>5. Worse(tally, t) /\ t \in Tallies BY <1>0, <2>t, StrandedWorse DEF Worse
  <2>6. CASE ReplyStatus(p) = "active"
    <3>1. \/ Is(s, l, {"active"}) /\ tally' = t
          \/ tally' = Mark(Mark(t, {o}, "stuck"), {o}, "overtaken")
      BY <1>4, <2>6, <1>s, <1>l, <2>t, <2>p, Zenon DEF NoteReply
    <3>2. Worse(tally, tally') /\ (~Is(s, l, {"active"}) => ~SpareS(tally', o))
      BY <2>5, MarkWorse, MarksAre, <2>o, WorseTwice, <3>1 DEF Worse, SpareS
    <3>3. /\ tally' \in Tallies /\ tally'.stopped = tally.stopped
          /\ tally'.listed = tally.listed /\ tally'.unblocked = tally.unblocked
          /\ tally'.unwelcome = tally.unwelcome /\ tally'.intruded = tally.intruded
          /\ \A q \in Pairs : tally.marred[q] \subseteq tally'.marred[q]
      BY <3>2 DEF Worse
    <3>4. ASSUME NEW q \in Pairs, q \in tally'.stopped
          PROVE  /\ q \in tally.stopped
                 /\ SpareS(tally', q) =>
                      \/ StatusOf(r2, q) \notin {"active", "awaiting_manual_action"}
                      \/ q \in tally.stopped /\ StatusOf(row, q) \in {None, "active", "awaiting_manual_action"}
      BY <3>3, <3>4, <3>2, <2>2, <2>4 DEF Is
    <3> QED BY <1>0, <1>1, <1>2, <2>1, <2>4, <3>3, <3>4, <2>r, RowSteps DEF SequenceTypes
  <2>7. CASE ReplyStatus(p) # "active"
    <3>1. tally' = Stop(t, o, p) BY <1>4, <2>7, <1>s, <1>l, <2>t, <2>p, Zenon DEF NoteReply
    <3>2. /\ tally' \in Tallies /\ tally'.stopped = t.stopped \cup {o}
          /\ tally'.listed = t.listed /\ tally'.unblocked = t.unblocked
          /\ tally'.unwelcome = t.unwelcome /\ tally'.intruded = t.intruded
          /\ \A q \in Pairs : t.marred[q] \subseteq tally'.marred[q]
          /\ InHand(o, p) => ~SpareS(tally', o)
      BY <2>5, <2>o, <3>1, StopWorse
    <3>3. /\ tally' \in Tallies /\ tally'.stopped = tally.stopped \cup {o}
          /\ tally'.listed = tally.listed /\ tally'.unblocked = tally.unblocked
          /\ tally'.unwelcome = tally.unwelcome /\ tally'.intruded = tally.intruded
          /\ \A q \in Pairs : tally.marred[q] \subseteq tally'.marred[q]
      BY <3>2, <2>5 DEF Worse
    <3>4. \A w \in Workers : Todo(tick, w, o) => ~SpareS(tally', o)
      <4>1. SUFFICES ASSUME NEW w \in Workers, Todo(tick, w, o) PROVE ~SpareS(tally', o) OBVIOUS
      <4>2. w \in Workers \ {p} BY OutreachAssumption
      <4>3. InHand(o, p) BY <4>1, <4>2, Zenon DEF InHand, Todo
      <4> QED BY <3>2, <4>3
    <3>5. ASSUME NEW q \in Pairs, q \in tally'.stopped
          PROVE  /\ \/ q \in tally.stopped
                    \/ StatusOf(row, q) # None /\ \A w \in Workers : Todo(tick, w, q) => ~SpareS(tally', q)
                 /\ SpareS(tally', q) =>
                      \/ StatusOf(r2, q) \notin {"active", "awaiting_manual_action"}
                      \/ q \in tally.stopped /\ StatusOf(row, q) \in {None, "active", "awaiting_manual_action"}
      BY <2>1, <2>2, <2>7, <2>n, <3>4, <3>5, <3>3, <2>4
    <3> QED BY <1>0, <1>1, <1>2, <2>1, <2>4, <3>3, <3>5, <2>r, RowSteps DEF SequenceTypes
  <2> QED BY <2>6, <2>7
<1> QED BY <1>3, <1>4

------------------------------------------------------------------------------
\* The ticks.

\* A tick whose snapshot stays.
TickOf(k, pc, todo, at, b) ==
    [pc |-> pc, todo |-> todo, rows |-> k.rows, steps |-> k.steps, blocked |-> k.blocked, at |-> at, box |-> b]

\* Its fields are what it is made of.
LEMMA TickFields ==
    ASSUME NEW k, NEW pc, NEW todo, NEW at, NEW b, NEW x, x = TickOf(k, pc, todo, at, b)
    PROVE  /\ x.pc = pc /\ x.todo = todo /\ x.at = at /\ x.rows = k.rows /\ x.steps = k.steps
           /\ x.blocked = k.blocked
BY DEF TickOf

\* The updates of a tick's record: what is to do...
LEMMA TodoUpdates ==
    ASSUME NEW k, IsTick(k), NEW todo PROVE [k EXCEPT !.todo = todo] = TickOf(k, k.pc, todo, k.at, k.box)
<1>k. PICK a1, a2, a3, a4, a5, a6, a7 :
         k = [pc |-> a1, todo |-> a2, rows |-> a3, steps |-> a4, blocked |-> a5, at |-> a6, box |-> a7]
  BY Zenon DEF IsTick
<1>f. /\ k.pc = a1 /\ k.todo = a2 /\ k.rows = a3 /\ k.steps = a4 /\ k.blocked = a5 /\ k.at = a6 /\ k.box = a7
  BY <1>k
<1>x1. PICK x1 : x1 = [k EXCEPT !.todo = todo] OBVIOUS
<1>1. x1 = [pc |-> a1, todo |-> todo, rows |-> a3, steps |-> a4, blocked |-> a5, at |-> a6, box |-> a7]
  BY <1>k, <1>x1
<1>2. x1 = [k EXCEPT !.todo = todo] BY <1>x1
<1> QED BY <1>f, <1>1, <1>2, Zenon DEF TickOf

\* ...where it is...
LEMMA PlaceUpdates ==
    ASSUME NEW k, IsTick(k), NEW pc, NEW at
    PROVE  [k EXCEPT !.pc = pc, !.at = at] = TickOf(k, pc, k.todo, at, k.box)
<1>k. PICK a1, a2, a3, a4, a5, a6, a7 :
         k = [pc |-> a1, todo |-> a2, rows |-> a3, steps |-> a4, blocked |-> a5, at |-> a6, box |-> a7]
  BY Zenon DEF IsTick
<1>f. /\ k.pc = a1 /\ k.todo = a2 /\ k.rows = a3 /\ k.steps = a4 /\ k.blocked = a5 /\ k.at = a6 /\ k.box = a7
  BY <1>k
<1>x1. PICK x1 : x1 = [k EXCEPT !.pc = pc] OBVIOUS
<1>1. x1 = [pc |-> pc, todo |-> a2, rows |-> a3, steps |-> a4, blocked |-> a5, at |-> a6, box |-> a7]
  BY <1>k, <1>x1
<1>x2. PICK x2 : x2 = [x1 EXCEPT !.at = at] OBVIOUS
<1>2. x2 = [pc |-> pc, todo |-> a2, rows |-> a3, steps |-> a4, blocked |-> a5, at |-> at, box |-> a7]
  BY <1>1, <1>x2
<1>3. x2 = [k EXCEPT !.pc = pc, !.at = at] BY <1>x1, <1>x2
<1> QED BY <1>f, <1>2, <1>3, Zenon DEF TickOf

\* ...from which mailbox it mails...
Moves(k, pc, at, b) == [k EXCEPT !.pc = pc, !.at = at, !.box = b]

\* A tick that goes on with what it has in hand.
LEMMA MovesIs ==
    ASSUME NEW k, IsTick(k), NEW pc, NEW at, NEW b, NEW x, x = TickOf(k, pc, k.todo, at, b)
    PROVE  x = Moves(k, pc, at, b)
<1>k. PICK a1, a2, a3, a4, a5, a6, a7 :
         k = [pc |-> a1, todo |-> a2, rows |-> a3, steps |-> a4, blocked |-> a5, at |-> a6, box |-> a7]
  BY Zenon DEF IsTick
<1>f. /\ k.pc = a1 /\ k.todo = a2 /\ k.rows = a3 /\ k.steps = a4 /\ k.blocked = a5 /\ k.at = a6 /\ k.box = a7
  BY <1>k
<1>x1. PICK x1 : x1 = [k EXCEPT !.pc = pc] OBVIOUS
<1>1. x1 = [pc |-> pc, todo |-> a2, rows |-> a3, steps |-> a4, blocked |-> a5, at |-> a6, box |-> a7]
  BY <1>k, <1>x1
<1>x2. PICK x2 : x2 = [x1 EXCEPT !.at = at] OBVIOUS
<1>2. x2 = [pc |-> pc, todo |-> a2, rows |-> a3, steps |-> a4, blocked |-> a5, at |-> at, box |-> a7]
  BY <1>1, <1>x2
<1>x3. PICK x3 : x3 = [x2 EXCEPT !.box = b] OBVIOUS
<1>3. x3 = [pc |-> pc, todo |-> a2, rows |-> a3, steps |-> a4, blocked |-> a5, at |-> at, box |-> b]
  BY <1>2, <1>x3
<1>4. x3 = [k EXCEPT !.pc = pc, !.at = at, !.box = b] BY <1>x1, <1>x2, <1>x3
<1> QED BY <1>f, <1>3, <1>4, Zenon DEF TickOf, Moves

\* ...and all of these.
MovesOn(k, pc, todo, at, b) == [k EXCEPT !.pc = pc, !.todo = todo, !.at = at, !.box = b]

\* A tick that goes on with less in hand.
LEMMA MovesOnIs ==
    ASSUME NEW k, IsTick(k), NEW pc, NEW todo, NEW at, NEW b, NEW x, x = TickOf(k, pc, todo, at, b)
    PROVE  x = MovesOn(k, pc, todo, at, b)
<1>k. PICK a1, a2, a3, a4, a5, a6, a7 :
         k = [pc |-> a1, todo |-> a2, rows |-> a3, steps |-> a4, blocked |-> a5, at |-> a6, box |-> a7]
  BY Zenon DEF IsTick
<1>f. /\ k.pc = a1 /\ k.todo = a2 /\ k.rows = a3 /\ k.steps = a4 /\ k.blocked = a5 /\ k.at = a6 /\ k.box = a7
  BY <1>k
<1>x1. PICK x1 : x1 = [k EXCEPT !.pc = pc] OBVIOUS
<1>1. x1 = [pc |-> pc, todo |-> a2, rows |-> a3, steps |-> a4, blocked |-> a5, at |-> a6, box |-> a7]
  BY <1>k, <1>x1
<1>x2. PICK x2 : x2 = [x1 EXCEPT !.todo = todo] OBVIOUS
<1>2. x2 = [pc |-> pc, todo |-> todo, rows |-> a3, steps |-> a4, blocked |-> a5, at |-> a6, box |-> a7]
  BY <1>1, <1>x2
<1>x3. PICK x3 : x3 = [x2 EXCEPT !.at = at] OBVIOUS
<1>3. x3 = [pc |-> pc, todo |-> todo, rows |-> a3, steps |-> a4, blocked |-> a5, at |-> at, box |-> a7]
  BY <1>2, <1>x3
<1>x4. PICK x4 : x4 = [x3 EXCEPT !.box = b] OBVIOUS
<1>4. x4 = [pc |-> pc, todo |-> todo, rows |-> a3, steps |-> a4, blocked |-> a5, at |-> at, box |-> b]
  BY <1>3, <1>x4
<1>5. x4 = [k EXCEPT !.pc = pc, !.todo = todo, !.at = at, !.box = b] BY <1>x1, <1>x2, <1>x3, <1>x4
<1> QED BY <1>f, <1>4, <1>5, Zenon DEF TickOf, MovesOn

\* An idle tick, and what a worker without one has in hand.
LEMMA IdleIsTick == IsTick(IdleTick) /\ IdleTick.todo = {} /\ IdleTick.pc = "idle" /\ IdleTick.at = << >>
  BY Zenon DEF IdleTick, IsTick

\* One tick is replaced.
Seat(k, w, x) == [k EXCEPT ![w] = x]

\* The tick is there, and the others are as they were.
LEMMA WithTick ==
    ASSUME NEW k, Ticks(k), NEW w \in Workers, NEW x, IsTick(x), NEW k2, k2 = Seat(k, w, x)
    PROVE  /\ Ticks(k2) /\ k2[w] = x
           /\ \A v \in Workers : v # w => k2[v] = k[v]
  BY DEF Ticks, Seat

\* A tick has less in hand.
Less(k, x) ==
    /\ x.todo \subseteq k.todo /\ x.pc # "sent"
    /\ x.todo = {} \/ (x.rows = k.rows /\ x.steps = k.steps /\ x.blocked = k.blocked)

\* What it had in hand is in order, if a mail that is not recorded is a mishap.
LEMMA LessMove ==
    ASSUME NEW q, NEW r, NEW k, NEW k2, NEW m, NEW t, NEW u, NEW w \in Workers,
           PairsOK(q, r, k, m, t), Less(k[w], k2[w]), \A v \in Workers : v # w => k2[v] = k[v],
           u.stopped = t.stopped, u.unwelcome = t.unwelcome,
           \A p \in Pairs : t.marred[p] \subseteq u.marred[p],
           \A v \in Workers : v # w => u.listed[v] = t.listed[v] /\ u.unblocked[v] = t.unblocked[v],
           k2[w].todo = {} \/ (u.listed[w] = t.listed[w] /\ u.unblocked[w] = t.unblocked[w]),
           \A p \in Pairs : Sending(k, w, p) => ~SpareO(u, p)
    PROVE  PairsOK(q, r, k2, m, u)
<1> SUFFICES ASSUME NEW p \in Pairs PROVE PairOK(q, r, k2, m, u, p) BY Zenon DEF PairsOK
<1>1. PairOK(q, r, k, m, t, p) BY Zenon DEF PairsOK
<1>2. /\ k2[w].todo \subseteq k[w].todo /\ k2[w].pc # "sent"
      /\ k2[w].todo = {} \/ (k2[w].rows = k[w].rows /\ k2[w].steps = k[w].steps /\ k2[w].blocked = k[w].blocked)
  BY Zenon DEF Less
<1>3. Todo(k2, w, p) => /\ Todo(k, w, p) /\ k2[w].todo # {} BY <1>2 DEF Todo
<1>4. ~Sending(k2, w, p) BY <1>2 DEF Sending
<1>5. \A v \in Workers : Fewer(k, k2, v, p)
  <2> TAKE v \in Workers
  <2>1. CASE v = w BY <2>1, <1>2, <1>3, <1>4, Zenon DEF Fewer, Holding
  <2>2. CASE v # w BY <2>2, Zenon DEF Fewer, Todo, Sending
  <2> QED BY <2>1, <2>2
<1>6. \A v \in Workers : Todo(k2, v, p) => u.listed[v] = t.listed[v] /\ u.unblocked[v] = t.unblocked[v]
  BY <1>3, Zenon
<1>7. \A v \in Workers : Sending(k, v, p) /\ ~Sending(k2, v, p) => ~SpareO(u, p)
  <2> TAKE v \in Workers
  <2>1. CASE v = w BY <2>1
  <2>2. CASE v # w BY <2>2, Zenon DEF Sending
  <2> QED BY <2>1, <2>2
<1> QED BY <1>1, <1>5, <1>6, <1>7, FewerPair

\* The step of the whole, when a tick has less in hand.
LEMMA LessSteps ==
    ASSUME SequenceInv, UNCHANGED <<sequence, row, sent, inbox, poll, request>>, NEW w \in Workers, NEW x,
           IsTick(x), Less(tick[w], x), tick' = Seat(tick, w, x),
           tally' \in Tallies, tally'.stopped = tally.stopped, tally'.unwelcome = tally.unwelcome,
           tally'.intruded = tally.intruded,
           \A p \in Pairs : tally.marred[p] \subseteq tally'.marred[p],
           \A v \in Workers : v # w => tally'.listed[v] = tally.listed[v] /\ tally'.unblocked[v] = tally.unblocked[v],
           x.todo = {} \/ (tally'.listed[w] = tally.listed[w] /\ tally'.unblocked[w] = tally.unblocked[w]),
           \A p \in Pairs : Sending(tick, w, p) => ~SpareO(tally', p)
    PROVE  SequenceInv'
  BY WithTick, LessMove DEF SequenceInv, SequenceTypes

\* What a tick that leaves an enrollment becomes.
LEMMA RestIs ==
    ASSUME Ticks(tick), NEW w \in Workers, NEW p, tick[w].pc = "run"
    PROVE  /\ Rest(w, p) = Seat(tick, w, TickOf(tick[w], "run", tick[w].todo \ {p}, tick[w].at, tick[w].box))
           /\ IsTick(TickOf(tick[w], "run", tick[w].todo \ {p}, tick[w].at, tick[w].box))
           /\ Less(tick[w], TickOf(tick[w], "run", tick[w].todo \ {p}, tick[w].at, tick[w].box))
<1>k. PICK k : k = tick[w] OBVIOUS
<1>t. PICK todo : todo = k.todo \ {p} OBVIOUS
<1>x. PICK x : x = TickOf(k, "run", todo, k.at, k.box) OBVIOUS
<1>1. IsTick(k) /\ k.pc = "run" BY <1>k, Zenon DEF Ticks
<1>2. x = [k EXCEPT !.todo = todo] BY <1>1, TodoUpdates, <1>x, Zenon
<1>3. Rest(w, p) = Seat(tick, w, x) BY <1>2, <1>k, <1>t, Zenon DEF Rest, Seat
<1>4. /\ x.pc = "run" /\ x.todo = todo /\ x.at = k.at /\ x.rows = k.rows /\ x.steps = k.steps
      /\ x.blocked = k.blocked
  BY <1>x, TickFields
<1>e. \E a1, a2, a3, a4, a5, a6, a7 :
         x = [pc |-> a1, todo |-> a2, rows |-> a3, steps |-> a4, blocked |-> a5, at |-> a6, box |-> a7]
  BY <1>x, Zenon DEF TickOf
<1>5. todo \subseteq k.todo /\ k.todo \subseteq Pairs BY <1>1, <1>t DEF IsTick
<1>6. \A o \in Pairs : o \in k.todo => k.rows[o] \in RowRecords /\ k.steps[o[1]] \in Seq(StepRecords)
  BY <1>1, Zenon DEF IsTick
<1>7. IsTick(x) BY <1>4, <1>5, <1>6, <1>e, Zenon DEF IsTick
<1>8. Less(k, x) BY <1>4, <1>5 DEF Less
<1> QED BY <1>3, <1>7, <1>8, <1>x, <1>t, <1>k, Zenon

\* An enrollment is met outside its window, or its mail fails and did not go out.
LEMMA RestSteps ==
    ASSUME SequenceInv, UNCHANGED <<sequence, row, sent, inbox, poll, request>>, NEW w \in Workers, NEW p,
           tick[w].pc = "run", tick' = Rest(w, p), Worse(tally, tally')
    PROVE  SequenceInv'
  BY RestIs, LessSteps DEF SequenceInv, SequenceTypes, Worse, Sending

\* An enrollment is met outside its send window.
LEMMA OutOfWindowStep ==
    ASSUME SequenceInv, NEW w \in Workers, NEW p \in Pairs, OutOfWindow(w, p) PROVE SequenceInv'
  BY EventWorse, RestSteps DEF SequenceInv, SequenceTypes, OutOfWindow, people

\* A tick ends, or its worker dies.
LEMMA UnlistedIs ==
    ASSUME NEW t \in Tallies, NEW w \in Workers, NEW u, u = Unlisted(t, w)
    PROVE  /\ u \in Tallies /\ u.stopped = t.stopped /\ u.unwelcome = t.unwelcome
           /\ u.intruded = t.intruded /\ u.marred = t.marred
           /\ \A v \in Workers : v # w => u.listed[v] = t.listed[v] /\ u.unblocked[v] = t.unblocked[v]
  BY DEF Tallies, Unlisted

\* A tick that has nothing left ends.
LEMMA EndTickStep == ASSUME SequenceInv, NEW w \in Workers, EndTick(w) PROVE SequenceInv'
<1>0. tally \in Tallies BY DEF SequenceInv, SequenceTypes
<1>1. /\ UNCHANGED <<sequence, row, sent, inbox, poll, request>>
      /\ tick[w].pc = "run" /\ tick' = Seat(tick, w, IdleTick) /\ tally' = Unlisted(tally, w)
  BY DEF EndTick, people, Seat
<1>2. /\ tally' \in Tallies /\ tally'.stopped = tally.stopped /\ tally'.unwelcome = tally.unwelcome
      /\ tally'.intruded = tally.intruded /\ tally'.marred = tally.marred
      /\ \A v \in Workers : v # w => tally'.listed[v] = tally.listed[v] /\ tally'.unblocked[v] = tally.unblocked[v]
  BY <1>0, <1>1, UnlistedIs
<1>3. \A o \in Pairs : ~Sending(tick, w, o) BY <1>1 DEF Sending
<1>4. IsTick(IdleTick) /\ IdleTick.todo = {} /\ Less(tick[w], IdleTick) BY IdleIsTick DEF Less
<1> QED BY <1>1, <1>2, <1>3, <1>4, LessSteps

\* A tick dies: a mail it had sent and not recorded is a mishap.
LEMMA TickDiesStep == ASSUME SequenceInv, NEW w \in Workers, TickDies(w) PROVE SequenceInv'
<1>0. tally \in Tallies BY DEF SequenceInv, SequenceTypes
<1>t. PICK t : t = Unlisted(tally, w) OBVIOUS
<1>1. /\ UNCHANGED <<sequence, row, sent, inbox, poll, request>> /\ tick' = Seat(tick, w, IdleTick)
  BY DEF TickDies, people, Seat
<1>2. /\ t \in Tallies /\ t.stopped = tally.stopped /\ t.unwelcome = tally.unwelcome
      /\ t.intruded = tally.intruded /\ t.marred = tally.marred
      /\ \A v \in Workers : v # w => t.listed[v] = tally.listed[v] /\ t.unblocked[v] = tally.unblocked[v]
  BY <1>0, <1>t, UnlistedIs
<1>3. Worse(t, tally') /\ \A o \in Pairs : Sending(tick, w, o) => ~SpareO(tally', o)
  BY <1>t, Zenon, <1>2, MarkedEvent, MarksAre, EventWorse DEF TickDies, Sending, SpareO
<1>4. IsTick(IdleTick) /\ IdleTick.todo = {} /\ Less(tick[w], IdleTick) BY IdleIsTick DEF Less
<1>5. /\ tally' \in Tallies /\ tally'.stopped = tally.stopped /\ tally'.unwelcome = tally.unwelcome
      /\ tally'.intruded = tally.intruded
      /\ \A o \in Pairs : tally.marred[o] \subseteq tally'.marred[o]
      /\ \A v \in Workers : v # w => tally'.listed[v] = tally.listed[v] /\ tally'.unblocked[v] = tally.unblocked[v]
  BY <1>2, <1>3 DEF Worse
<1> QED BY <1>1, <1>3, <1>4, <1>5, LessSteps

\* After the last step: the subsequences.
LEMMA FollowStep == ASSUME SequenceInv, NEW w \in Workers, Follow(w) PROVE SequenceInv'
<1>0. /\ SequenceTypes /\ Ticks(tick) /\ tally \in Tallies /\ row \in AllRows /\ sequence \in AllSequences
      /\ sent \in AllSent /\ PairsOK(sequence, row, tick, sent, tally)
  BY DEF SequenceInv, SequenceTypes
<1>p. PICK p : p = tick[w].at OBVIOUS
<1>c. PICK cs : cs = Subs(p[1], "NOT_REPLIED_IN_DAYS") OBVIOUS
<1>r. PICK r2 : r2 = Entered(row, cs, p[2]) OBVIOUS
<1>u. PICK u : u = Stranded(tally, r2) OBVIOUS
<1>k. PICK k : k = tick[w] OBVIOUS
<1>x. PICK x : x = TickOf(k, "run", k.todo, << >>, k.box) OBVIOUS
<1>1. /\ UNCHANGED <<sequence, sent, inbox, poll, request>> /\ k.pc = "follow" /\ row' = r2 /\ tally' = u
  BY <1>p, <1>c, <1>r, <1>u, <1>k DEF Follow, people
<1>2. IsTick(k) BY <1>0, <1>k, Zenon DEF Ticks
<1>3. tick' = Seat(tick, w, x)
  <2>1. x = [k EXCEPT !.pc = "run", !.at = << >>] BY <1>2, <1>x, PlaceUpdates
  <2>2. tick' = [tick EXCEPT ![w] = x] BY <2>1, <1>k DEF Follow
  <2> QED BY <2>2, Zenon DEF Seat
<1>4. /\ x.pc = "run" /\ x.todo = k.todo /\ x.rows = k.rows /\ x.steps = k.steps /\ x.blocked = k.blocked
  BY <1>x, TickFields
<1>e. \E a1, a2, a3, a4, a5, a6, a7 :
         x = [pc |-> a1, todo |-> a2, rows |-> a3, steps |-> a4, blocked |-> a5, at |-> a6, box |-> a7]
  BY <1>x, Zenon DEF TickOf
<1>5. IsTick(x) BY <1>2, Zenon, <1>4, <1>e DEF IsTick
<1>y. PICK k2 : k2 = tick' OBVIOUS
<1>6. Ticks(k2) /\ k2[w] = x /\ \A v \in Workers : v # w => k2[v] = tick[v] BY <1>0, <1>3, <1>5, <1>y, WithTick
<1>7. PairsOK(sequence, row, k2, sent, tally) BY <1>4, <1>6, <1>k, <1>1, <1>0, LessMove DEF Less, Sending
<1>8. /\ r2 \in AllRows
      /\ \A a \in SequenceIds, b \in Leads :
            \/ r2[a][b] = row[a][b]
            \/ a \in cs /\ row[a][b].status = None /\ r2[a][b].step = 0 /\ r2[a][b].status = "active"
  BY <1>1, <1>2, <1>p, <1>k, <1>0, <1>r, EnteredRows DEF IsTick, Pairs
<1>9. ASSUME NEW a \in SequenceIds, NEW b \in Leads PROVE Tidy(sequence, row[a][b], r2[a][b], a)
  BY <1>c, SubsAreThere, <1>8, Zenon DEF Tidy
<1>10. Worse(tally, u) /\ u \in Tallies /\ u.intruded = tally.intruded BY <1>0, <1>u, StrandedWorse DEF Worse
<1>11. PairsOK(sequence, r2, k2, sent, u) BY <1>0, <1>7, <1>8, <1>9, <1>10, TidyMove
<1>12. SequenceTypes' BY <1>0, <1>1, <1>6, <1>8, <1>10, <1>y DEF SequenceTypes
<1>13. PairsOK(sequence, row, tick, sent, tally)' BY <1>11, <1>1, <1>y
<1>14. SequencesOK(sequence)' /\ (tally.intruded = {})' BY <1>1, <1>10 DEF SequenceInv
<1> QED BY <1>12, <1>13, <1>14 DEF SequenceInv

\* A tick begins: the ghosts note whom it lists.
Listed(t, w, P, L) == [t EXCEPT !.listed[w] = P, !.unblocked[w] = L]

\* What was noted when a tick began is all that differs.
LEMMA ListedIs ==
    ASSUME NEW t \in Tallies, NEW w \in Workers, NEW P \in SUBSET Pairs, NEW L \in SUBSET Leads,
           NEW u, u = Listed(t, w, P, L)
    PROVE  /\ u \in Tallies /\ u.stopped = t.stopped /\ u.unwelcome = t.unwelcome
           /\ u.intruded = t.intruded /\ u.marred = t.marred /\ u.listed[w] = P /\ u.unblocked[w] = L
           /\ \A v \in Workers : v # w => u.listed[v] = t.listed[v] /\ u.unblocked[v] = t.unblocked[v]
  BY DEF Tallies, Listed

\* The tick of a worker that begins with some enrollments, as they are in the tables.
Begun(q, r, bs, todo) ==
    [pc |-> "run", todo |-> todo, rows |-> [p \in todo |-> r[p[1]][p[2]]],
     steps |-> [s \in {p[1] : p \in todo} |-> q[s].steps], blocked |-> [l \in {p[2] : p \in todo} |-> bs[l]],
     at |-> << >>, box |-> None]

\* What such a tick has.
LEMMA BegunIs ==
    ASSUME NEW q \in AllSequences, NEW r \in AllRows, NEW bs, NEW todo \in SUBSET Pairs,
           NEW x, x = Begun(q, r, bs, todo)
    PROVE  /\ IsTick(x) /\ x.pc = "run" /\ x.todo = todo
           /\ \A p \in Pairs : p \in todo =>
                /\ x.rows[p] = r[p[1]][p[2]] /\ x.steps[p[1]] = q[p[1]].steps /\ x.blocked[p[2]] = bs[p[2]]
<1>1. x.pc = "run" /\ x.todo = todo BY DEF Begun
<1>r. PICK f : f = [p \in todo |-> r[p[1]][p[2]]] OBVIOUS
<1>s. PICK g : g = [s \in {p[1] : p \in todo} |-> q[s].steps] OBVIOUS
<1>b. PICK h : h = [l \in {p[2] : p \in todo} |-> bs[l]] OBVIOUS
<1>2. x.rows = f /\ x.steps = g /\ x.blocked = h BY <1>r, <1>s, <1>b DEF Begun
<1>3. ASSUME NEW p \in Pairs, p \in todo
      PROVE  /\ x.rows[p] = r[p[1]][p[2]] /\ x.steps[p[1]] = q[p[1]].steps /\ x.blocked[p[2]] = bs[p[2]]
             /\ r[p[1]][p[2]] \in RowRecords /\ q[p[1]].steps \in Seq(StepRecords)
  BY <1>3, <1>r, <1>s, <1>b, <1>2 DEF Pairs, AllRows, AllSequences, SequenceRecords
<1>e. \E a1, a2, a3, a4, a5, a6, a7 :
         x = [pc |-> a1, todo |-> a2, rows |-> a3, steps |-> a4, blocked |-> a5, at |-> a6, box |-> a7]
  BY Zenon DEF Begun
<1>4. IsTick(x)
  <2>1. \A p \in Pairs : p \in x.todo \/ (x.pc = "sent" /\ x.at = p) =>
            x.rows[p] \in RowRecords /\ x.steps[p[1]] \in Seq(StepRecords)
    <3>1. SUFFICES ASSUME NEW p \in Pairs, p \in x.todo \/ (x.pc = "sent" /\ x.at = p)
                   PROVE  x.rows[p] \in RowRecords /\ x.steps[p[1]] \in Seq(StepRecords)
      OBVIOUS
    <3>2. p \in todo BY <3>1, <1>1
    <3> QED BY <3>2, <1>3
  <2>2. x.pc \in {"idle", "run", "sent", "follow"} /\ x.pc \notin {"idle", "sent", "follow"} /\ x.todo \subseteq Pairs
    BY <1>1
  <2> QED BY <2>1, <2>2, <1>e, Zenon DEF IsTick
<1> QED BY <1>1, <1>3, <1>4

\* A worker that is idle has nothing in hand.
LEMMA IdleHolds ==
    ASSUME NEW k, Ticks(k), NEW w \in Workers, k[w].pc = "idle" PROVE \A p \in Pairs : ~Holding(k, w, p)
  BY Zenon DEF Ticks, IsTick, Holding, Todo, Sending

\* A tick begins.
LEMMA StartTickStep == ASSUME SequenceInv, NEW w \in Workers, StartTick(w) PROVE SequenceInv'
<1>0. /\ SequenceTypes /\ Ticks(tick) /\ tally \in Tallies /\ row \in AllRows /\ sequence \in AllSequences
      /\ SequencesOK(sequence) /\ PairsOK(sequence, row, tick, sent, tally)
  BY DEF SequenceInv, SequenceTypes
<1>1. UNCHANGED <<sequence, row, sent, inbox, poll, request>> /\ tick[w].pc = "idle" BY DEF StartTick, people
<1>2. PICK todo \in Batches :
          LET t == [tally EXCEPT !.listed[w] = todo \ tally.stopped,
                                    !.unblocked[w] = {p[2] : p \in {q \in todo : blocked[q[2]] = None}}]
          IN  /\ tick' = [tick EXCEPT ![w] = Begun(sequence, row, blocked, todo)]
              /\ IF \A v \in Workers : tick[v].pc = "idle" THEN tally' = t
                 ELSE Mishap(Mark(t, Due, "overlap"))
  BY Zenon DEF StartTick, Begun
<1>d. todo \subseteq Due /\ Due \subseteq Pairs BY DEF Batches, kSubset, Due
<1>L. PICK L : L = {p[2] : p \in {q \in todo : blocked[q[2]] = None}} OBVIOUS
<1>t. PICK t : t = Listed(tally, w, todo \ tally.stopped, L) OBVIOUS
<1>x. PICK x : x = Begun(sequence, row, blocked, todo) OBVIOUS
<1>k. PICK k2 : k2 = tick' OBVIOUS
<1>3. /\ k2 = Seat(tick, w, x)
      /\ IF \A v \in Workers : tick[v].pc = "idle" THEN tally' = t ELSE Mishap(Mark(t, Due, "overlap"))
  BY <1>2, <1>L, <1>t, <1>x, <1>k, Zenon DEF Seat, Listed
<1>4. L \in SUBSET Leads /\ (todo \ tally.stopped) \in SUBSET Pairs BY <1>d, <1>L DEF Pairs
<1>5. /\ t \in Tallies /\ t.stopped = tally.stopped /\ t.unwelcome = tally.unwelcome
      /\ t.intruded = tally.intruded /\ t.marred = tally.marred
      /\ t.listed[w] = todo \ tally.stopped /\ t.unblocked[w] = L
      /\ \A v \in Workers : v # w => t.listed[v] = tally.listed[v] /\ t.unblocked[v] = tally.unblocked[v]
  BY <1>0, <1>t, <1>4, ListedIs
<1>6. /\ Worse(t, tally')
      /\ (\A v \in Workers : tick[v].pc = "idle") \/ \A p \in Pairs : p \in Due => "overlap" \in tally'.marred[p]
  BY <1>3, <1>5, WorseSelf, MarkedEvent, MarksAre
<1>u. PICK u : u = tally' OBVIOUS
<1>7. /\ u \in Tallies /\ u.stopped = tally.stopped /\ u.unwelcome = tally.unwelcome
      /\ u.intruded = tally.intruded /\ u.listed[w] = todo \ tally.stopped /\ u.unblocked[w] = L
      /\ \A v \in Workers : v # w => u.listed[v] = tally.listed[v] /\ u.unblocked[v] = tally.unblocked[v]
      /\ \A p \in Pairs : tally.marred[p] \subseteq u.marred[p]
      /\ (\A v \in Workers : tick[v].pc = "idle") \/ \A p \in Pairs : p \in Due => "overlap" \in u.marred[p]
  BY <1>5, <1>6, <1>u DEF Worse
<1>8. /\ IsTick(x) /\ x.pc = "run" /\ x.todo = todo
      /\ \A p \in Pairs : p \in todo =>
            /\ x.rows[p] = row[p[1]][p[2]] /\ x.steps[p[1]] = sequence[p[1]].steps /\ x.blocked[p[2]] = blocked[p[2]]
  BY <1>d, <1>0, <1>x, BegunIs
<1>9. Ticks(k2) /\ k2[w] = x /\ \A v \in Workers : v # w => k2[v] = tick[v] BY <1>0, <1>3, <1>8, WithTick
<1>10. \A p \in Pairs : ~Holding(tick, w, p) BY <1>0, <1>1, IdleHolds
<1>11. ASSUME NEW p \in Pairs PROVE PairOK(sequence, row, k2, sent, u, p)
  <2>1. PairOK(sequence, row, tick, sent, tally, p) BY <1>0, Zenon DEF PairsOK
  <2>2. /\ u.stopped = tally.stopped /\ u.unwelcome = tally.unwelcome /\ tally.marred[p] \subseteq u.marred[p]
        /\ ~Sending(k2, w, p) /\ (Todo(k2, w, p) <=> p \in todo)
    BY <1>7, <1>8, <1>9 DEF Sending, Todo
  <2>3. CASE p \notin todo
    <3>1. \A v \in Workers : Fewer(tick, k2, v, p)
      <4> TAKE v \in Workers
      <4>1. CASE v = w BY <4>1, <2>2, <2>3, Zenon DEF Fewer, Holding
      <4>2. CASE v # w BY <4>2, <1>9, Zenon DEF Fewer, Todo, Sending
      <4> QED BY <4>1, <4>2
    <3>2. \A v \in Workers : Todo(k2, v, p) => u.listed[v] = tally.listed[v] /\ u.unblocked[v] = tally.unblocked[v]
      BY <1>7, <2>2, <2>3
    <3>3. \A v \in Workers : Sending(tick, v, p) /\ ~Sending(k2, v, p) => ~SpareO(u, p)
      <4> SUFFICES ASSUME NEW v \in Workers, Sending(tick, v, p), ~Sending(k2, v, p) PROVE FALSE OBVIOUS
      <4>1. v # w BY <1>10, Zenon DEF Holding
      <4> QED BY <4>1, <1>9, Zenon DEF Sending
    <3> QED BY <2>1, <2>2, <3>1, <3>2, <3>3, FewerPair
  <2>4. CASE p \in todo
    <3>1. p[1] \in SequenceIds /\ p[2] \in Leads BY DEF Pairs
    <3>2. StepsOK(sequence, p[1]) /\ StatusOf(row, p) = "active"
      BY <1>0, <1>d, <2>4, <3>1 DEF SequencesOK, StatusOf, Due, Is
    <3>3. StepOf(k2, w, p) = row[p[1]][p[2]].step /\ StepsOf(k2, w, p) = sequence[p[1]].steps
      BY <1>8, <1>9, <2>4 DEF StepOf, StepsOf
    <3>4. p \in u.listed[w] \/ p \in tally.stopped BY <1>7, <2>4
    <3>5. k2[w].blocked[p[2]] = None => p[2] \in u.unblocked[w] BY <1>7, <1>8, <1>9, <1>L, <2>4
    <3>6. SpareO(u, p) => \A v \in Workers : ~Holding(tick, v, p)
      <4>1. SUFFICES ASSUME SpareO(u, p), NEW v \in Workers PROVE ~Holding(tick, v, p) OBVIOUS
      <4>2. "overlap" \notin u.marred[p] BY <4>1 DEF SpareO
      <4>3. tick[v].pc = "idle" BY <4>2, <1>7, <1>d, <2>4
      <4> QED BY <4>3, <1>0, IdleHolds
    <3>7. \A v \in Workers : v # w =>
              k2[v] = tick[v] /\ u.listed[v] = tally.listed[v] /\ u.unblocked[v] = tally.unblocked[v]
      BY <1>7, <1>9
    <3>8. ~Holding(tick, w, p) /\ Todo(k2, w, p) /\ ~Sending(k2, w, p) BY <1>10, <2>2, <2>4
    <3> QED BY <1>0, <2>1, <2>2, <3>2, <3>3, <3>4, <3>5, <3>6, <3>7, <3>8, TakenPair
  <2> QED BY <2>3, <2>4
<1>12. PairsOK(sequence, row, k2, sent, u) BY <1>11, Zenon DEF PairsOK
<1>13. SequenceTypes' BY <1>0, <1>1, <1>7, <1>9, <1>u, <1>k DEF SequenceTypes
<1>14. PairsOK(sequence, row, tick, sent, tally)' BY <1>12, <1>1, <1>u, <1>k
<1>15. SequencesOK(sequence)' /\ (tally.intruded = {})' BY <1>0, <1>1, <1>7, <1>u DEF SequenceInv
<1> QED BY <1>13, <1>14, <1>15 DEF SequenceInv

\* What a tick decides of an enrollment, and that a mail has a step.
LEMMA VerdictIs ==
    ASSUME NEW w, NEW p
    PROVE  /\ Verdict(w, p) \in {"refuse", "complete", "skip", "park", "mail"}
           /\ Verdict(w, p) = "mail" => /\ tick[w].blocked[p[2]] = None
                                        /\ ~(StepOf(tick, w, p) >= Len(StepsOf(tick, w, p)))
BY DEF Verdict, Reason, StepOf, StepsOf

\* The row of an enrollment that is not mailed.
LEMMA UpdatedIs ==
    ASSUME NEW w, NEW p, NEW n \in RowRecords, n = row[p[1]][p[2]], n.status # None,
           StepOf(tick, w, p) \in Nat, Verdict(w, p) # "mail", NEW x, x = Updated(w, p)
    PROVE  /\ x \in RowRecords /\ x.status # None
           /\ Verdict(w, p) = "refuse" => x.step = n.step /\ x.status \notin {None, "active", "awaiting_manual_action"}
           /\ Verdict(w, p) = "complete" => x.step = n.step /\ x.status \notin {None, "active", "awaiting_manual_action"}
           /\ Verdict(w, p) = "skip" => x.step = StepOf(tick, w, p) + 1 /\ x.status = n.status
           /\ Verdict(w, p) = "park" => x.step = n.step /\ x.status = "awaiting_manual_action"
<1>v. PICK v : v = Verdict(w, p) OBVIOUS
<1>0. v \in {"refuse", "complete", "skip", "park"} BY <1>v, VerdictIs
<1>n. /\ {"completed", "unsubscribed", "bounced", "awaiting_manual_action"} \subseteq Statuses
      /\ None \notin {"completed", "unsubscribed", "bounced", "awaiting_manual_action"}
      /\ {"completed", "unsubscribed", "bounced"} \cap {None, "active", "awaiting_manual_action"} = {}
  BY DEF Statuses, None
<1>1. CASE v = "refuse"
  <2>s. PICK st : st = IF Reason(w, p[2]) = "unsubscribed" THEN "unsubscribed" ELSE "bounced" BY Zenon
  <2>1. st \in {"unsubscribed", "bounced"} /\ st \in Statuses BY <2>s, <1>n
  <2>2. x = [n EXCEPT !.status = st] BY <1>1, <1>v, <2>s DEF Updated, Row
  <2>3. x \in RowRecords /\ x.status = st /\ x.step = n.step BY <2>1, <2>2, StatusRow
  <2> QED BY <1>1, <1>v, <1>n, <2>1, <2>3
<1>2. CASE v = "complete"
  <2>1. x = [n EXCEPT !.status = "completed"] BY <1>2, <1>v DEF Updated, Row
  <2>2. x \in RowRecords /\ x.status = "completed" /\ x.step = n.step BY <2>1, <1>n, StatusRow
  <2> QED BY <1>2, <1>v, <1>n, <2>2
<1>3. CASE v = "skip"
  <2>n. PICK c : c = StepOf(tick, w, p) + 1 OBVIOUS
  <2>d. PICK d : d = NextDue(StepsOf(tick, w, p), StepOf(tick, w, p)) OBVIOUS
  <2>1. c \in Nat /\ d \in {"now", "later", "never"} BY <2>n, <2>d DEF NextDue
  <2>y. PICK y : y = [n EXCEPT !.step = c] OBVIOUS
  <2>z. PICK z : z = [y EXCEPT !.due = d] OBVIOUS
  <2>2. y \in RowRecords /\ y.status = n.status /\ y.step = c BY <2>1, <2>y, StepRow
  <2>3. z \in RowRecords /\ z.status = n.status /\ z.step = c BY <2>1, <2>2, <2>z, DueRow
  <2>4. x = z BY <1>3, <1>v, <2>n, <2>d, <2>y, <2>z DEF Updated, Row, StepOf, StepsOf
  <2> QED BY <1>3, <1>v, <2>n, <2>3, <2>4
<1>4. CASE v = "park"
  <2>1. x = [n EXCEPT !.status = "awaiting_manual_action"] BY <1>4, <1>v DEF Updated, Row
  <2>2. x \in RowRecords /\ x.status = "awaiting_manual_action" /\ x.step = n.step BY <2>1, <1>n, StatusRow
  <2> QED BY <1>4, <1>v, <1>n, <2>2
<1> QED BY <1>0, <1>1, <1>2, <1>3, <1>4

\* An enrollment is ended, skipped or put aside.
LEMMA DecideStep == ASSUME SequenceInv, NEW w \in Workers, NEW p \in Pairs, Decide(w, p) PROVE SequenceInv'
<1>0. /\ SequenceTypes /\ Ticks(tick) /\ tally \in Tallies /\ row \in AllRows /\ sequence \in AllSequences
      /\ sent \in AllSent /\ PairsOK(sequence, row, tick, sent, tally)
  BY DEF SequenceInv, SequenceTypes
<1>1. /\ UNCHANGED <<sequence, sent, inbox, poll, request>> /\ tick[w].pc = "run" /\ Todo(tick, w, p)
      /\ Verdict(w, p) # "mail"
  BY DEF Decide, people, Todo
<1>s. \A o \in Pairs : ~Sending(tick, w, o) BY <1>1 DEF Sending
<1>2. CASE Is(p[1], p[2], {None}) BY <1>2, Zenon, IdleIsTick, <1>0, <1>1, <1>s, LessSteps DEF Decide, Seat, Less
<1>3. CASE ~Is(p[1], p[2], {None})
  <2>n. PICK n : n = row[p[1]][p[2]] OBVIOUS
  <2>p. p[1] \in SequenceIds /\ p[2] \in Leads BY DEF Pairs
  <2>1. n \in RowRecords /\ n.status # None /\ n.step \in Nat
    BY <1>0, <1>3, <2>n, <2>p DEF AllRows, Is, RowRecords
  <2>2. StepOf(tick, w, p) \in Nat BY <1>0, Zenon, <1>1 DEF Ticks, IsTick, Todo, StepOf, RowRecords
  <2>x. PICK x : x = Updated(w, p) OBVIOUS
  <2>3. /\ x \in RowRecords /\ x.status # None
        /\ Verdict(w, p) = "refuse" => x.step = n.step /\ x.status \notin {None, "active", "awaiting_manual_action"}
        /\ Verdict(w, p) = "complete" => x.step = n.step /\ x.status \notin {None, "active", "awaiting_manual_action"}
        /\ Verdict(w, p) = "skip" => x.step = StepOf(tick, w, p) + 1 /\ x.status = n.status
        /\ Verdict(w, p) = "park" => x.step = n.step /\ x.status = "awaiting_manual_action"
    BY <1>1, <2>1, <2>2, <2>n, <2>x, UpdatedIs
  <2>v. Verdict(w, p) \in {"refuse", "complete", "skip", "park"} BY <1>1, VerdictIs
  <2>4. /\ tick' = Rest(w, p) /\ row' = RowPut(row, p[1], p[2], x)
        /\ tally' = IF SkippedLast(w, p) THEN Mark(tally, {p}, "stuck")
                    ELSE IF Verdict(w, p) = "refuse" THEN Stop(tally, p, w) ELSE tally
    BY <1>3, <2>x, Zenon DEF Decide, With, RowPut
  <2>r. PICK r2 : r2 = row' OBVIOUS
  <2>5. /\ r2 \in AllRows /\ r2[p[1]][p[2]] = x
        /\ \A a \in SequenceIds, b \in Leads : a # p[1] \/ b # p[2] => r2[a][b] = row[a][b]
    BY <1>0, <2>p, <2>3, <2>4, <2>r, WithRow
  <2>k. PICK k2 : k2 = tick' OBVIOUS
  <2>y. PICK y : y = TickOf(tick[w], "run", tick[w].todo \ {p}, tick[w].at, tick[w].box) OBVIOUS
  <2>6. k2 = Seat(tick, w, y) /\ IsTick(y) /\ Less(tick[w], y) /\ y.todo = tick[w].todo \ {p} /\ y.pc = "run"
    BY <1>0, <1>1, <2>4, <2>k, <2>y, RestIs, TickFields
  <2>7. Ticks(k2) /\ k2[w] = y /\ \A v \in Workers : v # w => k2[v] = tick[v] BY <1>0, <2>6, WithTick
  <2>8. PairsOK(sequence, row, k2, sent, tally) BY <2>6, <2>7, <1>0, <1>s, LessMove
  <2>9. ~Holding(k2, w, p) BY <2>6, <2>7 DEF Holding, Todo, Sending
  <2>10. StoppedOK(sequence, row, tick, tally, p) /\ OnceOK(sequence, row, tick, sent, tally, p)
    BY <1>0, Zenon DEF PairsOK, PairOK
  <2>11. SpareO(tally, p) => \A v \in Workers : ~Holding(k2, v, p)
    <3>1. SUFFICES ASSUME SpareO(tally, p), NEW v \in Workers, Holding(k2, v, p) PROVE FALSE OBVIOUS
    <3>2. v # w BY <2>9, <3>1
    <3>3. Holding(tick, v, p) BY <2>7, <3>1, <3>2, Zenon DEF Holding, Todo, Sending
    <3>4. Holding(tick, w, p) BY <1>1, Zenon DEF Holding
    <3> QED BY <2>10, <3>1, <3>2, <3>3, <3>4, Zenon DEF OnceOK
  <2>12. SpareO(tally, p) => n.step = StepOf(tick, w, p)
    <3>1. SUFFICES ASSUME SpareO(tally, p) PROVE n.step = StepOf(tick, w, p) OBVIOUS
    <3>2. TickOK(row, tick, sent, w, p) BY <2>10, <3>1, Zenon DEF OnceOK
    <3>3. Holding(tick, w, p) BY <1>1, Zenon DEF Holding
    <3> QED BY <2>1, <2>n, <3>2, <3>3, Zenon DEF TickOK, StatusOf
  <2>13. Rewritten(sequence, row, r2, k2, tally, p)
    <3>1. SpareO(tally, p) /\ Verdict(w, p) = "skip" => x.step > n.step BY <2>1, <2>2, <2>3, <2>12
    <3>2. x.step = n.step \/ (SpareO(tally, p) => x.step > n.step) BY <2>3, <2>v, <3>1
    <3>3. row[p[1]][p[2]] = n /\ r2[p[1]][p[2]] = x BY <2>n, <2>5
    <3> QED BY <2>1, <2>3, <2>11, <3>2, <3>3, Zenon DEF Rewritten
  <2>14. /\ \A o \in Pairs : Rewritten(sequence, row, r2, k2, tally, o)
         /\ \A o \in Pairs : o # p /\ StatusOf(r2, o) \in {"active", "awaiting_manual_action"} =>
                 StatusOf(row, o) \in {None, "active", "awaiting_manual_action"}
    <3>1. p = <<p[1], p[2]>> BY PairsAre
    <3>2. \A a \in SequenceIds, b \in Leads : a # p[1] \/ b # p[2] => Tidy(sequence, row[a][b], r2[a][b], a)
      BY <2>5, Zenon DEF Tidy
    <3>3. Rewritten(sequence, row, r2, k2, tally, <<p[1], p[2]>>) BY <3>1, <2>13, Zenon
    <3>4. /\ \A o \in Pairs : Rewritten(sequence, row, r2, k2, tally, o)
          /\ \A o \in Pairs : o # <<p[1], p[2]>> /\ StatusOf(r2, o) \in {"active", "awaiting_manual_action"} =>
                 StatusOf(row, o) \in {None, "active", "awaiting_manual_action"}
      BY <2>p, <3>2, <3>3, OneRow
    <3> QED BY <3>1, <3>4, Zenon
  <2>u. PICK u : u = tally' OBVIOUS
  <2>15. /\ u \in Tallies /\ u.listed = tally.listed /\ u.unblocked = tally.unblocked
         /\ u.unwelcome = tally.unwelcome /\ u.intruded = tally.intruded
         /\ \A o \in Pairs : tally.marred[o] \subseteq u.marred[o]
         /\ \/ u.stopped = tally.stopped
            \/ /\ Verdict(w, p) = "refuse" /\ u.stopped = tally.stopped \cup {p}
               /\ InHand(p, w) => ~SpareS(u, p)
    BY <2>4, <2>u, <1>0, MarkWorse, MarksAre, StopWorse DEF Worse
  <2>16. ASSUME NEW o \in Pairs, o \in u.stopped
         PROVE  /\ \/ o \in tally.stopped
                   \/ StatusOf(row, o) # None /\ \A v \in Workers : Todo(k2, v, o) => ~SpareS(u, o)
                /\ SpareS(u, o) =>
                     \/ StatusOf(r2, o) \notin {"active", "awaiting_manual_action"}
                     \/ o \in tally.stopped /\ StatusOf(row, o) \in {None, "active", "awaiting_manual_action"}
    <3>1. CASE o # p BY <3>1, <2>16, <2>15, <2>14
    <3>2. CASE o = p
      <4>0. StatusOf(row, p) = n.status /\ StatusOf(r2, p) = x.status BY <2>n, <2>5 DEF StatusOf
      <4>1. CASE Verdict(w, p) = "refuse"
        <5>1. \/ o \in tally.stopped
              \/ \A v \in Workers : Todo(k2, v, p) => ~SpareS(u, p)
          <6>1. SUFFICES ASSUME o \notin tally.stopped, NEW v \in Workers, Todo(k2, v, p) PROVE ~SpareS(u, p)
            OBVIOUS
          <6>2. v # w BY <2>9, <6>1, Zenon DEF Holding
          <6>3. Todo(tick, v, p) BY <2>7, <6>1, <6>2, Zenon DEF Todo
          <6>4. InHand(p, w) BY <6>2, <6>3, Zenon DEF InHand, Todo
          <6> QED BY <6>1, <6>4, <2>15, <2>16, <3>2
        <5> QED BY <3>2, <4>0, <4>1, <5>1, <2>1, <2>3
      <4>2. CASE Verdict(w, p) # "refuse"
        BY <4>2, <2>15, <2>16, <3>2, <1>1, <2>10, Zenon, WorseSpares DEF StoppedOK
      <4> QED BY <4>1, <4>2
    <3> QED BY <3>1, <3>2
  <2>17. PairsOK(sequence, r2, k2, sent, u) BY <1>0, <2>5, <2>8, <2>14, <2>15, <2>16, RowsMove
  <2>18. SequenceTypes' BY <1>0, <1>1, <2>5, <2>7, <2>15, <2>r, <2>k, <2>u DEF SequenceTypes
  <2>19. PairsOK(sequence, row, tick, sent, tally)' BY <2>17, <1>1, <2>r, <2>k, <2>u
  <2>20. SequencesOK(sequence)' /\ (tally.intruded = {})' BY <1>1, <2>15, <2>u DEF SequenceInv
  <2> QED BY <2>18, <2>19, <2>20 DEF SequenceInv
<1> QED BY <1>2, <1>3

\* A mail is counted: who had opted out, and whose address was suppressed, when the tick began.
Counted(t, P, L) == [t EXCEPT !.unwelcome = P, !.intruded = L]

\* The mails that went to who was stopped or suppressed are all that differs.
LEMMA CountedIs ==
    ASSUME NEW t, t \in Tallies, NEW P, P \subseteq Pairs, NEW L, L \subseteq Leads, NEW u, u = Counted(t, P, L)
    PROVE  /\ u \in Tallies /\ u.stopped = t.stopped /\ u.listed = t.listed /\ u.unblocked = t.unblocked
           /\ u.unwelcome = P /\ u.intruded = L /\ u.marred = t.marred
  BY DEF Tallies, Counted

\* The mailbox that a mail came from is noted.
LEMMA FromIs ==
    ASSUME NEW t \in Tallies, NEW p \in Pairs, NEW b \in Boxes,
           NEW u, u = [t EXCEPT !.from = @ \cup {<<p[1], p[2], b>>}]
    PROVE  Worse(t, u)
  BY DEF Pairs, Tallies, Worse

\* A mail that reaches a lead.
LEMMA DeliveredIs ==
    ASSUME tally \in Tallies, NEW p \in Pairs, NEW w \in Workers, NEW b \in Boxes \cup {"ses"},
           NEW u, u = Delivered(tally, w, p, b)
    PROVE  /\ u \in Tallies /\ u.stopped = tally.stopped /\ u.listed = tally.listed /\ u.unblocked = tally.unblocked
           /\ u.unwelcome = tally.unwelcome \cup ({p} \ tally.listed[w])
           /\ u.intruded = tally.intruded \cup ({p[2]} \ tally.unblocked[w])
           /\ \A o \in Pairs : tally.marred[o] \subseteq u.marred[o]
<1>P. PICK P : P = tally.unwelcome \cup ({p} \ tally.listed[w]) OBVIOUS
<1>L. PICK L : L = tally.intruded \cup ({p[2]} \ tally.unblocked[w]) OBVIOUS
<1>x. PICK x : x = Counted(tally, P, L) OBVIOUS
<1>1. tally \in Tallies /\ P \subseteq Pairs /\ L \subseteq Leads BY <1>P, <1>L DEF Pairs, Tallies
<1>2. /\ x \in Tallies /\ x.stopped = tally.stopped /\ x.listed = tally.listed /\ x.unblocked = tally.unblocked
      /\ x.unwelcome = P /\ x.intruded = L /\ x.marred = tally.marred
  BY <1>1, <1>x, CountedIs
<1>v. PICK v : v = IF b = "ses" \/ b = tick[w].rows[p].box \/ tick[w].rows[p].step = 0 THEN x
                   ELSE Mark(x, {p}, "boxless")
  BY Zenon
<1>3. Worse(x, v) BY <1>v, Zenon, <1>2, WorseSelf, MarkWorse, MarksAre
<1>4. v \in Tallies BY <1>3 DEF Worse
<1>5. u = IF b = "ses" THEN Mark(v, {p}, "boxless") ELSE [v EXCEPT !.from = @ \cup {<<p[1], p[2], b>>}]
  BY <1>P, <1>L, <1>x, <1>v, Zenon DEF Delivered, Counted
<1>6. Worse(v, u)
  <2>1. CASE b = "ses"
    <3>1. u = Mark(v, {p}, "boxless") BY <1>5, <2>1, Zenon
    <3> QED BY <1>4, <3>1, MarkWorse, MarksAre
  <2>2. CASE b # "ses" BY <2>2, <1>5, Zenon, <1>4, FromIs
  <2> QED BY <2>1, <2>2
<1>7. Worse(x, u) BY <1>3, <1>6, WorseTwice
<1> QED BY <1>2, <1>7, <1>P, <1>L DEF Worse

\* A mail of a step reaches a lead.
Another(m, s, l, id) == [m EXCEPT ![s][l][id] = @ + 1]

\* One more mail of one step, and no other.
LEMMA AnotherIs ==
    ASSUME NEW m \in AllSent, NEW p \in Pairs, NEW id \in StepIds, NEW m2, m2 = Another(m, p[1], p[2], id)
    PROVE  /\ m2 \in AllSent /\ OneMore(m, m2, p, id) /\ SameElse(m, m2, p, id)
           /\ \A o \in Pairs : o # p => m2[o[1]][o[2]] = m[o[1]][o[2]]
<1>s. PICK s \in SequenceIds : s = p[1] BY DEF Pairs
<1>l. PICK l \in Leads : l = p[2] BY DEF Pairs
<1>1. m \in [SequenceIds -> [Leads -> [StepIds -> Nat]]] BY DEF AllSent
<1>f. PICK f : f = [m[s][l] EXCEPT ![id] = @ + 1] OBVIOUS
<1>2. /\ f \in [StepIds -> Nat] /\ f[id] = m[s][l][id] + 1
      /\ \A i \in StepIds : i # id => f[i] = m[s][l][i]
  BY <1>1, <1>f
<1>g. PICK g : g = [m[s] EXCEPT ![l] = f] OBVIOUS
<1>3. g \in [Leads -> [StepIds -> Nat]] /\ g[l] = f /\ \A b \in Leads : b # l => g[b] = m[s][b]
  BY <1>1, <1>2, <1>g
<1>h. PICK h : h = [m EXCEPT ![s] = g] OBVIOUS
<1>4. /\ h \in [SequenceIds -> [Leads -> [StepIds -> Nat]]] /\ h[s] = g
      /\ \A a \in SequenceIds : a # s => h[a] = m[a]
  BY <1>1, <1>3, <1>h
<1>5. m2 = h BY <1>s, <1>l, <1>f, <1>g, <1>h DEF Another
<1>6. ASSUME NEW o \in Pairs, o # p PROVE m2[o[1]][o[2]] = m[o[1]][o[2]]
  BY <1>6, <1>s, <1>l, <1>4, <1>5, <1>3 DEF Pairs
<1> QED BY <1>2, <1>3, <1>4, <1>5, <1>6, <1>s, <1>l DEF AllSent, OneMore, SameElse

\* The other enrollments, when a tick deals with one.
LEMMA OthersPair ==
    ASSUME NEW q, NEW r, NEW r2, NEW k, NEW k2, NEW m, NEW m2, NEW t, NEW u, NEW w \in Workers, NEW o \in Pairs,
           PairOK(q, r, k, m, t, o), \A v \in Workers : v # w => k2[v] = k[v],
           Todo(k2, w, o) => Todo(k, w, o), k2[w].rows = k[w].rows, k2[w].steps = k[w].steps,
           k2[w].blocked = k[w].blocked, ~Sending(k2, w, o), ~Sending(k, w, o),
           u.stopped = t.stopped, u.listed = t.listed, u.unblocked = t.unblocked,
           o \in u.unwelcome => o \in t.unwelcome, t.marred[o] \subseteq u.marred[o],
           r2[o[1]][o[2]] = r[o[1]][o[2]], m2[o[1]][o[2]] = m[o[1]][o[2]]
    PROVE  PairOK(q, r2, k2, m2, u, o)
<1>1. PairOK(q, r, k, m, t, o) OBVIOUS
<1>3. \A v \in Workers : Fewer(k, k2, v, o)
  <2> TAKE v \in Workers
  <2>1. CASE v = w BY <2>1, Zenon DEF Fewer
  <2>2. CASE v # w BY <2>2, Zenon DEF Fewer, Todo, Sending
  <2> QED BY <2>1, <2>2
<1>4. \A v \in Workers : Sending(k, v, o) /\ ~Sending(k2, v, o) => ~SpareO(u, o)
  <2> SUFFICES ASSUME NEW v \in Workers, Sending(k, v, o), ~Sending(k2, v, o) PROVE FALSE OBVIOUS
  <2>1. v # w OBVIOUS
  <2> QED BY <2>1, Zenon DEF Sending
<1>5. PairOK(q, r, k2, m, u, o) BY <1>1, <1>3, <1>4, FewerPair
<1> QED BY <1>5, ElsewherePair

\* What is known of an enrollment that a tick is to mail.
LEMMA ToMailIs ==
    ASSUME SequenceInv, NEW w \in Workers, NEW p \in Pairs, Todo(tick, w, p), Verdict(w, p) = "mail"
    PROVE  /\ NextStep(tick, w, p, StepId(w, p)) /\ StepId(w, p) \in StepIds /\ p[2] \in tally.unblocked[w]
<1>1. Ticks(tick) /\ PairsOK(sequence, row, tick, sent, tally) BY DEF SequenceInv, SequenceTypes
<1>2. IsTick(tick[w]) BY <1>1, Zenon DEF Ticks
<1>3. tick[w].rows[p] \in RowRecords /\ tick[w].steps[p[1]] \in Seq(StepRecords) BY <1>2, Zenon DEF IsTick, Todo
<1>n. PICK n : n = StepOf(tick, w, p) OBVIOUS
<1>S. PICK S : S = StepsOf(tick, w, p) OBVIOUS
<1>4. n \in Nat /\ S \in Seq(StepRecords) BY <1>3, <1>n, <1>S DEF StepOf, StepsOf, RowRecords
<1>5. Len(S) \in Nat BY <1>4
<1>6. n < Len(S) /\ tick[w].blocked[p[2]] = None BY <1>4, <1>5, <1>n, <1>S, VerdictIs
<1>7. n + 1 \in DOMAIN S /\ S[n + 1] \in StepRecords BY <1>4, <1>5, <1>6
<1>8. S[n + 1].id \in StepIds BY <1>7 DEF StepRecords
<1>9. StepId(w, p) = S[n + 1].id BY <1>n, <1>S, Zenon DEF StepId, StepOf, StepsOf
<1>10. p[2] \in tally.unblocked[w] BY <1>1, <1>6, Zenon DEF PairsOK, PairOK, StoppedOK
<1> QED BY <1>4, <1>6, <1>8, <1>9, <1>10, <1>n, <1>S DEF NextStep

\* The mail goes out, and the lead has it.
LEMMA MailStep == ASSUME SequenceInv, NEW w \in Workers, NEW p \in Pairs, Mail(w, p) PROVE SequenceInv'
<1>0. /\ SequenceTypes /\ Ticks(tick) /\ tally \in Tallies /\ row \in AllRows /\ sequence \in AllSequences
      /\ sent \in AllSent /\ PairsOK(sequence, row, tick, sent, tally) /\ tally.intruded = {}
  BY DEF SequenceInv, SequenceTypes
<1>1. /\ UNCHANGED <<sequence, row, inbox, poll, request>> /\ tick[w].pc = "run" /\ Todo(tick, w, p)
      /\ Verdict(w, p) = "mail"
  BY DEF Mail, people, Todo
<1>2. PICK b \in Senders(tick[w].rows[p]) :
          /\ tick'  = [tick EXCEPT ![w].pc = "sent", ![w].todo = @ \ {p}, ![w].at = p, ![w].box = b]
          /\ tally' = Delivered(tally, w, p, b)
  BY Zenon DEF Mail
<1>b. b \in Boxes \cup {"ses"} BY DEF Senders
<1>k. PICK k : k = tick[w] OBVIOUS
<1>x. PICK x : x = TickOf(k, "sent", k.todo \ {p}, p, b) OBVIOUS
<1>y. PICK k2 : k2 = tick' OBVIOUS
<1>u. PICK u : u = tally' OBVIOUS
<1>m. PICK m2 : m2 = sent' OBVIOUS
<1>i. PICK id : id = StepId(w, p) OBVIOUS
<1>3. /\ NextStep(tick, w, p, id) /\ id \in StepIds /\ p[2] \in tally.unblocked[w] BY <1>1, <1>i, ToMailIs
<1>4. IsTick(k) BY <1>0, <1>k, Zenon DEF Ticks
<1>5. k2 = Seat(tick, w, x)
  <2>0. x = MovesOn(k, "sent", k.todo \ {p}, p, b) BY <1>x, <1>4, MovesOnIs, Zenon
  <2>1. x = [k EXCEPT !.pc = "sent", !.todo = k.todo \ {p}, !.at = p, !.box = b] BY <2>0, Zenon DEF MovesOn
  <2>2. k2 = [tick EXCEPT ![w] = x] BY <2>1, <1>2, <1>k, <1>y
  <2> QED BY <2>2, Zenon DEF Seat
<1>6. /\ x.pc = "sent" /\ x.todo = k.todo \ {p} /\ x.at = p /\ x.rows = k.rows /\ x.steps = k.steps
      /\ x.blocked = k.blocked
  BY <1>x, TickFields
<1>e. \E a1, a2, a3, a4, a5, a6, a7 :
         x = [pc |-> a1, todo |-> a2, rows |-> a3, steps |-> a4, blocked |-> a5, at |-> a6, box |-> a7]
  BY <1>x, Zenon DEF TickOf
<1>7. IsTick(x)
  <2>1. /\ k.todo \subseteq Pairs /\ p \in k.todo
        /\ \A o \in Pairs : o \in k.todo => k.rows[o] \in RowRecords /\ k.steps[o[1]] \in Seq(StepRecords)
    BY <1>1, <1>4, <1>k, Zenon DEF IsTick, Todo
  <2>2. ASSUME NEW o \in Pairs, o \in x.todo \/ (x.pc = "sent" /\ x.at = o)
        PROVE  x.rows[o] \in RowRecords /\ x.steps[o[1]] \in Seq(StepRecords)
    BY <2>1, <2>2, <1>6
  <2>3. /\ x.pc \in {"idle", "run", "sent", "follow"} /\ x.pc # "idle" /\ x.todo \subseteq Pairs
        /\ x.at \in Pairs /\ x.at \notin x.todo
    BY <2>1, <1>6
  <2> QED BY <2>2, <2>3, <1>e, Zenon DEF IsTick
<1>8. Ticks(k2) /\ k2[w] = x /\ \A v \in Workers : v # w => k2[v] = tick[v] BY <1>0, <1>5, <1>7, WithTick
<1>9. /\ u \in Tallies /\ u.stopped = tally.stopped /\ u.listed = tally.listed /\ u.unblocked = tally.unblocked
      /\ u.unwelcome = tally.unwelcome \cup ({p} \ tally.listed[w])
      /\ u.intruded = tally.intruded \cup ({p[2]} \ tally.unblocked[w])
      /\ \A o \in Pairs : tally.marred[o] \subseteq u.marred[o]
  BY <1>0, <1>2, <1>b, <1>u, DeliveredIs
<1>10. u.intruded = {} BY <1>0, <1>3, <1>9
<1>11. m2 = Another(sent, p[1], p[2], id) BY <1>i, <1>m, Zenon DEF Mail, Reached, Another
<1>12. /\ m2 \in AllSent /\ OneMore(sent, m2, p, id) /\ SameElse(sent, m2, p, id)
       /\ \A o \in Pairs : o # p => m2[o[1]][o[2]] = sent[o[1]][o[2]]
  BY <1>0, <1>3, <1>11, AnotherIs
<1>13. ASSUME NEW o \in Pairs, o # p PROVE PairOK(sequence, row, k2, m2, u, o)
  <2>0. PairOK(sequence, row, tick, sent, tally, o) BY <1>0, Zenon DEF PairsOK
  <2>1. ~Sending(k2, w, o) /\ ~Sending(tick, w, o) /\ (Todo(k2, w, o) => Todo(tick, w, o))
    BY <1>1, <1>6, <1>8, <1>13, <1>k DEF Sending, Todo
  <2>2. k2[w].rows = tick[w].rows /\ k2[w].steps = tick[w].steps /\ k2[w].blocked = tick[w].blocked
    BY <1>6, <1>8, <1>k
  <2>3. (o \in u.unwelcome => o \in tally.unwelcome) /\ tally.marred[o] \subseteq u.marred[o] BY <1>9, <1>13
  <2>4. m2[o[1]][o[2]] = sent[o[1]][o[2]] BY <1>12, <1>13
  <2>5. \A v \in Workers : v # w => k2[v] = tick[v] BY <1>8
  <2> QED BY <1>9, <2>0, <2>1, <2>2, <2>3, <2>4, <2>5, OthersPair
<1>14. PairOK(sequence, row, k2, m2, u, p)
  <2>1. PairOK(sequence, row, tick, sent, tally, p) BY <1>0, Zenon DEF PairsOK
  <2>2. ~Todo(k2, w, p) /\ Sending(k2, w, p) /\ tick[w].pc # "sent" BY <1>1, <1>6, <1>8 DEF Todo, Sending
  <2>3. StepOf(k2, w, p) = StepOf(tick, w, p) /\ StepsOf(k2, w, p) = StepsOf(tick, w, p)
    BY <1>6, <1>8, <1>k DEF StepOf, StepsOf
  <2>4. \A v \in Workers : v # w => k2[v] = tick[v] BY <1>8
  <2>5. tally.marred[p] \subseteq u.marred[p] /\ (p \in u.unwelcome => p \in tally.unwelcome \/ p \notin tally.listed[w])
    BY <1>9
  <2>6. /\ sequence \in AllSequences /\ row \in AllRows /\ sent \in AllSent /\ m2 \in AllSent
        /\ PairOK(sequence, row, tick, sent, tally, p) /\ Todo(tick, w, p) /\ tick[w].pc # "sent"
        /\ ~Todo(k2, w, p) /\ Sending(k2, w, p)
        /\ StepOf(k2, w, p) = StepOf(tick, w, p) /\ StepsOf(k2, w, p) = StepsOf(tick, w, p)
        /\ NextStep(tick, w, p, id)
        /\ \A v \in Workers : v # w => k2[v] = tick[v]
        /\ u.stopped = tally.stopped /\ u.listed = tally.listed /\ u.unblocked = tally.unblocked
        /\ p \in u.unwelcome => p \in tally.unwelcome \/ p \notin tally.listed[w]
        /\ tally.marred[p] \subseteq u.marred[p] /\ OneMore(sent, m2, p, id) /\ SameElse(sent, m2, p, id)
    BY <1>0, <1>1, <1>3, <1>9, <1>12, <2>1, <2>2, <2>3, <2>4, <2>5
  <2> QED BY <2>6, MailedPair
<1>15. PairsOK(sequence, row, k2, m2, u) BY <1>13, <1>14, Zenon DEF PairsOK
<1>16. SequenceTypes' BY <1>0, <1>1, <1>8, <1>9, <1>12, <1>y, <1>u, <1>m DEF SequenceTypes
<1>17. PairsOK(sequence, row, tick, sent, tally)' BY <1>15, <1>1, <1>y, <1>u, <1>m
<1>18. SequencesOK(sequence)' /\ (tally.intruded = {})' BY <1>1, <1>10, <1>u DEF SequenceInv
<1> QED BY <1>16, <1>17, <1>18 DEF SequenceInv

\* The call throws, after the mail was accepted or before.
LEMMA MailFailsStep == ASSUME SequenceInv, NEW w \in Workers, NEW p \in Pairs, MailFails(w, p) PROVE SequenceInv'
<1>0. /\ SequenceTypes /\ Ticks(tick) /\ tally \in Tallies /\ row \in AllRows /\ sequence \in AllSequences
      /\ sent \in AllSent /\ PairsOK(sequence, row, tick, sent, tally) /\ tally.intruded = {}
  BY DEF SequenceInv, SequenceTypes
<1>1. /\ UNCHANGED <<sequence, row, inbox, poll, request>> /\ tick[w].pc = "run" /\ Todo(tick, w, p)
      /\ Verdict(w, p) = "mail" /\ tick' = Rest(w, p)
  BY DEF MailFails, people, Todo
<1>2. CASE Event(tally) /\ sent' = sent BY <1>0, <1>2, EventWorse, <1>1, RestSteps
<1>3. CASE Mishap(Mark(Delivered(tally, w, p, "ses"), {p}, "again")) /\ sent' = Reached(w, p)
  <2>t. PICK t : t = Delivered(tally, w, p, "ses") OBVIOUS
  <2>1. /\ t \in Tallies /\ t.stopped = tally.stopped /\ t.listed = tally.listed /\ t.unblocked = tally.unblocked
        /\ t.unwelcome = tally.unwelcome \cup ({p} \ tally.listed[w])
        /\ t.intruded = tally.intruded \cup ({p[2]} \ tally.unblocked[w])
        /\ \A o \in Pairs : tally.marred[o] \subseteq t.marred[o]
    BY <1>0, <2>t, DeliveredIs
  <2>u. PICK u : u = tally' OBVIOUS
  <2>2. Worse(t, u) /\ "again" \in u.marred[p] BY <1>3, <2>t, <2>1, <2>u, MarkedEvent, MarksAre
  <2>3. /\ u \in Tallies /\ u.stopped = tally.stopped /\ u.listed = tally.listed /\ u.unblocked = tally.unblocked
        /\ u.unwelcome = tally.unwelcome \cup ({p} \ tally.listed[w])
        /\ u.intruded = tally.intruded \cup ({p[2]} \ tally.unblocked[w])
        /\ \A o \in Pairs : tally.marred[o] \subseteq u.marred[o]
    BY <2>1, <2>2 DEF Worse
  <2>4. ~SpareO(u, p) BY <2>2 DEF SpareO
  <2>y. PICK k2 : k2 = tick' OBVIOUS
  <2>m. PICK m2 : m2 = sent' OBVIOUS
  <2>i. PICK id : id = StepId(w, p) OBVIOUS
  <2>x. PICK x : x = TickOf(tick[w], "run", tick[w].todo \ {p}, tick[w].at, tick[w].box) OBVIOUS
  <2>5. /\ NextStep(tick, w, p, id) /\ id \in StepIds /\ p[2] \in tally.unblocked[w] BY <1>1, <2>i, ToMailIs
  <2>6. k2 = Seat(tick, w, x) /\ IsTick(x) BY <1>0, <1>1, <2>x, <2>y, RestIs
  <2>7. /\ x.pc = "run" /\ x.todo = tick[w].todo \ {p} /\ x.rows = tick[w].rows /\ x.steps = tick[w].steps
        /\ x.blocked = tick[w].blocked
    BY <2>x, TickFields
  <2>8. Ticks(k2) /\ k2[w] = x /\ \A v \in Workers : v # w => k2[v] = tick[v] BY <1>0, <2>6, WithTick
  <2>9. u.intruded = {} BY <1>0, <2>3, <2>5
  <2>10. m2 = Another(sent, p[1], p[2], id) BY <1>3, <2>i, <2>m, Zenon DEF Reached, Another
  <2>11. /\ m2 \in AllSent /\ SameElse(sent, m2, p, id)
         /\ \A o \in Pairs : o # p => m2[o[1]][o[2]] = sent[o[1]][o[2]]
    BY <1>0, <2>5, <2>10, AnotherIs
  <2>12. ASSUME NEW o \in Pairs, o # p PROVE PairOK(sequence, row, k2, m2, u, o)
    <3>0. PairOK(sequence, row, tick, sent, tally, o) BY <1>0, Zenon DEF PairsOK
    <3>1. ~Sending(k2, w, o) /\ ~Sending(tick, w, o) /\ (Todo(k2, w, o) => Todo(tick, w, o))
      BY <1>1, <2>7, <2>8 DEF Sending, Todo
    <3>2. k2[w].rows = tick[w].rows /\ k2[w].steps = tick[w].steps /\ k2[w].blocked = tick[w].blocked
      BY <2>7, <2>8
    <3>3. (o \in u.unwelcome => o \in tally.unwelcome) /\ tally.marred[o] \subseteq u.marred[o] BY <2>3, <2>12
    <3>4. m2[o[1]][o[2]] = sent[o[1]][o[2]] BY <2>11, <2>12
    <3>5. \A v \in Workers : v # w => k2[v] = tick[v] BY <2>8
    <3> QED BY <2>3, <3>0, <3>1, <3>2, <3>3, <3>4, <3>5, OthersPair
  <2>13. PairOK(sequence, row, k2, m2, u, p)
    <3>1. PairOK(sequence, row, tick, sent, tally, p) BY <1>0, Zenon DEF PairsOK
    <3>2. ~Holding(k2, w, p) BY <2>7, <2>8 DEF Holding, Todo, Sending
    <3>3. \A v \in Workers : v # w => k2[v] = tick[v] BY <2>8
    <3>4. tally.marred[p] \subseteq u.marred[p] /\ (p \in u.unwelcome => p \in tally.unwelcome \/ p \notin tally.listed[w])
      BY <2>3
    <3>6. /\ sequence \in AllSequences /\ row \in AllRows /\ sent \in AllSent /\ m2 \in AllSent
          /\ PairOK(sequence, row, tick, sent, tally, p) /\ Todo(tick, w, p) /\ ~Holding(k2, w, p)
          /\ NextStep(tick, w, p, id)
          /\ \A v \in Workers : v # w => k2[v] = tick[v]
          /\ u.stopped = tally.stopped /\ u.listed = tally.listed /\ u.unblocked = tally.unblocked
          /\ p \in u.unwelcome => p \in tally.unwelcome \/ p \notin tally.listed[w]
          /\ tally.marred[p] \subseteq u.marred[p] /\ ~SpareO(u, p) /\ SameElse(sent, m2, p, id)
      BY <1>0, <1>1, <2>3, <2>4, <2>5, <2>11, <3>1, <3>2, <3>3, <3>4
    <3> QED BY <3>6, UnknownPair
  <2>14. PairsOK(sequence, row, k2, m2, u) BY <2>12, <2>13, Zenon DEF PairsOK
  <2>15. SequenceTypes' BY <1>0, <1>1, <2>8, <2>3, <2>11, <2>y, <2>u, <2>m DEF SequenceTypes
  <2>16. PairsOK(sequence, row, tick, sent, tally)' BY <2>14, <1>1, <2>y, <2>u, <2>m
  <2>17. SequencesOK(sequence)' /\ (tally.intruded = {})' BY <1>1, <2>9, <2>u DEF SequenceInv
  <2> QED BY <2>15, <2>16, <2>17 DEF SequenceInv
<1>4. (Event(tally) /\ sent' = sent)
      \/ (Mishap(Mark(Delivered(tally, w, p, "ses"), {p}, "again")) /\ sent' = Reached(w, p))
  BY Zenon DEF MailFails
<1> QED BY <1>2, <1>3, <1>4

\* The row of a step that is recorded.
LEMMA AdvancedIs ==
    ASSUME NEW w, NEW p, p = tick[w].at, NEW n \in RowRecords, n = row[p[1]][p[2]],
           StepOf(tick, w, p) \in Nat, NEW x, x = Advanced(w)
    PROVE  x \in RowRecords /\ x.step = StepOf(tick, w, p) + 1 /\ x.status \in {n.status, "completed"}
<1>c. PICK c : c = StepOf(tick, w, p) + 1 OBVIOUS
<1>d. PICK d : d = NextDue(StepsOf(tick, w, p), StepOf(tick, w, p)) OBVIOUS
<1>b. PICK b : b = IF StepOf(tick, w, p) = 0 /\ tick[w].box \in Boxes THEN tick[w].box ELSE n.box BY Zenon
<1>s. PICK s : s = IF IsLast(w) THEN "completed" ELSE n.status BY Zenon
<1>1. c \in Nat /\ d \in {"now", "later", "never"} BY <1>c, <1>d DEF NextDue
<1>2. b \in Boxes \cup {None} BY <1>b DEF RowRecords
<1>3. s \in Statuses /\ s \in {n.status, "completed"} BY <1>s DEF RowRecords, Statuses
<1>y. PICK y1 : y1 = [n EXCEPT !.step = c] OBVIOUS
<1>4. y1 \in RowRecords /\ y1.step = c BY <1>1, <1>y, StepRow
<1>z. PICK y2 : y2 = [y1 EXCEPT !.due = d] OBVIOUS
<1>5. y2 \in RowRecords /\ y2.step = c BY <1>1, <1>4, <1>z, DueRow
<1>v. PICK y3 : y3 = [y2 EXCEPT !.box = b] OBVIOUS
<1>6. y3 \in RowRecords /\ y3.step = c BY <1>2, <1>5, <1>v, BoxRow
<1>w. PICK y4 : y4 = [y3 EXCEPT !.status = s] OBVIOUS
<1>7. y4 \in RowRecords /\ y4.step = c /\ y4.status = s BY <1>3, <1>6, <1>w, StatusRow
<1>8. x = y4 BY <1>c, <1>d, Zenon, <1>b, <1>s, <1>y, <1>z, <1>v, <1>w DEF Advanced, Row, StepOf, StepsOf
<1> QED BY <1>3, <1>7, <1>8, <1>c

\* The step is recorded, on the row as it is by now.
LEMMA AdvanceStep == ASSUME SequenceInv, NEW w \in Workers, Advance(w) PROVE SequenceInv'
<1>0. /\ SequenceTypes /\ Ticks(tick) /\ tally \in Tallies /\ row \in AllRows /\ sequence \in AllSequences
      /\ sent \in AllSent /\ PairsOK(sequence, row, tick, sent, tally)
  BY DEF SequenceInv, SequenceTypes
<1>k. PICK k : k = tick[w] OBVIOUS
<1>p. PICK p : p = k.at OBVIOUS
<1>1. UNCHANGED <<sequence, sent, inbox, poll, request, tally>> /\ k.pc = "sent" BY <1>k DEF Advance, people
<1>2. IsTick(k) BY <1>0, <1>k, Zenon DEF Ticks
<1>3. /\ p \in Pairs /\ p \notin k.todo /\ k.todo \subseteq Pairs
      /\ k.rows[p] \in RowRecords /\ k.steps[p[1]] \in Seq(StepRecords)
      /\ \A o \in Pairs : o \in k.todo => k.rows[o] \in RowRecords /\ k.steps[o[1]] \in Seq(StepRecords)
  BY <1>1, <1>2, <1>p, Zenon DEF IsTick
<1>4. Sending(tick, w, p) /\ ~Todo(tick, w, p) /\ StepOf(tick, w, p) \in Nat
  BY <1>1, <1>3, <1>k, <1>p DEF Sending, Todo, StepOf, RowRecords
<1>c. PICK pc : pc = IF IsLast(w) /\ ~Is(p[1], p[2], {None}) THEN "follow" ELSE "run" BY Zenon
<1>a. PICK at : at = IF IsLast(w) /\ ~Is(p[1], p[2], {None}) THEN p ELSE << >> BY Zenon
<1>x. PICK x : x = TickOf(k, pc, k.todo, at, None) OBVIOUS
<1>y. PICK k2 : k2 = tick' OBVIOUS
<1>5. pc \in {"run", "follow"} /\ (pc = "follow" => at = p) BY <1>c, <1>a
<1>6. k2 = Seat(tick, w, x)
  <2>0. x = Moves(k, pc, at, None) BY <1>2, <1>x, MovesIs
  <2>1. x = [k EXCEPT !.pc = pc, !.at = at, !.box = None] BY <2>0, Zenon DEF Moves
  <2>2. tick' = [tick EXCEPT ![w].pc = pc, ![w].at = at, ![w].box = None]
    BY <1>k, <1>p, <1>c, <1>a, Zenon DEF Advance
  <2>3. k2 = [tick EXCEPT ![w] = x] BY <2>1, <2>2, <1>k, <1>y
  <2> QED BY <2>3, Zenon DEF Seat
<1>7. /\ x.pc = pc /\ x.todo = k.todo /\ x.at = at /\ x.rows = k.rows /\ x.steps = k.steps
      /\ x.blocked = k.blocked
  BY <1>x, TickFields
<1>e. \E a1, a2, a3, a4, a5, a6, a7 :
         x = [pc |-> a1, todo |-> a2, rows |-> a3, steps |-> a4, blocked |-> a5, at |-> a6, box |-> a7]
  BY <1>x, Zenon DEF TickOf
<1>8. IsTick(x)
  <2>1. \A o \in Pairs : o \in x.todo \/ (x.pc = "sent" /\ x.at = o) =>
            x.rows[o] \in RowRecords /\ x.steps[o[1]] \in Seq(StepRecords)
    <3>1. SUFFICES ASSUME NEW o \in Pairs, o \in x.todo \/ (x.pc = "sent" /\ x.at = o)
                   PROVE  x.rows[o] \in RowRecords /\ x.steps[o[1]] \in Seq(StepRecords)
      OBVIOUS
    <3>2. o \in k.todo BY <3>1, <1>5, <1>7
    <3> QED BY <3>2, <1>3, <1>7
  <2>2. /\ x.pc \in {"idle", "run", "sent", "follow"} /\ x.pc \notin {"idle", "sent"} /\ x.todo \subseteq Pairs
        /\ x.pc = "follow" => x.at \in Pairs
    BY <1>3, <1>5, <1>7
  <2> QED BY <2>1, <2>2, <1>e, Zenon DEF IsTick
<1>9. Ticks(k2) /\ k2[w] = x /\ \A v \in Workers : v # w => k2[v] = tick[v] BY <1>0, <1>6, <1>8, WithTick
<1>s. p[1] \in SequenceIds /\ p[2] \in Leads BY <1>3 DEF Pairs
<1>r. PICK r2 : r2 = row' OBVIOUS
<1>10. /\ r2 \in AllRows
       /\ \A o \in Pairs : o # p => r2[o[1]][o[2]] = row[o[1]][o[2]]
       /\ StatusOf(row, p) = None => r2[p[1]][p[2]] = row[p[1]][p[2]]
       /\ StatusOf(row, p) # None => /\ r2[p[1]][p[2]].step = StepOf(tick, w, p) + 1
                                     /\ StatusOf(r2, p) \in {StatusOf(row, p), "completed"}
  <2>1. CASE Is(p[1], p[2], {None}) BY <2>1, <1>k, <1>p, <1>r, Zenon, <1>0 DEF Advance, Is, StatusOf
  <2>2. CASE ~Is(p[1], p[2], {None})
    <3>n. PICK n : n = row[p[1]][p[2]] OBVIOUS
    <3>z. PICK z : z = Advanced(w) OBVIOUS
    <3>1. n \in RowRecords /\ n.status # None BY <1>0, <1>s, <2>2, <3>n DEF AllRows, Is
    <3>2. p = tick[w].at BY <1>k, <1>p
    <3>3. z \in RowRecords /\ z.step = StepOf(tick, w, p) + 1 /\ z.status \in {n.status, "completed"}
      BY <1>4, <3>1, <3>2, <3>n, <3>z, AdvancedIs
    <3>4. r2 = RowPut(row, p[1], p[2], z) BY <2>2, <3>2, <3>z, <1>r, Zenon DEF Advance, With, RowPut
    <3>5. /\ r2 \in AllRows /\ r2[p[1]][p[2]] = z
          /\ \A o \in Pairs : ~(o[1] = p[1] /\ o[2] = p[2]) => r2[o[1]][o[2]] = row[o[1]][o[2]]
      BY <1>0, <1>s, <3>3, <3>4, WithRow
    <3>6. \A o \in Pairs : o # p => ~(o[1] = p[1] /\ o[2] = p[2]) BY <1>3 DEF Pairs
    <3>7. StatusOf(row, p) = n.status /\ StatusOf(r2, p) = z.status BY <3>n, <3>5 DEF StatusOf
    <3> QED BY <3>1, <3>3, <3>5, <3>6, <3>7
  <2> QED BY <2>1, <2>2
<1>11. ASSUME NEW o \in Pairs, o # p PROVE PairOK(sequence, r2, k2, sent, tally, o)
  <2>0. PairOK(sequence, row, tick, sent, tally, o) BY <1>0, Zenon DEF PairsOK
  <2>1. ~Sending(k2, w, o) /\ ~Sending(tick, w, o) /\ (Todo(k2, w, o) => Todo(tick, w, o))
    BY <1>5, <1>7, <1>9, <1>11, <1>k, <1>p DEF Sending, Todo
  <2>2. k2[w].rows = tick[w].rows /\ k2[w].steps = tick[w].steps /\ k2[w].blocked = tick[w].blocked
    BY <1>7, <1>9, <1>k
  <2>3. r2[o[1]][o[2]] = row[o[1]][o[2]] BY <1>10, <1>11
  <2>5. \A v \in Workers : v # w => k2[v] = tick[v] BY <1>9
  <2> QED BY <2>0, <2>1, <2>2, <2>3, <2>5, OthersPair
<1>12. PairOK(sequence, r2, k2, sent, tally, p)
  <2>1. PairOK(sequence, row, tick, sent, tally, p) BY <1>0, <1>3, Zenon DEF PairsOK
  <2>2. ~Holding(k2, w, p) BY <1>3, <1>5, <1>7, <1>9 DEF Holding, Todo, Sending
  <2> QED BY <1>0, <1>3, <1>4, <1>9, <1>10, <2>1, <2>2, AdvancedPair
<1>13. PairsOK(sequence, r2, k2, sent, tally) BY <1>11, <1>12, Zenon DEF PairsOK
<1>14. SequenceTypes' BY <1>0, <1>1, <1>9, <1>10, <1>y, <1>r DEF SequenceTypes
<1>15. PairsOK(sequence, row, tick, sent, tally)' BY <1>13, <1>1, <1>y, <1>r
<1>16. SequencesOK(sequence)' /\ (tally.intruded = {})' BY <1>1 DEF SequenceInv
<1> QED BY <1>14, <1>15, <1>16 DEF SequenceInv

------------------------------------------------------------------------------
\* Sequences that are made and edited.

\* One sequence is replaced.
SetAt(q, s, x) == [q EXCEPT ![s] = x]

\* The sequence is there, and the others are as they were.
LEMMA SetAtIs ==
    ASSUME NEW q \in AllSequences, NEW s \in SequenceIds, NEW x \in SequenceRecords, NEW q2, q2 = SetAt(q, s, x)
    PROVE  q2 \in AllSequences /\ q2[s] = x /\ \A a \in SequenceIds : a # s => q2[a] = q[a]
BY DEF SetAt, AllSequences

\* What is stored of a sequence.
LEMMA SequenceHas ==
    ASSUME NEW q \in AllSequences, NEW s \in SequenceIds, NEW c, c = q[s]
    PROVE  /\ c \in SequenceRecords /\ c.exists \in BOOLEAN /\ c.stop \in BOOLEAN /\ c.made \in Nat
           /\ c.steps \in Seq(StepRecords)
  BY DEF AllSequences, SequenceRecords

\* A sequence is made, or edited.
LEMMA SetSequenceStep ==
    ASSUME SequenceInv, NEW s \in SequenceIds, NEW x \in SequenceRecords, InOrder(x, Design[s]),
           \/ Edited(sequence[s], x, Design[s])
           \/ ~sequence[s].exists /\ sequence[s].made = 0 /\ x.exists,
           SetSequence(s, x)
    PROVE  SequenceInv'
<1>0. /\ SequenceTypes /\ Ticks(tick) /\ tally \in Tallies /\ row \in AllRows /\ sequence \in AllSequences
      /\ sent \in AllSent /\ PairsOK(sequence, row, tick, sent, tally) /\ SequencesOK(sequence)
  BY DEF SequenceInv, SequenceTypes
<1>q. PICK q2 : q2 = sequence' OBVIOUS
<1>u. PICK u : u = tally' OBVIOUS
<1>1. UNCHANGED <<row, tick, sent, inbox, poll, request>> /\ Event(tally) /\ q2 = SetAt(sequence, s, x)
  BY <1>q DEF SetSequence, people, doers, SetAt
<1>2. q2 \in AllSequences /\ q2[s] = x /\ \A a \in SequenceIds : a # s => q2[a] = sequence[a]
  BY <1>0, <1>1, SetAtIs
<1>3. ASSUME NEW p \in Pairs PROVE PairOK(q2, row, tick, sent, tally, p)
  BY <1>0, Zenon, <1>2, ElsewherePair, EditedPair, CreatedPair DEF PairsOK, Pairs
<1>4. Worse(tally, u) BY <1>0, <1>1, <1>u, EventWorse
<1>5. PairsOK(q2, row, tick, sent, u) BY <1>3, <1>4, WorsePair, Zenon DEF PairsOK
<1>6. SequencesOK(q2) BY <1>0, <1>2 DEF SequencesOK, StepsOK
<1>7. SequenceTypes' BY <1>0, <1>1, <1>2, <1>4, <1>q, <1>u DEF SequenceTypes, Worse
<1>8. PairsOK(sequence, row, tick, sent, tally)' /\ SequencesOK(sequence)' BY <1>1, <1>5, <1>6, <1>q, <1>u
<1>9. (tally.intruded = {})' BY <1>4, <1>u DEF SequenceInv, Worse
<1> QED BY <1>7, <1>8, <1>9 DEF SequenceInv

\* What makes a sequence.
LEMMA RecordIs ==
    ASSUME NEW a \in BOOLEAN, NEW b \in BOOLEAN, NEW e \in Seq(StepRecords), NEW n \in Nat
    PROVE  [exists |-> a, stop |-> b, steps |-> e, made |-> n] \in SequenceRecords
BY DEF SequenceRecords

\* A sequence without steps.
LEMMA UnmadeIs ==
    ASSUME NEW s \in SequenceIds, NEW x, x = [Unmade EXCEPT !.exists = TRUE]
    PROVE  x \in SequenceRecords /\ x.exists /\ InOrder(x, Design[s])
<1>1. x = [exists |-> TRUE, stop |-> TRUE, steps |-> << >>, made |-> 0] BY DEF Unmade
<1>2. << >> \in Seq(StepRecords) /\ DOMAIN << >> = {} OBVIOUS
<1>3. x.exists /\ x.steps = << >> /\ x.made = 0 BY <1>1
<1>e. PICK e : e = << >> OBVIOUS
<1>4. x \in SequenceRecords BY <1>1, <1>2, <1>e, RecordIs
<1>5. InOrder(x, Design[s]) BY <1>2, <1>3, Zenon DEF InOrder
<1> QED BY <1>3, <1>4, <1>5

\* The steps of a design, with their types or as emails, and a full sequence of such steps.
LEMMA KindIs ==
    ASSUME NEW e \in StepRecords, NEW kind \in StepTypes, NEW e2, e2 = [e EXCEPT !.kind = kind]
    PROVE  e2 \in StepRecords /\ e2.id = e.id
BY DEF StepRecords

\* A sequence with every step of its design, and ids that differ.
LEMMA FullIs ==
    ASSUME NEW D \in Seq(StepRecords), NEW S \in Seq(StepRecords), NEW x, NEW design, Len(design) \in Nat,
           \A i, j \in DOMAIN D : D[i].id = D[j].id => i = j,
           DOMAIN S = DOMAIN D, \A i \in DOMAIN D : S[i].id = D[i].id,
           x = [exists |-> TRUE, stop |-> TRUE, steps |-> S, made |-> Len(design)]
    PROVE  x \in SequenceRecords /\ x.exists /\ InOrder(x, design)
  BY DEF SequenceRecords, InOrder

\* A sequence made from its whole design.
LEMMA MadeIs ==
    ASSUME NEW s \in SequenceIds, NEW kinds, NEW x, x = Made(s, Len(Design[s]), kinds)
    PROVE  x \in SequenceRecords /\ x.exists /\ InOrder(x, Design[s])
<1>D. PICK D : D = Design[s] OBVIOUS
<1>1. D \in Seq(StepRecords) /\ Len(D) \in Nat BY <1>D, DesignOK
<1>2. \A i, j \in DOMAIN D : D[i].id = D[j].id => i = j BY <1>1, <1>D, DesignDiffers
<1>S. PICK S : S = [i \in 1..Len(D) |-> [D[i] EXCEPT !.kind = IF kinds = "all" THEN "email" ELSE @]] OBVIOUS
<1>3. ASSUME NEW i \in 1..Len(D) PROVE S[i] \in StepRecords /\ S[i].id = D[i].id
  <2>k. PICK kind : kind = IF kinds = "all" THEN "email" ELSE D[i].kind BY Zenon
  <2>1. D[i] \in StepRecords BY <1>1
  <2>2. kind \in StepTypes BY <2>1, <2>k DEF StepRecords, StepTypes
  <2>3. S[i] = [D[i] EXCEPT !.kind = kind] BY <1>S, <2>k
  <2> QED BY <2>1, <2>2, <2>3, KindIs
<1>4. DOMAIN S = 1..Len(D) /\ S = [i \in 1..Len(D) |-> S[i]] BY <1>S
<1>5. S \in Seq(StepRecords) BY <1>1, <1>3, <1>4, IsASeq
<1>6. x = [exists |-> TRUE, stop |-> TRUE, steps |-> S, made |-> Len(D)] BY <1>D, <1>S DEF Made
<1>7. DOMAIN S = DOMAIN D /\ \A i \in DOMAIN D : S[i].id = D[i].id BY <1>1, <1>3, <1>4
<1> QED BY <1>1, <1>2, <1>5, <1>6, <1>7, <1>D, FullIs

\* New sequences.
LEMMA CreateSteps ==
    ASSUME SequenceInv, NEW s \in SequenceIds, CreateSequence(s) \/ CreateSubsequence(s) \/ FromTemplate(s)
    PROVE  SequenceInv'
  BY UnmadeIs, Zenon, SetSequenceStep, MadeIs DEF CreateSequence, CreateSubsequence, FromTemplate, New

\* The copy of a sequence.
Copied(n, steps) == [Unmade EXCEPT !.exists = TRUE, !.made = n, !.steps = steps]

\* A copy, field by field.
LEMMA CopiedIs ==
    ASSUME NEW n, NEW steps
    PROVE  Copied(n, steps) = [exists |-> TRUE, stop |-> TRUE, steps |-> steps, made |-> n]
<1>e. PICK e : e = << >> OBVIOUS
<1>u. PICK u : u = [exists |-> FALSE, stop |-> TRUE, steps |-> e, made |-> 0] OBVIOUS
<1>a. PICK a : a = [u EXCEPT !.exists = TRUE] OBVIOUS
<1>b. PICK b : b = [a EXCEPT !.made = n] OBVIOUS
<1>c. PICK c : c = [b EXCEPT !.steps = steps] OBVIOUS
<1>1. a = [exists |-> TRUE, stop |-> TRUE, steps |-> e, made |-> 0] BY <1>u, <1>a
<1>2. b = [exists |-> TRUE, stop |-> TRUE, steps |-> e, made |-> n] BY <1>1, <1>b
<1>3. c = [exists |-> TRUE, stop |-> TRUE, steps |-> steps, made |-> n] BY <1>2, <1>c
<1>4. u = Unmade BY <1>u, <1>e DEF Unmade
<1>5. Copied(n, steps) = c BY <1>4, <1>a, <1>b, <1>c DEF Copied
<1> QED BY <1>3, <1>5

\* A sequence is copied: its steps become emails.
LEMMA DuplicateStep ==
    ASSUME SequenceInv, NEW s \in SequenceIds, NEW n \in SequenceIds, Duplicate(s, n) PROVE SequenceInv'
<1>1. ~sequence[n].exists /\ sequence[n].made = 0 BY DEF Duplicate, New
<1>c. PICK c : c = sequence[s] OBVIOUS
<1>D. PICK D : D = c.steps OBVIOUS
<1>2. D \in Seq(StepRecords) BY <1>c, <1>D, SequenceHas DEF SequenceInv, SequenceTypes
<1>3. \A i, j \in DOMAIN D : D[i].id = D[j].id => i = j
  BY <1>c, <1>D, Zenon DEF SequenceInv, SequencesOK, StepsOK, InOrder
<1>S. PICK S : S = [i \in DOMAIN D |-> [D[i] EXCEPT !.kind = "email"]] OBVIOUS
<1>4. ASSUME NEW i \in DOMAIN D PROVE S[i] \in StepRecords /\ S[i].id = D[i].id
  BY <1>2, <1>S, KindIs DEF StepTypes
<1>5. DOMAIN D = 1..Len(D) /\ Len(D) \in Nat BY <1>2
<1>6. DOMAIN S = DOMAIN D /\ S = [i \in 1..Len(D) |-> S[i]] BY <1>S, <1>5
<1>7. S \in Seq(StepRecords) BY <1>4, <1>5, <1>6, IsASeq
<1>x. PICK x : x = [exists |-> TRUE, stop |-> TRUE, steps |-> S, made |-> Len(Design[n])] OBVIOUS
<1>8. x \in SequenceRecords /\ x.exists /\ InOrder(x, Design[n])
  BY <1>4, DesignOK, <1>2, <1>3, <1>6, <1>7, <1>x, FullIs
<1>9. SetSequence(n, x)
  <2>1. x = Copied(Len(Design[n]), S) BY <1>x, CopiedIs
  <2> QED BY <2>1, <1>S, <1>D, <1>c, Zenon DEF Duplicate, Copied
<1> QED BY <1>1, <1>8, <1>9, SetSequenceStep

------------------------------------------------------------------------------
\* A sequence whose steps are some it had, in their order or nearer the start.

\* Each step is one that was there, not before its place.
Kept(C, S) ==
    /\ \A j \in DOMAIN S : \E i \in DOMAIN C : i >= j /\ S[j].id = C[i].id
    /\ \A i, j \in DOMAIN S : S[i].id = S[j].id => i = j

\* The sequence is still in order, and its enrollments can be.
LEMMA KeptIs ==
    ASSUME NEW c \in SequenceRecords, c.exists, NEW design, InOrder(c, design),
           NEW b \in BOOLEAN, NEW S \in Seq(StepRecords), Kept(c.steps, S),
           NEW x, x = [exists |-> TRUE, stop |-> b, steps |-> S, made |-> c.made]
    PROVE  x \in SequenceRecords /\ x.exists /\ InOrder(x, design) /\ Edited(c, x, design)
<1>C. PICK C : C = c.steps OBVIOUS
<1>1. c.made \in Nat BY DEF SequenceRecords
<1>2. x \in SequenceRecords BY <1>1, RecordIs
<1>3. x.exists /\ x.steps = S /\ x.made = c.made OBVIOUS
<1>4. /\ \A j \in DOMAIN S : \E i \in DOMAIN C : i >= j /\ S[j].id = C[i].id
      /\ \A i, j \in DOMAIN S : S[i].id = S[j].id => i = j
  BY <1>C, Zenon DEF Kept
<1>5. c.made < Len(design) => \A i \in DOMAIN C : \E j \in 1..c.made : C[i].id = design[j].id
  BY <1>C, Zenon DEF InOrder
<1>6. c.made < Len(design) => \A i \in DOMAIN S : \E j \in 1..c.made : S[i].id = design[j].id
  <2> SUFFICES ASSUME c.made < Len(design), NEW i \in DOMAIN S PROVE \E j \in 1..c.made : S[i].id = design[j].id
    OBVIOUS
  <2>1. PICK n \in DOMAIN C : S[i].id = C[n].id BY <1>4
  <2>2. PICK j \in 1..c.made : C[n].id = design[j].id BY <1>5
  <2> QED BY <2>1, <2>2, Zenon
<1>7. InOrder(x, design) BY <1>3, <1>4, <1>6, Zenon DEF InOrder
<1>8. x.made >= c.made BY <1>1, <1>3
<1>9. Edited(c, x, design) BY <1>3, <1>4, <1>8, <1>C, Zenon DEF Edited
<1> QED BY <1>2, <1>3, <1>7, <1>9

\* The sequence is put in the table.
LEMMA EditStep ==
    ASSUME SequenceInv, NEW s \in SequenceIds, NEW c, c = sequence[s], c.exists,
           NEW b \in BOOLEAN, NEW S \in Seq(StepRecords), Kept(c.steps, S),
           NEW x, x = [exists |-> TRUE, stop |-> b, steps |-> S, made |-> c.made], SetSequence(s, x)
    PROVE  SequenceInv'
<1>1. c \in SequenceRecords BY SequenceHas DEF SequenceInv, SequenceTypes
<1>2. InOrder(c, Design[s]) BY Zenon DEF SequenceInv, SequencesOK, StepsOK
<1>3. x \in SequenceRecords /\ x.exists /\ InOrder(x, Design[s]) /\ Edited(c, x, Design[s])
  BY <1>1, <1>2, KeptIs
<1> QED BY <1>3, SetSequenceStep

\* A sequence, field by field.
LEMMA WithSteps ==
    ASSUME NEW c \in SequenceRecords, c.exists, NEW S, NEW x, x = [c EXCEPT !.steps = S]
    PROVE  x = [exists |-> TRUE, stop |-> c.stop, steps |-> S, made |-> c.made]
BY DEF SequenceRecords

\* A sequence that replies stop, or do not.
LEMMA WithStop ==
    ASSUME NEW c \in SequenceRecords, c.exists, NEW b \in BOOLEAN, NEW x, x = [c EXCEPT !.stop = b]
    PROVE  x = [exists |-> TRUE, stop |-> b, steps |-> c.steps, made |-> c.made]
BY DEF SequenceRecords

\* A sequence with one more step made.
LEMMA WithMade ==
    ASSUME NEW c \in SequenceRecords, c.exists, NEW n, NEW S, NEW y, y = [c EXCEPT !.made = n],
           NEW x, x = [y EXCEPT !.steps = S]
    PROVE  x = [exists |-> TRUE, stop |-> c.stop, steps |-> S, made |-> n]
BY DEF SequenceRecords

\* Steps that are as they were, or one of them other than in its id, or one left out.
LEMMA SameKept ==
    ASSUME NEW C \in Seq(StepRecords), \A i, j \in DOMAIN C : C[i].id = C[j].id => i = j PROVE Kept(C, C)
<1>1. \A i \in DOMAIN C : i >= i OBVIOUS
<1> QED BY <1>1, Zenon DEF Kept

\* One step is another, with the same id.
LEMMA OneKept ==
    ASSUME NEW C \in Seq(StepRecords), \A i, j \in DOMAIN C : C[i].id = C[j].id => i = j,
           NEW i \in DOMAIN C, NEW e \in StepRecords, e.id = C[i].id, NEW S, S = [C EXCEPT ![i] = e]
    PROVE  S \in Seq(StepRecords) /\ Kept(C, S)
<1>1. DOMAIN S = DOMAIN C /\ \A j \in DOMAIN C : S[j].id = C[j].id /\ j >= j OBVIOUS
<1>2. S \in Seq(StepRecords) OBVIOUS
<1>3. \A j \in DOMAIN S : \E n \in DOMAIN C : n >= j /\ S[j].id = C[n].id BY <1>1
<1>4. \A n, j \in DOMAIN S : S[n].id = S[j].id => n = j BY <1>1
<1> QED BY <1>2, <1>3, <1>4, Zenon DEF Kept

\* One step is left out, and those behind it move up.
LEMMA RemovedKept ==
    ASSUME NEW C \in Seq(StepRecords), \A i, j \in DOMAIN C : C[i].id = C[j].id => i = j,
           NEW i \in DOMAIN C, NEW S, S = RemoveAt(C, i)
    PROVE  S \in Seq(StepRecords) /\ Kept(C, S)
<1>n. PICK n : n = Len(C) OBVIOUS
<1>1. n \in Nat /\ DOMAIN C = 1..n /\ i \in 1..n /\ \A j \in 1..n : C[j] \in StepRecords BY <1>n
<1>a. PICK a : a = SubSeq(C, 1, i - 1) OBVIOUS
<1>b. PICK b : b = SubSeq(C, i + 1, n) OBVIOUS
<1>2. a \in Seq(StepRecords) /\ Len(a) = i - 1 /\ \A j \in 1..(i - 1) : a[j] = C[j]
  BY <1>1, <1>a, SubSeqProperties
<1>3. b \in Seq(StepRecords) /\ Len(b) = n - i /\ \A j \in 1..(n - i) : b[j] = C[i + j]
  <2>1. \A j \in (i + 1)..n : C[j] \in StepRecords BY <1>1
  <2>2. i + 1 \in Int /\ n \in Int BY <1>1
  <2>3. /\ b \in Seq(StepRecords) /\ Len(b) = (IF i + 1 <= n THEN n - (i + 1) + 1 ELSE 0)
        /\ \A j \in 1..(n - (i + 1) + 1) : b[j] = C[i + 1 + j - 1]
    BY <1>b, <2>1, <2>2, SubSeqProperties
  <2>4. Len(b) = n - i BY <2>3, <1>1
  <2>5. ASSUME NEW j \in 1..(n - i) PROVE b[j] = C[i + j]
    <3>1. j \in 1..(n - (i + 1) + 1) /\ i + 1 + j - 1 = i + j BY <1>1
    <3>2. b[j] = C[i + 1 + j - 1] BY <2>3, <3>1
    <3> QED BY <3>1, <3>2
  <2> QED BY <2>3, <2>4, <2>5
<1>4. S = a \o b BY <1>a, <1>b, <1>n DEF RemoveAt
<1>5. /\ S \in Seq(StepRecords) /\ Len(S) = n - 1
      /\ \A j \in 1..(n - 1) : S[j] = IF j <= i - 1 THEN a[j] ELSE b[j - (i - 1)]
  <2>1. /\ a \o b \in Seq(StepRecords) /\ Len(a \o b) = Len(a) + Len(b)
        /\ \A j \in 1..(Len(a) + Len(b)) : (a \o b)[j] = IF j <= Len(a) THEN a[j] ELSE b[j - Len(a)]
    <3>1. a \in Seq(StepRecords) /\ b \in Seq(StepRecords) BY <1>2, <1>3
    <3> QED BY <3>1, ConcatProperties
  <2>2. Len(a) + Len(b) = n - 1 BY <1>1, <1>2, <1>3
  <2> QED BY <2>1, <2>2, <1>2, <1>4
<1>6. \A j \in 1..(n - 1) : S[j] = IF j < i THEN C[j] ELSE C[j + 1]
  <2> SUFFICES ASSUME NEW j \in 1..(n - 1) PROVE S[j] = IF j < i THEN C[j] ELSE C[j + 1] OBVIOUS
  <2>1. CASE j < i BY <2>1, <1>1, <1>2, <1>5
  <2>2. CASE ~(j < i)
    <3>1. ~(j <= i - 1) /\ j - (i - 1) \in 1..(n - i) /\ i + (j - (i - 1)) = j + 1 BY <2>2, <1>1
    <3>2. S[j] = b[j - (i - 1)] BY <3>1, <1>5
    <3>3. b[j - (i - 1)] = C[i + (j - (i - 1))] BY <3>1, <1>3
    <3> QED BY <3>1, <3>2, <3>3, <2>2
  <2> QED BY <2>1, <2>2
<1>7. DOMAIN S = 1..(n - 1) BY <1>5
<1>8. \A j \in DOMAIN S : \E m \in DOMAIN C : m >= j /\ S[j].id = C[m].id
  <2> SUFFICES ASSUME NEW j \in 1..(n - 1) PROVE \E m \in 1..n : m >= j /\ S[j].id = C[m].id BY <1>1, <1>7
  <2>1. j \in 1..n /\ j + 1 \in 1..n /\ j >= j /\ j + 1 >= j BY <1>1
  <2>2. S[j] = C[j] \/ S[j] = C[j + 1] BY <1>6
  <2> QED BY <2>1, <2>2
<1>9. \A j, k \in DOMAIN S : S[j].id = S[k].id => j = k
  <2> SUFFICES ASSUME NEW j \in 1..(n - 1), NEW k \in 1..(n - 1), S[j].id = S[k].id PROVE j = k BY <1>7
  <2>j. PICK u : u = IF j < i THEN j ELSE j + 1 OBVIOUS
  <2>k. PICK v : v = IF k < i THEN k ELSE k + 1 OBVIOUS
  <2>1. u \in 1..n /\ v \in 1..n BY <1>1, <2>j, <2>k
  <2>2. S[j] = C[u] /\ S[k] = C[v] BY <1>6, <2>j, <2>k
  <2>3. u = v BY <2>1, <2>2, <1>1
  <2>5. j \in Int /\ k \in Int /\ i \in Int BY <1>1
  <2>4. /\ (u = j /\ j < i) \/ (u = j + 1 /\ j >= i)
        /\ (v = k /\ k < i) \/ (v = k + 1 /\ k >= i)
    <3>1. (j < i \/ j >= i) /\ (k < i \/ k >= i) /\ ~(j < i /\ j >= i) /\ ~(k < i /\ k >= i) BY <2>5
    <3> QED BY <3>1, <2>j, <2>k, Zenon
  <2> QED BY <2>3, <2>4, <2>5
<1> QED BY <1>5, <1>8, <1>9, Zenon DEF Kept

\* What the edits start from.
LEMMA EditHas ==
    ASSUME SequenceInv, NEW s \in SequenceIds, NEW c, c = sequence[s]
    PROVE  /\ c \in SequenceRecords /\ c.exists \in BOOLEAN /\ c.stop \in BOOLEAN /\ c.made \in Nat
           /\ c.steps \in Seq(StepRecords)
           /\ \A i, j \in DOMAIN c.steps : c.steps[i].id = c.steps[j].id => i = j
           /\ ~c.exists => DOMAIN c.steps = {}
           /\ InOrder(c, Design[s])
<1>1. /\ c \in SequenceRecords /\ c.exists \in BOOLEAN /\ c.stop \in BOOLEAN /\ c.made \in Nat
      /\ c.steps \in Seq(StepRecords)
  BY SequenceHas DEF SequenceInv, SequenceTypes
<1>2. InOrder(c, Design[s]) BY Zenon DEF SequenceInv, SequencesOK, StepsOK
<1>3. /\ \A i, j \in DOMAIN c.steps : c.steps[i].id = c.steps[j].id => i = j
      /\ ~c.exists => c.steps = << >>
  BY <1>2, Zenon DEF InOrder
<1>4. ~c.exists => DOMAIN c.steps = {}
  <2> HAVE ~c.exists
  <2>1. c.steps = << >> BY <1>3
  <2>2. DOMAIN << >> = {} OBVIOUS
  <2> QED BY <2>1, <2>2, Zenon
<1> QED BY <1>1, <1>2, <1>3, <1>4

\* The owner says whether replies stop a sequence.
LEMMA PatchSequenceStep ==
    ASSUME SequenceInv, NEW s \in SequenceIds, PatchSequence(s) PROVE SequenceInv'
<1>c. PICK c : c = sequence[s] OBVIOUS
<1>1. /\ c \in SequenceRecords /\ c.stop \in BOOLEAN /\ c.steps \in Seq(StepRecords)
      /\ \A i, j \in DOMAIN c.steps : c.steps[i].id = c.steps[j].id => i = j
  BY <1>c, EditHas
<1>2. c.exists BY <1>c, Zenon DEF PatchSequence
<1>b. PICK b : b = ~c.stop OBVIOUS
<1>3. b \in BOOLEAN BY <1>b
<1>x. PICK x : x = [c EXCEPT !.stop = b] OBVIOUS
<1>4. SetSequence(s, x) BY <1>c, <1>b, <1>x, Zenon DEF PatchSequence
<1>5. x = [exists |-> TRUE, stop |-> b, steps |-> c.steps, made |-> c.made] BY <1>1, <1>2, <1>3, <1>x, WithStop
<1>6. Kept(c.steps, c.steps) BY <1>1, SameKept
<1> QED BY <1>1, <1>2, <1>3, <1>4, <1>5, <1>6, <1>c, EditStep

\* The owner edits a step.
LEMMA PatchStepStep ==
    ASSUME SequenceInv, NEW s \in SequenceIds, NEW i \in DOMAIN sequence[s].steps, PatchStep(s, i)
    PROVE  SequenceInv'
<1>c. PICK c : c = sequence[s] OBVIOUS
<1>1. /\ c \in SequenceRecords /\ c.stop \in BOOLEAN /\ c.exists \in BOOLEAN /\ c.steps \in Seq(StepRecords)
      /\ \A n, j \in DOMAIN c.steps : c.steps[n].id = c.steps[j].id => n = j
      /\ ~c.exists => DOMAIN c.steps = {}
  BY <1>c, EditHas
<1>2. i \in DOMAIN c.steps BY <1>c
<1>3. c.exists BY <1>1, <1>2
<1>v. PICK v : v = IF c.steps[i].cond = "always" THEN "if_opened" ELSE "always" BY Zenon
<1>e. PICK e : e = [c.steps[i] EXCEPT !.cond = v] OBVIOUS
<1>4. e \in StepRecords /\ e.id = c.steps[i].id
  <2>1. c.steps[i] \in StepRecords BY <1>1, <1>2
  <2>2. v \in Conditions BY <1>v, Zenon DEF Conditions
  <2> QED BY <2>1, <2>2, <1>e DEF StepRecords
<1>S. PICK S : S = [c.steps EXCEPT ![i] = e] OBVIOUS
<1>5. S \in Seq(StepRecords) /\ Kept(c.steps, S) BY <1>1, <1>2, <1>4, <1>S, OneKept
<1>x. PICK x : x = [c EXCEPT !.steps = S] OBVIOUS
<1>6. SetSequence(s, x) BY <1>c, <1>v, <1>e, <1>S, <1>x, Zenon DEF PatchStep
<1>7. x = [exists |-> TRUE, stop |-> c.stop, steps |-> S, made |-> c.made] BY <1>1, <1>3, <1>x, WithSteps
<1> QED BY <1>1, <1>3, <1>5, <1>6, <1>7, <1>c, EditStep

\* The owner deletes a step.
LEMMA DeleteStepStep ==
    ASSUME SequenceInv, NEW s \in SequenceIds, NEW i \in DOMAIN sequence[s].steps, DeleteStep(s, i)
    PROVE  SequenceInv'
<1>c. PICK c : c = sequence[s] OBVIOUS
<1>1. /\ c \in SequenceRecords /\ c.stop \in BOOLEAN /\ c.exists \in BOOLEAN /\ c.steps \in Seq(StepRecords)
      /\ \A n, j \in DOMAIN c.steps : c.steps[n].id = c.steps[j].id => n = j
      /\ ~c.exists => DOMAIN c.steps = {}
  BY <1>c, EditHas
<1>2. i \in DOMAIN c.steps BY <1>c
<1>3. c.exists BY <1>1, <1>2
<1>S. PICK S : S = RemoveAt(c.steps, i) OBVIOUS
<1>5. S \in Seq(StepRecords) /\ Kept(c.steps, S) BY <1>1, <1>2, <1>S, RemovedKept
<1>x. PICK x : x = [c EXCEPT !.steps = S] OBVIOUS
<1>6. SetSequence(s, x) BY <1>c, <1>S, <1>x, Zenon DEF DeleteStep
<1>7. x = [exists |-> TRUE, stop |-> c.stop, steps |-> S, made |-> c.made] BY <1>1, <1>3, <1>x, WithSteps
<1> QED BY <1>1, <1>3, <1>5, <1>6, <1>7, <1>c, EditStep

\* The owner adds the next step of the design.
Grown(c, e) == [c EXCEPT !.made = @ + 1, !.steps = Append(@, e)]

\* The new step is none of those that are there, and the sequence is in order.
LEMMA GrownIs ==
    ASSUME NEW s \in SequenceIds, NEW c \in SequenceRecords, c.exists, InOrder(c, Design[s]),
           c.made < Len(Design[s]), NEW x, x = Grown(c, Design[s][c.made + 1])
    PROVE  x \in SequenceRecords /\ x.exists /\ InOrder(x, Design[s]) /\ Edited(c, x, Design[s])
<1>D. PICK D : D = Design[s] OBVIOUS
<1>C. PICK C : C = c.steps OBVIOUS
<1>n. PICK n : n = c.made OBVIOUS
<1>1. n \in Nat /\ C \in Seq(StepRecords) /\ c.stop \in BOOLEAN BY <1>C, <1>n DEF SequenceRecords
<1>2. D \in Seq(StepRecords) /\ Len(D) \in Nat /\ n < Len(D) BY <1>D, <1>n, DesignOK
<1>e. PICK e : e = D[n + 1] OBVIOUS
<1>3. e \in StepRecords /\ n + 1 \in 1..Len(D) BY <1>1, <1>2, <1>e
<1>S. PICK S : S = Append(C, e) OBVIOUS
<1>4. /\ S \in Seq(StepRecords) /\ Len(S) = Len(C) + 1
      /\ \A i \in 1..Len(C) : S[i] = C[i]
      /\ S[Len(C) + 1] = e
  BY <1>1, <1>3, <1>S, AppendProperties
<1>5. Len(C) \in Nat /\ DOMAIN C = 1..Len(C) /\ DOMAIN S = 1..(Len(C) + 1) BY <1>1, <1>4
<1>6. /\ \A i, j \in DOMAIN C : C[i].id = C[j].id => i = j
      /\ \A i \in DOMAIN C : \E j \in 1..n : C[i].id = D[j].id
  <2>1. /\ \A i, j \in DOMAIN c.steps : c.steps[i].id = c.steps[j].id => i = j
        /\ \A i \in DOMAIN c.steps : \E j \in 1..c.made : c.steps[i].id = Design[s][j].id
    BY Zenon DEF InOrder
  <2> QED BY <2>1, <1>C, <1>D, <1>n, Zenon
<1>y. PICK y : y = [c EXCEPT !.made = n + 1] OBVIOUS
<1>7. x = [exists |-> TRUE, stop |-> c.stop, steps |-> S, made |-> n + 1]
  BY <1>y, <1>C, <1>n, <1>e, <1>D, <1>S, Zenon, WithMade DEF SequenceRecords, Grown
<1>8. x.exists /\ x.steps = S /\ x.made = n + 1 BY <1>7
<1>9. x \in SequenceRecords
  <2>1. n + 1 \in Nat BY <1>1
  <2> QED BY <2>1, <1>1, <1>4, <1>7, RecordIs
<1>10. \A i \in DOMAIN S : (i \in DOMAIN C /\ S[i] = C[i]) \/ (i = Len(C) + 1 /\ i \notin DOMAIN C /\ S[i] = e)
  BY <1>4, <1>5
<1>11. \A i \in DOMAIN C : C[i].id # e.id
  <2> SUFFICES ASSUME NEW i \in DOMAIN C, C[i].id = e.id PROVE FALSE OBVIOUS
  <2>1. PICK j \in 1..n : C[i].id = D[j].id BY <1>6
  <2>2. j \in 1..Len(D) /\ j # n + 1 BY <1>1, <1>2
  <2>3. D[j].id = D[n + 1].id BY <2>1, <1>e
  <2> QED BY <2>2, <2>3, <1>3, <1>D, DesignDiffers
<1>12. \A i, j \in DOMAIN S : S[i].id = S[j].id => i = j BY <1>6, <1>10, <1>11
<1>13. \A i \in DOMAIN S : \E j \in 1..(n + 1) : S[i].id = D[j].id
  <2> SUFFICES ASSUME NEW i \in DOMAIN S PROVE \E j \in 1..(n + 1) : S[i].id = D[j].id OBVIOUS
  <2>1. CASE i \in DOMAIN C /\ S[i] = C[i] BY <2>1, <1>6, <1>1
  <2>2. CASE S[i] = e BY <1>1, <2>2, <1>e
  <2> QED BY <2>1, <2>2, <1>10
<1>14. InOrder(x, D)
  <2>1. /\ \A i, j \in DOMAIN x.steps : x.steps[i].id = x.steps[j].id => i = j
        /\ \A i \in DOMAIN x.steps : \E j \in 1..x.made : x.steps[i].id = D[j].id
    BY <1>8, <1>12, <1>13
  <2> QED BY <2>1, <1>8, Zenon DEF InOrder
<1>15. Edited(c, x, D)
  <2>1. x.made >= c.made /\ x.made = c.made + 1 /\ c.made < Len(D) BY <1>1, <1>2, <1>8, <1>n
  <2>2. \A j \in DOMAIN S : (\E i \in DOMAIN C : i >= j /\ S[j].id = C[i].id) \/ S[j].id = e.id
    <3> SUFFICES ASSUME NEW j \in DOMAIN S, j \in DOMAIN C, S[j] = C[j]
                 PROVE  \E i \in DOMAIN C : i >= j /\ S[j].id = C[i].id
      BY <1>10
    <3>1. j >= j BY <1>5
    <3> QED BY <3>1
  <2>3. \A j \in DOMAIN S : (\E i \in DOMAIN C : i >= j /\ S[j].id = C[i].id) \/ S[j].id = D[c.made + 1].id
    BY <2>2, <1>e, <1>n, Zenon
  <2> QED BY <2>1, <2>3, <1>8, <1>C, Zenon DEF Edited
<1> QED BY <1>8, <1>9, <1>14, <1>15, <1>D

\* The owner adds a step.
LEMMA AddStepStep ==
    ASSUME SequenceInv, NEW s \in SequenceIds, AddStep(s) PROVE SequenceInv'
  BY EditHas, Zenon, GrownIs, SetSequenceStep DEF AddStep, Grown

\* A sequence is deleted: its record, and its rows.
Removed(q, s, n) == [q EXCEPT ![s].exists = FALSE, ![s].steps = << >>, ![s].made = n]
Emptied(r, s) == [r EXCEPT ![s] = [l \in Leads |-> NoRow]]

\* The sequence is gone, and the others are as they were.
LEMMA DeletedIs ==
    ASSUME NEW q \in AllSequences, NEW s \in SequenceIds, NEW n \in Nat, NEW q2,
           q2 = Removed(q, s, n)
    PROVE  /\ q2 \in AllSequences /\ \A a \in SequenceIds : a # s => q2[a] = q[a]
           /\ ~q2[s].exists /\ q2[s].steps = << >> /\ q2[s].made = n
<1>e. PICK e : e = << >> OBVIOUS
<1>n. e \in Seq(StepRecords) BY <1>e
<1>c. PICK c : c = q[s] OBVIOUS
<1>0. c \in SequenceRecords BY <1>c, SequenceHas
<1>a. PICK a : a = [c EXCEPT !.exists = FALSE] OBVIOUS
<1>b. PICK b : b = [a EXCEPT !.steps = e] OBVIOUS
<1>d. PICK d : d = [b EXCEPT !.made = n] OBVIOUS
<1>1. a \in SequenceRecords /\ ~a.exists BY <1>0, <1>a DEF SequenceRecords
<1>2. b \in SequenceRecords /\ ~b.exists /\ b.steps = e BY <1>1, <1>n, <1>b DEF SequenceRecords
<1>3. d \in SequenceRecords /\ ~d.exists /\ d.steps = e /\ d.made = n BY <1>2, <1>d DEF SequenceRecords
<1>x. PICK x : x = SetAt(q, s, a) OBVIOUS
<1>y. PICK y : y = SetAt(x, s, b) OBVIOUS
<1>z. PICK z : z = SetAt(y, s, d) OBVIOUS
<1>4. x \in AllSequences /\ x[s] = a /\ \A o \in SequenceIds : o # s => x[o] = q[o] BY <1>1, <1>x, SetAtIs
<1>5. y \in AllSequences /\ y[s] = b /\ \A o \in SequenceIds : o # s => y[o] = x[o] BY <1>2, <1>4, <1>y, SetAtIs
<1>6. z \in AllSequences /\ z[s] = d /\ \A o \in SequenceIds : o # s => z[o] = y[o] BY <1>3, <1>5, <1>z, SetAtIs
<1>7. q2 = z BY <1>x, <1>a, <1>c, Zenon, <1>y, <1>b, <1>4, <1>z, <1>d, <1>5, <1>e DEF SetAt, Removed
<1> QED BY <1>3, <1>4, <1>5, <1>6, <1>7, <1>e

\* Its rows are gone, and the others are as they were.
LEMMA ClearedIs ==
    ASSUME NEW r \in AllRows, NEW s \in SequenceIds, NEW r2, r2 = Emptied(r, s)
    PROVE  /\ r2 \in AllRows /\ \A l \in Leads : r2[s][l] = NoRow
           /\ \A a \in SequenceIds : a # s => r2[a] = r[a]
  BY NewRows DEF Emptied, AllRows

\* The owner deletes a sequence, and the enrollments go with it.
LEMMA DeleteSequenceStep ==
    ASSUME SequenceInv, NEW s \in SequenceIds, DeleteSequence(s) PROVE SequenceInv'
<1>0. /\ SequenceTypes /\ Ticks(tick) /\ tally \in Tallies /\ row \in AllRows /\ sequence \in AllSequences
      /\ sent \in AllSent /\ PairsOK(sequence, row, tick, sent, tally) /\ SequencesOK(sequence)
  BY DEF SequenceInv, SequenceTypes
<1>q. PICK q2 : q2 = sequence' OBVIOUS
<1>r. PICK r2 : r2 = row' OBVIOUS
<1>u. PICK u : u = tally' OBVIOUS
<1>n. PICK n : n = Len(Design[s]) OBVIOUS
<1>1. UNCHANGED <<tick, sent, inbox, poll, request>> /\ Event(tally) BY DEF DeleteSequence, people, doers
<1>2. q2 = Removed(sequence, s, n) /\ r2 = Emptied(row, s)
  BY <1>q, <1>r, <1>n, Zenon DEF DeleteSequence, Removed, Emptied
<1>3. n \in Nat BY <1>n, DesignOK
<1>4. /\ q2 \in AllSequences /\ \A a \in SequenceIds : a # s => q2[a] = sequence[a]
      /\ ~q2[s].exists /\ q2[s].steps = << >> /\ q2[s].made = n
  BY <1>0, <1>2, <1>3, DeletedIs
<1>5. /\ r2 \in AllRows /\ \A l \in Leads : r2[s][l] = NoRow
      /\ \A a \in SequenceIds : a # s => r2[a] = row[a]
  BY <1>0, <1>2, ClearedIs
<1>6. ASSUME NEW p \in Pairs PROVE PairOK(q2, r2, tick, sent, tally, p)
  <2>0. PairOK(sequence, row, tick, sent, tally, p) /\ p[1] \in SequenceIds /\ p[2] \in Leads
    BY <1>0, PairsAre, Zenon DEF PairsOK
  <2>1. CASE p[1] # s BY <1>4, <1>5, <2>0, <2>1, ElsewherePair
  <2>2. CASE p[1] = s BY <1>4, <1>5, <1>n, <2>0, <2>2, <1>0, DeletedPair
  <2> QED BY <2>1, <2>2
<1>7. Worse(tally, u) BY <1>0, <1>1, <1>u, EventWorse
<1>8. PairsOK(q2, r2, tick, sent, u) BY <1>6, <1>7, WorsePair, Zenon DEF PairsOK
<1>9. SequencesOK(q2)
  <2> SUFFICES ASSUME NEW a \in SequenceIds PROVE StepsOK(q2, a) BY Zenon DEF SequencesOK
  <2>1. CASE a # s BY <1>0, <1>4, <2>1, Zenon DEF SequencesOK, StepsOK
  <2>2. CASE a = s
    <3>1. q2[a].steps = << >> /\ q2[a].made = Len(Design[a]) /\ DOMAIN q2[a].steps = {} BY <1>4, <1>n, <2>2
    <3>2. ~(q2[a].made < Len(Design[a])) BY <3>1, DesignOK
    <3> QED BY <3>1, <3>2, Zenon DEF StepsOK, InOrder
  <2> QED BY <2>1, <2>2
<1>10. SequenceTypes' BY <1>0, <1>1, <1>4, <1>5, <1>7, <1>q, <1>r, <1>u DEF SequenceTypes, Worse
<1>11. PairsOK(sequence, row, tick, sent, tally)' /\ SequencesOK(sequence)'
  BY <1>1, <1>8, <1>9, <1>q, <1>r, <1>u
<1>12. (tally.intruded = {})' BY <1>7, <1>u DEF SequenceInv, Worse
<1> QED BY <1>10, <1>11, <1>12 DEF SequenceInv

------------------------------------------------------------------------------
\* The start.
LEMMA SequenceStart == ASSUME Init PROVE SequenceInv
<1>1. sequence \in AllSequences /\ SequencesOK(sequence)
  <2>1. ASSUME NEW s \in SequenceIds PROVE sequence[s] \in SequenceRecords /\ InOrder(sequence[s], Design[s])
    <3>1. CASE s \in Existing BY <3>1, MadeIs DEF Init
    <3>2. CASE s \notin Existing
      <4>x. PICK x : x = sequence[s] OBVIOUS
      <4>e. PICK e : e = << >> OBVIOUS
      <4>1. x = [exists |-> FALSE, stop |-> TRUE, steps |-> e, made |-> 0] /\ e \in Seq(StepRecords) /\ DOMAIN e = {}
        BY <3>2, <4>x, <4>e DEF Init, Unmade
      <4>2. x \in SequenceRecords BY <4>1, RecordIs
      <4>3. x.steps = e /\ x.made = 0 BY <4>1
      <4>4. InOrder(x, Design[s]) BY <4>1, <4>3, <4>e, Zenon DEF InOrder
      <4> QED BY <4>2, <4>4, <4>x
    <3> QED BY <3>1, <3>2
  <2>2. sequence = [s \in SequenceIds |-> sequence[s]] BY DEF Init
  <2>3. sequence \in AllSequences BY <2>1, <2>2 DEF AllSequences
  <2> QED BY <2>1, <2>3, Zenon DEF SequencesOK, StepsOK
<1>2. row \in AllRows /\ \A s \in SequenceIds, l \in Leads : row[s][l] = NoRow BY NewRows DEF Init, AllRows
<1>3. sent \in AllSent /\ \A s \in SequenceIds, l \in Leads, i \in StepIds : sent[s][l][i] = 0
  BY DEF Init, AllSent
<1>4. tick = [w \in Workers |-> IdleTick] BY DEF Init
<1>5. Ticks(tick) /\ \A w \in Workers : tick[w] = IdleTick BY <1>4, IdleIsTick DEF Ticks
<1>6. \A w \in Workers, p \in Pairs : ~Holding(tick, w, p) /\ ~Todo(tick, w, p)
  <2> SUFFICES ASSUME NEW w \in Workers, NEW p \in Pairs PROVE ~Holding(tick, w, p) /\ ~Todo(tick, w, p) OBVIOUS
  <2>1. tick[w].todo = {} /\ tick[w].pc = "idle" /\ "idle" # "sent" BY <1>5, IdleIsTick
  <2>2. ~Todo(tick, w, p) BY <2>1 DEF Todo
  <2>3. ~Sending(tick, w, p) BY <2>1 DEF Sending
  <2> QED BY <2>2, <2>3, Zenon DEF Holding
<1>7. poll \in [Pollers -> Polls] /\ request \in [Requests -> Enrolling] /\ inbox \subseteq Answers
  BY DEF Init, Polls, Enrolling
<1>8. /\ tally \in Tallies /\ tally.stopped = {} /\ tally.unwelcome = {} /\ tally.intruded = {}
  BY DEF Init, Tallies
<1>9. ASSUME NEW p \in Pairs PROVE PairOK(sequence, row, tick, sent, tally, p)
  <2>0. p[1] \in SequenceIds /\ p[2] \in Leads BY PairsAre
  <2>1. StatusOf(row, p) = None /\ StatusOf(row, p) \notin {"active", "awaiting_manual_action"}
    BY <2>0, <1>2 DEF StatusOf, NoRow, None
  <2>2. StoppedOK(sequence, row, tick, tally, p) BY <1>8, <1>6, Zenon DEF StoppedOK
  <2>3. \A i \in StepIds : sent[p[1]][p[2]][i] = 0 BY <2>0, <1>3
  <2>4. \A j \in 1..Len(Design[p[1]]) : sent[p[1]][p[2]][Design[p[1]][j].id] = 0
    <3> TAKE j \in 1..Len(Design[p[1]])
    <3>1. Design[p[1]][j] \in StepRecords BY <2>0, DesignOK
    <3>2. Design[p[1]][j].id \in StepIds BY <3>1 DEF StepRecords
    <3> QED BY <2>3, <3>2
  <2>5. RowOK(sequence, row, tick, sent, p) BY <2>1, <2>3, <2>4, <1>6, Zenon DEF RowOK
  <2>6. \A w \in Workers : TickOK(row, tick, sent, w, p)
    <3> TAKE w \in Workers
    <3>1. ~Holding(tick, w, p) BY <1>6
    <3> QED BY <3>1, Zenon DEF TickOK, Holding
  <2>7. \A i \in StepIds : sent[p[1]][p[2]][i] <= 1 BY <2>3
  <2> QED BY <2>1, <2>2, <2>5, <2>6, <2>7, <1>6, Zenon DEF PairOK, OnceOK
<1>10. PairsOK(sequence, row, tick, sent, tally) BY <1>9, Zenon DEF PairsOK
<1>11. SequenceTypes BY <1>1, <1>2, <1>3, <1>5, <1>7, <1>8 DEF SequenceTypes
<1> QED BY <1>1, <1>8, <1>10, <1>11, Zenon DEF SequenceInv

------------------------------------------------------------------------------
\* Every step keeps the invariant.

\* What a worker does.
LEMMA WorkerSteps ==
    ASSUME SequenceInv, NEW w \in Workers,
           \/ TickWorks(w)
           \/ \E p \in Pairs : OutOfWindow(w, p) \/ MailFails(w, p)
           \/ TickDies(w)
    PROVE  SequenceInv'
  BY StartTickStep, DecideStep, MailStep, AdvanceStep, FollowStep, EndTickStep, Zenon, OutOfWindowStep,
     MailFailsStep, TickDiesStep DEF TickWorks

\* What a poll does.
LEMMA PollerSteps ==
    ASSUME SequenceInv, NEW p \in Pollers, PollWorks(p) \/ PollDies(p) PROVE SequenceInv'
  BY PollReadStep, PostponeStep, NoteReplyStep, ShareStep, Zenon, PollDiesStep DEF PollWorks

\* What happens to enrollments.
LEMMA EnrollmentSteps ==
    ASSUME SequenceInv, NEW s \in SequenceIds, NEW l \in Leads,
           \/ Elapse(s, l)
           \/ \E r \in Requests, force \in BOOLEAN : EnrollReads(r, s, l, force)
           \/ Upsert(s, l) \/ McpEnroll(s, l) \/ Unenroll(s, l) \/ CompleteTask(s, l)
           \/ \E c \in SequenceIds : TriggerSub(s, c, l)
    PROVE  SequenceInv'
  BY ElapseStep, EnrollReadsStep, Zenon, UpsertStep, McpEnrollStep, UnenrollStep, CompleteTaskStep,
     TriggerSubStep

\* What happens to sequences.
LEMMA OwnerSteps ==
    ASSUME SequenceInv, NEW s \in SequenceIds,
           \/ CreateSequence(s) \/ CreateSubsequence(s) \/ FromTemplate(s)
           \/ \E n \in SequenceIds : Duplicate(s, n)
           \/ PatchSequence(s) \/ AddStep(s)
           \/ \E i \in DOMAIN sequence[s].steps : PatchStep(s, i) \/ DeleteStep(s, i)
           \/ DeleteSequence(s)
    PROVE  SequenceInv'
  BY CreateSteps, Zenon, DuplicateStep, PatchSequenceStep, AddStepStep, DeleteSequenceStep, PatchStepStep,
     DeleteStepStep

\* All of it.
LEMMA SequenceNext == ASSUME SequenceInv, Next PROVE SequenceInv'
  BY WorkerSteps, Zenon, PollerSteps, ReplyStep, SuppressStep, SalesforceStep, ExpireStep, BoxChangesStep,
     EnrollmentSteps, EnrollWritesStep, OwnerSteps DEF Next

\* A step elsewhere changes nothing here.
LEMMA SequenceRests == ASSUME SequenceInv, UNCHANGED vars PROVE SequenceInv'
  BY DEF vars, SequenceInv, SequenceTypes

------------------------------------------------------------------------------
\* The invariant of the sequences always holds.
THEOREM SequencesAreRight == MCSpec => []SequenceInv
<1>1. MCInit => SequenceInv BY SequenceStart DEF MCInit
<1>2. SequenceInv /\ [MCNext]_all => SequenceInv'
  <2> SUFFICES ASSUME SequenceInv, [MCNext]_all PROVE SequenceInv' OBVIOUS
  <2>1. CASE Sequences_(Next) BY <2>1, SequenceNext DEF Sequences_
  <2>2. CASE Mailboxes_(PoolNext) \/ Agents_(AgentNext) \/ UNCHANGED all
    BY <2>2, Zenon, SequenceRests DEF Mailboxes_, Agents_, all
  <2> QED BY <2>1, <2>2, Zenon DEF MCNext
<1> QED BY <1>1, <1>2, PTL DEF MCSpec

\* A lead gets each step once: evaluating, sending and recording a step are apart, and the
\* steps, the rows and the ticks change in between; but unless a mail was not recorded or
\* two ticks had the enrollment, no step goes out twice.
THEOREM StepOnceAlways == MCSpec => []StepOnce
<1>1. SequenceInv => StepOnce
  <2> SUFFICES ASSUME SequenceInv, NEW p \in Pairs, Spared(p, {"again", "overlap"}), NEW i \in StepIds
               PROVE  sent[p[1]][p[2]][i] <= 1
    BY Zenon DEF StepOnce
  <2>1. SpareO(tally, p) BY Zenon DEF Spared, SpareO
  <2>2. OnceOK(sequence, row, tick, sent, tally, p) BY Zenon DEF SequenceInv, PairsOK, PairOK
  <2> QED BY <2>1, <2>2, Zenon DEF OnceOK
<1> QED BY <1>1, SequencesAreRight, PTL

\* Who is stopped stays stopped: no later tick mails an enrollment that a reply, a bounce
\* or the owner ended, nothing but the owner makes it active again unless a tick or poll
\* had it in hand, and no tick mails an address that was suppressed when it began.
THEOREM StaysStoppedAlways == MCSpec => []StaysStopped
<1>1. SequenceInv => StaysStopped
  <2> SUFFICES ASSUME SequenceInv PROVE StaysStopped OBVIOUS
  <2>1. tally.intruded = {} BY DEF SequenceInv
  <2>2. ASSUME NEW p \in Pairs, Spared(p, {"overtaken", "rejoined"})
        PROVE  (p \in tally.stopped => ~Is(p[1], p[2], {"active"})) /\ p \notin tally.unwelcome
    BY <2>2, Zenon DEF Spared, SpareS, SequenceInv, PairsOK, PairOK, StoppedOK, StatusOf, Is
  <2> QED BY <2>1, <2>2, Zenon DEF StaysStopped
<1> QED BY <1>1, SequencesAreRight, PTL

------------------------------------------------------------------------------
\* Agent runs: what is stored.
IsCfg(c) == \E d, s, n, b :
    c = [draft |-> d, sent |-> s, search |-> n, base |-> b] /\ d \in BOOLEAN /\ s \in BOOLEAN /\ n \in Nat
IsRun(x) == \E p, s, a, d, f, c :
    /\ x = [pillar |-> p, status |-> s, paused |-> a, due |-> d, fails |-> f, cfg |-> c]
    /\ IsCfg(c)
IsSeen(x) == \E s, c : x = [status |-> s, cfg |-> c] /\ IsCfg(c)
AgentAt == {"held", "started", "imported", "draft", "sent"}
IsAgent(x) == \E p, t, o, a, f :
    /\ x = [pc |-> p, todo |-> t, rows |-> o, at |-> a, found |-> f]
    /\ t \subseteq Runs /\ f \in Nat /\ p \in {"idle", "open"} \cup AgentAt
    /\ IF p \in AgentAt THEN a \in Runs ELSE a = Nothing
    /\ p = "idle" => t = {}
    /\ \A r \in Runs : r \in t \/ r = a => IsSeen(o[r])
IsCall(x) == \E p, a, w, c, g :
    /\ x = [pc |-> p, at |-> a, was |-> w, cfg |-> c, arg |-> g]
    /\ p \in {"idle", "create", "kick", "patch", "approve", "sent"}
    /\ IF p = "idle" THEN a = Nothing ELSE a \in Runs
    /\ IsCfg(c) /\ (p = "create" => g # Nothing)
RunMarks == {"raced", "stale", "torn", "unkicked"}
IsTold(t) == \E n, s, c, x, m :
    /\ t = [turns |-> n, sends |-> s, counted |-> c, cancelled |-> x, spoilt |-> m]
    /\ s \in [Runs -> Nat] /\ c \in Seq(Nat) /\ x \subseteq Runs /\ m \in [Runs -> SUBSET RunMarks]
RunTypes  == run = [r \in Runs |-> run[r]] /\ \A r \in Runs : IsRun(run[r])
LockTypes == lock = [r \in Runs |-> lock[r]]
WorkTypes == agent = [w \in AgentWorkers |-> agent[w]] /\ \A w \in AgentWorkers : IsAgent(agent[w])
CallTypes == call = [q \in Calls |-> call[q]] /\ \A q \in Calls : IsCall(call[q])
ToldTypes == search \in Seq({"running", "done", "failed"}) /\ IsTold(told) /\ Len(told.counted) = Len(search)
AgentTypes == RunTypes /\ LockTypes /\ WorkTypes /\ CallTypes /\ ToldTypes

\* A worker has the run in hand, or will; a request has.
Worked(r) == \E w \in AgentWorkers : agent[w].at = r \/ r \in agent[w].todo
Called(r) == \E q \in Calls : call[q].at = r
Clear(r) == ~Spoilt(r, {"raced", "stale", "torn"})

NewOK(r) ==
    /\ run[r].pillar = Nothing =>
          /\ run[r].status = Nothing /\ ~run[r].cfg.sent /\ run[r].cfg.search = 0 /\ told.sends[r] = 0
          /\ r \notin told.cancelled /\ ~Worked(r)
          /\ \A q, p \in Calls : call[q].at = r /\ call[p].at = r => q = p
    /\ \A q \in Calls : call[q].at = r => (call[q].pc = "create" <=> run[r].pillar = Nothing)
CancelOK(r) ==
    r \in told.cancelled /\ ~Spoilt(r, {"raced", "stale"}) => Of(r, {"cancelled"}) /\ ~Worked(r) /\ ~Called(r)
HeldOK(r) == Clear(r) =>
    /\ \A w \in AgentWorkers : agent[w].at = r =>
          /\ lock[r] = w /\ agent[w].rows[r].cfg = run[r].cfg
          /\ agent[w].pc \in {"draft", "sent"} => ~run[r].cfg.sent
    /\ run[r].status = "pending_approval" => ~run[r].cfg.sent
    /\ \A q \in Calls : call[q].at = r /\ call[q].pc \in {"approve", "sent"} =>
          run[r].status = "pending_approval" /\ ~Worked(r) /\ \A p \in Calls : call[p].at = r => p = q
SentOK(r) == Clear(r) =>
    /\ told.sends[r] <= 1
    /\ told.sends[r] # 0 => \/ run[r].cfg.sent
                            \/ \E w \in AgentWorkers : agent[w].at = r /\ agent[w].pc = "sent"
                            \/ \E q \in Calls : call[q].at = r /\ call[q].pc = "sent"
SearchOK ==
    /\ \A r \in Runs : run[r].cfg.search <= Len(search)
    /\ \A r, s \in Runs : run[r].cfg.search # 0 /\ run[r].cfg.search = run[s].cfg.search => r = s
    /\ \A w \in AgentWorkers : agent[w].pc = "started" =>
          /\ agent[w].found \in 1 .. Len(search)
          /\ \A r \in Runs : run[r].cfg.search # agent[w].found
          /\ \A v \in AgentWorkers : agent[v].pc = "started" /\ agent[v].found = agent[w].found => v = w
    /\ \A i \in 1 .. Len(search) : told.counted[i] # 0 =>
          /\ told.counted[i] = 1
          /\ \A r \in Runs : run[r].cfg.search = i => \E w \in AgentWorkers : agent[w].at = r /\ agent[w].pc = "imported"
          /\ \A w \in AgentWorkers : agent[w].pc = "started" => agent[w].found # i
RunOK(r) == NewOK(r) /\ CancelOK(r) /\ HeldOK(r) /\ SentOK(r)
AgentInv ==
    /\ AgentTypes
    /\ \A r \in Runs : RunOK(r)
    /\ (\A r \in Runs : Clear(r)) => SearchOK

\* A record with its fields is a run.
LEMMA IsRunIs ==
  ASSUME NEW p, NEW s, NEW a, NEW d, NEW f, NEW c, IsCfg(c)
  PROVE  IsRun([pillar |-> p, status |-> s, paused |-> a, due |-> d, fails |-> f, cfg |-> c])
BY Zenon DEF IsRun

\* A record with its fields is a config.
LEMMA IsCfgIs ==
  ASSUME NEW b, NEW d \in BOOLEAN, NEW s \in BOOLEAN, NEW n \in Nat
  PROVE  IsCfg([draft |-> d, sent |-> s, search |-> n, base |-> b])
BY Zenon DEF IsCfg

\* A config with another search.
LEMMA CfgSearch ==
  ASSUME NEW c, IsCfg(c), NEW n \in Nat, NEW x, x = [c EXCEPT !.search = n]
  PROVE  IsCfg(x) /\ x.search = n /\ x.sent = c.sent /\ x.draft = c.draft
<1>1. PICK d, s, m, b :
         c = [draft |-> d, sent |-> s, search |-> m, base |-> b] /\ d \in BOOLEAN /\ s \in BOOLEAN /\ m \in Nat
  BY Zenon DEF IsCfg
<1>2. x = [draft |-> d, sent |-> s, search |-> n, base |-> b] BY <1>1
<1>3. IsCfg(x) /\ x.search = n /\ x.sent = s /\ x.draft = d BY <1>1, <1>2, IsCfgIs
<1>4. c.sent = s /\ c.draft = d BY <1>1
<1> QED BY <1>3, <1>4

\* A config that says the mail was sent.
LEMMA CfgSent ==
  ASSUME NEW c, IsCfg(c), NEW x, x = [c EXCEPT !.sent = TRUE]
  PROVE  IsCfg(x) /\ x.search = c.search /\ x.sent = TRUE /\ x.draft = c.draft
<1>1. PICK d, s, m, b :
         c = [draft |-> d, sent |-> s, search |-> m, base |-> b] /\ d \in BOOLEAN /\ s \in BOOLEAN /\ m \in Nat
  BY Zenon DEF IsCfg
<1>t. PICK t \in BOOLEAN : t = TRUE OBVIOUS
<1>2. x = [draft |-> d, sent |-> t, search |-> m, base |-> b] BY <1>1, <1>t
<1>5. IsCfg([draft |-> d, sent |-> t, search |-> m, base |-> b]) BY <1>1, <1>t, IsCfgIs
<1>6. IsCfg(x) BY <1>2, <1>5, Zenon
<1>7. x.search = m /\ x.sent = t /\ x.draft = d BY <1>1, <1>2, <1>t
<1>3. IsCfg(x) /\ x.search = m /\ x.sent = t /\ x.draft = d BY <1>6, <1>7
<1>4. c.search = m /\ c.draft = d BY <1>1
<1> QED BY <1>3, <1>4, <1>t

\* A config that has a draft.
LEMMA CfgDraft ==
  ASSUME NEW c, IsCfg(c), NEW x, x = [c EXCEPT !.draft = TRUE]
  PROVE  IsCfg(x) /\ x.search = c.search /\ x.sent = c.sent /\ x.draft = TRUE
<1>1. PICK d, s, m, b :
         c = [draft |-> d, sent |-> s, search |-> m, base |-> b] /\ d \in BOOLEAN /\ s \in BOOLEAN /\ m \in Nat
  BY Zenon DEF IsCfg
<1>t. PICK t \in BOOLEAN : t = TRUE OBVIOUS
<1>2. x = [draft |-> t, sent |-> s, search |-> m, base |-> b] BY <1>1, <1>t
<1>5. IsCfg([draft |-> t, sent |-> s, search |-> m, base |-> b]) BY <1>1, <1>t, IsCfgIs
<1>6. IsCfg(x) BY <1>2, <1>5, Zenon
<1>7. x.search = m /\ x.sent = s /\ x.draft = t BY <1>1, <1>2, <1>t
<1>3. IsCfg(x) /\ x.search = m /\ x.sent = s /\ x.draft = t BY <1>6, <1>7
<1>4. c.search = m /\ c.sent = s BY <1>1
<1> QED BY <1>3, <1>4, <1>t

\* A config that has a draft and says it was sent.
LEMMA CfgDraftSent ==
  ASSUME NEW c, IsCfg(c), NEW x, x = [c EXCEPT !.draft = TRUE, !.sent = TRUE]
  PROVE  IsCfg(x) /\ x.search = c.search /\ x.sent = TRUE
<1>1. PICK y : y = [c EXCEPT !.draft = TRUE] OBVIOUS
<1>2. IsCfg(y) /\ y.search = c.search BY <1>1, CfgDraft
<1>3. x = [y EXCEPT !.sent = TRUE] BY <1>1
<1> QED BY <1>2, <1>3, CfgSent

\* What a change of a run leaves.
LEMMA RunDue ==
  ASSUME NEW x, IsRun(x), NEW y, NEW e, y = [x EXCEPT !.due = e]
  PROVE  IsRun(y) /\ y.pillar = x.pillar /\ y.status = x.status /\ y.cfg = x.cfg
<1>1. PICK p, s, a, d, f, c : x = [pillar |-> p, status |-> s, paused |-> a, due |-> d, fails |-> f, cfg |-> c] /\ IsCfg(c)
  BY Zenon DEF IsRun
<1>2. y = [pillar |-> p, status |-> s, paused |-> a, due |-> e, fails |-> f, cfg |-> c] BY <1>1
<1>3. IsRun(y) /\ y.pillar = p /\ y.status = s /\ y.cfg = c BY <1>1, <1>2, IsRunIs
<1>4. x.pillar = p /\ x.status = s /\ x.cfg = c BY <1>1
<1> QED BY <1>3, <1>4

\* A run with another status.
LEMMA RunStatus ==
  ASSUME NEW x, IsRun(x), NEW y, NEW e, y = [x EXCEPT !.status = e]
  PROVE  IsRun(y) /\ y.pillar = x.pillar /\ y.status = e /\ y.cfg = x.cfg
<1>1. PICK p, s, a, d, f, c : x = [pillar |-> p, status |-> s, paused |-> a, due |-> d, fails |-> f, cfg |-> c] /\ IsCfg(c)
  BY Zenon DEF IsRun
<1>2. y = [pillar |-> p, status |-> e, paused |-> a, due |-> d, fails |-> f, cfg |-> c] BY <1>1
<1>3. IsRun(y) /\ y.pillar = p /\ y.status = e /\ y.cfg = c BY <1>1, <1>2, IsRunIs
<1>4. x.pillar = p /\ x.status = s /\ x.cfg = c BY <1>1
<1> QED BY <1>3, <1>4

\* A run paused or resumed.
LEMMA RunPaused ==
  ASSUME NEW x, IsRun(x), NEW y, NEW e, y = [x EXCEPT !.paused = e]
  PROVE  IsRun(y) /\ y.pillar = x.pillar /\ y.status = x.status /\ y.cfg = x.cfg
<1>1. PICK p, s, a, d, f, c : x = [pillar |-> p, status |-> s, paused |-> a, due |-> d, fails |-> f, cfg |-> c] /\ IsCfg(c)
  BY Zenon DEF IsRun
<1>2. y = [pillar |-> p, status |-> s, paused |-> e, due |-> d, fails |-> f, cfg |-> c] BY <1>1
<1>3. IsRun(y) /\ y.pillar = p /\ y.status = s /\ y.cfg = c BY <1>1, <1>2, IsRunIs
<1>4. x.pillar = p /\ x.status = s /\ x.cfg = c BY <1>1
<1> QED BY <1>3, <1>4

\* A run with another count of failures.
LEMMA RunFails ==
  ASSUME NEW x, IsRun(x), NEW y, NEW e, y = [x EXCEPT !.fails = e]
  PROVE  IsRun(y) /\ y.pillar = x.pillar /\ y.status = x.status /\ y.cfg = x.cfg
<1>1. PICK p, s, a, d, f, c : x = [pillar |-> p, status |-> s, paused |-> a, due |-> d, fails |-> f, cfg |-> c] /\ IsCfg(c)
  BY Zenon DEF IsRun
<1>2. y = [pillar |-> p, status |-> s, paused |-> a, due |-> d, fails |-> e, cfg |-> c] BY <1>1
<1>3. IsRun(y) /\ y.pillar = p /\ y.status = s /\ y.cfg = c BY <1>1, <1>2, IsRunIs
<1>4. x.pillar = p /\ x.status = s /\ x.cfg = c BY <1>1
<1> QED BY <1>3, <1>4

\* A run with another config.
LEMMA RunCfg ==
  ASSUME NEW x, IsRun(x), NEW y, NEW e, IsCfg(e), y = [x EXCEPT !.cfg = e]
  PROVE  IsRun(y) /\ y.pillar = x.pillar /\ y.status = x.status /\ y.cfg = e
<1>1. PICK p, s, a, d, f, c : x = [pillar |-> p, status |-> s, paused |-> a, due |-> d, fails |-> f, cfg |-> c] /\ IsCfg(c)
  BY Zenon DEF IsRun
<1>2. y = [pillar |-> p, status |-> s, paused |-> a, due |-> d, fails |-> f, cfg |-> e] BY <1>1
<1>5. IsRun([pillar |-> p, status |-> s, paused |-> a, due |-> d, fails |-> f, cfg |-> e]) BY IsRunIs
<1>6. IsRun(y) BY <1>2, <1>5, Zenon
<1>7. y.pillar = p /\ y.status = s /\ y.cfg = e BY <1>2
<1>3. IsRun(y) /\ y.pillar = p /\ y.status = s /\ y.cfg = e BY <1>6, <1>7
<1>4. x.pillar = p /\ x.status = s /\ x.cfg = c BY <1>1
<1> QED BY <1>3, <1>4

\* A check that is done, and one that failed.
LEMMA RescheduledIs ==
  ASSUME NEW x, IsRun(x)
  PROVE  IsRun(Rescheduled(x)) /\ Rescheduled(x).pillar = x.pillar /\ Rescheduled(x).status = x.status /\ Rescheduled(x).cfg = x.cfg
<1>1. PICK y : y = [x EXCEPT !.due = "later"] OBVIOUS
<1>2. IsRun(y) /\ y.pillar = x.pillar /\ y.status = x.status /\ y.cfg = x.cfg BY <1>1, RunDue
<1>3. PICK z : z = [y EXCEPT !.fails = 0] OBVIOUS
<1>4. IsRun(z) /\ z.pillar = y.pillar /\ z.status = y.status /\ z.cfg = y.cfg BY <1>2, <1>3, RunFails
<1>5. z = Rescheduled(x) BY <1>1, <1>3 DEF Rescheduled
<1> QED BY <1>2, <1>4, <1>5

\* A run whose check failed keeps its pillar and config; its status may be "paused".
LEMMA FailedIs ==
  ASSUME NEW x, IsRun(x)
  PROVE  IsRun(Failed(x)) /\ Failed(x).pillar = x.pillar /\ Failed(x).status \in {x.status, "paused"} /\ Failed(x).cfg = x.cfg
<1>1. PICK p, s, a, d, f, c : x = [pillar |-> p, status |-> s, paused |-> a, due |-> d, fails |-> f, cfg |-> c] /\ IsCfg(c)
  BY Zenon DEF IsRun
<1>2. PICK s1 : s1 = IF f + 1 >= MAX_FAILURES THEN "paused" ELSE s OBVIOUS
<1>3. PICK a1 : a1 = (a \/ f + 1 >= MAX_FAILURES) OBVIOUS
<1>4. PICK f1 : f1 = IF f < MAX_FAILURES THEN f + 1 ELSE f OBVIOUS
<1>5. PICK x1 : x1 = [x EXCEPT !.fails = f1] OBVIOUS
<1>6. PICK x2 : x2 = [x1 EXCEPT !.due = "later"] OBVIOUS
<1>7. PICK x3 : x3 = [x2 EXCEPT !.paused = a1] OBVIOUS
<1>8. PICK x4 : x4 = [x3 EXCEPT !.status = s1] OBVIOUS
<1>f. x.fails = f /\ x.paused = a /\ x.status = s BY <1>1
<1>9. [x EXCEPT !.fails = f1, !.due = "later", !.paused = a1, !.status = s1] = x4
  BY <1>5, <1>6, <1>7, <1>8
<1>10. Failed(x) = [x EXCEPT !.fails = f1, !.due = "later", !.paused = a1, !.status = s1]
  BY <1>2, <1>3, <1>4, <1>f DEF Failed
<1>11. IsRun(x1) /\ x1.pillar = x.pillar /\ x1.status = x.status /\ x1.cfg = x.cfg BY <1>5, RunFails
<1>12. IsRun(x2) /\ x2.pillar = x1.pillar /\ x2.status = x1.status /\ x2.cfg = x1.cfg BY <1>11, <1>6, RunDue
<1>13. IsRun(x3) /\ x3.pillar = x2.pillar /\ x3.status = x2.status /\ x3.cfg = x2.cfg BY <1>12, <1>7, RunPaused
<1>14. IsRun(x4) /\ x4.pillar = x3.pillar /\ x4.status = s1 /\ x4.cfg = x3.cfg BY <1>13, <1>8, RunStatus
<1>15. s1 \in {s, "paused"} BY <1>2
<1> QED BY <1>9, <1>10, <1>11, <1>12, <1>13, <1>14, <1>15, <1>f

\* The ghosts of a record.
LEMMA IsToldIs ==
  ASSUME NEW n, NEW s \in [Runs -> Nat], NEW c \in Seq(Nat), NEW x \in SUBSET Runs, NEW m \in [Runs -> SUBSET RunMarks]
  PROVE  IsTold([turns |-> n, sends |-> s, counted |-> c, cancelled |-> x, spoilt |-> m])
BY Zenon DEF IsTold

\* The fields of what is told.
LEMMA ToldFields ==
  ASSUME NEW t, IsTold(t)
  PROVE  t.sends \in [Runs -> Nat] /\ t.counted \in Seq(Nat) /\ t.cancelled \subseteq Runs /\ t.spoilt \in [Runs -> SUBSET RunMarks]
<1>1. PICK n, s, c, x, m :
        /\ t = [turns |-> n, sends |-> s, counted |-> c, cancelled |-> x, spoilt |-> m]
        /\ s \in [Runs -> Nat] /\ c \in Seq(Nat) /\ x \subseteq Runs /\ m \in [Runs -> SUBSET RunMarks]
  BY Zenon DEF IsTold
<1> QED BY <1>1

\* A mark is added.
LEMMA SpoilIs ==
  ASSUME NEW t, IsTold(t), NEW r \in Runs, NEW what \in RunMarks
  PROVE  /\ IsTold(Spoil(t, r, what)) /\ Spoil(t, r, what).sends = t.sends /\ Spoil(t, r, what).counted = t.counted
         /\ Spoil(t, r, what).cancelled = t.cancelled
         /\ what \in Spoil(t, r, what).spoilt[r] /\ t.spoilt[r] \subseteq Spoil(t, r, what).spoilt[r]
         /\ \A s \in Runs \ {r} : Spoil(t, r, what).spoilt[s] = t.spoilt[s]
<1>1. PICK n, s, c, x, m :
        /\ t = [turns |-> n, sends |-> s, counted |-> c, cancelled |-> x, spoilt |-> m]
        /\ s \in [Runs -> Nat] /\ c \in Seq(Nat) /\ x \subseteq Runs /\ m \in [Runs -> SUBSET RunMarks]
  BY Zenon DEF IsTold
<1>2. PICK k : k = [m EXCEPT ![r] = @ \cup {what}] OBVIOUS
<1>3. k \in [Runs -> SUBSET RunMarks] /\ k[r] = m[r] \cup {what} /\ \A o \in Runs \ {r} : k[o] = m[o] BY <1>1, <1>2
<1>4. PICK u : u = Spoil(t, r, what) OBVIOUS
<1>5. u = [turns |-> n, sends |-> s, counted |-> c, cancelled |-> x, spoilt |-> k] BY <1>1, <1>2, <1>4 DEF Spoil
<1>6. IsTold(u)
  <2>1. IsTold([turns |-> n, sends |-> s, counted |-> c, cancelled |-> x, spoilt |-> k]) BY <1>1, <1>3, IsToldIs
  <2> QED BY <2>1, <1>5, Zenon
<1>7. u.sends = s /\ u.counted = c /\ u.cancelled = x /\ u.spoilt = k BY <1>5
<1>8. t.sends = s /\ t.counted = c /\ t.cancelled = x /\ t.spoilt = m BY <1>1
<1> QED BY <1>3, <1>4, <1>6, <1>7, <1>8

\* Turns are counted.
LEMMA TurnsTell ==
  ASSUME NEW t, IsTold(t), NEW n, Turns(n, t)
  PROVE  /\ IsTold(told') /\ told'.sends = t.sends /\ told'.counted = t.counted /\ told'.cancelled = t.cancelled
         /\ told'.spoilt = t.spoilt
<1>1. PICK i, s, c, x, m :
        /\ t = [turns |-> i, sends |-> s, counted |-> c, cancelled |-> x, spoilt |-> m]
        /\ s \in [Runs -> Nat] /\ c \in Seq(Nat) /\ x \subseteq Runs /\ m \in [Runs -> SUBSET RunMarks]
  BY Zenon DEF IsTold
<1>4. PICK u : u = told' OBVIOUS
<1>5. u = [turns |-> i + n, sends |-> s, counted |-> c, cancelled |-> x, spoilt |-> m] BY <1>1, <1>4 DEF Turns
<1>6. IsTold(u)
  <2>1. IsTold([turns |-> i + n, sends |-> s, counted |-> c, cancelled |-> x, spoilt |-> m]) BY <1>1, IsToldIs
  <2> QED BY <2>1, <1>5, Zenon
<1>7. u.sends = s /\ u.counted = c /\ u.cancelled = x /\ u.spoilt = m BY <1>5
<1>8. t.sends = s /\ t.counted = c /\ t.cancelled = x /\ t.spoilt = m BY <1>1
<1> QED BY <1>4, <1>6, <1>7, <1>8

\* A mail is counted, a search begins, its addresses are counted, a run is cancelled.
SendTold(t, r) == [t EXCEPT !.sends[r] = @ + 1]

\* A mail of a run is counted.
LEMMA SendTells ==
  ASSUME NEW t, IsTold(t), NEW r \in Runs, NEW u, u = SendTold(t, r)
  PROVE  /\ IsTold(u) /\ u.counted = t.counted /\ u.cancelled = t.cancelled /\ u.spoilt = t.spoilt
         /\ u.sends[r] = t.sends[r] + 1 /\ \A s \in Runs \ {r} : u.sends[s] = t.sends[s]
<1>1. PICK i, s, c, x, m :
        /\ t = [turns |-> i, sends |-> s, counted |-> c, cancelled |-> x, spoilt |-> m]
        /\ s \in [Runs -> Nat] /\ c \in Seq(Nat) /\ x \subseteq Runs /\ m \in [Runs -> SUBSET RunMarks]
  BY Zenon DEF IsTold
<1>2. PICK k : k = [s EXCEPT ![r] = @ + 1] OBVIOUS
<1>3. k \in [Runs -> Nat] /\ k[r] = s[r] + 1 /\ \A o \in Runs \ {r} : k[o] = s[o] BY <1>1, <1>2
<1>5. u = [turns |-> i, sends |-> k, counted |-> c, cancelled |-> x, spoilt |-> m] BY <1>1, <1>2 DEF SendTold
<1>6. IsTold(u)
  <2>1. IsTold([turns |-> i, sends |-> k, counted |-> c, cancelled |-> x, spoilt |-> m]) BY <1>1, <1>3, IsToldIs
  <2> QED BY <2>1, <1>5, Zenon
<1>7. u.sends = k /\ u.counted = c /\ u.cancelled = x /\ u.spoilt = m BY <1>5
<1>8. t.sends = s /\ t.counted = c /\ t.cancelled = x /\ t.spoilt = m BY <1>1
<1> QED BY <1>3, <1>6, <1>7, <1>8

\* A run is cancelled.
LEMMA CancelTells ==
  ASSUME NEW t, IsTold(t), NEW r \in Runs, NEW u, u = [t EXCEPT !.cancelled = @ \cup {r}]
  PROVE  /\ IsTold(u) /\ u.counted = t.counted /\ u.cancelled = t.cancelled \cup {r} /\ u.spoilt = t.spoilt
         /\ u.sends = t.sends
<1>1. PICK i, s, c, x, m :
        /\ t = [turns |-> i, sends |-> s, counted |-> c, cancelled |-> x, spoilt |-> m]
        /\ s \in [Runs -> Nat] /\ c \in Seq(Nat) /\ x \subseteq Runs /\ m \in [Runs -> SUBSET RunMarks]
  BY Zenon DEF IsTold
<1>2. PICK k : k = x \cup {r} OBVIOUS
<1>3. k \subseteq Runs BY <1>1, <1>2
<1>5. u = [turns |-> i, sends |-> s, counted |-> c, cancelled |-> k, spoilt |-> m] BY <1>1, <1>2
<1>6. IsTold(u)
  <2>1. IsTold([turns |-> i, sends |-> s, counted |-> c, cancelled |-> k, spoilt |-> m]) BY <1>1, <1>3, IsToldIs
  <2> QED BY <2>1, <1>5, Zenon
<1>7. u.sends = s /\ u.counted = c /\ u.cancelled = k /\ u.spoilt = m BY <1>5
<1>8. t.sends = s /\ t.counted = c /\ t.cancelled = x /\ t.spoilt = m BY <1>1
<1> QED BY <1>2, <1>3, <1>6, <1>7, <1>8

\* A search begins, and nothing is counted of it.
LEMMA FoundTells ==
  ASSUME NEW t, IsTold(t), NEW u, u = [t EXCEPT !.counted = Append(@, 0)]
  PROVE  /\ IsTold(u) /\ u.sends = t.sends /\ u.cancelled = t.cancelled /\ u.spoilt = t.spoilt
         /\ Len(u.counted) = Len(t.counted) + 1 /\ u.counted[Len(t.counted) + 1] = 0
         /\ \A i \in 1 .. Len(t.counted) : u.counted[i] = t.counted[i]
<1>1. PICK i, s, c, x, m :
        /\ t = [turns |-> i, sends |-> s, counted |-> c, cancelled |-> x, spoilt |-> m]
        /\ s \in [Runs -> Nat] /\ c \in Seq(Nat) /\ x \subseteq Runs /\ m \in [Runs -> SUBSET RunMarks]
  BY Zenon DEF IsTold
<1>2. PICK k : k = Append(c, 0) OBVIOUS
<1>3. k \in Seq(Nat) /\ Len(k) = Len(c) + 1 /\ k[Len(c) + 1] = 0 /\ \A j \in 1 .. Len(c) : k[j] = c[j]
  BY <1>1, <1>2, AppendProperties
<1>5. u = [turns |-> i, sends |-> s, counted |-> k, cancelled |-> x, spoilt |-> m] BY <1>1, <1>2
<1>6. IsTold(u)
  <2>1. IsTold([turns |-> i, sends |-> s, counted |-> k, cancelled |-> x, spoilt |-> m]) BY <1>1, <1>3, IsToldIs
  <2> QED BY <2>1, <1>5, Zenon
<1>7. u.sends = s /\ u.counted = k /\ u.cancelled = x /\ u.spoilt = m BY <1>5
<1>8. t.sends = s /\ t.counted = c /\ t.cancelled = x /\ t.spoilt = m BY <1>1
<1> QED BY <1>3, <1>6, <1>7, <1>8

\* The addresses of a search are counted.
LEMMA CountTells ==
  ASSUME NEW t, IsTold(t), NEW l \in 1 .. Len(t.counted), NEW u, u = [t EXCEPT !.counted[l] = @ + 1]
  PROVE  /\ IsTold(u) /\ u.sends = t.sends /\ u.cancelled = t.cancelled /\ u.spoilt = t.spoilt
         /\ Len(u.counted) = Len(t.counted) /\ u.counted[l] = t.counted[l] + 1
         /\ \A i \in 1 .. Len(t.counted) : i # l => u.counted[i] = t.counted[i]
<1>1. PICK i, s, c, x, m :
        /\ t = [turns |-> i, sends |-> s, counted |-> c, cancelled |-> x, spoilt |-> m]
        /\ s \in [Runs -> Nat] /\ c \in Seq(Nat) /\ x \subseteq Runs /\ m \in [Runs -> SUBSET RunMarks]
  BY Zenon DEF IsTold
<1>8. t.sends = s /\ t.counted = c /\ t.cancelled = x /\ t.spoilt = m BY <1>1
<1>9. l \in 1 .. Len(c) BY <1>8
<1>2. PICK k : k = [c EXCEPT ![l] = @ + 1] OBVIOUS
<1>3. k \in Seq(Nat) /\ Len(k) = Len(c) /\ k[l] = c[l] + 1 /\ \A j \in 1 .. Len(c) : j # l => k[j] = c[j]
  <2>1. c[l] + 1 \in Nat BY <1>1, <1>9
  <2>2. PICK v \in Nat : v = c[l] + 1 BY <2>1
  <2>3. k = [c EXCEPT ![l] = v] BY <1>2, <2>2
  <2>4. k \in Seq(Nat) /\ Len(k) = Len(c) /\ \A j \in 1 .. Len(c) : k[j] = IF j = l THEN v ELSE c[j]
    BY <1>1, <1>9, <2>3, ExceptSeq
  <2> QED BY <1>9, <2>2, <2>4
<1>5. u = [turns |-> i, sends |-> s, counted |-> k, cancelled |-> x, spoilt |-> m] BY <1>1, <1>2
<1>6. IsTold(u)
  <2>1. IsTold([turns |-> i, sends |-> s, counted |-> k, cancelled |-> x, spoilt |-> m]) BY <1>1, <1>3, IsToldIs
  <2> QED BY <2>1, <1>5, Zenon
<1>7. u.sends = s /\ u.counted = k /\ u.cancelled = x /\ u.spoilt = m BY <1>5
<1> QED BY <1>3, <1>6, <1>7, <1>8

\* A count of no search counts nothing.
LEMMA CountNone ==
  ASSUME NEW t, IsTold(t), NEW l \in Nat, l \notin 1 .. Len(t.counted), NEW u, u = [t EXCEPT !.counted[l] = @ + 1]
  PROVE  u = t
<1>1. PICK i, s, c, x, m :
        /\ t = [turns |-> i, sends |-> s, counted |-> c, cancelled |-> x, spoilt |-> m]
        /\ s \in [Runs -> Nat] /\ c \in Seq(Nat) /\ x \subseteq Runs /\ m \in [Runs -> SUBSET RunMarks]
  BY Zenon DEF IsTold
<1>8. t.counted = c BY <1>1
<1>9. DOMAIN c = 1 .. Len(c) /\ l \notin 1 .. Len(c) BY <1>1, <1>8
<1>2. PICK k : k = [c EXCEPT ![l] = @ + 1] OBVIOUS
<1>3. k = c BY <1>1, <1>2, <1>9
<1>5. u = [turns |-> i, sends |-> s, counted |-> k, cancelled |-> x, spoilt |-> m] BY <1>1, <1>2
<1> QED BY <1>1, <1>3, <1>5

\* What a worker does, as a record, and what it says.
LEMMA IsSeenOf ==
  ASSUME NEW x, IsRun(x)
  PROVE  IsSeen(Seen(x)) /\ Seen(x).cfg = x.cfg /\ IsCfg(x.cfg)
<1>1. PICK p, s, a, d, f, c : x = [pillar |-> p, status |-> s, paused |-> a, due |-> d, fails |-> f, cfg |-> c] /\ IsCfg(c)
  BY Zenon DEF IsRun
<1>2. Seen(x) = [status |-> s, cfg |-> c] /\ x.cfg = c BY <1>1 DEF Seen
<1>3. IsSeen([status |-> s, cfg |-> c]) BY <1>1, Zenon DEF IsSeen
<1>4. IsSeen(Seen(x)) BY <1>2, <1>3, Zenon
<1>5. Seen(x).cfg = c BY <1>2
<1>6. IsCfg(x.cfg) BY <1>1, <1>2, Zenon
<1> QED BY <1>2, <1>4, <1>5, <1>6

\* What was read of a run has its config.
LEMMA SeenHasCfg ==
  ASSUME NEW x, IsSeen(x)
  PROVE  IsCfg(x.cfg)
<1>1. PICK s, c : x = [status |-> s, cfg |-> c] /\ IsCfg(c) BY Zenon DEF IsSeen
<1>2. x.cfg = c BY <1>1
<1> QED BY <1>1, <1>2, Zenon

\* The fields of a config.
LEMMA CfgFields ==
  ASSUME NEW c, IsCfg(c)
  PROVE  c.sent \in BOOLEAN /\ c.draft \in BOOLEAN /\ c.search \in Nat
<1>1. PICK d, s, m, b :
         c = [draft |-> d, sent |-> s, search |-> m, base |-> b] /\ d \in BOOLEAN /\ s \in BOOLEAN /\ m \in Nat
  BY Zenon DEF IsCfg
<1> QED BY <1>1

\* A worker's record with its fields.
AgentOK(x) ==
    /\ x.todo \subseteq Runs /\ x.found \in Nat /\ x.pc \in {"idle", "open"} \cup AgentAt
    /\ x.pc \in AgentAt => x.at \in Runs
    /\ x.pc \notin AgentAt => x.at = Nothing
    /\ x.pc = "idle" => x.todo = {}
    /\ \A r \in Runs : r \in x.todo \/ r = x.at => IsSeen(x.rows[r])

\* A record with its fields is a worker's.
LEMMA AgentIs ==
  ASSUME NEW x, NEW p, NEW t, NEW o, NEW a, NEW f,
         x = [pc |-> p, todo |-> t, rows |-> o, at |-> a, found |-> f], AgentOK(x)
  PROVE  IsAgent(x)
<1>1. x.pc = p /\ x.todo = t /\ x.rows = o /\ x.at = a /\ x.found = f OBVIOUS
<1>2. /\ t \subseteq Runs /\ f \in Nat /\ p \in {"idle", "open"} \cup AgentAt
      /\ IF p \in AgentAt THEN a \in Runs ELSE a = Nothing
      /\ p = "idle" => t = {}
      /\ \A r \in Runs : r \in t \/ r = a => IsSeen(o[r])
  BY <1>1 DEF AgentOK
<1> QED BY <1>2, Zenon DEF IsAgent

\* A worker's record has its fields.
LEMMA AgentParts ==
  ASSUME NEW x, IsAgent(x)
  PROVE  /\ AgentOK(x)
         /\ x = [pc |-> x.pc, todo |-> x.todo, rows |-> x.rows, at |-> x.at, found |-> x.found]
<1>1. PICK p, t, o, a, f :
        /\ x = [pc |-> p, todo |-> t, rows |-> o, at |-> a, found |-> f]
        /\ t \subseteq Runs /\ f \in Nat /\ p \in {"idle", "open"} \cup AgentAt
        /\ IF p \in AgentAt THEN a \in Runs ELSE a = Nothing
        /\ p = "idle" => t = {}
        /\ \A r \in Runs : r \in t \/ r = a => IsSeen(o[r])
  BY Zenon DEF IsAgent
<1>2. x.pc = p /\ x.todo = t /\ x.rows = o /\ x.at = a /\ x.found = f BY <1>1
<1> QED BY <1>1, <1>2 DEF AgentOK

\* An idle worker.
LEMMA IdleAgentIs == IsAgent(IdleAgent) /\ IdleAgent.pc = "idle" /\ IdleAgent.at = Nothing /\ IdleAgent.todo = {} /\ IdleAgent.found = 0
<1>1. IdleAgent = [pc |-> "idle", todo |-> {}, rows |-> << >>, at |-> Nothing, found |-> 0] BY DEF IdleAgent
<1>2. IdleAgent.pc = "idle" /\ IdleAgent.at = Nothing /\ IdleAgent.todo = {} /\ IdleAgent.found = 0 BY <1>1
<1>3. AgentOK(IdleAgent) BY <1>2, AgentRunsAssumption DEF AgentOK, AgentAt
<1> QED BY <1>1, <1>2, <1>3, AgentIs

\* A worker that has read the runs it will work on.
LEMMA SnapshotIs ==
  ASSUME AgentTypes, NEW rs \in SUBSET Runs
  PROVE  IsAgent(Snapshot(rs)) /\ Snapshot(rs).pc = "open" /\ Snapshot(rs).at = Nothing /\ Snapshot(rs).todo = rs
<1>0. PICK o : o = [r \in rs |-> Seen(run[r])] OBVIOUS
<1>1. Snapshot(rs) = [pc |-> "open", todo |-> rs, rows |-> o, at |-> Nothing, found |-> 0] 
  <2>1. PICK i : i = IdleAgent OBVIOUS
  <2>2. i = [pc |-> "idle", todo |-> {}, rows |-> << >>, at |-> Nothing, found |-> 0] BY <2>1 DEF IdleAgent
  <2>3. Snapshot(rs) = [i EXCEPT !.pc = "open", !.todo = rs, !.rows = o] BY <1>0, <2>1 DEF Snapshot
  <2>4. PICK j : j = [i EXCEPT !.pc = "open"] OBVIOUS
  <2>5. j = [pc |-> "open", todo |-> {}, rows |-> << >>, at |-> Nothing, found |-> 0] BY <2>2, <2>4
  <2>6. PICK k : k = [j EXCEPT !.todo = rs] OBVIOUS
  <2>7. k = [pc |-> "open", todo |-> rs, rows |-> << >>, at |-> Nothing, found |-> 0] BY <2>5, <2>6
  <2>8. [k EXCEPT !.rows = o] = [pc |-> "open", todo |-> rs, rows |-> o, at |-> Nothing, found |-> 0] BY <2>7
  <2>9. Snapshot(rs) = [k EXCEPT !.rows = o] BY <2>3, <2>4, <2>6
  <2> QED BY <2>8, <2>9
<1>2. Snapshot(rs).pc = "open" /\ Snapshot(rs).at = Nothing /\ Snapshot(rs).todo = rs /\ Snapshot(rs).rows = o /\ Snapshot(rs).found = 0 BY <1>1
<1>3. ASSUME NEW r \in rs PROVE IsSeen(o[r])
  <2>1. IsRun(run[r]) BY DEF AgentTypes, RunTypes
  <2>2. IsSeen(Seen(run[r])) BY <2>1, IsSeenOf
  <2>3. o[r] = Seen(run[r]) BY <1>0
  <2> QED BY <2>2, <2>3
<1>4. AgentOK(Snapshot(rs)) BY <1>2, <1>3, AgentRunsAssumption DEF AgentOK, AgentAt
<1> QED BY <1>1, <1>2, <1>4, AgentIs

\* A worker drops a run, takes one, goes on with it, gives it back.
LEMMA DropsIs ==
  ASSUME NEW x, IsAgent(x), x.pc = "open", NEW r \in Runs, NEW y, y = [x EXCEPT !.todo = @ \ {r}]
  PROVE  IsAgent(y) /\ y.pc = "open" /\ y.at = Nothing /\ y.todo = x.todo \ {r} /\ y.found = x.found
<1>1. AgentOK(x) /\ x = [pc |-> x.pc, todo |-> x.todo, rows |-> x.rows, at |-> x.at, found |-> x.found] BY AgentParts
<1>2. PICK t : t = x.todo \ {r} OBVIOUS
<1>3. y = [pc |-> x.pc, todo |-> t, rows |-> x.rows, at |-> x.at, found |-> x.found] BY <1>1, <1>2
<1>4. y.pc = x.pc /\ y.todo = t /\ y.rows = x.rows /\ y.at = x.at /\ y.found = x.found BY <1>3
<1>5. AgentOK(y) BY <1>1, <1>2, <1>4 DEF AgentOK, AgentAt
<1>6. IsAgent(y) BY <1>3, <1>5, AgentIs
<1> QED BY <1>1, <1>2, <1>4, <1>6 DEF AgentOK, AgentAt
Held(x, r) == [x EXCEPT !.pc = "held", !.at = r, !.todo = @ \ {r}]

\* A worker that took the lock of a run.
LEMMA TakesIs ==
  ASSUME NEW x, IsAgent(x), x.pc = "open", NEW r \in x.todo
  PROVE  /\ IsAgent(Held(x, r)) /\ Held(x, r).pc = "held" /\ Held(x, r).at = r /\ Held(x, r).todo = x.todo \ {r}
         /\ Held(x, r).found = x.found /\ Held(x, r).rows = x.rows
<1>1. AgentOK(x) /\ x = [pc |-> x.pc, todo |-> x.todo, rows |-> x.rows, at |-> x.at, found |-> x.found] BY AgentParts
<1>2. PICK t : t = x.todo \ {r} OBVIOUS
<1>3. PICK j : j = [x EXCEPT !.pc = "held"] OBVIOUS
<1>4. j = [pc |-> "held", todo |-> x.todo, rows |-> x.rows, at |-> x.at, found |-> x.found] BY <1>1, <1>3
<1>5. PICK k : k = [j EXCEPT !.at = r] OBVIOUS
<1>6. k = [pc |-> "held", todo |-> x.todo, rows |-> x.rows, at |-> r, found |-> x.found] BY <1>4, <1>5
<1>7. PICK y : y = [k EXCEPT !.todo = t] OBVIOUS
<1>8. y = [pc |-> "held", todo |-> t, rows |-> x.rows, at |-> r, found |-> x.found] BY <1>6, <1>7
<1>9. y = Held(x, r)
  <2>1. k.todo = x.todo BY <1>6
  <2>2. y = [k EXCEPT !.todo = @ \ {r}] BY <1>2, <1>7, <2>1
  <2> QED BY <2>2, <1>3, <1>5 DEF Held
<1>10. y.pc = "held" /\ y.todo = t /\ y.rows = x.rows /\ y.at = r /\ y.found = x.found BY <1>8
<1>11. AgentOK(y) BY <1>1, <1>2, <1>10 DEF AgentOK, AgentAt
<1>12. IsAgent(y) BY <1>8, <1>11, AgentIs
<1> QED BY <1>2, <1>9, <1>10, <1>12
Moved(x, p, f) == [x EXCEPT !.pc = p, !.found = f]

\* A worker that goes on with its run.
LEMMA GoesIs ==
  ASSUME NEW x, IsAgent(x), x.pc \in AgentAt, NEW p \in AgentAt, NEW f \in Nat
  PROVE  /\ IsAgent(Moved(x, p, f)) /\ Moved(x, p, f).pc = p /\ Moved(x, p, f).at = x.at /\ Moved(x, p, f).todo = x.todo
         /\ Moved(x, p, f).found = f /\ Moved(x, p, f).rows = x.rows
<1>1. AgentOK(x) /\ x = [pc |-> x.pc, todo |-> x.todo, rows |-> x.rows, at |-> x.at, found |-> x.found] BY AgentParts
<1>2. PICK y : y = Moved(x, p, f) OBVIOUS
<1>3. y = [pc |-> p, todo |-> x.todo, rows |-> x.rows, at |-> x.at, found |-> f] BY <1>1, <1>2 DEF Moved
<1>4. y.pc = p /\ y.todo = x.todo /\ y.rows = x.rows /\ y.at = x.at /\ y.found = f BY <1>3
<1>5. AgentOK(y) BY <1>1, <1>4 DEF AgentOK, AgentAt
<1>6. IsAgent(y) BY <1>3, <1>5, AgentIs
<1> QED BY <1>2, <1>4, <1>6

\* A worker that gave its run back.
LEMMA ReleasedIs ==
  ASSUME NEW x, IsAgent(x), x.pc \in AgentAt
  PROVE  /\ IsAgent(GivenBack(x)) /\ GivenBack(x).pc = "open" /\ GivenBack(x).at = Nothing
         /\ GivenBack(x).todo = x.todo
<1>1. AgentOK(x) /\ x = [pc |-> x.pc, todo |-> x.todo, rows |-> x.rows, at |-> x.at, found |-> x.found] BY AgentParts
<1>2. PICK w : w = [o \in x.todo |-> x.rows[o]] OBVIOUS
<1>3. PICK i : i = [x EXCEPT !.pc = "open"] OBVIOUS
<1>4. i = [pc |-> "open", todo |-> x.todo, rows |-> x.rows, at |-> x.at, found |-> x.found] BY <1>1, <1>3
<1>5. PICK j : j = [i EXCEPT !.at = Nothing] OBVIOUS
<1>6. j = [pc |-> "open", todo |-> x.todo, rows |-> x.rows, at |-> Nothing, found |-> x.found] BY <1>4, <1>5
<1>7. PICK k : k = [j EXCEPT !.found = 0] OBVIOUS
<1>8. k = [pc |-> "open", todo |-> x.todo, rows |-> x.rows, at |-> Nothing, found |-> 0] BY <1>6, <1>7
<1>9. PICK y : y = [k EXCEPT !.rows = w] OBVIOUS
<1>10. y = [pc |-> "open", todo |-> x.todo, rows |-> w, at |-> Nothing, found |-> 0] BY <1>8, <1>9
<1>11. y = GivenBack(x)
  <2>1. GivenBack(x) = [x EXCEPT !.pc = "open", !.at = Nothing, !.found = 0, !.rows = w] BY <1>2 DEF GivenBack
  <2> QED BY <2>1, <1>3, <1>5, <1>7, <1>9
<1>12. y.pc = "open" /\ y.todo = x.todo /\ y.rows = w /\ y.at = Nothing /\ y.found = 0 BY <1>10
<1>13. \A r \in x.todo : w[r] = x.rows[r] BY <1>2
<1>14. AgentOK(y) BY <1>1, <1>12, <1>13, AgentRunsAssumption DEF AgentOK, AgentAt
<1>15. IsAgent(y) BY <1>10, <1>14, AgentIs
<1> QED BY <1>11, <1>12, <1>15

\* One entry changes: a run, a lock, what a worker does, what a request does.
Stored(r, y) == run' = [s \in Runs |-> IF s = r THEN y ELSE run[s]]
Works(w, y)  == agent' = [v \in AgentWorkers |-> IF v = w THEN y ELSE agent[v]]
Asks(q, y)   == call' = [o \in Calls |-> IF o = q THEN y ELSE call[o]]

\* One run changes, the others stay.
LEMMA StoredIs ==
  ASSUME RunTypes, NEW r \in Runs, NEW y, IsRun(y), Stored(r, y)
  PROVE  RunTypes' /\ run'[r] = y /\ \A s \in Runs \ {r} : run'[s] = run[s]
<1>1. run'[r] = y /\ \A s \in Runs \ {r} : run'[s] = run[s] BY DEF Stored
<1>2. \A s \in Runs : IsRun(run'[s]) BY <1>1 DEF RunTypes
<1>3. run' = [s \in Runs |-> run'[s]] BY DEF Stored
<1> QED BY <1>1, <1>2, <1>3 DEF RunTypes

\* One worker moves, the others stay.
LEMMA WorksIs ==
  ASSUME WorkTypes, NEW w \in AgentWorkers, NEW y, IsAgent(y), Works(w, y)
  PROVE  WorkTypes' /\ agent'[w] = y /\ \A v \in AgentWorkers \ {w} : agent'[v] = agent[v]
<1>1. agent'[w] = y /\ \A v \in AgentWorkers \ {w} : agent'[v] = agent[v] BY DEF Works
<1>2. \A v \in AgentWorkers : IsAgent(agent'[v]) BY <1>1 DEF WorkTypes
<1>3. agent' = [v \in AgentWorkers |-> agent'[v]] BY DEF Works
<1> QED BY <1>1, <1>2, <1>3 DEF WorkTypes

\* One request moves, the others stay.
LEMMA AsksIs ==
  ASSUME CallTypes, NEW q \in Calls, NEW y, IsCall(y), Asks(q, y)
  PROVE  CallTypes' /\ call'[q] = y /\ \A o \in Calls \ {q} : call'[o] = call[o]
<1>1. call'[q] = y /\ \A o \in Calls \ {q} : call'[o] = call[o] BY DEF Asks
<1>2. \A o \in Calls : IsCall(call'[o]) BY <1>1 DEF CallTypes
<1>3. call' = [o \in Calls |-> call'[o]] BY DEF Asks
<1> QED BY <1>1, <1>2, <1>3 DEF CallTypes

\* What the code writes, as one change.
LEMMA PutStores ==
  ASSUME RunTypes, NEW r \in Runs, NEW y, Put(r, y)
  PROVE  Stored(r, y)
BY DEF RunTypes, Put, Stored

\* A worker's record is replaced.
LEMMA WorksAll ==
  ASSUME WorkTypes, NEW w \in AgentWorkers, NEW y, agent' = [agent EXCEPT ![w] = y]
  PROVE  Works(w, y)
BY DEF WorkTypes, Works

\* A request's record is replaced.
LEMMA AsksAll ==
  ASSUME CallTypes, NEW q \in Calls, NEW y, call' = [call EXCEPT ![q] = y]
  PROVE  Asks(q, y)
BY DEF CallTypes, Asks

\* A request goes on.
LEMMA AsksPc ==
  ASSUME CallTypes, NEW q \in Calls, NEW p, call' = [call EXCEPT ![q].pc = p]
  PROVE  Asks(q, [call[q] EXCEPT !.pc = p])
<1>1. call' = [call EXCEPT ![q] = [call[q] EXCEPT !.pc = p]] BY DEF CallTypes
<1> QED BY <1>1, AsksAll

\* A worker goes on.
LEMMA WorksPc ==
  ASSUME WorkTypes, NEW w \in AgentWorkers, NEW p, agent' = [agent EXCEPT ![w].pc = p]
  PROVE  Works(w, Moved(agent[w], p, agent[w].found))
<1>1. agent' = [agent EXCEPT ![w] = [agent[w] EXCEPT !.pc = p]] BY DEF WorkTypes
<1>2. IsAgent(agent[w]) BY DEF WorkTypes
<1>3. PICK x : x = agent[w] OBVIOUS
<1>4. PICK c, t, o, a, n : x = [pc |-> c, todo |-> t, rows |-> o, at |-> a, found |-> n]
  <2>1. IsAgent(x) BY <1>2, <1>3
  <2> QED BY <2>1, Zenon DEF IsAgent
<1>5. PICK y : y = [x EXCEPT !.pc = p] OBVIOUS
<1>6. y = [pc |-> p, todo |-> t, rows |-> o, at |-> a, found |-> n] BY <1>4, <1>5
<1>7. x.found = n BY <1>4
<1>8. [agent[w] EXCEPT !.pc = p] = Moved(agent[w], p, agent[w].found)
  <2>1. PICK z : z = [y EXCEPT !.found = n] OBVIOUS
  <2>5. z = [pc |-> p, todo |-> t, rows |-> o, at |-> a, found |-> n] BY <1>6, <2>1
  <2>6. z = [x EXCEPT !.pc = p, !.found = n] BY <1>5, <2>1
  <2>2. [x EXCEPT !.pc = p] = [x EXCEPT !.pc = p, !.found = n] BY <1>5, <1>6, <2>5, <2>6
  <2>3. Moved(x, p, n) = [x EXCEPT !.pc = p, !.found = n] BY Zenon DEF Moved
  <2>4. [x EXCEPT !.pc = p] = Moved(x, p, x.found) BY <1>7, <2>2, <2>3, Zenon
  <2> QED BY <1>3, <2>4, Zenon
<1>9. agent' = [agent EXCEPT ![w] = Moved(agent[w], p, agent[w].found)] BY <1>1, <1>8
<1> QED BY <1>9, WorksAll

\* A worker passes a run over.
LEMMA WorksTodo ==
  ASSUME WorkTypes, NEW w \in AgentWorkers, NEW r, agent' = [agent EXCEPT ![w].todo = @ \ {r}]
  PROVE  Works(w, [agent[w] EXCEPT !.todo = @ \ {r}])
<1>1. agent' = [agent EXCEPT ![w] = [agent[w] EXCEPT !.todo = @ \ {r}]] BY DEF WorkTypes
<1> QED BY <1>1, WorksAll

\* A worker takes a run.
LEMMA WorksHeld ==
  ASSUME WorkTypes, NEW w \in AgentWorkers, NEW r,
         agent' = [agent EXCEPT ![w].pc = "held", ![w].at = r, ![w].todo = @ \ {r}]
  PROVE  Works(w, Held(agent[w], r))
<1>1. PICK f : f = [agent EXCEPT ![w].pc = "held"] OBVIOUS
<1>2. PICK g : g = [f EXCEPT ![w].at = r] OBVIOUS
<1>3. agent' = [g EXCEPT ![w].todo = @ \ {r}] BY <1>1, <1>2
<1>d. w \in DOMAIN agent /\ DOMAIN agent = AgentWorkers BY DEF WorkTypes
<1>4. f[w] = [agent[w] EXCEPT !.pc = "held"] /\ DOMAIN f = AgentWorkers /\ \A v \in AgentWorkers \ {w} : f[v] = agent[v]
  BY <1>1, <1>d
<1>5. g[w] = [f[w] EXCEPT !.at = r] /\ DOMAIN g = AgentWorkers /\ \A v \in AgentWorkers \ {w} : g[v] = f[v]
  BY <1>2, <1>4
<1>6. agent'[w] = [g[w] EXCEPT !.todo = @ \ {r}] /\ \A v \in AgentWorkers \ {w} : agent'[v] = g[v]
  BY <1>3, <1>5
<1>7. agent'[w] = Held(agent[w], r) BY <1>4, <1>5, <1>6 DEF Held
<1>8. agent' = [v \in AgentWorkers |-> agent'[v]] BY <1>3, <1>5
<1> QED BY <1>4, <1>5, <1>6, <1>7, <1>8 DEF Works

\* A worker starts a search.
LEMMA WorksStarted ==
  ASSUME WorkTypes, NEW w \in AgentWorkers, NEW n,
         agent' = [agent EXCEPT ![w].pc = "started", ![w].found = n]
  PROVE  Works(w, Moved(agent[w], "started", n))
<1>1. PICK f : f = [agent EXCEPT ![w].pc = "started"] OBVIOUS
<1>3. agent' = [f EXCEPT ![w].found = n] BY <1>1
<1>d. w \in DOMAIN agent /\ DOMAIN agent = AgentWorkers BY DEF WorkTypes
<1>4. f[w] = [agent[w] EXCEPT !.pc = "started"] /\ DOMAIN f = AgentWorkers /\ \A v \in AgentWorkers \ {w} : f[v] = agent[v]
  BY <1>1, <1>d
<1>6. agent'[w] = [f[w] EXCEPT !.found = n] /\ \A v \in AgentWorkers \ {w} : agent'[v] = f[v]
  BY <1>3, <1>4
<1>7. agent'[w] = Moved(agent[w], "started", n) BY <1>4, <1>6 DEF Moved
<1>8. agent' = [v \in AgentWorkers |-> agent'[v]] BY <1>3, <1>4
<1> QED BY <1>4, <1>6, <1>7, <1>8 DEF Works

\* A worker gives its run back.
LEMMA ReleaseWorks ==
  ASSUME WorkTypes, NEW w \in AgentWorkers, Release(w)
  PROVE  Works(w, GivenBack(agent[w]))
<1>1. agent' = [agent EXCEPT ![w] = GivenBack(agent[w])] BY Zenon DEF Release
<1> QED BY <1>1, WorksAll

\* A request's record with its fields.
CallOK(x) ==
    /\ x.pc \in {"idle", "create", "kick", "patch", "approve", "sent"}
    /\ x.pc = "idle" => x.at = Nothing
    /\ x.pc # "idle" => x.at \in Runs
    /\ IsCfg(x.cfg) /\ (x.pc = "create" => x.arg # Nothing)

\* A record with its fields is a request's.
LEMMA CallIs ==
  ASSUME NEW x, NEW p, NEW a, NEW w, NEW c, NEW g,
         x = [pc |-> p, at |-> a, was |-> w, cfg |-> c, arg |-> g], CallOK(x)
  PROVE  IsCall(x)
<1>1. x.pc = p /\ x.at = a /\ x.cfg = c /\ x.arg = g OBVIOUS
<1>2. /\ p \in {"idle", "create", "kick", "patch", "approve", "sent"}
      /\ IF p = "idle" THEN a = Nothing ELSE a \in Runs
      /\ p = "create" => g # Nothing
  BY <1>1 DEF CallOK
<1>3. IsCfg(c) BY <1>1, Zenon DEF CallOK
<1> QED BY <1>2, <1>3, Zenon DEF IsCall

\* A request's record has its fields.
LEMMA CallParts ==
  ASSUME NEW x, IsCall(x)
  PROVE  /\ CallOK(x)
         /\ x = [pc |-> x.pc, at |-> x.at, was |-> x.was, cfg |-> x.cfg, arg |-> x.arg]
<1>1. PICK p, a, w, c, g :
        /\ x = [pc |-> p, at |-> a, was |-> w, cfg |-> c, arg |-> g]
        /\ p \in {"idle", "create", "kick", "patch", "approve", "sent"}
        /\ IF p = "idle" THEN a = Nothing ELSE a \in Runs
        /\ IsCfg(c) /\ (p = "create" => g # Nothing)
  BY Zenon DEF IsCall
<1>2. x.pc = p /\ x.at = a /\ x.was = w /\ x.cfg = c /\ x.arg = g BY <1>1
<1>3. IsCfg(x.cfg) BY <1>1, <1>2, Zenon
<1> QED BY <1>1, <1>2, <1>3 DEF CallOK

\* A request that is over.
LEMMA IdleCallIs == IsCall(IdleCall) /\ IdleCall.pc = "idle" /\ IdleCall.at = Nothing
<1>1. IdleCall = [pc |-> "idle", at |-> Nothing, was |-> Nothing, cfg |-> Blank, arg |-> Nothing] BY DEF IdleCall
<1>2. IdleCall.pc = "idle" /\ IdleCall.at = Nothing /\ IdleCall.cfg = Blank BY <1>1
<1>3. IsCfg([draft |-> FALSE, sent |-> FALSE, search |-> 0, base |-> 0]) BY IsCfgIs
<1>4. IsCfg(Blank) BY <1>3, Zenon DEF Blank
<1>5. IsCfg(IdleCall.cfg) BY <1>2, <1>4, Zenon
<1>6. CallOK(IdleCall) BY <1>2, <1>5 DEF CallOK
<1> QED BY <1>1, <1>2, <1>6, CallIs

\* A request that goes on keeps what it has.
LEMMA CallPcIs ==
  ASSUME NEW x, IsCall(x), x.pc # "idle", NEW p \in {"kick", "patch", "approve", "sent"}
  PROVE  LET y == [x EXCEPT !.pc = p] IN IsCall(y) /\ y.pc = p /\ y.at = x.at /\ y.was = x.was /\ y.cfg = x.cfg
<1>1. CallOK(x) /\ x = [pc |-> x.pc, at |-> x.at, was |-> x.was, cfg |-> x.cfg, arg |-> x.arg] BY CallParts
<1>2. PICK y : y = [x EXCEPT !.pc = p] OBVIOUS
<1>3. y = [pc |-> p, at |-> x.at, was |-> x.was, cfg |-> x.cfg, arg |-> x.arg] BY <1>1, <1>2
<1>4. y.pc = p /\ y.at = x.at /\ y.was = x.was /\ y.cfg = x.cfg /\ y.arg = x.arg BY <1>3
<1>5. IsCfg(y.cfg) BY <1>1, <1>4, Zenon DEF CallOK
<1>6. CallOK(y) BY <1>1, <1>4, <1>5 DEF CallOK
<1>7. IsCall(y) BY <1>3, <1>6, CallIs
<1> QED BY <1>2, <1>4, <1>7

\* What is told of runs grows, or gets no more than marks.
Marked(r) == told.spoilt[r] \subseteq told'.spoilt[r]

\* Marks stay.
LEMMA StaysSpoilt ==
  ASSUME NEW r, Marked(r), NEW what
  PROVE  Spoilt(r, what) => Spoilt(r, what)'
BY DEF Marked, Spoilt

\* A run that is clear was clear.
LEMMA WasClear ==
  ASSUME NEW r, Marked(r)
  PROVE  Clear(r)' => Clear(r)
BY StaysSpoilt DEF Clear

\* Nothing happens to a run, or others let it be.
SameHold(w, r) ==
    /\ agent'[w].at = r => agent[w].at = r /\ agent'[w].pc = agent[w].pc /\ agent'[w].rows[r] = agent[w].rows[r]
    /\ agent[w].at = r /\ agent[w].pc = "sent" => agent'[w].at = r
    /\ r \in agent'[w].todo => r \in agent[w].todo
SameCall(q, r) ==
    /\ call'[q].at = r => call[q].at = r /\ call'[q].pc = call[q].pc
    /\ call[q].at = r /\ call[q].pc = "sent" => call'[q].at = r
SameRun(r) ==
    /\ run'[r].pillar = run[r].pillar /\ run'[r].status = run[r].status /\ run'[r].cfg = run[r].cfg
    /\ lock[r] \in AgentWorkers => lock'[r] = lock[r]
    /\ told'.sends[r] = told.sends[r] /\ (r \in told'.cancelled => r \in told.cancelled) /\ Marked(r)
    /\ \A w \in AgentWorkers : SameHold(w, r)
    /\ \A q \in Calls : SameCall(q, r)

\* A worker has the run only if it had it.
LEMMA WorkedWas ==
  ASSUME NEW r, \A w \in AgentWorkers : SameHold(w, r)
  PROVE  Worked(r)' => Worked(r)
BY DEF SameHold, Worked

\* A request has the run only if it had it.
LEMMA CalledWas ==
  ASSUME NEW r, \A q \in Calls : SameCall(q, r)
  PROVE  Called(r)' => Called(r)
BY DEF SameCall, Called

\* A run that nothing happened to keeps its invariant.
LEMMA SameRunOK ==
  ASSUME NEW r \in Runs, SameRun(r), RunOK(r)
  PROVE  RunOK(r)'
<1>1. Worked(r)' => Worked(r) BY WorkedWas DEF SameRun
<1>2. Called(r)' => Called(r) BY CalledWas DEF SameRun
<1>3. Marked(r) BY DEF SameRun
<1>4. Clear(r)' => Clear(r) BY <1>3, WasClear
<1>5. NewOK(r)'
  <2>1. NewOK(r) BY DEF RunOK
  <2>2. run'[r].pillar = run[r].pillar /\ run'[r].status = run[r].status /\ run'[r].cfg = run[r].cfg
        /\ told'.sends[r] = told.sends[r] /\ (r \in told'.cancelled => r \in told.cancelled)
    BY DEF SameRun
  <2>3. \A q \in Calls : call'[q].at = r => call[q].at = r /\ call'[q].pc = call[q].pc BY DEF SameRun, SameCall
  <2> QED BY <1>1, <2>1, <2>2, <2>3 DEF NewOK
<1>6. CancelOK(r)'
  <2>1. CancelOK(r) BY DEF RunOK
  <2>2. Spoilt(r, {"raced", "stale"}) => Spoilt(r, {"raced", "stale"})' BY <1>3, StaysSpoilt
  <2>3. run'[r].status = run[r].status /\ (r \in told'.cancelled => r \in told.cancelled) BY DEF SameRun
  <2> QED BY <1>1, <1>2, <2>1, <2>2, <2>3 DEF CancelOK, Of
<1>7. HeldOK(r)'
  <2>1. CASE ~Clear(r)' BY <2>1 DEF HeldOK
  <2>2. CASE Clear(r)'
    <3>1. Clear(r) /\ HeldOK(r) BY <1>4, <2>2 DEF RunOK
    <3>2. run'[r].status = run[r].status /\ run'[r].cfg = run[r].cfg BY DEF SameRun
    <3>3. ASSUME NEW w \in AgentWorkers, agent'[w].at = r
          PROVE  lock'[r] = w /\ agent'[w].rows[r].cfg = run'[r].cfg /\ (agent'[w].pc \in {"draft", "sent"} => ~run'[r].cfg.sent)
      <4>1. agent[w].at = r /\ agent'[w].pc = agent[w].pc /\ agent'[w].rows[r] = agent[w].rows[r]
        BY <3>3 DEF SameRun, SameHold
      <4>2. lock[r] = w /\ agent[w].rows[r].cfg = run[r].cfg /\ (agent[w].pc \in {"draft", "sent"} => ~run[r].cfg.sent)
        BY <3>1, <4>1 DEF HeldOK
      <4>3. lock'[r] = lock[r] BY <4>2 DEF SameRun
      <4> QED BY <3>2, <4>1, <4>2, <4>3
    <3>4. \A q \in Calls : call'[q].at = r => call[q].at = r /\ call'[q].pc = call[q].pc BY DEF SameRun, SameCall
    <3>5. run'[r].status = "pending_approval" => ~run'[r].cfg.sent BY <3>1, <3>2 DEF HeldOK
    <3>6. ASSUME NEW q \in Calls, call'[q].at = r, call'[q].pc \in {"approve", "sent"}
          PROVE  run'[r].status = "pending_approval" /\ ~Worked(r)' /\ \A p \in Calls : call'[p].at = r => p = q
      <4>1. run[r].status = "pending_approval" /\ ~Worked(r) /\ \A p \in Calls : call[p].at = r => p = q
        BY <3>1, <3>4, <3>6 DEF HeldOK
      <4> QED BY <1>1, <3>2, <3>4, <4>1
    <3> QED BY <3>3, <3>5, <3>6 DEF HeldOK
  <2> QED BY <2>1, <2>2
<1>8. SentOK(r)'
  <2>1. CASE ~Clear(r)' BY <2>1 DEF SentOK
  <2>2. CASE Clear(r)'
    <3>1. Clear(r) /\ SentOK(r) BY <1>4, <2>2 DEF RunOK
    <3>2. told'.sends[r] = told.sends[r] /\ run'[r].cfg = run[r].cfg BY DEF SameRun
    <3>3. \A w \in AgentWorkers : agent[w].at = r /\ agent[w].pc = "sent" => agent'[w].at = r /\ agent'[w].pc = "sent"
      BY DEF SameRun, SameHold
    <3>4. \A q \in Calls : call[q].at = r /\ call[q].pc = "sent" => call'[q].at = r /\ call'[q].pc = "sent"
      BY DEF SameRun, SameCall
    <3> QED BY <3>1, <3>2, <3>3, <3>4 DEF SentOK
  <2> QED BY <2>1, <2>2
<1> QED BY <1>5, <1>6, <1>7, <1>8 DEF RunOK

\* A run that is spoilt asks for less.
LEMMA SpoiltRunOK ==
  ASSUME NEW r \in Runs, NewOK(r)', CancelOK(r)', ~Clear(r)'
  PROVE  RunOK(r)'
BY DEF RunOK, HeldOK, SentOK

\* Searches: no run gets one, and what is imported stays so while its run has it.
SameImport(w) ==
    /\ agent'[w].pc = "started" => agent[w].pc = "started" /\ agent'[w].found = agent[w].found
    /\ agent[w].pc = "imported" =>
          \/ agent'[w].pc = "imported" /\ agent'[w].at = agent[w].at
          \/ run'[agent[w].at].cfg.search = 0
SameSearch ==
    /\ \A r \in Runs : run'[r].cfg.search \in {run[r].cfg.search, 0}
    /\ Len(search') = Len(search) /\ told'.counted = told.counted
    /\ \A w \in AgentWorkers : SameImport(w)

\* Searches that nothing happened to keep theirs.
LEMMA SameSearchOK ==
  ASSUME ToldTypes, SameSearch, SearchOK
  PROVE  SearchOK'
<1>0. Len(search) \in Nat BY LenProperties DEF ToldTypes
<1>1. \A r \in Runs : run'[r].cfg.search <= Len(search')
  BY <1>0 DEF SearchOK, SameSearch
<1>2. \A r, s \in Runs : run'[r].cfg.search # 0 /\ run'[r].cfg.search = run'[s].cfg.search => r = s
  BY DEF SearchOK, SameSearch
<1>3. ASSUME NEW w \in AgentWorkers, agent'[w].pc = "started"
      PROVE  /\ agent'[w].found \in 1 .. Len(search')
             /\ \A r \in Runs : run'[r].cfg.search # agent'[w].found
             /\ \A v \in AgentWorkers : agent'[v].pc = "started" /\ agent'[v].found = agent'[w].found => v = w
  <2>1. \A v \in AgentWorkers : agent'[v].pc = "started" => agent[v].pc = "started" /\ agent'[v].found = agent[v].found
    BY DEF SameSearch, SameImport
  <2>2. /\ agent[w].found \in 1 .. Len(search)
        /\ \A r \in Runs : run[r].cfg.search # agent[w].found
        /\ \A v \in AgentWorkers : agent[v].pc = "started" /\ agent[v].found = agent[w].found => v = w
    BY <1>3, <2>1 DEF SearchOK
  <2>3. Len(search') = Len(search) /\ \A r \in Runs : run'[r].cfg.search \in {run[r].cfg.search, 0} BY DEF SameSearch
  <2>4. agent[w].found # 0 BY <2>2, <1>0
  <2>5. agent'[w].found = agent[w].found BY <1>3, <2>1
  <2> QED BY <2>1, <2>2, <2>3, <2>4, <2>5
<1>4. ASSUME NEW i \in 1 .. Len(search'), told'.counted[i] # 0
      PROVE  /\ told'.counted[i] = 1
             /\ \A r \in Runs : run'[r].cfg.search = i => \E w \in AgentWorkers : agent'[w].at = r /\ agent'[w].pc = "imported"
             /\ \A w \in AgentWorkers : agent'[w].pc = "started" => agent'[w].found # i
  <2>1. Len(search') = Len(search) /\ told'.counted = told.counted BY DEF SameSearch
  <2>2. i \in 1 .. Len(search) /\ told.counted[i] # 0 /\ i # 0 BY <1>4, <2>1, <1>0
  <2>3. /\ told.counted[i] = 1
        /\ \A r \in Runs : run[r].cfg.search = i => \E w \in AgentWorkers : agent[w].at = r /\ agent[w].pc = "imported"
        /\ \A w \in AgentWorkers : agent[w].pc = "started" => agent[w].found # i
    BY <2>2 DEF SearchOK
  <2>4. ASSUME NEW r \in Runs, run'[r].cfg.search = i
        PROVE  \E w \in AgentWorkers : agent'[w].at = r /\ agent'[w].pc = "imported"
    <3>1. run[r].cfg.search = i BY <2>2, <2>4 DEF SameSearch
    <3>2. PICK w \in AgentWorkers : agent[w].at = r /\ agent[w].pc = "imported" BY <2>3, <3>1
    <3>3. agent'[w].pc = "imported" /\ agent'[w].at = agent[w].at
      BY <2>2, <2>4, <3>2 DEF SameSearch, SameImport
    <3> QED BY <3>2, <3>3
  <2>5. \A w \in AgentWorkers : agent'[w].pc = "started" => agent'[w].found # i
    BY <2>3 DEF SameSearch, SameImport
  <2> QED BY <2>1, <2>3, <2>4, <2>5
<1> QED BY <1>1, <1>2, <1>3, <1>4 DEF SearchOK

\* What is told of one run: marks at most.
ToldOf(r) == told'.sends[r] = told.sends[r] /\ (r \in told'.cancelled => r \in told.cancelled) /\ Marked(r)

\* Every other worker, and every other request, is where it was.
OnlyWorker(w) == (\A v \in AgentWorkers \ {w} : agent'[v] = agent[v]) /\ call' = call
OnlyCall(q)   == (\A p \in Calls \ {q} : call'[p] = call[p]) /\ agent' = agent

\* A worker's step lets the runs it has not in hand be.
LEMMA OthersByWorker ==
  ASSUME NEW w \in AgentWorkers, NEW s, OnlyWorker(w), agent[w].at # s \/ agent[w].pc # "sent", agent'[w].at # s,
         s \in agent'[w].todo => s \in agent[w].todo,
         run'[s] = run[s], lock[s] \in AgentWorkers => lock'[s] = lock[s], ToldOf(s)
  PROVE  SameRun(s)
<1>1. \A v \in AgentWorkers : SameHold(v, s) BY DEF OnlyWorker, SameHold
<1>2. \A q \in Calls : SameCall(q, s) BY DEF OnlyWorker, SameCall
<1> QED BY <1>1, <1>2 DEF SameRun, ToldOf

\* A request's step lets the other runs be.
LEMMA OthersByCall ==
  ASSUME NEW q \in Calls, NEW s, OnlyCall(q), call[q].at # s \/ call[q].pc # "sent",
         call'[q].at # s,
         run'[s] = run[s], lock[s] \in AgentWorkers => lock'[s] = lock[s], ToldOf(s)
  PROVE  SameRun(s)
<1>1. \A v \in AgentWorkers : SameHold(v, s) BY DEF OnlyCall, SameHold
<1>2. \A p \in Calls : SameCall(p, s) BY DEF OnlyCall, SameCall
<1> QED BY <1>1, <1>2 DEF SameRun, ToldOf

\* A step of neither lets every run be.
LEMMA SameByTime ==
  ASSUME NEW s, agent' = agent, call' = call, run'[s].pillar = run[s].pillar, run'[s].status = run[s].status, run'[s].cfg = run[s].cfg,
         lock[s] \in AgentWorkers => lock'[s] = lock[s], ToldOf(s)
  PROVE  SameRun(s)
<1>1. \A v \in AgentWorkers : SameHold(v, s) BY DEF SameHold
<1>2. \A p \in Calls : SameCall(p, s) BY DEF SameCall
<1> QED BY <1>1, <1>2 DEF SameRun, ToldOf

\* A worker has the run: it is there, and if it is cancelled the two met.
LEMMA AtWork ==
  ASSUME NEW w \in AgentWorkers, NEW r \in Runs, RunOK(r), agent[w].at = r \/ r \in agent[w].todo
  PROVE  /\ run[r].pillar # Nothing /\ (r \in told.cancelled => Spoilt(r, {"raced", "stale"}))
         /\ Clear(r) => \A q \in Calls : call[q].at = r => call[q].pc \notin {"approve", "sent"}
<1>1. Worked(r) BY DEF Worked
<1>2. NewOK(r) /\ CancelOK(r) /\ HeldOK(r) BY DEF RunOK
<1> QED BY <1>1, <1>2 DEF NewOK, CancelOK, HeldOK

\* The worker gives the run back, and has written what it found.
GivesBack(w, r) ==
    /\ OnlyWorker(w) /\ agent[w].at = r /\ agent'[w].at = Nothing
    /\ run'[r].pillar = run[r].pillar
    /\ Clear(r) =>
          /\ run'[r].status = "pending_approval" => ~run'[r].cfg.sent
          /\ run[r].cfg.sent \/ agent[w].pc = "sent" => run'[r].cfg.sent
    /\ ToldOf(r)

\* A run that is given back keeps its invariant.
LEMMA GivenBackOK ==
  ASSUME NEW w \in AgentWorkers, NEW r \in Runs, RunOK(r), GivesBack(w, r)
  PROVE  RunOK(r)'
<1>1. /\ run[r].pillar # Nothing /\ (r \in told.cancelled => Spoilt(r, {"raced", "stale"}))
      /\ Clear(r) => \A q \in Calls : call[q].at = r => call[q].pc \notin {"approve", "sent"}
  BY AtWork DEF GivesBack
<1>2. Marked(r) /\ (Clear(r)' => Clear(r)) BY WasClear DEF GivesBack, ToldOf
<1>3. NewOK(r)'
  <2>1. NewOK(r) /\ run'[r].pillar # Nothing BY <1>1 DEF RunOK, GivesBack
  <2> QED BY <1>1, <2>1 DEF NewOK, GivesBack, OnlyWorker
<1>4. CancelOK(r)'
  <2>1. Spoilt(r, {"raced", "stale"}) => Spoilt(r, {"raced", "stale"})' BY <1>2, StaysSpoilt
  <2> QED BY <1>1, <2>1 DEF CancelOK, GivesBack, ToldOf
<1>5. CASE ~Clear(r)' BY <1>3, <1>4, <1>5, SpoiltRunOK
<1>6. CASE Clear(r)'
  <2>1. Clear(r) /\ HeldOK(r) /\ SentOK(r) BY <1>2, <1>6 DEF RunOK
  <2>2. \A v \in AgentWorkers : agent[v].at = r => v = w BY <2>1 DEF HeldOK, GivesBack
  <2>3. r # Nothing BY AgentRunsAssumption
  <2>4. \A v \in AgentWorkers : agent'[v].at # r BY <2>2, <2>3 DEF GivesBack, OnlyWorker
  <2>5. \A q \in Calls : call'[q].at = r => call'[q].pc \notin {"approve", "sent"} BY <1>1, <2>1 DEF GivesBack, OnlyWorker
  <2>6. HeldOK(r)' BY <2>1, <2>4, <2>5 DEF HeldOK, GivesBack
  <2>7. SentOK(r)'
    <3>1. told'.sends[r] = told.sends[r] BY DEF GivesBack, ToldOf
    <3>2. told.sends[r] <= 1 BY <2>1 DEF SentOK
    <3>3. told.sends[r] # 0 => run[r].cfg.sent \/ agent[w].pc = "sent"
      BY <1>1, <2>1, <2>2 DEF SentOK
    <3>4. told.sends[r] # 0 => run'[r].cfg.sent BY <2>1, <3>3 DEF GivesBack
    <3> QED BY <3>1, <3>2, <3>4 DEF SentOK
  <2> QED BY <1>3, <1>4, <2>6, <2>7 DEF RunOK
<1> QED BY <1>5, <1>6

\* The worker goes on with the run, and may send its mail.
WorksOn(w, r) ==
    /\ OnlyWorker(w) /\ agent[w].at = r /\ agent'[w].at = r /\ agent'[w].rows = agent[w].rows
    /\ lock'[r] = lock[r] /\ run'[r].pillar = run[r].pillar /\ run'[r].status \in {run[r].status, "running"} /\ run'[r].cfg = run[r].cfg
    /\ agent[w].pc # "sent"
    /\ agent'[w].pc \in {"draft", "sent"} /\ Clear(r) => ~run[r].cfg.sent
    /\ told'.sends[r] = IF agent'[w].pc = "sent" THEN told.sends[r] + 1 ELSE told.sends[r]
    /\ (r \in told'.cancelled => r \in told.cancelled) /\ Marked(r)

\* So does one that is worked on.
LEMMA WorksOnOK ==
  ASSUME NEW w \in AgentWorkers, NEW r \in Runs, RunOK(r), WorksOn(w, r)
  PROVE  RunOK(r)'
<1>1. /\ run[r].pillar # Nothing /\ (r \in told.cancelled => Spoilt(r, {"raced", "stale"}))
      /\ Clear(r) => \A q \in Calls : call[q].at = r => call[q].pc \notin {"approve", "sent"}
  BY AtWork DEF WorksOn
<1>2. Marked(r) /\ (Clear(r)' => Clear(r)) BY WasClear DEF WorksOn
<1>3. NewOK(r)'
  <2>1. NewOK(r) /\ run'[r].pillar # Nothing BY <1>1 DEF RunOK, WorksOn
  <2> QED BY <1>1, <2>1 DEF NewOK, WorksOn, OnlyWorker
<1>4. CancelOK(r)'
  <2>1. Spoilt(r, {"raced", "stale"}) => Spoilt(r, {"raced", "stale"})' BY <1>2, StaysSpoilt
  <2> QED BY <1>1, <2>1 DEF CancelOK, WorksOn
<1>5. CASE ~Clear(r)' BY <1>3, <1>4, <1>5, SpoiltRunOK
<1>6. CASE Clear(r)'
  <2>1. Clear(r) /\ HeldOK(r) /\ SentOK(r) BY <1>2, <1>6 DEF RunOK
  <2>2. \A v \in AgentWorkers : agent[v].at = r => v = w BY <2>1 DEF HeldOK, WorksOn
  <2>3. \A v \in AgentWorkers : agent'[v].at = r => v = w BY <2>2 DEF WorksOn, OnlyWorker
  <2>4. lock'[r] = w /\ agent'[w].rows[r].cfg = run'[r].cfg /\ (agent'[w].pc \in {"draft", "sent"} => ~run'[r].cfg.sent)
    BY <2>1 DEF HeldOK, WorksOn
  <2>5. \A q \in Calls : call'[q].at = r => call'[q].pc \notin {"approve", "sent"} BY <1>1, <2>1 DEF WorksOn, OnlyWorker
  <2>6. run'[r].status = "pending_approval" => ~run'[r].cfg.sent BY <2>1 DEF HeldOK, WorksOn
  <2>7. HeldOK(r)' BY <2>3, <2>4, <2>5, <2>6 DEF HeldOK
  <2>8. SentOK(r)'
    <3>1. told.sends[r] # 0 => run[r].cfg.sent BY <1>1, <2>1, <2>2 DEF SentOK, WorksOn
    <3>2. told.sends[r] <= 1 BY <2>1 DEF SentOK
    <3>3. CASE agent'[w].pc = "sent"
      <4>1. ~run[r].cfg.sent BY <2>1, <3>3 DEF WorksOn
      <4>2. told.sends[r] = 0 BY <3>1, <4>1
      <4>3. told'.sends[r] = 1 BY <3>3, <4>2 DEF WorksOn
      <4>4. agent'[w].at = r BY DEF WorksOn
      <4> QED BY <3>3, <4>3, <4>4 DEF SentOK
    <3>4. CASE agent'[w].pc # "sent"
      <4>1. told'.sends[r] = told.sends[r] /\ run'[r].cfg = run[r].cfg BY <3>4 DEF WorksOn
      <4> QED BY <3>1, <3>2, <4>1 DEF SentOK
    <3> QED BY <3>3, <3>4
  <2> QED BY <1>3, <1>4, <2>7, <2>8 DEF RunOK
<1> QED BY <1>5, <1>6

\* A worker picks active runs.
Picked(w, r) ==
    /\ OnlyWorker(w) /\ agent[w].at = Nothing /\ agent'[w].at = Nothing /\ run' = run /\ lock' = lock
    /\ (r \in agent'[w].todo => Of(r, {"active"})) /\ ToldOf(r)

\* So does one that is picked, or passed over.
LEMMA PickedOK ==
  ASSUME NEW w \in AgentWorkers, NEW r \in Runs, RunOK(r), Picked(w, r)
  PROVE  RunOK(r)'
<1>r. r # Nothing BY AgentRunsAssumption
<1>1. CASE r \notin agent'[w].todo
  <2>1. SameRun(r) BY <1>1, <1>r, OthersByWorker DEF Picked
  <2> QED BY <2>1, SameRunOK
<1>2. CASE r \in agent'[w].todo
  <2>1. run[r].status = "active" BY <1>2 DEF Picked, Of
  <2>2. Marked(r) /\ (Clear(r)' => Clear(r)) BY WasClear DEF Picked, ToldOf
  <2>3. NewOK(r) /\ run[r].pillar # Nothing BY <2>1 DEF RunOK, NewOK, Nothing
  <2>4. NewOK(r)' BY <2>3 DEF NewOK, Picked, OnlyWorker
  <2>5. CancelOK(r)'
    <3>1. r \in told.cancelled => Spoilt(r, {"raced", "stale"}) BY <2>1 DEF RunOK, CancelOK, Of
    <3>2. Spoilt(r, {"raced", "stale"}) => Spoilt(r, {"raced", "stale"})' BY <2>2, StaysSpoilt
    <3> QED BY <3>1, <3>2 DEF CancelOK, Picked, ToldOf
  <2>6. CASE ~Clear(r)' BY <2>4, <2>5, <2>6, SpoiltRunOK
  <2>7. CASE Clear(r)'
    <3>1. Clear(r) /\ HeldOK(r) /\ SentOK(r) BY <2>2, <2>7 DEF RunOK
    <3>2. \A v \in AgentWorkers : agent'[v].at = r => agent[v].at = r /\ agent'[v] = agent[v] BY <1>r DEF Picked, OnlyWorker
    <3>3. \A v \in AgentWorkers : agent[v].at = r => agent'[v] = agent[v] BY <1>r DEF Picked, OnlyWorker
    <3>4. \A q \in Calls : call[q].at = r => call[q].pc \notin {"approve", "sent"} BY <2>1, <3>1 DEF HeldOK
    <3>5. call' = call /\ run' = run /\ lock' = lock BY DEF Picked, OnlyWorker
    <3>6. HeldOK(r)' BY <2>1, <3>1, <3>2, <3>4, <3>5 DEF HeldOK
    <3>7. told'.sends[r] = told.sends[r] BY DEF Picked, ToldOf
    <3>8. SentOK(r)' BY <3>1, <3>3, <3>5, <3>7 DEF SentOK
    <3> QED BY <2>4, <2>5, <3>6, <3>8 DEF RunOK
  <2> QED BY <2>6, <2>7
<1> QED BY <1>1, <1>2

\* A worker takes the lock of a run that nobody has.
Takes(w, r) ==
    /\ OnlyWorker(w) /\ agent[w].at = Nothing /\ r \in agent[w].todo /\ agent'[w].at = r /\ agent'[w].pc = "held"
    /\ agent'[w].rows = agent[w].rows /\ lock[r] = Nothing /\ lock'[r] = w /\ run' = run
    /\ (Clear(r)' => agent[w].rows[r].cfg = run[r].cfg) /\ ToldOf(r)

\* So does one whose lock is taken.
LEMMA TakesOK ==
  ASSUME NEW w \in AgentWorkers, NEW r \in Runs, RunOK(r), Takes(w, r)
  PROVE  RunOK(r)'
<1>r. r # Nothing /\ Nothing \notin AgentWorkers BY AgentRunsAssumption
<1>1. /\ run[r].pillar # Nothing /\ (r \in told.cancelled => Spoilt(r, {"raced", "stale"}))
      /\ Clear(r) => \A q \in Calls : call[q].at = r => call[q].pc \notin {"approve", "sent"}
  BY AtWork DEF Takes
<1>2. Marked(r) /\ (Clear(r)' => Clear(r)) BY WasClear DEF Takes, ToldOf
<1>3. NewOK(r)'
  <2>1. NewOK(r) /\ run'[r].pillar # Nothing BY <1>1 DEF RunOK, Takes
  <2> QED BY <1>1, <2>1 DEF NewOK, Takes, OnlyWorker
<1>4. CancelOK(r)'
  <2>1. Spoilt(r, {"raced", "stale"}) => Spoilt(r, {"raced", "stale"})' BY <1>2, StaysSpoilt
  <2> QED BY <1>1, <2>1 DEF CancelOK, Takes, ToldOf
<1>5. CASE ~Clear(r)' BY <1>3, <1>4, <1>5, SpoiltRunOK
<1>6. CASE Clear(r)'
  <2>1. Clear(r) /\ HeldOK(r) /\ SentOK(r) BY <1>2, <1>6 DEF RunOK
  <2>2. \A v \in AgentWorkers : agent[v].at # r BY <1>r, <2>1 DEF HeldOK, Takes
  <2>3. \A v \in AgentWorkers : agent'[v].at = r => v = w BY <2>2 DEF Takes, OnlyWorker
  <2>4. call' = call /\ run' = run BY DEF Takes, OnlyWorker
  <2>5. lock'[r] = w /\ agent'[w].rows[r].cfg = run'[r].cfg /\ agent'[w].pc = "held" BY <1>6 DEF Takes
  <2>6. HeldOK(r)' BY <1>1, <2>1, <2>3, <2>4, <2>5 DEF HeldOK
  <2>7. told'.sends[r] = told.sends[r] BY DEF Takes, ToldOf
  <2>8. SentOK(r)' BY <2>1, <2>2, <2>4, <2>7 DEF SentOK
  <2> QED BY <1>3, <1>4, <2>6, <2>8 DEF RunOK
<1> QED BY <1>5, <1>6

\* A worker that dies, a lock that lapses, a request that ends half way.
Spoils(r) ==
    /\ run' = run /\ ToldOf(r) /\ ~Clear(r)'
    /\ \A q \in Calls : call'[q].at = r => call[q].at = r /\ call'[q].pc = call[q].pc
    /\ \A w \in AgentWorkers : (agent'[w].at = r => agent[w].at = r) /\ (r \in agent'[w].todo => r \in agent[w].todo)
    /\ Worked(r) \/ Called(r) \/ Spoilt(r, {"raced", "stale"})'

\* So does one that is spoilt.
LEMMA SpoilsOK ==
  ASSUME NEW r \in Runs, RunOK(r), Spoils(r)
  PROVE  RunOK(r)'
<1>1. NewOK(r) /\ CancelOK(r) BY DEF RunOK
<1>2. Worked(r)' => Worked(r) BY DEF Worked, Spoils
<1>3. NewOK(r)'
  <2>1. told'.sends[r] = told.sends[r] /\ (r \in told'.cancelled => r \in told.cancelled) /\ run' = run BY DEF Spoils, ToldOf
  <2>2. \A q \in Calls : call'[q].at = r => call[q].at = r /\ call'[q].pc = call[q].pc BY DEF Spoils
  <2> QED BY <1>1, <1>2, <2>1, <2>2 DEF NewOK
<1>4. CancelOK(r)'
  <2>1. Spoilt(r, {"raced", "stale"}) => Spoilt(r, {"raced", "stale"})' BY StaysSpoilt DEF Spoils, ToldOf
  <2>2. r \in told'.cancelled => r \in told.cancelled BY DEF Spoils, ToldOf
  <2>3. Worked(r) \/ Called(r) \/ Spoilt(r, {"raced", "stale"})' BY DEF Spoils
  <2> QED BY <1>1, <2>1, <2>2, <2>3 DEF CancelOK
<1> QED BY <1>3, <1>4, SpoiltRunOK DEF Spoils

\* A place for a run is counted, and the run is made.
Counts(q, r) ==
    /\ OnlyCall(q) /\ run' = run /\ lock' = lock /\ told' = told /\ run[r].pillar = Nothing /\ \A p \in Calls : call[p].at # r
    /\ call'[q].at = r /\ call'[q].pc = "create"

\* So does a place that is counted.
LEMMA CountsOK ==
  ASSUME NEW q \in Calls, NEW r \in Runs, RunOK(r), Counts(q, r)
  PROVE  RunOK(r)'
<1>1. NewOK(r) /\ CancelOK(r) /\ HeldOK(r) /\ SentOK(r) BY DEF RunOK
<1>2. \A p \in Calls : call'[p].at = r => p = q BY DEF Counts, OnlyCall
<1>3. call'[q].pc = "create" /\ \A p \in Calls : call[p].at # r BY DEF Counts
<1>4. run' = run /\ lock' = lock /\ told' = told /\ agent' = agent /\ run[r].pillar = Nothing BY DEF Counts, OnlyCall
<1>5. (Worked(r)' <=> Worked(r)) /\ (Clear(r)' <=> Clear(r)) /\ ~Worked(r) BY <1>1, <1>4 DEF Worked, Clear, Spoilt, NewOK
<1>6. NewOK(r)' BY <1>1, <1>2, <1>3, <1>4, <1>5 DEF NewOK
<1>7. CancelOK(r)' BY <1>1, <1>4 DEF CancelOK, NewOK
<1>8. HeldOK(r)' BY <1>1, <1>2, <1>3, <1>4, <1>5 DEF HeldOK
<1>9. SentOK(r)' BY <1>1, <1>3, <1>4, <1>5 DEF SentOK
<1> QED BY <1>6, <1>7, <1>8, <1>9 DEF RunOK
Makes(q, r) ==
    /\ OnlyCall(q) /\ lock' = lock /\ told' = told /\ call[q].at = r /\ call[q].pc = "create"
    /\ run'[r].pillar # Nothing /\ run'[r].status = "active"
    /\ call'[q].at = r => call'[q].pc = "kick"

\* So does a run that is made.
LEMMA MakesOK ==
  ASSUME NEW q \in Calls, NEW r \in Runs, RunOK(r), Makes(q, r)
  PROVE  RunOK(r)'
<1>1. NewOK(r) BY DEF RunOK
<1>2. /\ run[r].pillar = Nothing /\ told.sends[r] = 0 /\ r \notin told.cancelled /\ ~Worked(r)
      /\ \A p \in Calls : call[p].at = r => p = q
  BY <1>1 DEF NewOK, Makes
<1>3. \A p \in Calls : call'[p].at = r => p = q /\ call'[p].pc = "kick" BY <1>2 DEF Makes, OnlyCall
<1>4. ~Worked(r)' /\ r \notin told'.cancelled /\ told'.sends[r] = 0 BY <1>2 DEF Worked, Makes, OnlyCall
<1>5. run'[r].pillar # Nothing /\ run'[r].status = "active" BY DEF Makes
<1>6. NewOK(r)' BY <1>3, <1>5 DEF NewOK
<1>7. CancelOK(r)' BY <1>4 DEF CancelOK
<1>8. HeldOK(r)' BY <1>3, <1>4, <1>5 DEF HeldOK, Worked
<1>9. SentOK(r)' BY <1>4 DEF SentOK
<1> QED BY <1>6, <1>7, <1>8, <1>9 DEF RunOK

\* A request takes a run in hand.
Enters(q, r) ==
    /\ OnlyCall(q) /\ run' = run /\ lock' = lock /\ call[q].at = Nothing /\ call'[q].at = r
    /\ call'[q].pc \in {"patch", "approve"} /\ (call'[q].pc = "approve" => run[r].status = "pending_approval")
    /\ run[r].pillar # Nothing /\ run[r].status # "cancelled"
    /\ ToldOf(r) /\ (Clear(r)' => ~Worked(r) /\ \A p \in Calls : call[p].at # r)

\* So does one that a request takes in hand.
LEMMA EntersOK ==
  ASSUME NEW q \in Calls, NEW r \in Runs, RunOK(r), Enters(q, r)
  PROVE  RunOK(r)'
<1>1. NewOK(r) /\ CancelOK(r) BY DEF RunOK
<1>2. Marked(r) /\ (Clear(r)' => Clear(r)) BY WasClear DEF Enters, ToldOf
<1>3. run' = run /\ lock' = lock /\ agent' = agent /\ run[r].pillar # Nothing BY DEF Enters, OnlyCall
<1>4. \A p \in Calls : call'[p].at = r => call'[p].pc # "create"
  <2>1. \A p \in Calls : call[p].at = r => call[p].pc # "create" BY <1>1, <1>3 DEF NewOK
  <2> QED BY <2>1 DEF Enters, OnlyCall
<1>5. NewOK(r)' BY <1>3, <1>4 DEF NewOK
<1>6. CancelOK(r)'
  <2>1. Spoilt(r, {"raced", "stale"}) => Spoilt(r, {"raced", "stale"})' BY <1>2, StaysSpoilt
  <2>2. (r \in told'.cancelled => r \in told.cancelled) /\ ~Of(r, {"cancelled"}) BY DEF Enters, ToldOf, Of
  <2> QED BY <1>1, <2>1, <2>2 DEF CancelOK
<1>7. CASE ~Clear(r)' BY <1>5, <1>6, <1>7, SpoiltRunOK
<1>8. CASE Clear(r)'
  <2>1. Clear(r) /\ HeldOK(r) /\ SentOK(r) BY <1>2, <1>8 DEF RunOK
  <2>2. ~Worked(r) /\ \A p \in Calls : call[p].at # r BY <1>8 DEF Enters
  <2>3. ~Worked(r)' BY <1>3, <2>2 DEF Worked
  <2>4. \A p \in Calls : call'[p].at = r => p = q BY <2>2 DEF Enters, OnlyCall
  <2>5. call'[q].pc \in {"patch", "approve"} /\ (call'[q].pc = "approve" => run[r].status = "pending_approval") BY DEF Enters
  <2>6. HeldOK(r)' BY <1>3, <2>1, <2>3, <2>4, <2>5 DEF HeldOK, Worked
  <2>7. told'.sends[r] = told.sends[r] BY DEF Enters, ToldOf
  <2>8. SentOK(r)' BY <1>3, <2>1, <2>2, <2>7 DEF SentOK
  <2> QED BY <1>5, <1>6, <2>6, <2>8 DEF RunOK
<1> QED BY <1>7, <1>8

\* A request writes and leaves.
Writes(q, r) ==
    /\ OnlyCall(q) /\ lock' = lock /\ call[q].at = r /\ call[q].pc \notin {"create", "idle"} /\ call'[q].at # r
    /\ run'[r].pillar = run[r].pillar /\ ToldOf(r)
    /\ Clear(r)' =>
          /\ ~Worked(r) /\ \A p \in Calls : call[p].at = r => p = q
          /\ run'[r].status = "pending_approval" => ~run'[r].cfg.sent
          /\ run[r].cfg.sent \/ call[q].pc = "sent" => run'[r].cfg.sent

\* So does one that a request writes.
LEMMA WritesOK ==
  ASSUME NEW q \in Calls, NEW r \in Runs, RunOK(r), Writes(q, r)
  PROVE  RunOK(r)'
<1>1. NewOK(r) /\ CancelOK(r) /\ Called(r) BY DEF RunOK, Called, Writes
<1>2. Marked(r) /\ (Clear(r)' => Clear(r)) BY WasClear DEF Writes, ToldOf
<1>3. lock' = lock /\ agent' = agent /\ run[r].pillar # Nothing /\ run'[r].pillar # Nothing
  BY <1>1 DEF Writes, OnlyCall, NewOK
<1>4. \A p \in Calls : call'[p].at = r => call'[p] = call[p] BY DEF Writes, OnlyCall
<1>5. NewOK(r)' BY <1>1, <1>3, <1>4 DEF NewOK
<1>6. CancelOK(r)'
  <2>1. Spoilt(r, {"raced", "stale"}) => Spoilt(r, {"raced", "stale"})' BY <1>2, StaysSpoilt
  <2>2. r \in told'.cancelled => r \in told.cancelled BY DEF Writes, ToldOf
  <2> QED BY <1>1, <2>1, <2>2 DEF CancelOK
<1>7. CASE ~Clear(r)' BY <1>5, <1>6, <1>7, SpoiltRunOK
<1>8. CASE Clear(r)'
  <2>1. Clear(r) /\ SentOK(r) BY <1>2, <1>8 DEF RunOK
  <2>2. /\ ~Worked(r) /\ \A p \in Calls : call[p].at = r => p = q
        /\ run'[r].status = "pending_approval" => ~run'[r].cfg.sent
        /\ run[r].cfg.sent \/ call[q].pc = "sent" => run'[r].cfg.sent
    BY <1>8 DEF Writes
  <2>3. \A p \in Calls : call'[p].at # r BY <1>4, <2>2 DEF Writes
  <2>4. \A w \in AgentWorkers : agent'[w].at # r /\ agent[w].at # r BY <1>3, <2>2 DEF Worked
  <2>5. HeldOK(r)' BY <2>2, <2>3, <2>4 DEF HeldOK
  <2>6. told'.sends[r] = told.sends[r] BY DEF Writes, ToldOf
  <2>7. told.sends[r] # 0 => run'[r].cfg.sent BY <2>1, <2>2, <2>4 DEF SentOK
  <2>8. SentOK(r)' BY <2>1, <2>6, <2>7 DEF SentOK
  <2> QED BY <1>5, <1>6, <2>5, <2>8 DEF RunOK
<1> QED BY <1>7, <1>8

\* A run is cancelled.
Cancels(r) ==
    /\ agent' = agent /\ call' = call /\ lock' = lock /\ run[r].pillar # Nothing
    /\ run'[r].pillar = run[r].pillar /\ run'[r].status = "cancelled" /\ run'[r].cfg = run[r].cfg
    /\ told'.sends[r] = told.sends[r] /\ Marked(r)
    /\ Spoilt(r, {"raced", "stale"})' \/ (~Worked(r) /\ ~Called(r))

\* So does one that is cancelled.
LEMMA CancelsOK ==
  ASSUME NEW r \in Runs, RunOK(r), Cancels(r)
  PROVE  RunOK(r)'
<1>1. NewOK(r) BY DEF RunOK
<1>2. Clear(r)' => Clear(r) BY WasClear DEF Cancels
<1>3. agent' = agent /\ call' = call /\ lock' = lock BY DEF Cancels
<1>4. run[r].pillar # Nothing /\ run'[r].pillar # Nothing /\ run'[r].status = "cancelled" /\ run'[r].cfg = run[r].cfg
      /\ told'.sends[r] = told.sends[r]
  BY DEF Cancels
<1>5. NewOK(r)' BY <1>1, <1>3, <1>4 DEF NewOK
<1>6. (Worked(r)' <=> Worked(r)) /\ (Called(r)' <=> Called(r)) BY <1>3 DEF Worked, Called
<1>7. CancelOK(r)' BY <1>4, <1>6 DEF CancelOK, Cancels, Of
<1>8. CASE ~Clear(r)' BY <1>5, <1>7, <1>8, SpoiltRunOK
<1>9. CASE Clear(r)'
  <2>1. Clear(r) /\ SentOK(r) BY <1>2, <1>9 DEF RunOK
  <2>2. ~Spoilt(r, {"raced", "stale"})' BY <1>9 DEF Clear, Spoilt
  <2>3. ~Worked(r) /\ ~Called(r) BY <2>2 DEF Cancels
  <2>4. HeldOK(r)' BY <1>3, <1>4, <2>3 DEF HeldOK, Worked, Called
  <2>5. SentOK(r)' BY <1>3, <1>4, <2>1 DEF SentOK
  <2> QED BY <1>5, <1>7, <2>4, <2>5 DEF RunOK
<1> QED BY <1>8, <1>9

\* An approval sends the run's mail.
Sends(q, r) ==
    /\ OnlyCall(q) /\ lock' = lock /\ run' = run /\ call[q].at = r /\ call[q].pc = "approve"
    /\ call'[q].at = r /\ call'[q].pc = "sent"
    /\ told'.sends[r] = told.sends[r] + 1 /\ (r \in told'.cancelled => r \in told.cancelled) /\ Marked(r)

\* So does one whose approval sends its mail.
LEMMA SendsOK ==
  ASSUME NEW q \in Calls, NEW r \in Runs, RunOK(r), Sends(q, r)
  PROVE  RunOK(r)'
<1>1. NewOK(r) /\ CancelOK(r) /\ Called(r) BY DEF RunOK, Called, Sends
<1>2. Marked(r) /\ (Clear(r)' => Clear(r)) BY WasClear DEF Sends
<1>3. lock' = lock /\ agent' = agent /\ run' = run /\ run[r].pillar # Nothing BY <1>1 DEF Sends, OnlyCall, NewOK
<1>4. \A p \in Calls : call'[p].at = r => call[p].at = r /\ (p # q => call'[p] = call[p]) BY DEF Sends, OnlyCall
<1>5. NewOK(r)'
  <2>1. \A p \in Calls : call'[p].at = r => call'[p].pc # "create"
    BY <1>1, <1>3, <1>4 DEF NewOK, Sends
  <2> QED BY <1>3, <2>1 DEF NewOK
<1>6. CancelOK(r)'
  <2>1. Spoilt(r, {"raced", "stale"}) => Spoilt(r, {"raced", "stale"})' BY <1>2, StaysSpoilt
  <2>2. r \in told'.cancelled => r \in told.cancelled BY DEF Sends
  <2> QED BY <1>1, <2>1, <2>2 DEF CancelOK
<1>7. CASE ~Clear(r)' BY <1>5, <1>6, <1>7, SpoiltRunOK
<1>8. CASE Clear(r)'
  <2>1. Clear(r) /\ HeldOK(r) /\ SentOK(r) BY <1>2, <1>8 DEF RunOK
  <2>2. run[r].status = "pending_approval" /\ ~Worked(r) /\ \A p \in Calls : call[p].at = r => p = q
    BY <2>1 DEF HeldOK, Sends
  <2>3. ~run[r].cfg.sent BY <2>1, <2>2 DEF HeldOK
  <2>4. \A w \in AgentWorkers : agent[w].at # r BY <2>2 DEF Worked
  <2>5. ~Worked(r)' BY <1>3, <2>2 DEF Worked
  <2>6. HeldOK(r)' BY <1>3, <1>4, <2>1, <2>2, <2>4, <2>5 DEF HeldOK
  <2>7. told.sends[r] = 0 BY <2>1, <2>2, <2>3, <2>4 DEF SentOK, Sends
  <2>8. told'.sends[r] = 1 BY <2>7 DEF Sends
  <2>9. call'[q].at = r /\ call'[q].pc = "sent" BY DEF Sends
  <2>10. SentOK(r)' BY <2>8, <2>9 DEF SentOK
  <2> QED BY <1>5, <1>6, <2>6, <2>10 DEF RunOK
<1> QED BY <1>7, <1>8

\* Marks alone are added to what is told.
MarksOf(t) ==
    /\ IsTold(t) /\ t.sends = told.sends /\ t.counted = told.counted /\ t.cancelled = told.cancelled
    /\ \A r \in Runs : told.spoilt[r] \subseteq t.spoilt[r]

\* No mark at all.
LEMMA NoMarks == ASSUME IsTold(told) PROVE MarksOf(told)
BY DEF MarksOf

\* One more mark.
LEMMA OneMark ==
  ASSUME NEW t, MarksOf(t), NEW r \in Runs, NEW m \in RunMarks
  PROVE  MarksOf(Spoil(t, r, m)) /\ m \in Spoil(t, r, m).spoilt[r]
<1>1. PICK u : u = Spoil(t, r, m) OBVIOUS
<1>2. IsTold(t) BY DEF MarksOf
<1>3. /\ IsTold(u) /\ u.sends = t.sends /\ u.counted = t.counted /\ u.cancelled = t.cancelled
      /\ m \in u.spoilt[r] /\ t.spoilt[r] \subseteq u.spoilt[r] /\ \A s \in Runs \ {r} : u.spoilt[s] = t.spoilt[s]
  BY <1>1, <1>2, SpoilIs
<1>4. MarksOf(u) BY <1>3 DEF MarksOf
<1> QED BY <1>1, <1>3, <1>4

\* A turn is counted, and no mark added.
LEMMA TurnMarks ==
  ASSUME NEW t, MarksOf(t), NEW n, Turns(n, t)
  PROVE  MarksOf(told') /\ told'.spoilt = t.spoilt
<1>1. IsTold(t) BY DEF MarksOf
<1>2. /\ IsTold(told') /\ told'.sends = t.sends /\ told'.counted = t.counted /\ told'.cancelled = t.cancelled
      /\ told'.spoilt = t.spoilt
  BY <1>1, TurnsTell
<1> QED BY <1>2 DEF MarksOf

\* A run that comes back from a cancel is marked.
LEMMA RevivedMarks ==
  ASSUME IsTold(told), NEW w, agent[w].at \in Runs, NEW y
  PROVE  MarksOf(Revived(w, y))
<1>1. MarksOf(told) /\ MarksOf(Spoil(told, agent[w].at, "raced")) BY NoMarks, OneMark DEF RunMarks
<1> QED BY <1>1 DEF Revived

\* Marks alone disturb no count.
LEMMA MarksTell ==
  ASSUME MarksOf(told'), ToldTypes, search' \in Seq({"running", "done", "failed"}), Len(search') = Len(search)
  PROVE  ToldTypes' /\ \A r \in Runs : ToldOf(r)
BY DEF MarksOf, ToldTypes, ToldOf, Marked

\* The parts of the invariant.
LEMMA InvBy ==
  ASSUME AgentTypes', \A r \in Runs : RunOK(r)', (\A r \in Runs : Clear(r)') => SearchOK'
  PROVE  AgentInv'
BY DEF AgentInv

\* If all runs are clear, all were.
LEMMA AllWereClear ==
  ASSUME \A r \in Runs : Marked(r), \A r \in Runs : Clear(r)'
  PROVE  \A r \in Runs : Clear(r)
BY WasClear

\* The worker of a run: what it has in hand.
LEMMA AtRun ==
  ASSUME AgentTypes, NEW w \in AgentWorkers, agent[w].pc \in AgentAt
  PROVE  /\ agent[w].at \in Runs /\ IsAgent(agent[w]) /\ IsRun(run[agent[w].at]) /\ IsCfg(Cfg(w))
         /\ Cfg(w) = agent[w].rows[agent[w].at].cfg /\ agent[w].at # Nothing /\ agent[w].found \in Nat
<1>1. IsAgent(agent[w]) BY DEF AgentTypes, WorkTypes
<1>2. AgentOK(agent[w]) BY <1>1, AgentParts
<1>3. agent[w].at \in Runs /\ agent[w].found \in Nat BY <1>2 DEF AgentOK
<1>4. IsSeen(agent[w].rows[agent[w].at]) BY <1>2, <1>3 DEF AgentOK
<1>5. IsCfg(agent[w].rows[agent[w].at].cfg) BY <1>4, SeenHasCfg
<1>6. IsRun(run[agent[w].at]) BY <1>3 DEF AgentTypes, RunTypes
<1>7. IsCfg(Cfg(w)) /\ Cfg(w) = agent[w].rows[agent[w].at].cfg BY <1>5, Zenon DEF Cfg
<1> QED BY <1>1, <1>3, <1>6, <1>7, AgentRunsAssumption

\* What it read is what is stored, unless the two met.
LEMMA ReadIsStored ==
  ASSUME AgentInv, NEW w \in AgentWorkers, agent[w].at \in Runs, Clear(agent[w].at)
  PROVE  /\ lock[agent[w].at] = w /\ Cfg(w) = run[agent[w].at].cfg
         /\ agent[w].pc \in {"draft", "sent"} => ~run[agent[w].at].cfg.sent
         /\ run[agent[w].at].status = "pending_approval" => ~run[agent[w].at].cfg.sent
         /\ \A v \in AgentWorkers : agent[v].at = agent[w].at => v = w
BY DEF AgentInv, RunOK, HeldOK, Cfg

\* It gives the run back.
Back(w, y) ==
    /\ Put(agent[w].at, y) /\ Release(w) /\ call' = call /\ MarksOf(told') /\ search' = search
    /\ IsRun(y) /\ y.pillar = run[agent[w].at].pillar
    /\ Clear(agent[w].at) =>
          /\ y.status = "pending_approval" => ~y.cfg.sent
          /\ run[agent[w].at].cfg.sent \/ agent[w].pc = "sent" => y.cfg.sent

\* What stays, and what changes, when a run is given back.
LEMMA BackTypes ==
  ASSUME AgentInv, NEW w \in AgentWorkers, NEW y, Back(w, y), agent[w].pc \in AgentAt
  PROVE  /\ AgentTypes' /\ OnlyWorker(w) /\ agent'[w].pc = "open" /\ agent'[w].at = Nothing /\ agent'[w].todo = agent[w].todo
         /\ run'[agent[w].at] = y /\ (\A s \in Runs \ {agent[w].at} : run'[s] = run[s] /\ lock'[s] = lock[s])
         /\ \A s \in Runs : ToldOf(s)
<1>1. PICK r : r = agent[w].at OBVIOUS
<1>2. AgentTypes BY DEF AgentInv
<1>3. r \in Runs /\ IsAgent(agent[w]) BY <1>1, <1>2, AtRun
<1>4. RunTypes /\ LockTypes /\ WorkTypes /\ CallTypes /\ ToldTypes BY <1>2 DEF AgentTypes
<1>5. Put(r, y) /\ IsRun(y) BY <1>1 DEF Back
<1>6. RunTypes' /\ run'[r] = y /\ \A s \in Runs \ {r} : run'[s] = run[s] BY <1>3, <1>4, <1>5, PutStores, StoredIs
<1>7. Works(w, GivenBack(agent[w])) BY <1>4, ReleaseWorks DEF Back
<1>8. /\ IsAgent(GivenBack(agent[w])) /\ GivenBack(agent[w]).pc = "open" /\ GivenBack(agent[w]).at = Nothing
      /\ GivenBack(agent[w]).todo = agent[w].todo
  BY <1>3, ReleasedIs
<1>9. PICK b : b = GivenBack(agent[w]) OBVIOUS
<1>10. IsAgent(b) /\ b.pc = "open" /\ b.at = Nothing /\ b.todo = agent[w].todo /\ Works(w, b) BY <1>7, <1>8, <1>9
<1>11. WorkTypes' /\ agent'[w] = b /\ \A v \in AgentWorkers \ {w} : agent'[v] = agent[v] BY <1>4, <1>10, WorksIs
<1>12. lock' = IF lock[r] = w THEN [lock EXCEPT ![r] = Nothing] ELSE lock BY <1>1 DEF Back, Release
<1>13. LockTypes' /\ \A s \in Runs \ {r} : lock'[s] = lock[s] BY <1>4, <1>12 DEF LockTypes
<1>14. CallTypes' BY <1>4 DEF CallTypes, Back
<1>15. ToldTypes' /\ \A s \in Runs : ToldOf(s)
  <2>1. MarksOf(told') /\ search' = search BY DEF Back
  <2>2. search' \in Seq({"running", "done", "failed"}) /\ Len(search') = Len(search) BY <1>4, <2>1 DEF ToldTypes
  <2> QED BY <1>4, <2>1, <2>2, MarksTell
<1>16. OnlyWorker(w) BY <1>11 DEF OnlyWorker, Back
<1> QED BY <1>1, <1>6, <1>10, <1>11, <1>13, <1>14, <1>15, <1>16 DEF AgentTypes

\* Every run keeps its invariant then.
LEMMA BackRuns ==
  ASSUME AgentInv, NEW w \in AgentWorkers, NEW y, Back(w, y), agent[w].pc \in AgentAt
  PROVE  \A s \in Runs : RunOK(s)'
<1>1. PICK r : r = agent[w].at OBVIOUS
<1>2. AgentTypes BY DEF AgentInv
<1>3. r \in Runs BY <1>1, <1>2, AtRun
<1>4. /\ OnlyWorker(w) /\ agent'[w].pc = "open" /\ agent'[w].at = Nothing /\ agent'[w].todo = agent[w].todo
      /\ run'[r] = y /\ (\A s \in Runs \ {r} : run'[s] = run[s] /\ lock'[s] = lock[s])
      /\ \A s \in Runs : ToldOf(s)
  BY <1>1, BackTypes
<1>5. \A s \in Runs : RunOK(s) BY DEF AgentInv
<1>6. RunOK(r)'
  <2>1. GivesBack(w, r) BY <1>1, <1>3, <1>4 DEF GivesBack, Back
  <2> QED BY <1>3, <1>5, <2>1, GivenBackOK
<1>7. ASSUME NEW s \in Runs \ {r} PROVE RunOK(s)'
  <2>1. s # Nothing BY AgentRunsAssumption
  <2>2. SameRun(s)
    <3>1. agent[w].at # s /\ agent'[w].at # s BY <1>1, <1>4, <2>1
    <3>2. run'[s] = run[s] /\ lock'[s] = lock[s] /\ ToldOf(s) BY <1>4
    <3> QED BY <1>4, <3>1, <3>2, OthersByWorker
  <2> QED BY <1>5, <2>2, SameRunOK
<1> QED BY <1>6, <1>7

\* The invariant holds then, if the run's search stays or ends.
LEMMA BackHolds ==
  ASSUME AgentInv, NEW w \in AgentWorkers, NEW y, Back(w, y), agent[w].pc \in AgentAt,
         (\A r \in Runs : Clear(r)') => /\ y.cfg.search \in {run[agent[w].at].cfg.search, 0}
                                        /\ agent[w].pc = "imported" => y.cfg.search = 0
  PROVE  AgentInv'
<1>1. PICK r : r = agent[w].at OBVIOUS
<1>2. AgentTypes BY DEF AgentInv
<1>3. r \in Runs BY <1>1, <1>2, AtRun
<1>4. /\ OnlyWorker(w) /\ agent'[w].pc = "open" /\ agent'[w].at = Nothing
      /\ run'[r] = y /\ (\A s \in Runs \ {r} : run'[s] = run[s])
      /\ \A s \in Runs : ToldOf(s)
  BY <1>1, BackTypes
<1>5. ASSUME \A s \in Runs : Clear(s)' PROVE SearchOK'
  <2>1. \A s \in Runs : Clear(s) BY <1>4, <1>5, AllWereClear DEF ToldOf
  <2>2. SearchOK BY <2>1 DEF AgentInv
  <2>3. ToldTypes BY <1>2 DEF AgentTypes
  <2>4. y.cfg.search \in {run[r].cfg.search, 0} /\ (agent[w].pc = "imported" => y.cfg.search = 0) BY <1>1, <1>5
  <2>5. SameSearch
    <3>1. \A s \in Runs : run'[s].cfg.search \in {run[s].cfg.search, 0} BY <1>4, <2>4
    <3>2. Len(search') = Len(search) /\ told'.counted = told.counted BY DEF Back, MarksOf
    <3>3. SameImport(w) BY <1>1, <1>4, <2>4 DEF SameImport
    <3>4. \A v \in AgentWorkers \ {w} : SameImport(v) BY <1>4 DEF SameImport, OnlyWorker
    <3> QED BY <3>1, <3>2, <3>3, <3>4 DEF SameSearch
  <2> QED BY <2>2, <2>3, <2>5, SameSearchOK
<1>6. AgentTypes' BY BackTypes
<1>7. \A s \in Runs : RunOK(s)' BY BackRuns
<1> QED BY <1>5, <1>6, <1>7, InvBy

\* A tick that is over, or failed, with the config as it is.
LEMMA BackAsIs ==
  ASSUME AgentInv, NEW w \in AgentWorkers, agent[w].pc \in {"held", "started", "draft"}, NEW y,
         Put(agent[w].at, y), Release(w), call' = call, MarksOf(told'), search' = search,
         IsRun(y), y.pillar = run[agent[w].at].pillar, y.cfg = run[agent[w].at].cfg,
         y.status # run[agent[w].at].status => y.status # "pending_approval"
  PROVE  AgentInv'
<1>0. AgentTypes /\ agent[w].pc \in AgentAt BY DEF AgentInv, AgentAt
<1>1. agent[w].at \in Runs BY <1>0, AtRun
<1>2. Clear(agent[w].at) => (run[agent[w].at].status = "pending_approval" => ~run[agent[w].at].cfg.sent)
  BY <1>1, ReadIsStored
<1>3. Back(w, y) BY <1>2 DEF Back
<1> QED BY <1>0, <1>3, BackHolds

\* A tick whose config is written back without its search.
LEMMA SearchClearedIs ==
  ASSUME NEW c, IsCfg(c)
  PROVE  IsCfg(Cleared(c)) /\ Cleared(c).search = 0 /\ Cleared(c).sent = c.sent
<1>1. PICK y : y = Cleared(c) OBVIOUS
<1>2. y = [c EXCEPT !.search = 0] BY <1>1 DEF Cleared
<1>3. IsCfg(y) /\ y.search = 0 /\ y.sent = c.sent BY <1>2, CfgSearch
<1> QED BY <1>1, <1>3

\* The run's search ends with the check.
LEMMA BackCleared ==
  ASSUME AgentInv, NEW w \in AgentWorkers, agent[w].pc \in {"held", "started", "imported"}, NEW x, NEW y,
         Put(agent[w].at, y), Release(w), call' = call, MarksOf(told'), search' = search,
         IsRun(x), x.pillar = run[agent[w].at].pillar, x.status \in {run[agent[w].at].status, "paused"},
         y = [x EXCEPT !.cfg = Cleared(Cfg(w))]
  PROVE  AgentInv'
<1>0. AgentTypes /\ agent[w].pc \in AgentAt BY DEF AgentInv, AgentAt
<1>1. agent[w].at \in Runs /\ IsCfg(Cfg(w)) BY <1>0, AtRun
<1>2. Clear(agent[w].at) => (run[agent[w].at].status = "pending_approval" => ~run[agent[w].at].cfg.sent)
                            /\ Cfg(w) = run[agent[w].at].cfg
  BY <1>1, ReadIsStored
<1>3. PICK c : c = Cleared(Cfg(w)) OBVIOUS
<1>4. IsCfg(c) /\ c.search = 0 /\ c.sent = Cfg(w).sent BY <1>1, <1>3, SearchClearedIs
<1>5. y = [x EXCEPT !.cfg = c] BY <1>3
<1>6. IsRun(y) /\ y.pillar = x.pillar /\ y.status = x.status /\ y.cfg = c
  <2>1. IsRun(x) /\ IsCfg(c) BY <1>4
  <2> QED BY <2>1, <1>5, RunCfg, Zenon
<1>7. Back(w, y) BY <1>2, <1>4, <1>6 DEF Back
<1>8. y.cfg.search = 0 BY <1>4, <1>6
<1> QED BY <1>0, <1>7, <1>8, BackHolds

\* A verification tick keeps the invariant.
LEMMA VerifyHolds ==
  ASSUME AgentInv, NEW w \in AgentWorkers, Verify(w)
  PROVE  AgentInv'
<1>0. AgentTypes /\ agent[w].pc = "held" BY DEF AgentInv, Verify, Working
<1>1. IsRun(Now(w)) /\ agent[w].at \in Runs BY <1>0, AtRun DEF AgentAt, Now
<1>2. PICK y : y = Rescheduled(Now(w)) OBVIOUS
<1>3. IsRun(y) /\ y.pillar = run[agent[w].at].pillar /\ y.status = run[agent[w].at].status /\ y.cfg = run[agent[w].at].cfg
  BY <1>1, <1>2, RescheduledIs DEF Now
<1>4. Finish(w, y) BY <1>2 DEF Verify
<1>5. MarksOf(told') BY <1>0, <1>1, <1>4, RevivedMarks DEF AgentTypes, ToldTypes, Finish
<1> QED BY <1>0, <1>3, <1>4, <1>5, BackAsIs DEF Finish, Verify

\* So does a warmup tick.
LEMMA WarmupTickHolds ==
  ASSUME AgentInv, NEW w \in AgentWorkers, WarmupTick(w)
  PROVE  AgentInv'
<1>0. AgentTypes /\ agent[w].pc = "held" BY DEF AgentInv, WarmupTick, Working
<1>1. IsRun(Now(w)) /\ agent[w].at \in Runs BY <1>0, AtRun DEF AgentAt, Now
<1>2. PICK y : y = Rescheduled(Now(w)) OBVIOUS
<1>3. IsRun(y) /\ y.pillar = run[agent[w].at].pillar /\ y.status = run[agent[w].at].status /\ y.cfg = run[agent[w].at].cfg
  BY <1>1, <1>2, RescheduledIs DEF Now
<1>4. Finish(w, y) BY <1>2 DEF WarmupTick
<1>5. MarksOf(told') BY <1>0, <1>1, <1>4, RevivedMarks DEF AgentTypes, ToldTypes, Finish
<1> QED BY <1>0, <1>3, <1>4, <1>5, BackAsIs DEF Finish, WarmupTick

\* So does one without its mailbox.
LEMMA WarmupFailsHolds ==
  ASSUME AgentInv, NEW w \in AgentWorkers, WarmupFails(w)
  PROVE  AgentInv'
<1>0. AgentTypes /\ agent[w].pc = "held" BY DEF AgentInv, WarmupFails, Working
<1>1. IsRun(Now(w)) /\ agent[w].at \in Runs BY <1>0, AtRun DEF AgentAt, Now
<1>2. PICK y : y = Failed(Now(w)) OBVIOUS
<1>3. IsRun(y) /\ y.pillar = run[agent[w].at].pillar /\ y.status \in {run[agent[w].at].status, "paused"} /\ y.cfg = run[agent[w].at].cfg
  BY <1>1, <1>2, FailedIs DEF Now
<1>4. Finish(w, y) BY <1>2 DEF WarmupFails
<1>5. MarksOf(told') BY <1>0, <1>1, <1>4, RevivedMarks DEF AgentTypes, ToldTypes, Finish
<1>6. y.status # run[agent[w].at].status => y.status # "pending_approval" BY <1>3
<1>7. call' = call /\ search' = search BY DEF WarmupFails, outside
<1> QED BY <1>0, <1>3, <1>4, <1>5, <1>6, <1>7, BackAsIs DEF Finish

\* So does the end of a search.
LEMMA EndSearchHolds ==
  ASSUME AgentInv, NEW w \in AgentWorkers, EndSearch(w)
  PROVE  AgentInv'
<1>0. AgentTypes /\ agent[w].pc = "imported" BY DEF AgentInv, EndSearch, Working
<1>1. IsRun(Now(w)) /\ agent[w].at \in Runs BY <1>0, AtRun DEF AgentAt, Now
<1>2. PICK x : x = Rescheduled(Now(w)) OBVIOUS
<1>3. IsRun(x) /\ x.pillar = run[agent[w].at].pillar /\ x.status = run[agent[w].at].status
  BY <1>1, <1>2, RescheduledIs DEF Now
<1>y. PICK y : y = [x EXCEPT !.cfg = Cleared(Cfg(w))] OBVIOUS
<1>4. Finish(w, y) BY <1>2, <1>y DEF EndSearch
<1>5. MarksOf(told') BY <1>0, <1>1, <1>4, RevivedMarks DEF AgentTypes, ToldTypes, Finish
<1>7. call' = call /\ search' = search BY DEF EndSearch, outside
<1> QED BY <1>0, <1>3, <1>y, <1>4, <1>5, <1>7, BackCleared DEF Finish

\* So does a search that failed.
LEMMA SearchFailsHolds ==
  ASSUME AgentInv, NEW w \in AgentWorkers, SearchFails(w)
  PROVE  AgentInv'
<1>0. AgentTypes /\ agent[w].pc = "held" BY DEF AgentInv, SearchFails, Working
<1>1. IsRun(Now(w)) /\ agent[w].at \in Runs BY <1>0, AtRun DEF AgentAt, Now
<1>2. PICK x : x = Failed(Now(w)) OBVIOUS
<1>3. IsRun(x) /\ x.pillar = run[agent[w].at].pillar /\ x.status \in {run[agent[w].at].status, "paused"}
  BY <1>1, <1>2, FailedIs DEF Now
<1>y. PICK y : y = [x EXCEPT !.cfg = Cleared(Cfg(w))] OBVIOUS
<1>4. Finish(w, y) BY <1>2, <1>y DEF SearchFails
<1>5. MarksOf(told') BY <1>0, <1>1, <1>4, RevivedMarks DEF AgentTypes, ToldTypes, Finish
<1>7. call' = call /\ search' = search BY DEF SearchFails, outside
<1> QED BY <1>0, <1>3, <1>y, <1>4, <1>5, <1>7, BackCleared DEF Finish

\* So does a draft that fails.
LEMMA DraftFailsHolds ==
  ASSUME AgentInv, NEW w \in AgentWorkers, DraftFails(w)
  PROVE  AgentInv'
<1>0. AgentTypes /\ agent[w].pc = "draft" BY DEF AgentInv, DraftFails, Working
<1>1. IsRun(Now(w)) /\ agent[w].at \in Runs BY <1>0, AtRun DEF AgentAt, Now
<1>2. PICK y : y = [Now(w) EXCEPT !.status = "failed"] OBVIOUS
<1>3. IsRun(y) /\ y.pillar = run[agent[w].at].pillar /\ y.status = "failed" /\ y.cfg = run[agent[w].at].cfg
  BY <1>1, <1>2, RunStatus DEF Now
<1>4. Finish(w, y) BY <1>2 DEF DraftFails
<1>5. MarksOf(told') BY <1>0, <1>1, <1>4, RevivedMarks DEF AgentTypes, ToldTypes, Finish
<1>7. call' = call /\ search' = search BY DEF DraftFails, outside
<1> QED BY <1>0, <1>3, <1>4, <1>5, <1>7, BackAsIs DEF Finish

\* So does a draft that waits for approval.
LEMMA DraftHolds ==
  ASSUME AgentInv, NEW w \in AgentWorkers, Draft(w)
  PROVE  AgentInv'
<1>0. AgentTypes /\ agent[w].pc = "draft" /\ agent[w].pc \in AgentAt BY DEF AgentInv, Draft, Working, AgentAt
<1>1. IsRun(Now(w)) /\ agent[w].at \in Runs /\ IsCfg(Cfg(w)) BY <1>0, AtRun DEF Now
<1>c. PICK c : c = [Cfg(w) EXCEPT !.draft = TRUE] OBVIOUS
<1>d. IsCfg(c) /\ c.search = Cfg(w).search /\ c.sent = Cfg(w).sent BY <1>1, <1>c, CfgDraft
<1>x. PICK x : x = [Now(w) EXCEPT !.status = "pending_approval"] OBVIOUS
<1>z. IsRun(x) /\ x.pillar = run[agent[w].at].pillar BY <1>1, <1>x, RunStatus DEF Now
<1>2. PICK y : y = [x EXCEPT !.cfg = c] OBVIOUS
<1>3. IsRun(y) /\ y.pillar = run[agent[w].at].pillar /\ y.cfg = c BY <1>d, <1>z, <1>2, RunCfg
<1>4. Finish(w, y)
  <2>1. y = [Now(w) EXCEPT !.status = "pending_approval", !.cfg = c] BY <1>x, <1>2
  <2>2. Finish(w, [Now(w) EXCEPT !.status = "pending_approval", !.cfg = c]) BY <1>c DEF Draft
  <2> QED BY <2>1, <2>2
<1>5. MarksOf(told') BY <1>0, <1>1, <1>4, RevivedMarks DEF AgentTypes, ToldTypes, Finish
<1>6. Clear(agent[w].at) => Cfg(w) = run[agent[w].at].cfg /\ ~run[agent[w].at].cfg.sent BY <1>0, <1>1, ReadIsStored
<1>7. call' = call /\ search' = search BY DEF Draft, outside
<1>8. Back(w, y) BY <1>0, <1>3, <1>4, <1>5, <1>6, <1>7, <1>d DEF Finish, Back
<1>9. Clear(agent[w].at) => y.cfg.search = run[agent[w].at].cfg.search BY <1>3, <1>6, <1>d
<1>10. (\A r \in Runs : Clear(r)') => y.cfg.search = run[agent[w].at].cfg.search
  <2>1. \A s \in Runs : ToldOf(s) BY <1>0, <1>8, BackTypes
  <2>2. (\A r \in Runs : Clear(r)') => \A r \in Runs : Clear(r) BY <2>1, WasClear DEF ToldOf
  <2> QED BY <2>2, <1>1, <1>9
<1> QED BY <1>0, <1>8, <1>10, BackHolds

\* So does the record of what autoSend sent.
LEMMA RecordSendHolds ==
  ASSUME AgentInv, NEW w \in AgentWorkers, RecordSend(w)
  PROVE  AgentInv'
<1>0. AgentTypes /\ agent[w].pc = "sent" /\ agent[w].pc \in AgentAt BY DEF AgentInv, RecordSend, Working, AgentAt
<1>1. IsRun(Now(w)) /\ agent[w].at \in Runs /\ IsCfg(Cfg(w)) BY <1>0, AtRun DEF Now
<1>c. PICK c : c = [Cfg(w) EXCEPT !.draft = TRUE, !.sent = TRUE] OBVIOUS
<1>d. IsCfg(c) /\ c.search = Cfg(w).search /\ c.sent = TRUE BY <1>1, <1>c, CfgDraftSent
<1>x. PICK x : x = [Now(w) EXCEPT !.status = "completed"] OBVIOUS
<1>z. IsRun(x) /\ x.pillar = run[agent[w].at].pillar /\ x.status = "completed" BY <1>1, <1>x, RunStatus DEF Now
<1>2. PICK y : y = [x EXCEPT !.cfg = c] OBVIOUS
<1>3. IsRun(y) /\ y.pillar = run[agent[w].at].pillar /\ y.status = "completed" /\ y.cfg = c BY <1>d, <1>z, <1>2, RunCfg
<1>4. Finish(w, y)
  <2>1. y = [Now(w) EXCEPT !.status = "completed", !.cfg = c] BY <1>x, <1>2
  <2>2. Finish(w, [Now(w) EXCEPT !.status = "completed", !.cfg = c]) BY <1>c DEF RecordSend
  <2> QED BY <2>1, <2>2
<1>5. MarksOf(told') BY <1>0, <1>1, <1>4, RevivedMarks DEF AgentTypes, ToldTypes, Finish
<1>6. Clear(agent[w].at) => Cfg(w) = run[agent[w].at].cfg BY <1>1, ReadIsStored
<1>7. call' = call /\ search' = search BY DEF RecordSend, outside
<1>8. Back(w, y) BY <1>3, <1>4, <1>5, <1>7, <1>d DEF Finish, Back
<1>9. Clear(agent[w].at) => y.cfg.search = run[agent[w].at].cfg.search BY <1>3, <1>6, <1>d
<1>10. (\A r \in Runs : Clear(r)') => y.cfg.search = run[agent[w].at].cfg.search
  <2>1. \A s \in Runs : ToldOf(s) BY <1>0, <1>8, BackTypes
  <2>2. (\A r \in Runs : Clear(r)') => \A r \in Runs : Clear(r) BY <2>1, WasClear DEF ToldOf
  <2> QED BY <2>2, <1>1, <1>9
<1> QED BY <1>0, <1>8, <1>10, BackHolds

\* A run is given back as it is.
LEMMA BackAsWas ==
  ASSUME AgentInv, NEW w \in AgentWorkers, agent[w].pc = "held", run' = run, Release(w), call' = call, told' = told, search' = search
  PROVE  AgentInv'
<1>0. AgentTypes BY DEF AgentInv
<1>1. agent[w].at \in Runs BY <1>0, AtRun DEF AgentAt
<1>2. PICK y : y = run[agent[w].at] OBVIOUS
<1>3. Put(agent[w].at, y) BY <1>0, <1>1, <1>2 DEF Put, AgentTypes, RunTypes
<1>4. IsRun(y) BY <1>0, <1>1, <1>2 DEF AgentTypes, RunTypes
<1>5. MarksOf(told') BY <1>0, NoMarks DEF AgentTypes, ToldTypes
<1> QED BY <1>2, <1>3, <1>4, <1>5, BackAsIs

\* So does a poll of a search that still runs.
LEMMA PollAgainHolds ==
  ASSUME AgentInv, NEW w \in AgentWorkers, PollAgain(w)
  PROVE  AgentInv'
BY BackAsWas DEF PollAgain, Working, outside

\* So does a tick that throws.
LEMMA TickThrowsHolds ==
  ASSUME AgentInv, NEW w \in AgentWorkers, TickThrows(w)
  PROVE  AgentInv'
<1>0. AgentTypes /\ agent[w].pc \in {"held", "started", "imported"} /\ agent[w].pc \in AgentAt
  BY DEF AgentInv, TickThrows, Working, AgentAt
<1>1. IsRun(Now(w)) /\ agent[w].at \in Runs /\ IsTold(told) BY <1>0, AtRun DEF Now, AgentTypes, ToldTypes
<1>2. PICK x : x = Failed(Now(w)) OBVIOUS
<1>3. IsRun(x) /\ x.pillar = run[agent[w].at].pillar /\ x.status \in {run[agent[w].at].status, "paused"} /\ x.cfg = run[agent[w].at].cfg
  BY <1>1, <1>2, FailedIs DEF Now
<1>y. PICK y : y = IF Now(w).pillar = "lead_finding" THEN [x EXCEPT !.cfg = Cleared(Cfg(w))] ELSE x OBVIOUS
<1>t. PICK t : t = IF agent[w].pc = "held" THEN Revived(w, y) ELSE Spoil(Revived(w, y), agent[w].at, "torn") OBVIOUS
<1>4. Put(agent[w].at, y) /\ Release(w) /\ Turns(1, t) /\ call' = call /\ search' = search
  BY <1>2, <1>y, <1>t DEF TickThrows, outside
<1>5. MarksOf(Revived(w, y)) BY <1>1, RevivedMarks
<1>6. MarksOf(t) /\ (agent[w].pc # "held" => "torn" \in t.spoilt[agent[w].at])
  <2>1. MarksOf(Spoil(Revived(w, y), agent[w].at, "torn")) /\ "torn" \in Spoil(Revived(w, y), agent[w].at, "torn").spoilt[agent[w].at]
    BY <1>1, <1>5, OneMark DEF RunMarks
  <2> QED BY <1>5, <1>t, <2>1
<1>7. MarksOf(told') /\ told'.spoilt = t.spoilt BY <1>4, <1>6, TurnMarks
<1>8. CASE Now(w).pillar = "lead_finding"
  <2>1. y = [x EXCEPT !.cfg = Cleared(Cfg(w))] BY <1>y, <1>8
  <2> QED BY <1>0, <1>3, <1>4, <1>7, <2>1, BackCleared
<1>9. CASE Now(w).pillar # "lead_finding"
  <2>1. y = x BY <1>y, <1>9
  <2>2. CASE agent[w].pc \in {"held", "started"}
    <3>1. y.status # run[agent[w].at].status => y.status # "pending_approval" BY <1>3, <2>1
    <3> QED BY <1>3, <1>4, <1>7, <2>1, <2>2, <3>1, BackAsIs
  <2>3. CASE agent[w].pc = "imported"
    <3>1. Clear(agent[w].at) => (run[agent[w].at].status = "pending_approval" => ~run[agent[w].at].cfg.sent)
      BY <1>1, ReadIsStored
    <3>2. Back(w, y) BY <1>3, <1>4, <1>7, <2>1, <2>3, <3>1 DEF Back
    <3>3. "torn" \in told'.spoilt[agent[w].at] BY <1>6, <1>7, <2>3
    <3>4. PICK r \in Runs : r = agent[w].at BY <1>1
    <3>5. ~Clear(r)' BY <3>3, <3>4 DEF Clear, Spoilt
    <3>6. ~(\A s \in Runs : Clear(s)') BY <3>5
    <3> QED BY <1>0, <3>2, <3>6, BackHolds
  <2> QED BY <1>0, <2>2, <2>3
<1> QED BY <1>8, <1>9

\* The worker goes on with the run it has.
On(w, y, p, f) ==
    /\ Works(w, Moved(agent[w], p, f)) /\ lock' = lock /\ call' = call
    /\ Stored(agent[w].at, y) /\ IsRun(y) /\ y.pillar = run[agent[w].at].pillar
    /\ y.status \in {run[agent[w].at].status, "running"} /\ y.cfg = run[agent[w].at].cfg
    /\ agent[w].pc # "sent" /\ p \in AgentAt /\ f \in Nat
    /\ p \in {"draft", "sent"} /\ Clear(agent[w].at) => ~run[agent[w].at].cfg.sent
    /\ ToldTypes'
    /\ \A s \in Runs : /\ told'.sends[s] = IF s = agent[w].at /\ p = "sent" THEN told.sends[s] + 1 ELSE told.sends[s]
                       /\ (s \in told'.cancelled => s \in told.cancelled) /\ Marked(s)

\* What stays, and what changes, when a worker goes on with its run.
LEMMA OnHolds ==
  ASSUME AgentInv, NEW w \in AgentWorkers, NEW y, NEW p, NEW f, On(w, y, p, f), agent[w].pc \in AgentAt
  PROVE  /\ AgentTypes' /\ (\A s \in Runs : RunOK(s)') /\ OnlyWorker(w)
         /\ agent'[w].pc = p /\ agent'[w].at = agent[w].at /\ agent'[w].found = f
         /\ \A s \in Runs : run'[s].cfg = run[s].cfg
<1>1. PICK r : r = agent[w].at OBVIOUS
<1>2. AgentTypes /\ \A s \in Runs : RunOK(s) BY DEF AgentInv
<1>3. r \in Runs /\ IsAgent(agent[w]) BY <1>1, <1>2, AtRun
<1>4. RunTypes /\ LockTypes /\ WorkTypes /\ CallTypes BY <1>2 DEF AgentTypes
<1>5. PICK a : a = Moved(agent[w], p, f) OBVIOUS
<1>6. IsAgent(a) /\ a.pc = p /\ a.at = r /\ a.todo = agent[w].todo /\ a.found = f /\ a.rows = agent[w].rows
  <2>1. p \in AgentAt /\ f \in Nat BY DEF On
  <2>2. IsAgent(a) /\ a.pc = p /\ a.at = agent[w].at /\ a.todo = agent[w].todo /\ a.found = f /\ a.rows = agent[w].rows
    BY <1>3, <1>5, <2>1, GoesIs
  <2> QED BY <1>1, <2>2
<1>7. Works(w, a) BY <1>5 DEF On
<1>8. WorkTypes' /\ agent'[w] = a /\ \A v \in AgentWorkers \ {w} : agent'[v] = agent[v] BY <1>4, <1>6, <1>7, WorksIs
<1>9. RunTypes' /\ run'[r] = y /\ \A s \in Runs \ {r} : run'[s] = run[s]
  <2>1. IsRun(y) /\ Stored(r, y) BY <1>1 DEF On
  <2> QED BY <1>3, <1>4, <2>1, StoredIs
<1>10. LockTypes' /\ CallTypes' /\ ToldTypes' BY <1>4 DEF LockTypes, CallTypes, On
<1>11. AgentTypes' BY <1>8, <1>9, <1>10 DEF AgentTypes
<1>12. OnlyWorker(w) BY <1>8 DEF OnlyWorker, On
<1>13. RunOK(r)'
  <2>1. WorksOn(w, r) BY <1>1, <1>3, <1>6, <1>8, <1>9, <1>12 DEF WorksOn, On
  <2> QED BY <1>2, <1>3, <2>1, WorksOnOK
<1>14. ASSUME NEW s \in Runs \ {r} PROVE RunOK(s)'
  <2>1. ToldOf(s) BY <1>1, <1>14 DEF On, ToldOf
  <2>2. run'[s] = run[s] /\ lock'[s] = lock[s] BY <1>9 DEF On
  <2>3. agent[w].at # s /\ agent'[w].at # s /\ agent'[w].todo = agent[w].todo BY <1>1, <1>6, <1>8
  <2>4. SameRun(s) BY <1>12, <2>1, <2>2, <2>3, OthersByWorker
  <2> QED BY <1>2, <2>4, SameRunOK
<1>15. \A s \in Runs : run'[s].cfg = run[s].cfg BY <1>1, <1>9 DEF On
<1> QED BY <1>1, <1>6, <1>8, <1>11, <1>12, <1>13, <1>14, <1>15

\* Every run may be said to be written as it is.
LEMMA StoredAsIs ==
  ASSUME RunTypes, NEW r \in Runs, run' = run
  PROVE  Stored(r, run[r])
BY DEF RunTypes, Stored

\* It goes on, and no search begins or is counted.
LEMMA OnNoSearch ==
  ASSUME AgentInv, NEW w \in AgentWorkers, NEW y, NEW p, NEW f, On(w, y, p, f), agent[w].pc \in AgentAt \ {"imported"},
         p # "started", search' = search, told'.counted = told.counted
  PROVE  AgentInv'
<1>1. /\ AgentTypes' /\ (\A s \in Runs : RunOK(s)') /\ OnlyWorker(w)
      /\ agent'[w].pc = p /\ agent'[w].at = agent[w].at
      /\ \A s \in Runs : run'[s].cfg = run[s].cfg
  BY OnHolds
<1>2. ASSUME \A s \in Runs : Clear(s)' PROVE SearchOK'
  <2>1. \A s \in Runs : Clear(s) BY <1>2, AllWereClear DEF On
  <2>2. SearchOK /\ ToldTypes BY <2>1 DEF AgentInv, AgentTypes
  <2>3. SameImport(w) BY <1>1 DEF SameImport
  <2>4. \A v \in AgentWorkers \ {w} : SameImport(v) BY <1>1 DEF SameImport, OnlyWorker
  <2>5. SameSearch BY <1>1, <2>3, <2>4 DEF SameSearch
  <2> QED BY <2>2, <2>5, SameSearchOK
<1> QED BY <1>1, <1>2, InvBy

\* The opening of a one-shot run keeps the invariant.
LEMMA OpenHolds ==
  ASSUME AgentInv, NEW w \in AgentWorkers, Open(w)
  PROVE  AgentInv'
<1>0. AgentTypes /\ agent[w].pc = "held" /\ agent[w].pc \in AgentAt BY DEF AgentInv, Open, Working, AgentAt
<1>1. IsRun(Now(w)) /\ agent[w].at \in Runs /\ IsCfg(Cfg(w)) /\ Now(w) = run[agent[w].at] /\ agent[w].found \in Nat BY <1>0, AtRun DEF Now
<1>2. call' = call /\ search' = search BY DEF Open, outside
<1>c. Cfg(w).sent \in BOOLEAN /\ Cfg(w).draft \in BOOLEAN BY <1>1, CfgFields
<1>6. Clear(agent[w].at) => Cfg(w) = run[agent[w].at].cfg BY <1>1, ReadIsStored
<1>3. CASE Cfg(w).sent BY <1>0, <1>2, <1>3, BackAsWas DEF Open
<1>4. CASE ~Cfg(w).sent /\ Cfg(w).draft
  <2>1. PICK y : y = [Now(w) EXCEPT !.status = "pending_approval"] OBVIOUS
  <2>2. IsRun(y) /\ y.pillar = run[agent[w].at].pillar /\ y.cfg = run[agent[w].at].cfg BY <1>1, <2>1, RunStatus
  <2>3. Finish(w, y) BY <1>4, <2>1 DEF Open
  <2>4. MarksOf(told') BY <1>0, <1>1, <2>3, RevivedMarks DEF AgentTypes, ToldTypes, Finish
  <2>5. Clear(agent[w].at) => ~y.cfg.sent BY <1>4, <1>6, <2>2
  <2>6. Clear(agent[w].at) => ~run[agent[w].at].cfg.sent BY <1>4, <1>6
  <2>7. Back(w, y) BY <1>0, <1>2, <2>2, <2>3, <2>4, <2>5, <2>6 DEF Back, Finish
  <2> QED BY <1>0, <2>2, <2>7, BackHolds
<1>5. CASE ~Cfg(w).sent /\ ~Cfg(w).draft
  <2>1. PICK y : y = [Now(w) EXCEPT !.status = "running"] OBVIOUS
  <2>2. IsRun(y) /\ y.pillar = run[agent[w].at].pillar /\ y.status = "running" /\ y.cfg = run[agent[w].at].cfg BY <1>1, <2>1, RunStatus
  <2>3. Put(agent[w].at, y) /\ GoOn(w, "draft") /\ told' = Revived(w, y) BY <1>5, <2>1 DEF Open
  <2>4. MarksOf(told') BY <1>0, <1>1, <2>3, RevivedMarks DEF AgentTypes, ToldTypes
  <2>5. Works(w, Moved(agent[w], "draft", agent[w].found)) /\ lock' = lock BY <1>0, <2>3, WorksPc DEF GoOn, AgentTypes
  <2>6. Stored(agent[w].at, y) BY <1>0, <1>1, <2>3, PutStores DEF AgentTypes
  <2>7. ToldTypes' /\ \A s \in Runs : ToldOf(s)
    <3>1. ToldTypes BY <1>0 DEF AgentTypes
    <3> QED BY <1>2, <2>4, <3>1, MarksTell DEF ToldTypes
  <2>8. On(w, y, "draft", agent[w].found)
    <3>1. \A s \in Runs : /\ told'.sends[s] = told.sends[s] /\ (s \in told'.cancelled => s \in told.cancelled) /\ Marked(s)
      BY <2>7 DEF ToldOf
    <3>2. Clear(agent[w].at) => ~run[agent[w].at].cfg.sent BY <1>5, <1>6
    <3> QED BY <1>0, <1>1, <1>2, <2>2, <2>5, <2>6, <2>7, <3>1, <3>2 DEF On, AgentAt
  <2>9. told'.counted = told.counted BY <2>4 DEF MarksOf
  <2> QED BY <1>0, <1>2, <2>8, <2>9, OnNoSearch
<1> QED BY <1>3, <1>4, <1>5

\* So does what autoSend sends.
LEMMA AutoSendHolds ==
  ASSUME AgentInv, NEW w \in AgentWorkers, AutoSend(w)
  PROVE  AgentInv'
<1>0. AgentTypes /\ agent[w].pc = "draft" /\ agent[w].pc \in AgentAt BY DEF AgentInv, AutoSend, Working, AgentAt
<1>1. IsRun(run[agent[w].at]) /\ agent[w].at \in Runs /\ agent[w].found \in Nat BY <1>0, AtRun
<1>2. call' = call /\ search' = search /\ run' = run BY DEF AutoSend, outside
<1>3. PICK r \in Runs : r = agent[w].at BY <1>1
<1>4. told' = [told EXCEPT !.sends[r] = @ + 1] BY <1>3 DEF AutoSend
<1>5. /\ IsTold(told') /\ told'.counted = told.counted /\ told'.cancelled = told.cancelled /\ told'.spoilt = told.spoilt
      /\ told'.sends[r] = told.sends[r] + 1 /\ \A s \in Runs \ {r} : told'.sends[s] = told.sends[s]
  <2>1. IsTold(told) BY <1>0 DEF AgentTypes, ToldTypes
  <2>2. PICK u : u = told' OBVIOUS
  <2>3. u = SendTold(told, r) BY <1>4, <2>2 DEF SendTold
  <2>4. /\ IsTold(u) /\ u.counted = told.counted /\ u.cancelled = told.cancelled /\ u.spoilt = told.spoilt
        /\ u.sends[r] = told.sends[r] + 1 /\ \A s \in Runs \ {r} : u.sends[s] = told.sends[s]
    BY <2>1, <2>3, SendTells
  <2> QED BY <2>2, <2>4
<1>6. ToldTypes' BY <1>0, <1>2, <1>5 DEF AgentTypes, ToldTypes
<1>7. Works(w, Moved(agent[w], "sent", agent[w].found)) /\ lock' = lock BY <1>0, WorksPc DEF AutoSend, GoOn, AgentTypes
<1>8. Stored(agent[w].at, run[agent[w].at]) BY <1>0, <1>1, <1>2, StoredAsIs DEF AgentTypes
<1>9. Clear(agent[w].at) => ~run[agent[w].at].cfg.sent BY <1>0, <1>1, ReadIsStored
<1>10. On(w, run[agent[w].at], "sent", agent[w].found)
  <2>1. \A s \in Runs : /\ told'.sends[s] = IF s = agent[w].at /\ "sent" = "sent" THEN told.sends[s] + 1 ELSE told.sends[s]
                        /\ (s \in told'.cancelled => s \in told.cancelled) /\ Marked(s)
    BY <1>3, <1>5 DEF Marked
  <2> QED BY <1>0, <1>1, <1>2, <1>6, <1>7, <1>8, <1>9, <2>1 DEF On, AgentAt
<1> QED BY <1>0, <1>2, <1>5, <1>10, OnNoSearch

\* So does the import of what a search found: no other worker has the run, and the run is the only
\* one with that search.
LEMMA ImportHolds ==
  ASSUME AgentInv, NEW w \in AgentWorkers, Import(w)
  PROVE  AgentInv'
<1>0. AgentTypes /\ agent[w].pc = "held" /\ agent[w].pc \in AgentAt BY DEF AgentInv, Import, Working, AgentAt
<1>1. IsRun(run[agent[w].at]) /\ agent[w].at \in Runs /\ IsCfg(Cfg(w)) /\ agent[w].found \in Nat BY <1>0, AtRun
<1>2. call' = call /\ search' = search /\ run' = run BY DEF Import, outside
<1>3. PICK r \in Runs : r = agent[w].at BY <1>1
<1>4. PICK i \in Nat : i = Cfg(w).search BY <1>1, CfgFields
<1>5. i # 0 /\ told' = [told EXCEPT !.counted[i] = @ + 1] BY <1>4 DEF Import
<1>t. ToldTypes /\ IsTold(told) /\ Len(told.counted) = Len(search) /\ Len(search) \in Nat BY <1>0, LenProperties DEF AgentTypes, ToldTypes
<1>w. Works(w, Moved(agent[w], "imported", agent[w].found)) /\ lock' = lock BY <1>0, WorksPc DEF Import, GoOn, AgentTypes
<1>s. Stored(agent[w].at, run[agent[w].at]) BY <1>0, <1>1, <1>2, StoredAsIs DEF AgentTypes
<1>6. /\ IsTold(told') /\ told'.sends = told.sends /\ told'.cancelled = told.cancelled /\ told'.spoilt = told.spoilt
      /\ Len(told'.counted) = Len(told.counted)
      /\ i \in 1 .. Len(search) => told'.counted[i] = told.counted[i] + 1
      /\ \A j \in 1 .. Len(search) : j # i => told'.counted[j] = told.counted[j]
  <2>2. PICK u : u = told' OBVIOUS
  <2>3. u = [told EXCEPT !.counted[i] = @ + 1] BY <1>5, <2>2
  <2>4. CASE i \in 1 .. Len(told.counted)
    <3>1. /\ IsTold(u) /\ u.sends = told.sends /\ u.cancelled = told.cancelled /\ u.spoilt = told.spoilt
          /\ Len(u.counted) = Len(told.counted) /\ u.counted[i] = told.counted[i] + 1
          /\ \A j \in 1 .. Len(told.counted) : j # i => u.counted[j] = told.counted[j]
      BY <1>t, <2>3, <2>4, CountTells
    <3> QED BY <1>t, <2>2, <3>1
  <2>5. CASE i \notin 1 .. Len(told.counted)
    <3>1. u = told BY <1>t, <2>3, <2>5, CountNone
    <3> QED BY <1>t, <2>2, <2>5, <3>1
  <2> QED BY <2>4, <2>5
<1>7. ToldTypes' BY <1>2, <1>t, <1>6 DEF ToldTypes
<1>8. \A s \in Runs : Marked(s) BY <1>6 DEF Marked
<1>9. On(w, run[agent[w].at], "imported", agent[w].found)
  BY <1>0, <1>1, <1>2, <1>6, <1>7, <1>8, <1>w, <1>s DEF On, AgentAt
<1>10. /\ AgentTypes' /\ (\A s \in Runs : RunOK(s)') /\ OnlyWorker(w)
       /\ agent'[w].pc = "imported" /\ agent'[w].at = agent[w].at
  BY <1>0, <1>9, OnHolds
<1>11. ASSUME \A s \in Runs : Clear(s)' PROVE SearchOK'
  <2>1. \A s \in Runs : Clear(s) BY <1>8, <1>11, AllWereClear
  <2>2. SearchOK BY <2>1 DEF AgentInv
  <2>3. Cfg(w) = run[r].cfg /\ \A v \in AgentWorkers : agent[v].at = r => v = w BY <1>1, <1>3, <2>1, ReadIsStored
  <2>4. run[r].cfg.search = i /\ i \in 1 .. Len(search)
    <3>1. run[r].cfg.search = i BY <1>4, <2>3
    <3>2. i <= Len(search) BY <2>2, <3>1 DEF SearchOK
    <3> QED BY <1>5, <1>t, <3>1, <3>2
  <2>5. told.counted[i] = 0
    <3>1. told.counted[i] # 0 => \E v \in AgentWorkers : agent[v].at = r /\ agent[v].pc = "imported" BY <2>2, <2>4 DEF SearchOK
    <3> QED BY <1>0, <2>3, <3>1
  <2>6. told'.counted[i] = 1 BY <1>6, <2>4, <2>5
  <2>7. \A v \in AgentWorkers : agent'[v].pc = "started" => agent'[v] = agent[v] BY <1>10 DEF OnlyWorker
  <2>8. \A v \in AgentWorkers : agent[v].pc = "imported" => agent'[v] = agent[v] BY <1>0, <1>10 DEF OnlyWorker
  <2>9. ASSUME NEW j \in 1 .. Len(search'), told'.counted[j] # 0
        PROVE  /\ told'.counted[j] = 1
               /\ \A s \in Runs : run'[s].cfg.search = j => \E v \in AgentWorkers : agent'[v].at = s /\ agent'[v].pc = "imported"
               /\ \A v \in AgentWorkers : agent'[v].pc = "started" => agent'[v].found # j
    <3>1. CASE j = i
      <4>1. \A s \in Runs : run'[s].cfg.search = j => s = r BY <1>2, <1>5, <2>2, <2>4, <3>1 DEF SearchOK
      <4>2. \A v \in AgentWorkers : agent'[v].pc = "started" => agent'[v].found # j BY <2>2, <2>4, <2>7, <3>1 DEF SearchOK
      <4> QED BY <1>3, <1>10, <2>6, <3>1, <4>1, <4>2
    <3>2. CASE j # i
      <4>1. told.counted[j] = told'.counted[j] /\ j \in 1 .. Len(search) BY <1>2, <1>6, <3>2
      <4>2. /\ told.counted[j] = 1
            /\ \A s \in Runs : run[s].cfg.search = j => \E v \in AgentWorkers : agent[v].at = s /\ agent[v].pc = "imported"
            /\ \A v \in AgentWorkers : agent[v].pc = "started" => agent[v].found # j
        BY <2>2, <2>9, <4>1 DEF SearchOK
      <4> QED BY <1>2, <2>7, <2>8, <4>1, <4>2
    <3> QED BY <3>1, <3>2
  <2>10. /\ \A s \in Runs : run'[s].cfg.search <= Len(search')
         /\ \A s, o \in Runs : run'[s].cfg.search # 0 /\ run'[s].cfg.search = run'[o].cfg.search => s = o
         /\ \A v \in AgentWorkers : agent'[v].pc = "started" =>
               /\ agent'[v].found \in 1 .. Len(search')
               /\ \A s \in Runs : run'[s].cfg.search # agent'[v].found
               /\ \A u \in AgentWorkers : agent'[u].pc = "started" /\ agent'[u].found = agent'[v].found => u = v
    BY <1>2, <2>2, <2>7 DEF SearchOK
  <2> QED BY <2>9, <2>10 DEF SearchOK
<1> QED BY <1>10, <1>11, InvBy

Begins(w) ==
    /\ search' = Append(search, "running") /\ agent' = [agent EXCEPT ![w].pc = "started", ![w].found = Len(search) + 1]
    /\ told' = [told EXCEPT !.counted = Append(@, 0)] /\ run' = run /\ lock' = lock /\ call' = call

\* A search that begins is new, and nobody's.
LEMMA FirstSearch ==
  ASSUME AgentInv, NEW w \in AgentWorkers, agent[w].pc = "held", Begins(w)
  PROVE  AgentInv'
<1>0. AgentTypes /\ agent[w].pc \in AgentAt BY DEF AgentInv, AgentAt
<1>r. run' = run /\ lock' = lock /\ call' = call BY DEF Begins
<1>1. IsRun(run[agent[w].at]) /\ agent[w].at \in Runs BY <1>0, AtRun
<1>t. ToldTypes /\ IsTold(told) /\ Len(told.counted) = Len(search) BY <1>0 DEF AgentTypes, ToldTypes
<1>n. PICK n : n = Len(search) OBVIOUS
<1>l. n \in Nat BY <1>t, <1>n, LenProperties DEF ToldTypes
<1>2. /\ search' \in Seq({"running", "done", "failed"}) /\ Len(search') = n + 1
  BY <1>t, <1>n, AppendProperties DEF ToldTypes, Begins
<1>3. /\ IsTold(told') /\ told'.sends = told.sends /\ told'.cancelled = told.cancelled /\ told'.spoilt = told.spoilt
      /\ Len(told'.counted) = n + 1 /\ told'.counted[n + 1] = 0
      /\ \A j \in 1 .. n : told'.counted[j] = told.counted[j]
  <2>1. PICK u : u = told' OBVIOUS
  <2>2. u = [told EXCEPT !.counted = Append(@, 0)] BY <2>1 DEF Begins
  <2>3. /\ IsTold(u) /\ u.sends = told.sends /\ u.cancelled = told.cancelled /\ u.spoilt = told.spoilt
        /\ Len(u.counted) = Len(told.counted) + 1 /\ u.counted[Len(told.counted) + 1] = 0
        /\ \A j \in 1 .. Len(told.counted) : u.counted[j] = told.counted[j]
    BY <1>t, <2>2, FoundTells
  <2> QED BY <1>n, <1>t, <2>1, <2>3
<1>4. ToldTypes' BY <1>2, <1>3 DEF ToldTypes
<1>5. Works(w, Moved(agent[w], "started", n + 1)) BY <1>0, <1>n, WorksStarted DEF AgentTypes, Begins
<1>6. Stored(agent[w].at, run[agent[w].at]) BY <1>0, <1>1, <1>r, StoredAsIs DEF AgentTypes
<1>8. \A s \in Runs : Marked(s) BY <1>3 DEF Marked
<1>9. On(w, run[agent[w].at], "started", n + 1)
  BY <1>0, <1>1, <1>r, <1>3, <1>4, <1>5, <1>6, <1>8, <1>l DEF On, AgentAt
<1>10. /\ AgentTypes' /\ (\A s \in Runs : RunOK(s)') /\ OnlyWorker(w)
       /\ agent'[w].pc = "started" /\ agent'[w].found = n + 1
  <2>1. PICK y : y = run[agent[w].at] OBVIOUS
  <2>2. PICK m : m = n + 1 OBVIOUS
  <2>p. PICK p : p = "started" OBVIOUS
  <2>3. On(w, y, p, m) BY <1>9, <2>1, <2>2, <2>p
  <2>4. /\ AgentTypes' /\ (\A s \in Runs : RunOK(s)') /\ OnlyWorker(w)
        /\ agent'[w].pc = p /\ agent'[w].found = m
    BY <1>0, <2>3, OnHolds
  <2> QED BY <2>2, <2>p, <2>4
<1>11. ASSUME \A s \in Runs : Clear(s)' PROVE SearchOK'
  <2>1. \A s \in Runs : Clear(s) BY <1>8, <1>11, AllWereClear
  <2>2. SearchOK BY <2>1 DEF AgentInv
  <2>3. \A v \in AgentWorkers \ {w} : agent'[v] = agent[v] BY <1>10 DEF OnlyWorker
  <2>4. \A s \in Runs : run[s].cfg.search \in Nat
    <3>1. ASSUME NEW s \in Runs PROVE run[s].cfg.search \in Nat
      <4>1. IsRun(run[s]) BY <1>0 DEF AgentTypes, RunTypes
      <4>2. IsCfg(run[s].cfg) BY <4>1, IsSeenOf
      <4> QED BY <4>2, CfgFields
    <3> QED BY <3>1
  <2>5. \A s \in Runs : run'[s].cfg.search <= Len(search') /\ run'[s].cfg.search # n + 1
    BY <1>r, <1>2, <1>l, <1>n, <2>2, <2>4 DEF SearchOK
  <2>6. \A s, o \in Runs : run'[s].cfg.search # 0 /\ run'[s].cfg.search = run'[o].cfg.search => s = o BY <1>r, <2>2 DEF SearchOK
  <2>7. ASSUME NEW v \in AgentWorkers, agent'[v].pc = "started"
        PROVE  /\ agent'[v].found \in 1 .. Len(search')
               /\ \A s \in Runs : run'[s].cfg.search # agent'[v].found
               /\ \A u \in AgentWorkers : agent'[u].pc = "started" /\ agent'[u].found = agent'[v].found => u = v
    <3>1. \A u \in AgentWorkers \ {w} : agent'[u].pc = "started" => agent'[u].found \in 1 .. n
      BY <1>n, <2>2, <2>3 DEF SearchOK
    <3>2. CASE v = w
      <4>1. agent'[v].found = n + 1 /\ n + 1 \in 1 .. Len(search') BY <1>10, <1>2, <1>l, <3>2
      <4>2. \A u \in AgentWorkers : agent'[u].pc = "started" /\ agent'[u].found = n + 1 => u = v BY <1>l, <3>1, <3>2
      <4> QED BY <2>5, <4>1, <4>2
    <3>3. CASE v # w
      <4>1. agent[v].pc = "started" /\ agent'[v] = agent[v] BY <2>3, <2>7, <3>3
      <4>2. /\ agent[v].found \in 1 .. n /\ \A s \in Runs : run[s].cfg.search # agent[v].found
            /\ \A u \in AgentWorkers : agent[u].pc = "started" /\ agent[u].found = agent[v].found => u = v
        BY <1>n, <2>2, <4>1 DEF SearchOK
      <4>3. agent'[v].found # agent'[w].found BY <1>10, <1>l, <4>1, <4>2
      <4>4. agent'[v].found \in 1 .. Len(search') BY <1>2, <1>l, <4>1, <4>2
      <4>5. \A s \in Runs : run'[s].cfg.search # agent'[v].found BY <1>r, <4>1, <4>2
      <4>6. ASSUME NEW u \in AgentWorkers, agent'[u].pc = "started", agent'[u].found = agent'[v].found PROVE u = v
        <5>1. u # w BY <4>3, <4>6
        <5>2. agent'[u] = agent[u] BY <2>3, <5>1
        <5> QED BY <4>1, <4>2, <4>6, <5>2
      <4> QED BY <4>4, <4>5, <4>6
    <3> QED BY <3>2, <3>3
  <2>9. ASSUME NEW j \in 1 .. Len(search'), told'.counted[j] # 0
        PROVE  /\ told'.counted[j] = 1
               /\ \A s \in Runs : run'[s].cfg.search = j => \E v \in AgentWorkers : agent'[v].at = s /\ agent'[v].pc = "imported"
               /\ \A v \in AgentWorkers : agent'[v].pc = "started" => agent'[v].found # j
    <3>1. j \in 1 .. n /\ told.counted[j] # 0 /\ told'.counted[j] = told.counted[j] BY <1>2, <1>3, <1>l, <2>9
    <3>2. /\ told.counted[j] = 1
          /\ \A s \in Runs : run[s].cfg.search = j => \E v \in AgentWorkers : agent[v].at = s /\ agent[v].pc = "imported"
          /\ \A v \in AgentWorkers : agent[v].pc = "started" => agent[v].found # j
      BY <1>n, <2>2, <3>1 DEF SearchOK
    <3>3. j # n + 1 BY <1>l, <3>1
    <3>4. \A v \in AgentWorkers : agent[v].pc = "imported" => agent'[v] = agent[v] BY <2>3
    <3>5. ASSUME NEW s \in Runs, run'[s].cfg.search = j PROVE \E v \in AgentWorkers : agent'[v].at = s /\ agent'[v].pc = "imported"
      <4>1. PICK v \in AgentWorkers : agent[v].at = s /\ agent[v].pc = "imported" BY <1>r, <3>2, <3>5
      <4> QED BY <3>4, <4>1
    <3>6. ASSUME NEW v \in AgentWorkers, agent'[v].pc = "started" PROVE agent'[v].found # j
      <4>1. CASE v = w BY <1>10, <3>3, <4>1
      <4>2. CASE v # w BY <2>3, <3>2, <3>6, <4>2
      <4> QED BY <4>1, <4>2
    <3> QED BY <3>1, <3>2, <3>5, <3>6
  <2> QED BY <2>5, <2>6, <2>7, <2>9 DEF SearchOK
<1> QED BY <1>10, <1>11, InvBy

\* The start of a search keeps the invariant.
LEMMA StartSearchHolds ==
  ASSUME AgentInv, NEW w \in AgentWorkers, StartSearch(w)
  PROVE  AgentInv'
<1>0. AgentTypes /\ agent[w].pc = "held" /\ call' = call BY DEF AgentInv, StartSearch, Working
<1>1. IsRun(Now(w)) /\ agent[w].at \in Runs BY <1>0, AtRun DEF AgentAt, Now
<1>2. CASE Finish(w, [Now(w) EXCEPT !.due = "later"]) /\ UNCHANGED search
  <2>2. PICK y : y = [Now(w) EXCEPT !.due = "later"] OBVIOUS
  <2>3. IsRun(y) /\ y.pillar = run[agent[w].at].pillar /\ y.status = run[agent[w].at].status /\ y.cfg = run[agent[w].at].cfg
    BY <1>1, <2>2, RunDue DEF Now
  <2>4. Finish(w, y) BY <1>2, <2>2
  <2>5. MarksOf(told') BY <1>0, <1>1, <2>4, RevivedMarks DEF AgentTypes, ToldTypes, Finish
  <2> QED BY <1>0, <1>2, <2>3, <2>4, <2>5, BackAsIs DEF Finish
<1>3. CASE /\ search' = Append(search, "running")
           /\ agent'  = [agent EXCEPT ![w].pc = "started", ![w].found = Len(search) + 1]
           /\ told'   = [told EXCEPT !.counted = Append(@, 0)]
           /\ UNCHANGED <<run, lock>>
  BY <1>0, <1>3, FirstSearch DEF Begins
<1> QED BY <1>2, <1>3 DEF StartSearch

\* So does its record.
LEMMA RecordSearchHolds ==
  ASSUME AgentInv, NEW w \in AgentWorkers, RecordSearch(w)
  PROVE  AgentInv'
<1>0. AgentTypes /\ agent[w].pc = "started" /\ agent[w].pc \in AgentAt BY DEF AgentInv, RecordSearch, Working, AgentAt
<1>1. IsRun(Now(w)) /\ agent[w].at \in Runs /\ IsCfg(Cfg(w)) /\ agent[w].found \in Nat BY <1>0, AtRun DEF Now
<1>2. call' = call /\ search' = search BY DEF RecordSearch, outside
<1>6. Clear(agent[w].at) => Cfg(w) = run[agent[w].at].cfg
                            /\ (run[agent[w].at].status = "pending_approval" => ~run[agent[w].at].cfg.sent)
  BY <1>1, ReadIsStored
<1>3. PICK n \in Nat : n = agent[w].found BY <1>1
<1>c. PICK c : c = [Cfg(w) EXCEPT !.search = n] OBVIOUS
<1>d. IsCfg(c) /\ c.search = n /\ c.sent = Cfg(w).sent BY <1>1, <1>c, CfgSearch
<1>y. PICK y : y = [Now(w) EXCEPT !.cfg = c] OBVIOUS
<1>4. IsRun(y) /\ y.pillar = run[agent[w].at].pillar /\ y.status = run[agent[w].at].status /\ y.cfg = c
  <2>1. PICK x : x = Now(w) OBVIOUS
  <2>2. IsRun(x) /\ IsCfg(c) /\ y = [x EXCEPT !.cfg = c] BY <1>1, <1>d, <1>y, <2>1
  <2>3. IsRun(y) /\ y.pillar = x.pillar /\ y.status = x.status /\ y.cfg = c BY <2>2, RunCfg
  <2> QED BY <2>1, <2>3 DEF Now
<1>5. Finish(w, y) BY <1>3, <1>c, <1>y DEF RecordSearch
<1>7. MarksOf(told') BY <1>0, <1>1, <1>5, RevivedMarks DEF AgentTypes, ToldTypes, Finish
<1>8. Back(w, y) BY <1>0, <1>2, <1>4, <1>5, <1>6, <1>7, <1>d DEF Back, Finish
<1>r. PICK r \in Runs : r = agent[w].at BY <1>1
<1>9. /\ AgentTypes' /\ OnlyWorker(w) /\ agent'[w].pc = "open" /\ agent'[w].at = Nothing
      /\ run'[r] = y /\ (\A s \in Runs \ {r} : run'[s] = run[s])
      /\ \A s \in Runs : ToldOf(s)
  BY <1>0, <1>8, <1>r, BackTypes
<1>10. \A s \in Runs : RunOK(s)' BY <1>0, <1>8, BackRuns
<1>11. ASSUME \A s \in Runs : Clear(s)' PROVE SearchOK'
  <2>1. \A s \in Runs : Clear(s) BY <1>9, <1>11, AllWereClear DEF ToldOf
  <2>2. SearchOK BY <2>1 DEF AgentInv
  <2>3. \A v \in AgentWorkers \ {w} : agent'[v] = agent[v] BY <1>9 DEF OnlyWorker
  <2>4. search' = search /\ told'.counted = told.counted BY <1>2, <1>7 DEF MarksOf
  <2>5. /\ n \in 1 .. Len(search) /\ \A s \in Runs : run[s].cfg.search # n
        /\ \A v \in AgentWorkers : agent[v].pc = "started" /\ agent[v].found = n => v = w
    BY <1>0, <1>3, <2>2 DEF SearchOK
  <2>6. run'[r].cfg.search = n BY <1>4, <1>9, <1>d
  <2>l. Len(search) \in Nat BY <1>0, LenProperties DEF AgentTypes, ToldTypes
  <2>7. \A s \in Runs : run'[s].cfg.search <= Len(search')
    <3>1. n <= Len(search) BY <2>5, <2>l
    <3> QED BY <1>9, <2>2, <2>4, <2>6, <3>1 DEF SearchOK
  <2>8. \A s, o \in Runs : run'[s].cfg.search # 0 /\ run'[s].cfg.search = run'[o].cfg.search => s = o
    BY <1>9, <2>2, <2>5, <2>6 DEF SearchOK
  <2>9. \A v \in AgentWorkers : agent'[v].pc = "started" => v # w /\ agent'[v] = agent[v] BY <1>9, <2>3
  <2>10. ASSUME NEW v \in AgentWorkers, agent'[v].pc = "started"
         PROVE  /\ agent'[v].found \in 1 .. Len(search')
                /\ \A s \in Runs : run'[s].cfg.search # agent'[v].found
                /\ \A u \in AgentWorkers : agent'[u].pc = "started" /\ agent'[u].found = agent'[v].found => u = v
    <3>1. v # w /\ agent'[v] = agent[v] /\ agent[v].pc = "started" BY <2>9, <2>10
    <3>2. /\ agent[v].found \in 1 .. Len(search) /\ \A s \in Runs : run[s].cfg.search # agent[v].found
          /\ \A u \in AgentWorkers : agent[u].pc = "started" /\ agent[u].found = agent[v].found => u = v
      BY <2>2, <3>1 DEF SearchOK
    <3>3. agent[v].found # n BY <2>5, <3>1
    <3>4. \A s \in Runs : run'[s].cfg.search # agent'[v].found BY <1>9, <2>6, <3>1, <3>2, <3>3
    <3>5. \A u \in AgentWorkers : agent'[u].pc = "started" /\ agent'[u].found = agent'[v].found => u = v
      BY <2>9, <3>1, <3>2
    <3> QED BY <2>4, <3>1, <3>2, <3>4, <3>5
  <2>11. ASSUME NEW j \in 1 .. Len(search'), told'.counted[j] # 0
         PROVE  /\ told'.counted[j] = 1
                /\ \A s \in Runs : run'[s].cfg.search = j => \E v \in AgentWorkers : agent'[v].at = s /\ agent'[v].pc = "imported"
                /\ \A v \in AgentWorkers : agent'[v].pc = "started" => agent'[v].found # j
    <3>1. j \in 1 .. Len(search) /\ told.counted[j] # 0 /\ told'.counted[j] = told.counted[j] BY <2>4, <2>11
    <3>2. /\ told.counted[j] = 1
          /\ \A s \in Runs : run[s].cfg.search = j => \E v \in AgentWorkers : agent[v].at = s /\ agent[v].pc = "imported"
          /\ \A v \in AgentWorkers : agent[v].pc = "started" => agent[v].found # j
      BY <2>2, <3>1 DEF SearchOK
    <3>3. j # n BY <1>0, <1>3, <3>2
    <3>4. ASSUME NEW s \in Runs, run'[s].cfg.search = j PROVE \E v \in AgentWorkers : agent'[v].at = s /\ agent'[v].pc = "imported"
      <4>1. s # r BY <2>6, <3>3, <3>4
      <4>2. run[s].cfg.search = j BY <1>9, <3>4, <4>1
      <4>3. PICK v \in AgentWorkers : agent[v].at = s /\ agent[v].pc = "imported" BY <3>2, <4>2
      <4>4. agent'[v] = agent[v] BY <1>0, <2>3, <4>3
      <4> QED BY <4>3, <4>4
    <3>5. \A v \in AgentWorkers : agent'[v].pc = "started" => agent'[v].found # j BY <2>9, <3>2
    <3> QED BY <3>1, <3>2, <3>4, <3>5
  <2> QED BY <2>7, <2>8, <2>10, <2>11 DEF SearchOK
<1> QED BY <1>9, <1>10, <1>11, InvBy

\* Nothing moves in the searches when no worker enters or leaves one.
LEMMA QuietSearch ==
  ASSUME AgentInv, \A s \in Runs : Marked(s), \A s \in Runs : Clear(s)',
         \A s \in Runs : run'[s].cfg.search = run[s].cfg.search, search' = search, told'.counted = told.counted,
         \A w \in AgentWorkers : SameImport(w)
  PROVE  SearchOK'
<1>1. \A s \in Runs : Clear(s) BY AllWereClear
<1>2. SearchOK /\ ToldTypes BY <1>1 DEF AgentInv, AgentTypes
<1>3. SameSearch BY DEF SameSearch
<1> QED BY <1>2, <1>3, SameSearchOK

\* A job that starts marks nothing.
LEMMA StartsMarks ==
  ASSUME NEW w, NEW t, MarksOf(t), Starts(w, t)
  PROVE  MarksOf(told') /\ told'.spoilt = t.spoilt
<1>1. told' = t \/ Turns(1, t) BY DEF Starts
<1> QED BY <1>1, TurnMarks

\* A worker picks runs: the rest.
LEMMA PicksHolds ==
  ASSUME AgentInv, NEW w \in AgentWorkers, agent[w].pc = "idle", NEW rs \in SUBSET Runs, \A r \in rs : Of(r, {"active"}),
         Works(w, Snapshot(rs)), run' = run, lock' = lock, call' = call, search' = search, MarksOf(told')
  PROVE  AgentInv'
<1>1. AgentTypes /\ \A r \in Runs : RunOK(r) BY DEF AgentInv
<1>2. IsAgent(agent[w]) /\ AgentOK(agent[w]) BY <1>1, AgentParts DEF AgentTypes, WorkTypes
<1>3. agent[w].at = Nothing BY <1>2 DEF AgentOK, AgentAt
<1>4. PICK a : a = Snapshot(rs) OBVIOUS
<1>5. IsAgent(a) /\ a.pc = "open" /\ a.at = Nothing /\ a.todo = rs BY <1>1, <1>4, SnapshotIs
<1>6. WorkTypes' /\ agent'[w] = a /\ \A v \in AgentWorkers \ {w} : agent'[v] = agent[v]
  BY <1>1, <1>4, <1>5, WorksIs DEF AgentTypes
<1>7. ToldTypes' /\ \A r \in Runs : ToldOf(r)
  <2>1. ToldTypes BY <1>1 DEF AgentTypes
  <2> QED BY <2>1, MarksTell DEF ToldTypes
<1>8. AgentTypes' BY <1>1, <1>6, <1>7 DEF AgentTypes, RunTypes, LockTypes, CallTypes
<1>9. ASSUME NEW r \in Runs PROVE RunOK(r)'
  <2>1. Picked(w, r) BY <1>3, <1>5, <1>6, <1>7 DEF Picked, OnlyWorker
  <2> QED BY <1>1, <2>1, PickedOK
<1>10. ASSUME \A s \in Runs : Clear(s)' PROVE SearchOK'
  <2>1. \A v \in AgentWorkers : SameImport(v) BY <1>5, <1>6 DEF SameImport
  <2>2. (\A s \in Runs : Marked(s)) /\ told'.counted = told.counted BY <1>7 DEF ToldOf, MarksOf
  <2> QED BY <1>10, <2>1, <2>2, QuietSearch
<1> QED BY <1>8, <1>9, <1>10, InvBy

\* The start of a tick keeps the invariant.
LEMMA StartAgentTickHolds ==
  ASSUME AgentInv, NEW w \in AgentWorkers, StartAgentTick(w)
  PROVE  AgentInv'
<1>1. AgentTypes /\ IsTold(told) BY DEF AgentInv, AgentTypes, ToldTypes
<1>2. Starts(w, told) /\ agent[w].pc = "idle" BY DEF StartAgentTick, Starts
<1>3. MarksOf(told') BY <1>1, <1>2, NoMarks, StartsMarks
<1>4. DueRuns \in SUBSET Runs /\ \A r \in DueRuns : Of(r, {"active"}) BY DEF DueRuns
<1>5. Works(w, Snapshot(DueRuns)) BY <1>1, WorksAll DEF StartAgentTick, AgentTypes
<1>6. run' = run /\ lock' = lock /\ call' = call /\ search' = search BY DEF StartAgentTick, outside
<1> QED BY <1>2, <1>3, <1>4, <1>5, <1>6, PicksHolds

\* Only marks, times and the outside change.
LEMMA QuietHolds ==
  ASSUME AgentInv, agent' = agent, call' = call, RunTypes', LockTypes', ToldTypes', search' = search, told'.counted = told.counted,
         \A s \in Runs : /\ run'[s].pillar = run[s].pillar /\ run'[s].status = run[s].status /\ run'[s].cfg = run[s].cfg
                         /\ (lock[s] \in AgentWorkers => lock'[s] = lock[s]) /\ ToldOf(s)
  PROVE  AgentInv'
<1>1. AgentTypes /\ \A r \in Runs : RunOK(r) BY DEF AgentInv
<1>2. AgentTypes' BY <1>1 DEF AgentTypes, WorkTypes, CallTypes
<1>3. ASSUME NEW r \in Runs PROVE RunOK(r)'
  <2>1. SameRun(r) BY SameByTime
  <2> QED BY <1>1, <2>1, SameRunOK
<1>4. ASSUME \A s \in Runs : Clear(s)' PROVE SearchOK'
  <2>1. \A v \in AgentWorkers : SameImport(v) BY DEF SameImport
  <2>2. \A s \in Runs : Marked(s) BY DEF ToldOf
  <2> QED BY <1>4, <2>1, <2>2, QuietSearch
<1> QED BY <1>2, <1>3, <1>4, InvBy

\* Marks alone keep it.
LEMMA MarksHold ==
  ASSUME AgentInv, agent' = agent, call' = call, run' = run, lock' = lock, search' = search, MarksOf(told')
  PROVE  AgentInv'
<1>1. AgentTypes BY DEF AgentInv
<1>2. ToldTypes' /\ \A r \in Runs : ToldOf(r)
  <2>1. ToldTypes BY <1>1 DEF AgentTypes
  <2> QED BY <2>1, MarksTell DEF ToldTypes
<1>3. RunTypes' /\ LockTypes' BY <1>1 DEF AgentTypes, RunTypes, LockTypes
<1>4. told'.counted = told.counted BY DEF MarksOf
<1> QED BY <1>2, <1>3, <1>4, QuietHolds

\* The start of a kick keeps it.
LEMMA StartKickHolds ==
  ASSUME AgentInv, NEW w \in AgentWorkers, NEW r \in Runs, StartKick(w, r)
  PROVE  AgentInv'
<1>1. AgentTypes /\ IsTold(told) BY DEF AgentInv, AgentTypes, ToldTypes
<1>6. run' = run /\ lock' = lock /\ call' = call /\ search' = search BY DEF StartKick, outside
<1>2. CASE Of(r, {"active"}) /\ Starts(w, told) /\ agent' = [agent EXCEPT ![w] = Snapshot({r})]
  <2>1. agent[w].pc = "idle" /\ MarksOf(told') BY <1>1, <1>2, NoMarks, StartsMarks DEF Starts
  <2>2. Works(w, Snapshot({r})) BY <1>1, <1>2, WorksAll DEF AgentTypes
  <2>3. {r} \in SUBSET Runs /\ \A o \in {r} : Of(o, {"active"}) BY <1>2
  <2> QED BY <1>6, <2>1, <2>2, <2>3, PicksHolds
<1>3. CASE Starts(w, Spoil(told, r, "unkicked")) /\ UNCHANGED agent
  <2>1. MarksOf(Spoil(told, r, "unkicked")) BY <1>1, NoMarks, OneMark DEF RunMarks
  <2>2. MarksOf(told') BY <1>3, <2>1, StartsMarks
  <2> QED BY <1>3, <1>6, <2>2, MarksHold
<1> QED BY <1>2, <1>3 DEF StartKick

\* So does the end of a job.
LEMMA EndJobHolds ==
  ASSUME AgentInv, NEW w \in AgentWorkers, EndJob(w)
  PROVE  AgentInv'
<1>1. AgentTypes /\ IsTold(told) /\ \A r \in Runs : RunOK(r) BY DEF AgentInv, AgentTypes, ToldTypes
<1>2. IsAgent(agent[w]) /\ AgentOK(agent[w]) BY <1>1, AgentParts DEF AgentTypes, WorkTypes
<1>3. agent[w].pc = "open" /\ agent[w].at = Nothing BY <1>2 DEF AgentOK, AgentAt, EndJob
<1>4. PICK a : a = IdleAgent OBVIOUS
<1>5. IsAgent(a) /\ a.pc = "idle" /\ a.at = Nothing /\ a.todo = {} BY <1>4, IdleAgentIs
<1>s. Works(w, a) BY <1>1, <1>4, WorksAll DEF EndJob, AgentTypes
<1>6. WorkTypes' /\ agent'[w] = a /\ \A v \in AgentWorkers \ {w} : agent'[v] = agent[v]
  BY <1>1, <1>s, <1>5, WorksIs DEF AgentTypes
<1>7. run' = run /\ lock' = lock /\ call' = call /\ search' = search /\ told' = told BY DEF EndJob, outside
<1>8. AgentTypes' BY <1>1, <1>6, <1>7 DEF AgentTypes, RunTypes, LockTypes, CallTypes, ToldTypes
<1>9. ASSUME NEW r \in Runs PROVE RunOK(r)'
  <2>1. Picked(w, r) BY <1>3, <1>5, <1>6, <1>7 DEF Picked, OnlyWorker, ToldOf, Marked
  <2> QED BY <1>1, <2>1, PickedOK
<1>10. ASSUME \A s \in Runs : Clear(s)' PROVE SearchOK'
  <2>1. \A v \in AgentWorkers : SameImport(v) BY <1>3, <1>5, <1>6 DEF SameImport
  <2>2. (\A s \in Runs : Marked(s)) /\ told'.counted = told.counted BY <1>7 DEF Marked
  <2> QED BY <1>7, <1>10, <2>1, <2>2, QuietSearch
<1> QED BY <1>8, <1>9, <1>10, InvBy

\* So does a dead worker's lock that lapses.
LEMMA LapseHolds ==
  ASSUME AgentInv, NEW r \in Runs, Lapse(r)
  PROVE  AgentInv'
<1>1. AgentTypes /\ IsTold(told) BY DEF AgentInv, AgentTypes, ToldTypes
<1>2. agent' = agent /\ call' = call /\ run' = run /\ search' = search /\ told' = told BY DEF Lapse, outside
<1>3. lock[r] = "dead" /\ lock' = [lock EXCEPT ![r] = Nothing] BY DEF Lapse
<1>4. LockTypes' BY <1>1, <1>3 DEF AgentTypes, LockTypes
<1>5. \A s \in Runs : lock[s] \in AgentWorkers => lock'[s] = lock[s] BY <1>1, <1>3, AgentRunsAssumption DEF AgentTypes, LockTypes
<1>6. RunTypes' /\ ToldTypes' /\ \A s \in Runs : ToldOf(s) BY <1>1, <1>2 DEF AgentTypes, RunTypes, ToldTypes, ToldOf, Marked
<1> QED BY <1>2, <1>4, <1>5, <1>6, QuietHolds

\* So does the lock taken, or met.
LEMMA TakeLockHolds ==
  ASSUME AgentInv, NEW w \in AgentWorkers, NEW r \in Runs, TakeLock(w, r)
  PROVE  AgentInv'
<1>1. AgentTypes /\ IsTold(told) /\ \A s \in Runs : RunOK(s) BY DEF AgentInv, AgentTypes, ToldTypes
<1>2. IsAgent(agent[w]) /\ AgentOK(agent[w]) BY <1>1, AgentParts DEF AgentTypes, WorkTypes
<1>3. agent[w].pc = "open" /\ agent[w].at = Nothing /\ r \in agent[w].todo BY <1>2 DEF AgentOK, AgentAt, TakeLock
<1>4. run' = run /\ call' = call /\ search' = search BY DEF TakeLock, outside
<1>c. CallTypes' /\ RunTypes' BY <1>1, <1>4 DEF AgentTypes, RunTypes, CallTypes
<1>n. Nothing \notin Runs BY AgentRunsAssumption
<1>5. CASE /\ lock[r] = Nothing /\ lock' = [lock EXCEPT ![r] = w]
           /\ agent' = [agent EXCEPT ![w].pc = "held", ![w].at = r, ![w].todo = @ \ {r}]
           /\ told' = IF Seen(run[r]) = agent[w].rows[r] THEN told ELSE Spoil(told, r, "stale")
  <2>1. PICK a : a = Held(agent[w], r) OBVIOUS
  <2>2. /\ IsAgent(a) /\ a.pc = "held" /\ a.at = r /\ a.todo = agent[w].todo \ {r} /\ a.rows = agent[w].rows
    BY <1>2, <1>3, <2>1, TakesIs
  <2>3. Works(w, a) BY <1>1, <1>5, <2>1, WorksHeld DEF AgentTypes
  <2>4. WorkTypes' /\ agent'[w] = a /\ \A v \in AgentWorkers \ {w} : agent'[v] = agent[v]
    BY <1>1, <2>2, <2>3, WorksIs DEF AgentTypes
  <2>5. LockTypes' /\ lock'[r] = w /\ \A s \in Runs \ {r} : lock'[s] = lock[s] BY <1>1, <1>5 DEF AgentTypes, LockTypes
  <2>6. MarksOf(told') /\ (Seen(run[r]) # agent[w].rows[r] => "stale" \in told'.spoilt[r])
    <3>1. MarksOf(told) BY <1>1, NoMarks
    <3>2. MarksOf(Spoil(told, r, "stale")) /\ "stale" \in Spoil(told, r, "stale").spoilt[r] BY <3>1, OneMark DEF RunMarks
    <3> QED BY <1>5, <3>1, <3>2
  <2>7. ToldTypes' /\ \A s \in Runs : ToldOf(s)
    <3>1. ToldTypes BY <1>1 DEF AgentTypes
    <3> QED BY <1>4, <2>6, <3>1, MarksTell DEF ToldTypes
  <2>8. AgentTypes' BY <1>c, <2>4, <2>5, <2>7 DEF AgentTypes
  <2>9. OnlyWorker(w) BY <1>4, <2>4 DEF OnlyWorker
  <2>10. RunOK(r)'
    <3>1. Clear(r)' => Seen(run[r]) = agent[w].rows[r] BY <2>6 DEF Clear, Spoilt
    <3>2. Seen(run[r]).cfg = run[r].cfg
      <4>1. IsRun(run[r]) BY <1>1 DEF AgentTypes, RunTypes
      <4> QED BY <4>1, IsSeenOf
    <3>3. Takes(w, r) BY <1>3, <1>4, <1>5, <2>2, <2>4, <2>5, <2>7, <2>9, <3>1, <3>2 DEF Takes
    <3> QED BY <1>1, <3>3, TakesOK
  <2>11. ASSUME NEW s \in Runs \ {r} PROVE RunOK(s)'
    <3>1. agent[w].at # s /\ agent'[w].at # s /\ (s \in agent'[w].todo => s \in agent[w].todo) BY <1>3, <1>n, <2>2, <2>4
    <3>2. SameRun(s) BY <1>4, <2>5, <2>7, <2>9, <3>1, OthersByWorker
    <3> QED BY <1>1, <3>2, SameRunOK
  <2>12. ASSUME \A s \in Runs : Clear(s)' PROVE SearchOK'
    <3>1. \A v \in AgentWorkers : SameImport(v) BY <1>3, <2>2, <2>4 DEF SameImport
    <3>2. (\A s \in Runs : Marked(s)) /\ told'.counted = told.counted BY <2>6, <2>7 DEF ToldOf, MarksOf
    <3> QED BY <1>4, <2>12, <3>1, <3>2, QuietSearch
  <2> QED BY <2>8, <2>10, <2>11, <2>12, InvBy
<1>6. CASE /\ agent' = [agent EXCEPT ![w].todo = @ \ {r}] /\ told' = Spoil(told, r, "unkicked") /\ UNCHANGED lock
  <2>1. PICK a : a = [agent[w] EXCEPT !.todo = @ \ {r}] OBVIOUS
  <2>2. IsAgent(a) /\ a.pc = "open" /\ a.at = Nothing /\ a.todo = agent[w].todo \ {r} BY <1>2, <1>3, <2>1, DropsIs
  <2>3. Works(w, a) BY <1>1, <1>6, <2>1, WorksTodo DEF AgentTypes
  <2>4. WorkTypes' /\ agent'[w] = a /\ \A v \in AgentWorkers \ {w} : agent'[v] = agent[v]
    BY <1>1, <2>2, <2>3, WorksIs DEF AgentTypes
  <2>5. MarksOf(told')
    <3>1. MarksOf(told) BY <1>1, NoMarks
    <3> QED BY <1>6, <3>1, OneMark DEF RunMarks
  <2>6. ToldTypes' /\ \A s \in Runs : ToldOf(s)
    <3>1. ToldTypes BY <1>1 DEF AgentTypes
    <3> QED BY <1>4, <2>5, <3>1, MarksTell DEF ToldTypes
  <2>7. AgentTypes' BY <1>1, <1>c, <1>6, <2>4, <2>6 DEF AgentTypes, LockTypes
  <2>8. OnlyWorker(w) BY <1>4, <2>4 DEF OnlyWorker
  <2>9. ASSUME NEW s \in Runs PROVE RunOK(s)'
    <3>1. agent[w].at # s /\ agent'[w].at # s /\ (s \in agent'[w].todo => s \in agent[w].todo) BY <1>3, <1>n, <2>2, <2>4
    <3>2. SameRun(s) BY <1>4, <1>6, <2>6, <2>8, <3>1, OthersByWorker
    <3> QED BY <1>1, <3>2, SameRunOK
  <2>10. ASSUME \A s \in Runs : Clear(s)' PROVE SearchOK'
    <3>1. \A v \in AgentWorkers : SameImport(v) BY <1>3, <2>2, <2>4 DEF SameImport
    <3>2. (\A s \in Runs : Marked(s)) /\ told'.counted = told.counted BY <2>5, <2>6 DEF ToldOf, MarksOf
    <3> QED BY <1>4, <2>10, <3>1, <3>2, QuietSearch
  <2> QED BY <2>7, <2>9, <2>10, InvBy
<1> QED BY <1>5, <1>6 DEF TakeLock

\* So does a worker that dies.
LEMMA AgentDiesHolds ==
  ASSUME AgentInv, NEW w \in AgentWorkers, AgentDies(w)
  PROVE  AgentInv'
<1>1. AgentTypes /\ IsTold(told) /\ \A s \in Runs : RunOK(s) BY DEF AgentInv, AgentTypes, ToldTypes
<1>2. IsAgent(agent[w]) /\ AgentOK(agent[w]) BY <1>1, AgentParts DEF AgentTypes, WorkTypes
<1>3. agent[w].at \in Runs BY <1>2 DEF AgentOK, AgentAt, AgentDies
<1>r. PICK r \in Runs : r = agent[w].at BY <1>3
<1>4. run' = run /\ call' = call /\ search' = search BY DEF AgentDies, outside
<1>5. MarksOf(told') /\ "torn" \in told'.spoilt[r] /\ ~Clear(r)'
  <2>1. MarksOf(told) BY <1>1, NoMarks
  <2>2. PICK t : t = Spoil(told, r, "torn") OBVIOUS
  <2>3. MarksOf(t) /\ "torn" \in t.spoilt[r] BY <2>1, <2>2, OneMark DEF RunMarks
  <2>4. Turns(2, t) BY <1>r, <2>2 DEF AgentDies
  <2>5. MarksOf(told') /\ told'.spoilt = t.spoilt BY <2>3, <2>4, TurnMarks
  <2> QED BY <2>3, <2>5 DEF Clear, Spoilt
<1>6. ToldTypes' /\ \A s \in Runs : ToldOf(s)
  <2>1. ToldTypes BY <1>1 DEF AgentTypes
  <2> QED BY <1>4, <1>5, <2>1, MarksTell DEF ToldTypes
<1>7. PICK a : a = IdleAgent OBVIOUS
<1>8. IsAgent(a) /\ a.pc = "idle" /\ a.at = Nothing /\ a.todo = {} BY <1>7, IdleAgentIs
<1>s. Works(w, a) BY <1>1, <1>7, WorksAll DEF AgentDies, AgentTypes
<1>9. WorkTypes' /\ agent'[w] = a /\ \A v \in AgentWorkers \ {w} : agent'[v] = agent[v]
  BY <1>1, <1>s, <1>8, WorksIs DEF AgentTypes
<1>10. LockTypes' /\ \A s \in Runs \ {r} : lock'[s] = lock[s] BY <1>1, <1>r DEF AgentTypes, LockTypes, AgentDies
<1>11. AgentTypes' BY <1>1, <1>4, <1>6, <1>9, <1>10 DEF AgentTypes, RunTypes, CallTypes
<1>n. Nothing \notin Runs BY AgentRunsAssumption
<1>12. RunOK(r)'
  <2>1. Worked(r) BY <1>r DEF Worked
  <2>2. \A v \in AgentWorkers : (agent'[v].at = r => agent[v].at = r) /\ (r \in agent'[v].todo => r \in agent[v].todo)
    BY <1>8, <1>9, <1>n
  <2>3. Spoils(r) BY <1>4, <1>5, <1>6, <2>1, <2>2 DEF Spoils
  <2> QED BY <1>1, <2>3, SpoilsOK
<1>13. ASSUME NEW s \in Runs \ {r} PROVE RunOK(s)'
  <2>1. OnlyWorker(w) BY <1>4, <1>9 DEF OnlyWorker
  <2>2. agent[w].at # s /\ agent'[w].at # s /\ (s \in agent'[w].todo => s \in agent[w].todo) BY <1>r, <1>8, <1>9, <1>n
  <2>3. SameRun(s) BY <1>4, <1>6, <1>10, <2>1, <2>2, OthersByWorker
  <2> QED BY <1>1, <2>3, SameRunOK
<1>14. ~(\A s \in Runs : Clear(s)') BY <1>5
<1> QED BY <1>11, <1>12, <1>13, <1>14, InvBy

\* So does a lock that lapses under its worker.
LEMMA LapseEarlyHolds ==
  ASSUME AgentInv, NEW r \in Runs, LapseEarly(r)
  PROVE  AgentInv'
<1>1. AgentTypes /\ IsTold(told) /\ \A s \in Runs : RunOK(s) BY DEF AgentInv, AgentTypes, ToldTypes
<1>4. run' = run /\ call' = call /\ search' = search /\ agent' = agent BY DEF LapseEarly, outside
<1>5. MarksOf(told') /\ "stale" \in told'.spoilt[r] /\ ~Clear(r)' /\ Spoilt(r, {"raced", "stale"})'
  <2>1. MarksOf(told) BY <1>1, NoMarks
  <2>2. PICK t : t = Spoil(told, r, "stale") OBVIOUS
  <2>3. MarksOf(t) /\ "stale" \in t.spoilt[r] BY <2>1, <2>2, OneMark DEF RunMarks
  <2>4. Turns(2, t) BY <2>2 DEF LapseEarly
  <2>5. MarksOf(told') /\ told'.spoilt = t.spoilt BY <2>3, <2>4, TurnMarks
  <2> QED BY <2>3, <2>5 DEF Clear, Spoilt
<1>6. ToldTypes' /\ \A s \in Runs : ToldOf(s)
  <2>1. ToldTypes BY <1>1 DEF AgentTypes
  <2> QED BY <1>4, <1>5, <2>1, MarksTell DEF ToldTypes
<1>10. LockTypes' /\ \A s \in Runs \ {r} : lock'[s] = lock[s] BY <1>1 DEF AgentTypes, LockTypes, LapseEarly
<1>11. AgentTypes' BY <1>1, <1>4, <1>6, <1>10 DEF AgentTypes, RunTypes, CallTypes, WorkTypes
<1>12. RunOK(r)'
  <2>3. Spoils(r) BY <1>4, <1>5, <1>6 DEF Spoils
  <2> QED BY <1>1, <2>3, SpoilsOK
<1>13. ASSUME NEW s \in Runs \ {r} PROVE RunOK(s)'
  <2>3. SameRun(s) BY <1>4, <1>6, <1>10, SameByTime
  <2> QED BY <1>1, <2>3, SameRunOK
<1>14. ~(\A s \in Runs : Clear(s)') BY <1>5
<1> QED BY <1>11, <1>12, <1>13, <1>14, InvBy

\* So does a run that comes due.
LEMMA ComesDueHolds ==
  ASSUME AgentInv, NEW r \in Runs, ComesDue(r)
  PROVE  AgentInv'
<1>1. AgentTypes BY DEF AgentInv
<1>2. agent' = agent /\ call' = call /\ search' = search /\ told' = told /\ lock' = lock BY DEF ComesDue, outside
<1>3. IsRun(run[r]) BY <1>1 DEF AgentTypes, RunTypes
<1>4. PICK y : y = [run[r] EXCEPT !.due = "now"] OBVIOUS
<1>5. IsRun(y) /\ y.pillar = run[r].pillar /\ y.status = run[r].status /\ y.cfg = run[r].cfg BY <1>3, <1>4, RunDue
<1>6. Stored(r, y) BY <1>1, <1>4, PutStores DEF AgentTypes, ComesDue
<1>7. RunTypes' /\ run'[r] = y /\ \A s \in Runs \ {r} : run'[s] = run[s] BY <1>1, <1>5, <1>6, StoredIs DEF AgentTypes
<1>8. LockTypes' /\ ToldTypes' /\ \A s \in Runs : ToldOf(s) BY <1>1, <1>2 DEF AgentTypes, LockTypes, ToldTypes, ToldOf, Marked
<1>9. \A s \in Runs : run'[s].pillar = run[s].pillar /\ run'[s].status = run[s].status /\ run'[s].cfg = run[s].cfg BY <1>5, <1>7
<1> QED BY <1>2, <1>7, <1>8, <1>9, QuietHolds

\* So does a turn outside.
LEMMA TurnHolds ==
  ASSUME AgentInv, run' = run, lock' = lock, agent' = agent, call' = call, search' = search, Turns(1, told)
  PROVE  AgentInv'
<1>1. IsTold(told) BY DEF AgentInv, AgentTypes, ToldTypes
<1>2. MarksOf(told') BY <1>1, NoMarks, TurnMarks
<1> QED BY <1>2, MarksHold

\* A provider's answer.
LEMMA AnswerHolds ==
  ASSUME AgentInv, NEW i \in DOMAIN search, Answer(i)
  PROVE  AgentInv'
<1>1. AgentTypes /\ \A s \in Runs : RunOK(s) BY DEF AgentInv
<1>2. agent' = agent /\ call' = call /\ run' = run /\ lock' = lock /\ told' = told BY DEF Answer
<1>3. search \in Seq({"running", "done", "failed"}) BY <1>1 DEF AgentTypes, ToldTypes
<1>4. PICK a \in {"done", "failed"} : search' = [search EXCEPT ![i] = a] BY DEF Answer
<1>5. search' \in Seq({"running", "done", "failed"}) /\ Len(search') = Len(search)
  <2>1. i \in 1 .. Len(search) BY <1>3
  <2>2. a \in {"running", "done", "failed"} BY <1>4
  <2> QED BY <1>3, <1>4, <2>1, <2>2, ExceptSeq
<1>6. AgentTypes' BY <1>1, <1>2, <1>5 DEF AgentTypes, RunTypes, LockTypes, WorkTypes, CallTypes, ToldTypes
<1>7. \A s \in Runs : ToldOf(s) /\ Marked(s) BY <1>2 DEF ToldOf, Marked
<1>8. ASSUME NEW s \in Runs PROVE RunOK(s)'
  <2>1. SameRun(s) BY <1>2, <1>7, SameByTime
  <2> QED BY <1>1, <2>1, SameRunOK
<1>9. ASSUME \A s \in Runs : Clear(s)' PROVE SearchOK'
  <2>1. \A s \in Runs : Clear(s) BY <1>7, <1>9, AllWereClear
  <2>2. SearchOK /\ ToldTypes BY <2>1 DEF AgentInv, AgentTypes
  <2>3. \A w \in AgentWorkers : SameImport(w) BY <1>2 DEF SameImport
  <2>4. SameSearch BY <1>2, <1>5, <2>3 DEF SameSearch
  <2> QED BY <2>2, <2>4, SameSearchOK
<1> QED BY <1>6, <1>8, <1>9, InvBy

\* The contact, the mailbox, and a trigger are such turns.
LEMMA OutsideTurns ==
  ASSUME AgentInv, (\E m \in [status : {"active", "error", "gone"}, error : BOOLEAN, ramp : {0}] : MailboxTurns(m))
                   \/ ContactAges \/ \E r \in Runs : TriggerRun(r)
  PROVE  AgentInv'
BY TurnHolds DEF MailboxTurns, ContactAges, TriggerRun, outside

\* One run changes, and no worker moves.
LEMMA OneRunHolds ==
  ASSUME AgentInv, NEW r \in Runs, AgentTypes', agent' = agent, search' = search, told'.counted = told.counted,
         \A s \in Runs : Marked(s), \A s \in Runs \ {r} : SameRun(s), RunOK(r)',
         (\A s \in Runs : Clear(s)') => run'[r].cfg.search = run[r].cfg.search
  PROVE  AgentInv'
<1>1. \A s \in Runs : RunOK(s) BY DEF AgentInv
<1>2. \A s \in Runs : RunOK(s)' BY <1>1, SameRunOK
<1>3. ASSUME \A s \in Runs : Clear(s)' PROVE SearchOK'
  <2>1. \A s \in Runs : run'[s].cfg.search = run[s].cfg.search BY <1>3 DEF SameRun
  <2>2. \A w \in AgentWorkers : SameImport(w) BY DEF SameImport
  <2> QED BY <1>3, <2>1, <2>2, QuietSearch
<1> QED BY <1>2, <1>3, InvBy

\* A request acts on its run.
LEMMA AskHolds ==
  ASSUME AgentInv, NEW q \in Calls, NEW r \in Runs, NEW y, IsCall(y), Asks(q, y), y.at \in {r, Nothing}, call[q].at \in {r, Nothing},
         agent' = agent, lock' = lock, search' = search, RunTypes', \A s \in Runs \ {r} : run'[s] = run[s],
         ToldTypes', told'.counted = told.counted, \A s \in Runs : Marked(s), \A s \in Runs \ {r} : ToldOf(s),
         call'[q] = y /\ OnlyCall(q) => RunOK(r)',
         (\A s \in Runs : Clear(s)') => run'[r].cfg.search = run[r].cfg.search
  PROVE  AgentInv'
<1>1. AgentTypes BY DEF AgentInv
<1>2. CallTypes' /\ call'[q] = y /\ \A o \in Calls \ {q} : call'[o] = call[o] BY <1>1, AsksIs DEF AgentTypes
<1>3. AgentTypes' BY <1>1, <1>2 DEF AgentTypes, LockTypes, WorkTypes
<1>4. OnlyCall(q) BY <1>2 DEF OnlyCall
<1>5. ASSUME NEW s \in Runs \ {r} PROVE SameRun(s)
  <2>1. s # Nothing BY AgentRunsAssumption
  <2>2. call[q].at # s /\ call'[q].at # s BY <1>2, <2>1
  <2> QED BY <1>4, <2>2, OthersByCall
<1> QED BY <1>2, <1>3, <1>4, <1>5, OneRunHolds

\* What a request has in hand.
LEMMA AtCall ==
  ASSUME AgentTypes, NEW q \in Calls, call[q].pc # "idle"
  PROVE  call[q].at \in Runs /\ IsCall(call[q]) /\ IsCfg(call[q].cfg) /\ call[q].at # Nothing /\ (call[q].pc = "create" => call[q].arg # Nothing)
<1>1. IsCall(call[q]) BY DEF AgentTypes, CallTypes
<1>2. CallOK(call[q]) BY <1>1, CallParts
<1> QED BY <1>1, <1>2, AgentRunsAssumption DEF CallOK

\* A request ends.
LEMMA LeaveAsks ==
  ASSUME CallTypes, NEW q \in Calls, Leave(q)
  PROVE  \E y : IsCall(y) /\ Asks(q, y) /\ y.pc = "idle" /\ y.at = Nothing
<1>1. PICK y : y = IdleCall OBVIOUS
<1>2. call' = [call EXCEPT ![q] = y] BY <1>1 DEF Leave
<1>3. Asks(q, y) BY <1>2, AsksAll
<1>4. IsCall(y) /\ y.pc = "idle" /\ y.at = Nothing BY <1>1, IdleCallIs
<1> QED BY <1>3, <1>4

\* Another has the run in hand: a worker, or another request.
LEMMA BusyIs ==
  ASSUME NEW q \in Calls, NEW r
  PROVE  Busy(r, q) <=> Worked(r) \/ \E p \in Calls \ {q} : call[p].at = r
BY AgentRunsAssumption DEF Busy, Worked

\* Someone has it in hand.
LEMMA BusyNone ==
  ASSUME NEW r
  PROVE  Busy(r, Nothing) <=> Worked(r) \/ Called(r)
BY AgentRunsAssumption DEF Busy, Worked, Called

\* Marks alone disturb nothing of what is told.
LEMMA MarksTold ==
  ASSUME AgentTypes, MarksOf(told'), search' = search
  PROVE  ToldTypes' /\ told'.counted = told.counted /\ \A s \in Runs : ToldOf(s) /\ Marked(s)
<1>1. ToldTypes BY DEF AgentTypes
<1>2. ToldTypes' /\ \A s \in Runs : ToldOf(s) BY <1>1, MarksTell DEF ToldTypes
<1> QED BY <1>2 DEF MarksOf, ToldOf

\* A place counted for a run keeps the invariant.
LEMMA CountRunsHolds ==
  ASSUME AgentInv, NEW q \in Calls, NEW r \in Runs, NEW p \in Pillars, CountRuns(q, r, p)
  PROVE  AgentInv'
<1>1. AgentTypes /\ IsTold(told) /\ \A s \in Runs : RunOK(s) BY DEF AgentInv, AgentTypes, ToldTypes
<1>2. run' = run /\ lock' = lock /\ agent' = agent /\ search' = search /\ told' = told BY DEF CountRuns, outside
<1>3. PICK y : y = [IdleCall EXCEPT !.pc = "create", !.at = r, !.arg = p] OBVIOUS
<1>4. IsCall(y) /\ y.pc = "create" /\ y.at = r
  <2>1. PICK i : i = IdleCall OBVIOUS
  <2>2. IsCall(i) BY <2>1, IdleCallIs
  <2>3. CallOK(i) /\ i = [pc |-> i.pc, at |-> i.at, was |-> i.was, cfg |-> i.cfg, arg |-> i.arg] BY <2>2, CallParts
  <2>4. PICK j : j = [i EXCEPT !.pc = "create"] OBVIOUS
  <2>5. PICK k : k = [j EXCEPT !.at = r] OBVIOUS
  <2>6. y = [k EXCEPT !.arg = p] BY <1>3, <2>1, <2>4, <2>5
  <2>7. y = [pc |-> "create", at |-> r, was |-> i.was, cfg |-> i.cfg, arg |-> p] BY <2>3, <2>4, <2>5, <2>6
  <2>8. y.pc = "create" /\ y.at = r /\ y.cfg = i.cfg /\ y.arg = p BY <2>7
  <2>9. IsCfg(y.cfg) BY <2>3, <2>8, Zenon DEF CallOK
  <2>10. p # Nothing BY AgentRunsAssumption
  <2>11. CallOK(y) BY <2>8, <2>9, <2>10 DEF CallOK
  <2> QED BY <2>7, <2>8, <2>11, CallIs
<1>5. Asks(q, y) BY <1>1, <1>3, AsksAll DEF CountRuns, AgentTypes
<1>6. call[q].at = Nothing
  <2>1. IsCall(call[q]) BY <1>1 DEF AgentTypes, CallTypes
  <2> QED BY <2>1, CallParts DEF CountRuns, FreeCall, CallOK
<1>7. MarksOf(told') BY <1>1, <1>2, NoMarks
<1>8. ToldTypes' /\ told'.counted = told.counted /\ \A s \in Runs : ToldOf(s) /\ Marked(s) BY <1>1, <1>2, <1>7, MarksTold
<1>9. ASSUME call'[q] = y, OnlyCall(q) PROVE RunOK(r)'
  <2>1. Counts(q, r) BY <1>2, <1>4, <1>9 DEF Counts, CountRuns
  <2> QED BY <1>1, <2>1, CountsOK
<1>10. RunTypes' BY <1>1, <1>2 DEF AgentTypes, RunTypes
<1> QED BY <1>2, <1>4, <1>5, <1>6, <1>8, <1>9, <1>10, AskHolds

\* So does a run that is made.
LEMMA CreateRunHolds ==
  ASSUME AgentInv, NEW q \in Calls, CreateRun(q)
  PROVE  AgentInv'
<1>1. AgentTypes /\ IsTold(told) /\ \A s \in Runs : RunOK(s) BY DEF AgentInv, AgentTypes, ToldTypes
<1>2. lock' = lock /\ agent' = agent /\ search' = search /\ told' = told BY DEF CreateRun, outside
<1>3. call[q].pc = "create" BY DEF CreateRun
<1>4. call[q].at \in Runs /\ IsCall(call[q]) /\ call[q].arg # Nothing BY <1>1, <1>3, AtCall
<1>r. PICK r \in Runs : r = call[q].at BY <1>4
<1>p. PICK p : p = call[q].arg OBVIOUS
<1>d. PICK d : d = IF p \in Recurring THEN "later" ELSE "never" OBVIOUS
<1>b. PICK b : b = IF p = "warmup" THEN warmBox.ramp ELSE 0 OBVIOUS
<1>n. PICK n : n = [NoRun EXCEPT !.pillar = p, !.status = "active", !.due = d, !.cfg.base = b] OBVIOUS
<1>5. Put(r, n)
  <2>1. Put(r, [NoRun EXCEPT !.pillar = p, !.status = "active",
                             !.due = IF p \in Recurring THEN "later" ELSE "never",
                             !.cfg.base = IF p = "warmup" THEN warmBox.ramp ELSE 0])
    BY <1>r, <1>p, Zenon DEF CreateRun
  <2>2. [NoRun EXCEPT !.pillar = p, !.status = "active",
                      !.due = IF p \in Recurring THEN "later" ELSE "never",
                      !.cfg.base = IF p = "warmup" THEN warmBox.ramp ELSE 0] = n BY <1>d, <1>b, <1>n
  <2> QED BY <2>1, <2>2
<1>6. IsRun(n) /\ n.pillar = p /\ n.status = "active" /\ n.cfg.search = 0
  <2>1. PICK c : c = [Blank EXCEPT !.base = b] OBVIOUS
  <2>2. c = [draft |-> FALSE, sent |-> FALSE, search |-> 0, base |-> b] BY <2>1 DEF Blank
  <2>3. IsCfg([draft |-> FALSE, sent |-> FALSE, search |-> 0, base |-> b]) BY IsCfgIs
  <2>4. IsCfg(c) /\ c.search = 0 BY <2>2, <2>3
  <2>5. NoRun = [pillar |-> Nothing, status |-> Nothing, paused |-> FALSE, due |-> "never", fails |-> 0, cfg |-> Blank] BY DEF NoRun
  <2>6. n = [pillar |-> p, status |-> "active", paused |-> FALSE, due |-> d, fails |-> 0, cfg |-> c]
    BY <1>n, <2>1, <2>5
  <2>7. IsRun([pillar |-> p, status |-> "active", paused |-> FALSE, due |-> d, fails |-> 0, cfg |-> c]) BY <2>4, IsRunIs
  <2>8. n.pillar = p /\ n.status = "active" /\ n.cfg = c BY <2>6
  <2>9. IsRun(n) BY <2>6, <2>7, Zenon
  <2> QED BY <2>4, <2>8, <2>9
<1>7. RunTypes' /\ run'[r] = n /\ \A s \in Runs \ {r} : run'[s] = run[s]
  <2>1. RunTypes BY <1>1 DEF AgentTypes
  <2>2. Stored(r, n) BY <1>5, <2>1, PutStores
  <2> QED BY <1>6, <2>1, <2>2, StoredIs
<1>8. PICK y : IsCall(y) /\ Asks(q, y) /\ ((y.at = r /\ y.pc = "kick") \/ y.at = Nothing)
  <2>1. CASE call' = [call EXCEPT ![q].pc = "kick"]
    <3>1. PICK y : y = [call[q] EXCEPT !.pc = "kick"] OBVIOUS
    <3>2. IsCall(y) /\ y.pc = "kick" /\ y.at = r BY <1>3, <1>4, <1>r, <3>1, CallPcIs
    <3>3. Asks(q, y) BY <1>1, <2>1, <3>1, AsksPc DEF AgentTypes
    <3> QED BY <3>2, <3>3
  <2>2. CASE Leave(q) BY <1>1, <2>2, LeaveAsks DEF AgentTypes
  <2> QED BY <2>1, <2>2 DEF CreateRun
<1>9. MarksOf(told') BY <1>1, <1>2, NoMarks
<1>10. ToldTypes' /\ told'.counted = told.counted /\ \A s \in Runs : ToldOf(s) /\ Marked(s) BY <1>1, <1>2, <1>9, MarksTold
<1>11. ASSUME call'[q] = y, OnlyCall(q) PROVE RunOK(r)'
  <2>1. r # Nothing BY AgentRunsAssumption
  <2>2. Makes(q, r) BY <1>2, <1>3, <1>4, <1>r, <1>p, <1>6, <1>7, <1>8, <1>11, <2>1 DEF Makes
  <2> QED BY <1>1, <2>2, MakesOK
<1>12. run'[r].cfg.search = run[r].cfg.search
  <2>1. NewOK(r) BY <1>1 DEF RunOK
  <2>2. run[r].pillar = Nothing BY <1>3, <1>r, <2>1 DEF NewOK
  <2> QED BY <1>6, <1>7, <2>1, <2>2 DEF NewOK
<1> QED BY <1>2, <1>r, <1>7, <1>8, <1>10, <1>11, <1>12, AskHolds

\* So does its kick.
LEMMA KickRunHolds ==
  ASSUME AgentInv, NEW q \in Calls, KickRun(q)
  PROVE  AgentInv'
<1>1. AgentTypes /\ IsTold(told) /\ \A s \in Runs : RunOK(s) BY DEF AgentInv, AgentTypes, ToldTypes
<1>2. lock' = lock /\ agent' = agent /\ search' = search /\ run' = run BY DEF KickRun, outside
<1>3. call[q].pc = "kick" /\ Leave(q) BY DEF KickRun
<1>4. call[q].at \in Runs /\ IsCall(call[q]) BY <1>1, <1>3, AtCall
<1>r. PICK r \in Runs : r = call[q].at BY <1>4
<1>8. PICK y : IsCall(y) /\ Asks(q, y) /\ y.at = Nothing BY <1>1, <1>3, LeaveAsks DEF AgentTypes
<1>9. MarksOf(told')
  <2>1. MarksOf(told) BY <1>1, NoMarks
  <2>2. PICK t : t = Spoil(told, r, "unkicked") OBVIOUS
  <2>3. MarksOf(t) BY <2>1, <2>2, OneMark DEF RunMarks
  <2>4. told' = told \/ Turns(2, t) BY <1>r, <2>2 DEF KickRun
  <2> QED BY <2>1, <2>3, <2>4, TurnMarks
<1>10. ToldTypes' /\ told'.counted = told.counted /\ \A s \in Runs : ToldOf(s) /\ Marked(s) BY <1>1, <1>2, <1>9, MarksTold
<1>11. ASSUME call'[q] = y, OnlyCall(q) PROVE RunOK(r)'
  <2>1. r # Nothing BY AgentRunsAssumption
  <2>2. SameRun(r) BY <1>2, <1>3, <1>8, <1>10, <1>11, <2>1, OthersByCall
  <2> QED BY <1>1, <2>2, SameRunOK
<1>12. RunTypes' BY <1>1, <1>2 DEF AgentTypes, RunTypes
<1> QED BY <1>2, <1>r, <1>8, <1>10, <1>11, <1>12, AskHolds

\* So does an approval that ends before its record.
LEMMA CallDiesHolds ==
  ASSUME AgentInv, NEW q \in Calls, CallDies(q)
  PROVE  AgentInv'
<1>1. AgentTypes /\ IsTold(told) /\ \A s \in Runs : RunOK(s) BY DEF AgentInv, AgentTypes, ToldTypes
<1>2. lock' = lock /\ agent' = agent /\ search' = search /\ run' = run BY DEF CallDies, outside
<1>3. call[q].pc = "sent" /\ Leave(q) BY DEF CallDies
<1>4. call[q].at \in Runs /\ IsCall(call[q]) BY <1>1, <1>3, AtCall
<1>r. PICK r \in Runs : r = call[q].at BY <1>4
<1>8. PICK y : IsCall(y) /\ Asks(q, y) /\ y.at = Nothing BY <1>1, <1>3, LeaveAsks DEF AgentTypes
<1>9. MarksOf(told') /\ ~Clear(r)'
  <2>1. MarksOf(told) BY <1>1, NoMarks
  <2>2. PICK t : t = Spoil(told, r, "torn") OBVIOUS
  <2>3. MarksOf(t) /\ "torn" \in t.spoilt[r] BY <2>1, <2>2, OneMark DEF RunMarks
  <2>4. Turns(2, t) BY <1>r, <2>2 DEF CallDies
  <2>5. MarksOf(told') /\ told'.spoilt = t.spoilt BY <2>3, <2>4, TurnMarks
  <2> QED BY <2>3, <2>5 DEF Clear, Spoilt
<1>10. ToldTypes' /\ told'.counted = told.counted /\ \A s \in Runs : ToldOf(s) /\ Marked(s) BY <1>1, <1>2, <1>9, MarksTold
<1>11. ASSUME call'[q] = y, OnlyCall(q) PROVE RunOK(r)'
  <2>1. r # Nothing /\ Called(r) BY <1>r, AgentRunsAssumption DEF Called
  <2>2. \A o \in Calls : call'[o].at = r => call[o].at = r /\ call'[o].pc = call[o].pc BY <1>8, <1>11, <2>1 DEF OnlyCall
  <2>3. Spoils(r) BY <1>2, <1>9, <1>10, <2>1, <2>2 DEF Spoils
  <2> QED BY <1>1, <2>3, SpoilsOK
<1>12. RunTypes' BY <1>1, <1>2 DEF AgentTypes, RunTypes
<1> QED BY <1>2, <1>r, <1>8, <1>10, <1>11, <1>12, AskHolds

\* A request reads its run.
LEMMA EnterHolds ==
  ASSUME AgentInv, NEW q \in Calls, NEW r \in Runs, NEW p \in {"patch", "approve"}, NEW g, Enter(q, r, p, g),
         run[r].pillar # Nothing, ~Of(r, {"cancelled"}), p = "approve" => run[r].status = "pending_approval",
         run' = run, lock' = lock, agent' = agent, search' = search
  PROVE  AgentInv'
<1>1. AgentTypes /\ IsTold(told) /\ \A s \in Runs : RunOK(s) BY DEF AgentInv, AgentTypes, ToldTypes
<1>2. FreeCall(q) BY DEF Enter
<1>3. call[q].at = Nothing
  <2>1. IsCall(call[q]) BY <1>1 DEF AgentTypes, CallTypes
  <2> QED BY <1>2, <2>1, CallParts DEF FreeCall, CallOK
<1>c. PICK c : c = run[r].cfg OBVIOUS
<1>s. PICK s : s = run[r].status OBVIOUS
<1>y. PICK y : y = [pc |-> p, at |-> r, was |-> s, cfg |-> c, arg |-> g] OBVIOUS
<1>4. IsCall(y) /\ y.pc = p /\ y.at = r
  <2>1. IsRun(run[r]) BY <1>1 DEF AgentTypes, RunTypes
  <2>2. IsCfg(c) BY <1>c, <2>1, IsSeenOf, Zenon
  <2>3. y.pc = p /\ y.at = r /\ y.cfg = c /\ y.arg = g BY <1>y
  <2>4. IsCfg(y.cfg) BY <2>2, <2>3, Zenon
  <2>5. CallOK(y) BY <2>3, <2>4 DEF CallOK
  <2> QED BY <1>y, <2>3, <2>5, CallIs
<1>5. Asks(q, y)
  <2>1. call' = [call EXCEPT ![q] = y] BY <1>c, <1>s, <1>y DEF Enter
  <2> QED BY <1>1, <2>1, AsksAll DEF AgentTypes
<1>6. MarksOf(told') /\ (Busy(r, q) => "raced" \in told'.spoilt[r])
  <2>1. MarksOf(told) BY <1>1, NoMarks
  <2>2. PICK t : t = IF Busy(r, q) THEN Spoil(told, r, "raced") ELSE told OBVIOUS
  <2>3. MarksOf(t) /\ (Busy(r, q) => "raced" \in t.spoilt[r]) BY <2>1, <2>2, OneMark DEF RunMarks
  <2>4. Turns(1, t) BY <2>2 DEF Enter
  <2> QED BY <2>3, <2>4, TurnMarks
<1>7. ToldTypes' /\ told'.counted = told.counted /\ \A o \in Runs : ToldOf(o) /\ Marked(o) BY <1>1, <1>6, MarksTold
<1>8. ASSUME call'[q] = y, OnlyCall(q) PROVE RunOK(r)'
  <2>1. Clear(r)' => ~Worked(r) /\ \A o \in Calls : call[o].at # r
    <3>1. Clear(r)' => ~Busy(r, q) BY <1>6 DEF Clear, Spoilt
    <3>2. r # Nothing BY AgentRunsAssumption
    <3> QED BY <1>3, <3>1, <3>2, BusyIs
  <2>2. Enters(q, r) BY <1>3, <1>4, <1>7, <1>8, <2>1 DEF Enters, Of
  <2> QED BY <1>1, <2>2, EntersOK
<1>9. RunTypes' BY <1>1 DEF AgentTypes, RunTypes
<1> QED BY <1>3, <1>4, <1>5, <1>7, <1>8, <1>9, AskHolds

\* So does a PATCH that reads.
LEMMA PatchReadsHolds ==
  ASSUME AgentInv, NEW q \in Calls, NEW r \in Runs, NEW to, PatchReads(q, r, to)
  PROVE  AgentInv'
BY EnterHolds DEF PatchReads, outside

\* So does an approval that reads.
LEMMA ApproveHolds ==
  ASSUME AgentInv, NEW q \in Calls, NEW r \in Runs, Approve(q, r)
  PROVE  AgentInv'
<1>1. run[r].pillar # Nothing BY DEF Approve, OneShot, Nothing
<1>2. run[r].status = "pending_approval" BY DEF Approve, MayApprove
<1>3. ~Of(r, {"cancelled"}) BY <1>2 DEF Of
<1> QED BY <1>1, <1>2, <1>3, EnterHolds DEF Approve, outside

\* A request writes its run.
LEMMA WriteHolds ==
  ASSUME AgentInv, NEW q \in Calls, NEW r \in Runs, r = call[q].at, call[q].pc \notin {"idle", "create"}, NEW n, Put(r, n), IsRun(n), Leave(q),
         n.pillar = run[r].pillar, MarksOf(told'), lock' = lock, agent' = agent, search' = search,
         Clear(r)' =>
            /\ ~Worked(r) /\ \A p \in Calls : call[p].at = r => p = q
            /\ n.status = "pending_approval" => ~n.cfg.sent
            /\ run[r].cfg.sent \/ call[q].pc = "sent" => n.cfg.sent
            /\ n.cfg.search = run[r].cfg.search
  PROVE  AgentInv'
<1>1. AgentTypes /\ \A s \in Runs : RunOK(s) BY DEF AgentInv
<1>2. RunTypes' /\ run'[r] = n /\ \A s \in Runs \ {r} : run'[s] = run[s]
  <2>1. RunTypes BY <1>1 DEF AgentTypes
  <2>2. Stored(r, n) BY <2>1, PutStores
  <2> QED BY <2>1, <2>2, StoredIs
<1>3. PICK y : IsCall(y) /\ Asks(q, y) /\ y.at = Nothing BY <1>1, LeaveAsks DEF AgentTypes
<1>4. ToldTypes' /\ told'.counted = told.counted /\ \A s \in Runs : ToldOf(s) /\ Marked(s) BY <1>1, MarksTold
<1>5. ASSUME call'[q] = y, OnlyCall(q) PROVE RunOK(r)'
  <2>1. r # Nothing BY AgentRunsAssumption
  <2>2. Writes(q, r) BY <1>2, <1>3, <1>4, <1>5, <2>1 DEF Writes
  <2> QED BY <1>1, <2>2, WritesOK
<1>6. (\A s \in Runs : Clear(s)') => run'[r].cfg.search = run[r].cfg.search BY <1>2
<1> QED BY <1>2, <1>3, <1>4, <1>5, <1>6, AskHolds

\* What a PATCH writes.
LEMMA PatchedIs ==
  ASSUME NEW q \in Calls, IsRun(run[call[q].at]), IsCfg(call[q].cfg)
  PROVE  /\ IsRun(Patched(q)) /\ Patched(q).pillar = run[call[q].at].pillar /\ Patched(q).cfg = call[q].cfg
         /\ Patched(q).status \in {"paused", "active", run[call[q].at].status}
<1>x. PICK x : x = run[call[q].at] OBVIOUS
<1>c. PICK c : c = call[q].cfg OBVIOUS
<1>m. PICK m : m = [x EXCEPT !.cfg = c] OBVIOUS
<1>1. IsRun(x) /\ IsCfg(c) BY <1>x, <1>c, Zenon
<1>2. IsRun(m) /\ m.pillar = x.pillar /\ m.status = x.status /\ m.cfg = c BY <1>1, <1>m, RunCfg
<1>3. Patched(q) = CASE call[q].arg = "paused" -> [m EXCEPT !.status = "paused", !.paused = TRUE]
          [] call[q].arg = "active" -> [m EXCEPT !.status = "active", !.paused = FALSE, !.fails = 0, !.due = "later"]
          [] OTHER -> [m EXCEPT !.due = IF call[q].was = "active" THEN "later" ELSE @]
  BY <1>x, <1>c, <1>m DEF Patched
<1>4. CASE call[q].arg = "paused"
  <2>1. PICK t : t = TRUE OBVIOUS
  <2>2. PICK k : k = [m EXCEPT !.status = "paused"] OBVIOUS
  <2>3. PICK l : l = [k EXCEPT !.paused = t] OBVIOUS
  <2>4. IsRun(k) /\ k.pillar = m.pillar /\ k.status = "paused" /\ k.cfg = m.cfg BY <1>2, <2>2, RunStatus
  <2>5. IsRun(l) /\ l.pillar = m.pillar /\ l.status = "paused" /\ l.cfg = m.cfg BY <2>3, <2>4, RunPaused
  <2>6. Patched(q) = [m EXCEPT !.status = "paused", !.paused = TRUE] BY <1>3, <1>4
  <2>7. [m EXCEPT !.status = "paused", !.paused = TRUE] = l BY <2>1, <2>2, <2>3
  <2>8. Patched(q) = l BY <2>6, <2>7, Zenon
  <2> QED BY <1>2, <1>x, <1>c, <2>5, <2>8
<1>5. CASE call[q].arg = "active"
  <2>1. PICK t : t = FALSE OBVIOUS
  <2>2. PICK k : k = [m EXCEPT !.status = "active"] OBVIOUS
  <2>3. PICK l : l = [k EXCEPT !.paused = t] OBVIOUS
  <2>a. PICK f : f = [l EXCEPT !.fails = 0] OBVIOUS
  <2>b. PICK d : d = [f EXCEPT !.due = "later"] OBVIOUS
  <2>4. IsRun(k) /\ k.pillar = m.pillar /\ k.status = "active" /\ k.cfg = m.cfg BY <1>2, <2>2, RunStatus
  <2>5. IsRun(l) /\ l.pillar = m.pillar /\ l.status = "active" /\ l.cfg = m.cfg BY <2>3, <2>4, RunPaused
  <2>c. IsRun(f) /\ f.pillar = m.pillar /\ f.status = "active" /\ f.cfg = m.cfg BY <2>a, <2>5, RunFails
  <2>d. IsRun(d) /\ d.pillar = m.pillar /\ d.status = "active" /\ d.cfg = m.cfg BY <2>b, <2>c, RunDue
  <2>6. Patched(q) = [m EXCEPT !.status = "active", !.paused = FALSE, !.fails = 0, !.due = "later"] BY <1>3, <1>5
  <2>7. [m EXCEPT !.status = "active", !.paused = FALSE, !.fails = 0, !.due = "later"] = d BY <2>1, <2>2, <2>3, <2>a, <2>b
  <2>8. Patched(q) = d BY <2>6, <2>7, Zenon
  <2> QED BY <1>2, <1>x, <1>c, <2>d, <2>8
<1>6. CASE call[q].arg \notin {"paused", "active"}
  <2>1. PICK e : e = IF call[q].was = "active" THEN "later" ELSE m.due OBVIOUS
  <2>2. PICK k : k = [m EXCEPT !.due = e] OBVIOUS
  <2>3. IsRun(k) /\ k.pillar = m.pillar /\ k.status = m.status /\ k.cfg = m.cfg BY <1>2, <2>2, RunDue
  <2>4. Patched(q) = [m EXCEPT !.due = IF call[q].was = "active" THEN "later" ELSE @] BY <1>3, <1>6
  <2>5. Patched(q) = k BY <2>1, <2>2, <2>4
  <2> QED BY <1>2, <1>x, <1>c, <2>3, <2>5
<1> QED BY <1>4, <1>5, <1>6

\* So does a PATCH that writes.
LEMMA PatchWritesHolds ==
  ASSUME AgentInv, NEW q \in Calls, PatchWrites(q)
  PROVE  AgentInv'
<1>1. AgentTypes /\ IsTold(told) /\ \A s \in Runs : RunOK(s) BY DEF AgentInv, AgentTypes, ToldTypes
<1>2. lock' = lock /\ agent' = agent /\ search' = search BY DEF PatchWrites, outside
<1>3. call[q].pc = "patch" /\ Leave(q) BY DEF PatchWrites
<1>4. call[q].at \in Runs /\ IsCfg(call[q].cfg) BY <1>1, <1>3, AtCall
<1>r. PICK r \in Runs : r = call[q].at BY <1>4
<1>5. IsRun(run[r]) BY <1>1 DEF AgentTypes, RunTypes
<1>n. PICK n : n = Patched(q) OBVIOUS
<1>6. IsRun(n) /\ n.pillar = run[r].pillar /\ n.cfg = call[q].cfg /\ n.status \in {"paused", "active", run[r].status}
  BY <1>4, <1>5, <1>r, <1>n, PatchedIs
<1>7. Put(r, n) BY <1>r, <1>n DEF PatchWrites
<1>8. MarksOf(told') /\ (Busy(r, q) \/ ~Unchanged(q) => "raced" \in told'.spoilt[r])
  <2>1. MarksOf(told) BY <1>1, NoMarks
  <2>2. PICK t : t = IF call[q].arg = "active" THEN Spoil(told, r, "unkicked") ELSE told OBVIOUS
  <2>3. MarksOf(t) BY <2>1, <2>2, OneMark DEF RunMarks
  <2>4. told' = IF Busy(r, q) \/ ~Unchanged(q) THEN Spoil(t, r, "raced") ELSE t BY <1>r, <2>2 DEF PatchWrites
  <2>5. MarksOf(Spoil(t, r, "raced")) /\ "raced" \in Spoil(t, r, "raced").spoilt[r] BY <2>3, OneMark DEF RunMarks
  <2> QED BY <2>3, <2>4, <2>5
<1>9. ASSUME Clear(r)'
      PROVE  /\ ~Worked(r) /\ \A p \in Calls : call[p].at = r => p = q
             /\ n.status = "pending_approval" => ~n.cfg.sent
             /\ run[r].cfg.sent \/ call[q].pc = "sent" => n.cfg.sent
             /\ n.cfg.search = run[r].cfg.search
  <2>1. ~Busy(r, q) /\ Unchanged(q) BY <1>8, <1>9 DEF Clear, Spoilt
  <2>2. n.cfg = run[r].cfg BY <1>6, <1>r, <2>1 DEF Unchanged
  <2>3. Clear(r)
    <3>1. Marked(r) BY <1>1, <1>2, <1>8, MarksTold
    <3> QED BY <1>9, <3>1, WasClear
  <2>4. run[r].status = "pending_approval" => ~run[r].cfg.sent BY <1>1, <2>3 DEF RunOK, HeldOK
  <2> QED BY <1>3, <1>6, <2>1, <2>2, <2>4, BusyIs
<1> QED BY <1>2, <1>3, <1>r, <1>6, <1>7, <1>8, <1>9, WriteHolds

\* So does an approval's record.
LEMMA ApproveRecordsHolds ==
  ASSUME AgentInv, NEW q \in Calls, ApproveRecords(q)
  PROVE  AgentInv'
<1>1. AgentTypes /\ IsTold(told) /\ \A s \in Runs : RunOK(s) BY DEF AgentInv, AgentTypes, ToldTypes
<1>2. lock' = lock /\ agent' = agent /\ search' = search BY DEF ApproveRecords, outside
<1>3. call[q].pc = "sent" /\ Leave(q) BY DEF ApproveRecords
<1>4. call[q].at \in Runs /\ IsCfg(call[q].cfg) BY <1>1, <1>3, AtCall
<1>r. PICK r \in Runs : r = call[q].at BY <1>4
<1>5. IsRun(run[r]) BY <1>1 DEF AgentTypes, RunTypes
<1>c. PICK c : c = [call[q].cfg EXCEPT !.sent = TRUE] OBVIOUS
<1>6. IsCfg(c) /\ c.search = call[q].cfg.search /\ c.sent = TRUE BY <1>4, <1>c, CfgSent
<1>m. PICK m : m = [run[r] EXCEPT !.status = "completed"] OBVIOUS
<1>n. PICK n : n = [m EXCEPT !.cfg = c] OBVIOUS
<1>7. IsRun(m) /\ m.pillar = run[r].pillar /\ m.status = "completed" BY <1>5, <1>m, RunStatus
<1>8. IsRun(n) /\ n.pillar = run[r].pillar /\ n.status = "completed" /\ n.cfg = c BY <1>6, <1>7, <1>n, RunCfg
<1>9. Put(r, n)
  <2>1. Put(r, [run[r] EXCEPT !.status = "completed", !.cfg = [call[q].cfg EXCEPT !.sent = TRUE]]) BY <1>r, Zenon DEF ApproveRecords
  <2>2. [run[r] EXCEPT !.status = "completed", !.cfg = [call[q].cfg EXCEPT !.sent = TRUE]] = n BY <1>c, <1>m, <1>n
  <2> QED BY <2>1, <2>2
<1>10. MarksOf(told') /\ (~Unchanged(q) => "raced" \in told'.spoilt[r])
  <2>1. MarksOf(told) BY <1>1, NoMarks
  <2>2. MarksOf(Spoil(told, r, "raced")) /\ "raced" \in Spoil(told, r, "raced").spoilt[r] BY <2>1, OneMark DEF RunMarks
  <2>3. told' = IF ~Unchanged(q) THEN Spoil(told, r, "raced") ELSE told BY <1>r DEF ApproveRecords
  <2> QED BY <2>1, <2>2, <2>3
<1>11. ASSUME Clear(r)'
      PROVE  /\ ~Worked(r) /\ \A p \in Calls : call[p].at = r => p = q
             /\ n.status = "pending_approval" => ~n.cfg.sent
             /\ run[r].cfg.sent \/ call[q].pc = "sent" => n.cfg.sent
             /\ n.cfg.search = run[r].cfg.search
  <2>1. Unchanged(q) BY <1>10, <1>11 DEF Clear, Spoilt
  <2>2. n.cfg.search = run[r].cfg.search BY <1>6, <1>8, <1>r, <2>1 DEF Unchanged
  <2>3. Clear(r)
    <3>1. Marked(r) BY <1>1, <1>2, <1>10, MarksTold
    <3> QED BY <1>11, <3>1, WasClear
  <2>4. ~Worked(r) /\ \A p \in Calls : call[p].at = r => p = q BY <1>1, <1>3, <1>r, <2>3 DEF RunOK, HeldOK
  <2> QED BY <1>6, <1>8, <2>2, <2>4
<1> QED BY <1>2, <1>3, <1>r, <1>8, <1>9, <1>10, <1>11, WriteHolds

\* So does what an approval sends.
LEMMA ApproveSendsHolds ==
  ASSUME AgentInv, NEW q \in Calls, ApproveSends(q)
  PROVE  AgentInv'
<1>1. AgentTypes /\ IsTold(told) /\ \A s \in Runs : RunOK(s) BY DEF AgentInv, AgentTypes, ToldTypes
<1>2. lock' = lock /\ agent' = agent /\ search' = search /\ run' = run BY DEF ApproveSends, outside
<1>3. call[q].pc = "approve" BY DEF ApproveSends
<1>4. call[q].at \in Runs /\ IsCall(call[q]) BY <1>1, <1>3, AtCall
<1>r. PICK r \in Runs : r = call[q].at BY <1>4
<1>5. PICK y : IsCall(y) /\ Asks(q, y) /\ y.at = r /\ y.pc = "sent"
  <2>1. PICK y : y = [call[q] EXCEPT !.pc = "sent"] OBVIOUS
  <2>2. IsCall(y) /\ y.pc = "sent" /\ y.at = r BY <1>3, <1>4, <1>r, <2>1, CallPcIs
  <2>3. Asks(q, y) BY <1>1, <2>1, AsksPc DEF ApproveSends, AgentTypes
  <2> QED BY <2>2, <2>3
<1>6. /\ IsTold(told') /\ told'.counted = told.counted /\ told'.cancelled = told.cancelled /\ told'.spoilt = told.spoilt
      /\ told'.sends[r] = told.sends[r] + 1 /\ \A s \in Runs \ {r} : told'.sends[s] = told.sends[s]
  <2>1. PICK u : u = SendTold(told, r) OBVIOUS
  <2>2. told' = u BY <1>r, <2>1 DEF ApproveSends, SendTold
  <2>3. /\ IsTold(u) /\ u.counted = told.counted /\ u.cancelled = told.cancelled /\ u.spoilt = told.spoilt
        /\ u.sends[r] = told.sends[r] + 1 /\ \A s \in Runs \ {r} : u.sends[s] = told.sends[s]
    BY <1>1, <2>1, SendTells
  <2> QED BY <2>2, <2>3
<1>7. ToldTypes' BY <1>1, <1>2, <1>6 DEF AgentTypes, ToldTypes
<1>8. (\A s \in Runs : Marked(s)) /\ \A s \in Runs \ {r} : ToldOf(s) BY <1>6 DEF Marked, ToldOf
<1>9. ASSUME call'[q] = y, OnlyCall(q) PROVE RunOK(r)'
  <2>1. Sends(q, r) BY <1>2, <1>3, <1>r, <1>5, <1>6, <1>8, <1>9 DEF Sends
  <2> QED BY <1>1, <2>1, SendsOK
<1>10. RunTypes' BY <1>1, <1>2 DEF AgentTypes, RunTypes
<1> QED BY <1>2, <1>r, <1>5, <1>6, <1>7, <1>8, <1>9, <1>10, AskHolds

\* So does a cancel.
LEMMA CancelRunHolds ==
  ASSUME AgentInv, NEW r \in Runs, CancelRun(r)
  PROVE  AgentInv'
<1>1. AgentTypes /\ IsTold(told) /\ \A s \in Runs : RunOK(s) BY DEF AgentInv, AgentTypes, ToldTypes
<1>2. lock' = lock /\ agent' = agent /\ search' = search /\ call' = call BY DEF CancelRun, outside
<1>3. IsRun(run[r]) BY <1>1 DEF AgentTypes, RunTypes
<1>t. PICK t : t = TRUE OBVIOUS
<1>m. PICK m : m = [run[r] EXCEPT !.status = "cancelled"] OBVIOUS
<1>n. PICK n : n = [m EXCEPT !.paused = t] OBVIOUS
<1>4. IsRun(m) /\ m.pillar = run[r].pillar /\ m.status = "cancelled" /\ m.cfg = run[r].cfg BY <1>3, <1>m, RunStatus
<1>5. IsRun(n) /\ n.pillar = run[r].pillar /\ n.status = "cancelled" /\ n.cfg = run[r].cfg BY <1>4, <1>n, RunPaused
<1>6. Put(r, n)
  <2>1. Put(r, [run[r] EXCEPT !.status = "cancelled", !.paused = TRUE]) BY DEF CancelRun
  <2>2. [run[r] EXCEPT !.status = "cancelled", !.paused = TRUE] = n BY <1>t, <1>m, <1>n
  <2> QED BY <2>1, <2>2
<1>7. RunTypes' /\ run'[r] = n /\ \A s \in Runs \ {r} : run'[s] = run[s]
  <2>1. RunTypes BY <1>1 DEF AgentTypes
  <2>2. Stored(r, n) BY <1>6, <2>1, PutStores
  <2> QED BY <1>5, <2>1, <2>2, StoredIs
<1>8. /\ IsTold(told') /\ told'.sends = told.sends /\ told'.counted = told.counted /\ told'.cancelled = told.cancelled \cup {r}
      /\ (\A s \in Runs : Marked(s)) /\ (Busy(r, Nothing) => "raced" \in told'.spoilt[r])
  <2>1. PICK u : u = [told EXCEPT !.cancelled = @ \cup {r}] OBVIOUS
  <2>2. IsTold(u) /\ u.counted = told.counted /\ u.cancelled = told.cancelled \cup {r} /\ u.spoilt = told.spoilt /\ u.sends = told.sends
    BY <1>1, <2>1, CancelTells
  <2>3. PICK v : v = IF Busy(r, Nothing) THEN Spoil(u, r, "raced") ELSE u OBVIOUS
  <2>k. PICK k \in RunMarks : k = "raced" BY DEF RunMarks
  <2>4. PICK x : x = Spoil(u, r, k) OBVIOUS
  <2>5. /\ IsTold(x) /\ x.sends = u.sends /\ x.counted = u.counted /\ x.cancelled = u.cancelled
        /\ "raced" \in x.spoilt[r] /\ u.spoilt[r] \subseteq x.spoilt[r] /\ \A s \in Runs \ {r} : x.spoilt[s] = u.spoilt[s]
    BY <2>2, <2>4, <2>k, SpoilIs
  <2>6. /\ IsTold(v) /\ v.sends = u.sends /\ v.counted = u.counted /\ v.cancelled = u.cancelled
        /\ (Busy(r, Nothing) => "raced" \in v.spoilt[r]) /\ \A s \in Runs : u.spoilt[s] \subseteq v.spoilt[s]
    BY <2>2, <2>3, <2>4, <2>5, <2>k
  <2>7. Turns(1, v) BY <2>1, <2>3 DEF CancelRun
  <2>8. /\ IsTold(told') /\ told'.sends = v.sends /\ told'.counted = v.counted /\ told'.cancelled = v.cancelled
        /\ told'.spoilt = v.spoilt
    BY <2>6, <2>7, TurnsTell
  <2> QED BY <2>2, <2>6, <2>8 DEF Marked
<1>9. AgentTypes' BY <1>1, <1>2, <1>7, <1>8 DEF AgentTypes, LockTypes, WorkTypes, CallTypes, ToldTypes
<1>10. RunOK(r)'
  <2>1. Spoilt(r, {"raced", "stale"})' \/ (~Worked(r) /\ ~Called(r)) BY <1>8, BusyNone DEF Spoilt
  <2>2. Cancels(r) BY <1>2, <1>5, <1>7, <1>8, <2>1 DEF Cancels, CancelRun
  <2> QED BY <1>1, <2>2, CancelsOK
<1>11. ASSUME NEW s \in Runs \ {r} PROVE SameRun(s)
  <2>1. ToldOf(s) BY <1>8 DEF ToldOf
  <2> QED BY <1>2, <1>7, <2>1, SameByTime
<1> QED BY <1>2, <1>5, <1>7, <1>8, <1>9, <1>10, <1>11, OneRunHolds

\* The invariant holds at the start.
LEMMA AgentsStart == AgentInit => AgentInv
<1> SUFFICES ASSUME AgentInit PROVE AgentInv OBVIOUS
<1>1. RunTypes /\ \A r \in Runs : run[r] = NoRun
  <2>1. \A r \in Runs : run[r] = NoRun BY DEF AgentInit
  <2>2. IsCfg([draft |-> FALSE, sent |-> FALSE, search |-> 0, base |-> 0]) BY IsCfgIs
  <2>3. IsCfg(Blank) BY <2>2, Zenon DEF Blank
  <2>4. IsRun([pillar |-> Nothing, status |-> Nothing, paused |-> FALSE, due |-> "never", fails |-> 0, cfg |-> Blank])
    BY <2>3, IsRunIs
  <2>5. IsRun(NoRun) BY <2>4, Zenon DEF NoRun
  <2>6. run = [r \in Runs |-> run[r]] BY DEF AgentInit
  <2> QED BY <2>1, <2>5, <2>6, Zenon DEF RunTypes
<1>2. NoRun.pillar = Nothing /\ NoRun.status = Nothing /\ ~NoRun.cfg.sent /\ NoRun.cfg.search = 0 BY DEF NoRun, Blank
<1>3. WorkTypes /\ \A w \in AgentWorkers : agent[w].pc = "idle" /\ agent[w].at = Nothing /\ agent[w].todo = {}
  <2>1. \A w \in AgentWorkers : agent[w] = IdleAgent BY DEF AgentInit
  <2>2. agent = [w \in AgentWorkers |-> agent[w]] BY DEF AgentInit
  <2> QED BY <2>1, <2>2, IdleAgentIs, Zenon DEF WorkTypes
<1>4. CallTypes /\ \A q \in Calls : call[q].at = Nothing
  <2>1. \A q \in Calls : call[q] = IdleCall BY DEF AgentInit
  <2>2. call = [q \in Calls |-> call[q]] BY DEF AgentInit
  <2> QED BY <2>1, <2>2, IdleCallIs, Zenon DEF CallTypes
<1>5. search = << >> /\ LockTypes BY DEF AgentInit, LockTypes
<1>6. /\ IsTold(told) /\ told.counted = << >> /\ told.cancelled = {} /\ \A r \in Runs : told.sends[r] = 0
  <2>1. PICK t : t = [turns |-> 0, sends |-> [r \in Runs |-> 0], counted |-> << >>, cancelled |-> {}, spoilt |-> [r \in Runs |-> {}]]
    OBVIOUS
  <2>2. told = t BY <2>1 DEF AgentInit
  <2>3. PICK s \in [Runs -> Nat] : s = [r \in Runs |-> 0] OBVIOUS
  <2>4. PICK m \in [Runs -> SUBSET RunMarks] : m = [r \in Runs |-> {}] OBVIOUS
  <2>e. << >> \in Seq(Nat) OBVIOUS
  <2>5. PICK c \in Seq(Nat) : c = << >> BY <2>e
  <2>6. PICK x \in SUBSET Runs : x = {} OBVIOUS
  <2>7. t = [turns |-> 0, sends |-> s, counted |-> c, cancelled |-> x, spoilt |-> m] BY <2>1, <2>3, <2>4, <2>5, <2>6
  <2>8. IsTold([turns |-> 0, sends |-> s, counted |-> c, cancelled |-> x, spoilt |-> m]) BY IsToldIs
  <2>9. IsTold(t) BY <2>7, <2>8, Zenon
  <2>10. t.counted = << >> /\ t.cancelled = {} /\ \A r \in Runs : t.sends[r] = 0 BY <2>3, <2>5, <2>6, <2>7
  <2> QED BY <2>2, <2>9, <2>10
<1>7. AgentTypes
  <2>1. search \in Seq({"running", "done", "failed"}) /\ Len(told.counted) = Len(search) BY <1>5, <1>6
  <2> QED BY <1>1, <1>3, <1>4, <1>5, <1>6, <2>1 DEF AgentTypes, ToldTypes
<1>8. ASSUME NEW r \in Runs PROVE RunOK(r)
  <2>1. r # Nothing BY AgentRunsAssumption
  <2>2. run[r] = NoRun BY <1>1
  <2>3. ~Worked(r) BY <1>3, <2>1 DEF Worked
  <2>4. \A q \in Calls : call[q].at # r BY <1>4, <2>1
  <2>5. NewOK(r) BY <1>2, <1>6, <2>2, <2>3, <2>4 DEF NewOK
  <2>6. CancelOK(r) BY <1>6 DEF CancelOK
  <2>7. HeldOK(r) BY <1>2, <1>3, <2>1, <2>2, <2>4 DEF HeldOK
  <2>8. SentOK(r) BY <1>6 DEF SentOK
  <2> QED BY <2>5, <2>6, <2>7, <2>8 DEF RunOK
<1>9. SearchOK
  <2>1. Len(search) = 0 BY <1>5
  <2>2. \A r \in Runs : run[r].cfg.search = 0 BY <1>1, <1>2
  <2>3. \A w \in AgentWorkers : agent[w].pc # "started" BY <1>3
  <2> QED BY <2>1, <2>2, <2>3 DEF SearchOK
<1> QED BY <1>7, <1>8, <1>9 DEF AgentInv

\* What a worker does.
LEMMA AgentWorkSteps ==
  ASSUME AgentInv, NEW w \in AgentWorkers, AgentWorks(w) \/ TickThrows(w) \/ AgentDies(w)
  PROVE  AgentInv'
<1>1. CASE \/ StartAgentTick(w) \/ \E r \in Runs : StartKick(w, r) \/ TakeLock(w, r)
           \/ EndJob(w) \/ Verify(w) \/ WarmupTick(w) \/ WarmupFails(w)
  BY <1>1, Zenon, StartAgentTickHolds, StartKickHolds, TakeLockHolds, EndJobHolds, VerifyHolds, WarmupTickHolds, WarmupFailsHolds
<1>2. CASE StartSearch(w) \/ RecordSearch(w) \/ PollAgain(w) \/ Import(w) \/ EndSearch(w) \/ SearchFails(w)
  BY <1>2, Zenon, StartSearchHolds, RecordSearchHolds, PollAgainHolds, ImportHolds, EndSearchHolds, SearchFailsHolds
<1>3. CASE Open(w) \/ DraftFails(w) \/ Draft(w) \/ AutoSend(w) \/ RecordSend(w) \/ TickThrows(w) \/ AgentDies(w)
  BY <1>3, Zenon, OpenHolds, DraftFailsHolds, DraftHolds, AutoSendHolds, RecordSendHolds, TickThrowsHolds, AgentDiesHolds
<1> QED BY <1>1, <1>2, <1>3 DEF AgentWorks

\* What a request does.
LEMMA CallSteps ==
  ASSUME AgentInv, NEW q \in Calls,
         \/ CallWorks(q) \/ CallDies(q)
         \/ \E r \in Runs : \/ \E p \in Pillars : CountRuns(q, r, p)
                            \/ \E to \in {"paused", "active", "interval"} : PatchReads(q, r, to)
                            \/ Approve(q, r)
  PROVE  AgentInv'
BY Zenon, CreateRunHolds, KickRunHolds, PatchWritesHolds, ApproveSendsHolds, ApproveRecordsHolds, CallDiesHolds,
   CountRunsHolds, PatchReadsHolds, ApproveHolds DEF CallWorks

\* All of it.
LEMMA AgentsStep == ASSUME AgentInv, AgentNext PROVE AgentInv'
<1>1. CASE \E w \in AgentWorkers : AgentWorks(w) \/ TickThrows(w) \/ AgentDies(w) BY <1>1, AgentWorkSteps
<1>2. CASE TimePasses BY <1>2, ComesDueHolds, LapseHolds DEF TimePasses
<1>3. CASE Provider BY <1>3, AnswerHolds DEF Provider
<1>4. CASE \/ (\E m \in [status : {"active", "error", "gone"}, error : BOOLEAN, ramp : {0}] : MailboxTurns(m))
           \/ ContactAges \/ \E r \in Runs : TriggerRun(r)
  BY <1>4, OutsideTurns
<1>5. CASE \E r \in Runs : LapseEarly(r) \/ CancelRun(r) BY <1>5, LapseEarlyHolds, CancelRunHolds
<1>6. CASE \E q \in Calls :
              \/ CallWorks(q) \/ CallDies(q)
              \/ \E r \in Runs : \/ \E p \in Pillars : CountRuns(q, r, p)
                                 \/ \E to \in {"paused", "active", "interval"} : PatchReads(q, r, to)
                                 \/ Approve(q, r)
  BY <1>6, CallSteps
<1> QED BY <1>1, <1>2, <1>3, <1>4, <1>5, <1>6, Zenon DEF AgentNext

\* A step elsewhere changes nothing here.
LEMMA AgentsRest == ASSUME AgentInv, UNCHANGED agentVars PROVE AgentInv'
<1>1. agent' = agent /\ call' = call /\ run' = run /\ lock' = lock /\ search' = search /\ told' = told BY DEF agentVars
<1>2. IsTold(told) BY DEF AgentInv, AgentTypes, ToldTypes
<1> QED BY <1>1, <1>2, NoMarks, MarksHold

\* It says what the runs hold.
LEMMA AgentsMean == AgentInv => RunsHold
<1> SUFFICES ASSUME AgentInv PROVE RunsHold OBVIOUS
<1>1. ASSUME NEW r \in Runs, ~Spoilt(r, {"raced", "stale", "torn"}) PROVE told.sends[r] <= 1
  BY <1>1 DEF AgentInv, RunOK, SentOK, Clear
<1>2. told.cancelled \subseteq Runs
  <2>1. IsTold(told) BY DEF AgentInv, AgentTypes, ToldTypes
  <2> QED BY <2>1, ToldFields
<1>3. ASSUME NEW r \in told.cancelled, ~Spoilt(r, {"raced", "stale"})
      PROVE  Of(r, {"cancelled"}) /\ \A w \in AgentWorkers : agent[w].at # r
  BY <1>2, <1>3 DEF AgentInv, RunOK, CancelOK, Worked
<1>4. ASSUME \A r \in Runs : ~Spoilt(r, {"raced", "stale", "torn"}), NEW i \in DOMAIN told.counted
      PROVE  told.counted[i] <= 1
  <2>1. SearchOK BY <1>4 DEF AgentInv, Clear
  <2>2. told.counted \in Seq(Nat) /\ Len(told.counted) = Len(search)
    <3>1. IsTold(told) /\ Len(told.counted) = Len(search) BY DEF AgentInv, AgentTypes, ToldTypes
    <3> QED BY <3>1, ToldFields
  <2>3. i \in 1 .. Len(search) BY <1>4, <2>2
  <2>4. told.counted[i] \in Nat BY <1>4, <2>2
  <2> QED BY <2>1, <2>3, <2>4 DEF SearchOK
<1> QED BY <1>1, <1>3, <1>4 DEF RunsHold, DraftSentOnce, CancelHolds, SearchCountedOnce

\* What an agent's run does once, and not any more: its draft is sent once, a run that is
\* cancelled stays so and no worker has it, and what a search finds is charged once; unless
\* the run's requests and workers met on it, its lock was lost, or one ended half way.
THEOREM RunsHoldAlways == MCSpec => []RunsHold
<1>1. MCInit => AgentInv BY AgentsStart DEF MCInit
<1>2. AgentInv /\ [MCNext]_all => AgentInv'
  <2> SUFFICES ASSUME AgentInv, [MCNext]_all PROVE AgentInv' OBVIOUS
  <2>1. CASE Agents_(AgentNext) BY <2>1, AgentsStep DEF Agents_
  <2>2. CASE Sequences_(Next) \/ Mailboxes_(PoolNext) \/ UNCHANGED all
    BY <2>2, Zenon, AgentsRest DEF Mailboxes_, Sequences_, all
  <2> QED BY <2>1, <2>2, Zenon DEF MCNext
<1> QED BY <1>1, <1>2, AgentsMean, PTL DEF MCSpec
==============================================================================
