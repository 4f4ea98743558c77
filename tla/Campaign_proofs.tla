--------------------------- MODULE Campaign_proofs ---------------------------
(***************************************************************************)
(* A campaign mails nobody twice and nobody after it was cancelled, and    *)
(* its tables tell what happened, for every number of campaigns,           *)
(* recipients, workers and requests, chunk size and number of attempts.    *)
(*                                                                         *)
(* The argument: every run has in its hands recipients that it takes, a    *)
(* chunk at a time, from its own list, so that what it has still to mail   *)
(* and what it has mailed never meet; a campaign of which no second run    *)
(* began over the mails or the rows of the first has one run with anybody  *)
(* to mail; and what a cancelled campaign may still mail is in the hands   *)
(* of its runs, and becomes less with every mail.                          *)
(***************************************************************************)
EXTENDS Campaign, FiniteSetTheorems, TLAPS

------------------------------------------------------------------------------
(* The invariant. *)

\* Those a run takes in later chunks, and those it has not handed to a
\* transport yet.
ToCome(x) == IF x.pc = "send" THEN x.left \ First(CHUNK_SIZE, x.left) ELSE x.left
Fresh(x)  == ToCome(x) \cup x.chunk.send

\* The types.
Outcomes  == {"pending", "sent", "failed", "suppressed"}
ChunkType == [send : SUBSET Recipients, mark : SUBSET Recipients]
RunType   == [pc : {"idle", "load", "begin", "resolve", "check", "send"}, job : Jobs \cup {NoJob},
              list : SUBSET Recipients, left : SUBSET Recipients, chunk : ChunkType, sent : Nat]
RowType   == [status : Status, excluded : SUBSET Recipients, sentCount : Nat]
TallyType == [marred : [Campaigns -> SUBSET Marks], resumes : [Campaigns -> Nat],
              inHand : [Campaigns -> Int], events : Nat, trouble : Nat]
TypeInv ==
    /\ campaign \in [Campaigns -> RowType] /\ rows \in [Campaigns -> [Recipients -> SUBSET Outcomes]]
    /\ DOMAIN queue \subseteq Jobs /\ suppressed \subseteq Recipients /\ run \in [Workers -> RunType]
    /\ mails \in [Campaigns -> [Recipients -> Nat]] /\ tally \in TallyType

\* What a run has in its hands: an idle slot nothing, a run that has not
\* listed anyone nothing yet, and one that sends at most the next chunk.
Hand(x) ==
    /\ x.pc = "idle" => x = IdleRun
    /\ x.pc # "idle" => x.job \in Jobs
    /\ x.pc \notin {"check", "send"} => x.list = {} /\ x.sent = 0
    /\ IF x.pc = "send" THEN x.left # {} ELSE x.chunk = NoChunk
    /\ x.left \subseteq x.list /\ x.chunk.send \cup x.chunk.mark \subseteq First(CHUNK_SIZE, x.left)
    /\ x.chunk.send \cap x.chunk.mark = {}
    /\ x.sent + Cardinality(x.chunk.send \cup x.chunk.mark) <= Cardinality(x.list \ ToCome(x))
HandInv == \A w \in Workers :
    /\ Hand(run[w])
    /\ run[w].pc \notin {"idle", "load"} => campaign[Of(w)].status # "none"

\* One run of c has anybody to mail, and mails none of them for a second time.
Alone(c) == \A v, w \in Workers :
    Of(v) = c /\ Of(w) = c /\ run[v].list # {} /\ run[w].list # {} => v = w
Once(c) ==
    Spared(c, {"rerun"}) =>
        /\ Alone(c)
        /\ \A r \in Recipients : mails[c][r] <= 1
        /\ \A w \in Workers : Of(w) = c => \A r \in Fresh(run[w]) : mails[c][r] = 0
OnceInv == \A c \in Campaigns : Once(c)

\* What the rows of c say was done, and as long as c has a row itself, who was
\* mailed or listed has one.
Truthful(c) ==
    /\ campaign[c].status = "none" => \A r \in Recipients : mails[c][r] = 0 /\ rows[c][r] = {}
    /\ \A r \in Recipients : "sent" \in rows[c][r] => mails[c][r] > 0
    /\ \A w \in Workers : Of(w) = c => \A r \in run[w].chunk.mark : mails[c][r] > 0
    /\ Row(c) => \A r \in Recipients :
          mails[c][r] > 0 \/ (\E w \in Workers : Of(w) = c /\ r \in run[w].list) => rows[c][r] # {}
    /\ "rerun" \in tally.marred[c] => "relisted" \in tally.marred[c]
TrueInv == \A c \in Campaigns : Truthful(c)

\* A campaign whose recipients were listed once: nobody who failed or was
\* suppressed is mailed after all.
NoRows(c) == \A r \in Recipients : rows[c][r] = {}
Told(c) ==
    /\ Spared(c, {"relisted"}) => \A w \in Workers :
          Of(w) = c /\ run[w].pc \in {"check", "send"} /\ run[w].list = {} => NoRows(c) /\ Listed(c) = {}
    /\ Spared(c, {"relisted", "lost"}) =>
          /\ \A r \in Recipients : rows[c][r] \cap {"failed", "suppressed"} # {} => mails[c][r] = 0
          /\ \A w \in Workers : Of(w) = c => \A r \in Fresh(run[w]) : rows[c][r] \cap {"failed", "suppressed"} = {}

\* Its run knows who waits and how many were sent to, and so does the campaign
\* when it is sent.
SentRows(c) == {r \in Recipients : "sent" \in rows[c][r]}
Knows(c, x) ==
    /\ \A r \in Recipients : "pending" \in rows[c][r] => r \in Fresh(x) \cup x.chunk.mark
    /\ \A r \in Fresh(x) \cup x.chunk.mark : "sent" \notin rows[c][r]
    /\ x.sent = Cardinality(SentRows(c))
Complete(c) ==
    Spared(c, {"relisted", "lost", "cut"}) =>
        /\ Row(c) => \A w \in Workers : Of(w) = c /\ run[w].list # {} => Knows(c, run[w])
        /\ campaign[c].status = "sent" =>
              /\ \A r \in Recipients : "pending" \notin rows[c][r]
              /\ campaign[c].sentCount = Cardinality(SentRows(c))
              /\ \A w \in Workers : Of(w) = c => run[w].list = {}
              /\ Listed(c) = {} \/ ~NoRows(c)
ToldInv == \A c \in Campaigns : Told(c) /\ Complete(c)

\* What a cancelled campaign may still mail, and what one that is deleted may:
\* a run between two chunks takes one more.
Holds(w) == IF run[w].pc = "check" THEN CHUNK_SIZE ELSE Cardinality(run[w].chunk.send)
May(c)   == {z \in Workers \X (1..CHUNK_SIZE) : Of(z[1]) = c /\ z[2] <= Holds(z[1])}
Stops(c) ==
    /\ tally.inHand[c] >= 0
    /\ Spared(c, {"overwritten"}) =>
          /\ campaign[c].status = "cancelled" => tally.inHand[c] >= Cardinality(InHands(c))
          /\ campaign[c].status = "deleted"   => tally.inHand[c] >= Cardinality(May(c))
StopInv == \A c \in Campaigns : Stops(c)

IInv == TypeInv /\ HandInv /\ OnceInv /\ TrueInv /\ ToldInv /\ StopInv

------------------------------------------------------------------------------
(* Recipients, chunks and queues. *)

\* There are finitely many recipients, and counting them is counting.
LEMMA RecipientsFinite ==
    IsFiniteSet(Recipients) /\ \A R \in SUBSET Recipients : IsFiniteSet(R) /\ Cardinality(R) \in Nat
<1>1. Audience \in Seq(Recipients) BY CampaignAssumption
<1>2. PICK N \in Nat : DOMAIN Audience = 1..N BY <1>1
<1>3. IsFiniteSet(1..N) BY <1>2, FS_Interval
<1>4. PICK f : f = [i \in 1..N |-> Audience[i]] OBVIOUS
<1>5. f \in Surjection(1..N, Recipients) BY <1>2, <1>4 DEF Recipients, Surjection
<1>6. IsFiniteSet(Recipients) BY <1>3, <1>5, FS_Surjection
<1> QED  BY <1>6, FS_Subset, FS_CardinalityType

\* A smaller set has fewer members.
LEMMA SubsetCount ==
    ASSUME NEW S \in SUBSET Recipients, NEW R \in SUBSET S
    PROVE  Cardinality(R) <= Cardinality(S) /\ (R # S => Cardinality(R) < Cardinality(S))
BY RecipientsFinite, FS_Subset

\* One recipient more, or one less.
LEMMA OneMore ==
    ASSUME NEW S \in SUBSET Recipients, NEW r \in Recipients
    PROVE  /\ r \notin S => Cardinality(S \cup {r}) = Cardinality(S) + 1
           /\ r \in S => Cardinality(S \ {r}) = Cardinality(S) - 1
BY RecipientsFinite, FS_AddElement, FS_RemoveElement

\* Two sets that do not meet are counted one after the other.
LEMMA CountBoth ==
    ASSUME NEW S \in SUBSET Recipients, NEW R \in SUBSET Recipients, S \cap R = {}
    PROVE  Cardinality(S \cup R) = Cardinality(S) + Cardinality(R)
<1>1. Cardinality({}) = 0 BY FS_EmptySet
<1>2. IsFiniteSet(S) /\ IsFiniteSet(R) /\ Cardinality(S) \in Nat /\ Cardinality(R) \in Nat BY RecipientsFinite
<1>3. Cardinality(S \cup R) = Cardinality(S) + Cardinality(R) - Cardinality(S \cap R) BY <1>2, FS_Union
<1>4. Cardinality(S \cap R) = 0 BY <1>1
<1> QED  BY <1>2, <1>3, <1>4

\* The audience has an order.
LEMMA Order ==
    ASSUME NEW r \in Recipients, NEW s \in Recipients
    PROVE  /\ ~Before(r, r)
           /\ Before(r, s) \/ Before(s, r) \/ r = s
           /\ \A t \in Recipients : Before(r, s) /\ Before(s, t) => Before(r, t)
<1>1. PICK N \in Nat : DOMAIN Audience = 1..N BY CampaignAssumption
<1>2. PICK i \in 1..N, k \in 1..N : Audience[i] = r /\ Audience[k] = s BY <1>1 DEF Recipients
<1>3. ~Before(r, r) BY <1>1, CampaignAssumption DEF Before
<1>4. i < k \/ k < i \/ i = k BY <1>2
<1>5. Before(r, s) \/ Before(s, r) \/ r = s BY <1>1, <1>2, <1>4 DEF Before
<1>6. ASSUME NEW t \in Recipients, Before(r, s), Before(s, t) PROVE Before(r, t)
  BY <1>1, <1>6, CampaignAssumption DEF Before
<1> QED  BY <1>3, <1>5, <1>6

\* A chunk is some of those it is taken from, at most as many as it may be, and
\* a smaller chunk is part of it.
LEMMA Chunks ==
    ASSUME NEW R \in SUBSET Recipients, NEW n \in Nat
    PROVE  /\ First(n, R) \subseteq R /\ Cardinality(First(n, R)) <= n
           /\ \A m \in Nat : m <= n => First(m, R) \subseteq First(n, R)
<1>1. First(n, R) \subseteq R BY DEF First
<1>2. \A m \in Nat : m <= n => First(m, R) \subseteq First(n, R)
    <2> SUFFICES ASSUME NEW m \in Nat, m <= n, NEW r \in First(m, R) PROVE r \in First(n, R) OBVIOUS
    <2>1. PICK S : S = {s \in R : Before(s, r)} OBVIOUS
    <2>2. Cardinality(S) \in Nat BY <2>1, RecipientsFinite
    <2>3. r \in R /\ Cardinality(S) < m BY <2>1 DEF First
    <2> QED  BY <2>1, <2>2, <2>3 DEF First
<1>3. Cardinality(First(n, R)) <= n
    <2>1. PICK f : f = [r \in First(n, R) |-> Cardinality({s \in R : Before(s, r)})] OBVIOUS
    <2>2. \A r \in First(n, R) : f[r] \in 0..(n - 1)
        <3> TAKE r \in First(n, R)
        <3>1. PICK S : S = {s \in R : Before(s, r)} OBVIOUS
        <3>2. Cardinality(S) \in Nat BY <3>1, RecipientsFinite
        <3>3. Cardinality(S) < n BY <3>1 DEF First
        <3> QED  BY <2>1, <3>1, <3>2, <3>3
    <2>3. \A q, r \in First(n, R) : f[q] = f[r] => q = r
        <3>1. ASSUME NEW q \in First(n, R), NEW r \in First(n, R), Before(q, r) PROVE f[q] < f[r]
      BY <1>1, <3>1, Order, SubsetCount, <2>1
        <3> TAKE q, r \in First(n, R)
        <3>2. q \in Recipients /\ r \in Recipients BY <1>1
        <3>3. f[q] \in Int /\ f[r] \in Int BY <2>2
        <3> QED  BY <3>1, <3>2, <3>3, Order
    <2>4. f \in Injection(First(n, R), 0..(n - 1)) BY <2>1, <2>2, <2>3 DEF Injection, IsInjective
    <2>5. IsFiniteSet(0..(n - 1)) /\ Cardinality(0..(n - 1)) = n BY FS_Interval
    <2> QED  BY <2>4, <2>5, FS_Injection
<1> QED  BY <1>1, <1>2, <1>3

\* The numbers of the code are what they are.
LEMMA Sizes == CHUNK_SIZE \in Nat /\ CHUNK_SIZE > 0 /\ NoJob \notin Jobs
BY CampaignAssumption

\* A job is one of a campaign.
LEMMA JobOf == \A j \in Jobs : j[1] \in Campaigns
BY DEF Jobs

\* The queue forgets and invents no job but those the routes name.
LEMMA Queues ==
    ASSUME NEW q, DOMAIN q \subseteq Jobs, NEW j \in Jobs
    PROVE  /\ \A d : DOMAIN Add(q, j, d) \subseteq Jobs
           /\ \A w : DOMAIN Take(q, j, w) \subseteq Jobs
           /\ \A w, how : DOMAIN Finish(q, j, w, how) \subseteq Jobs
           /\ \A w : DOMAIN Retry(q, j, w) \subseteq Jobs
           /\ DOMAIN Discard(q, j) \subseteq Jobs
           /\ \A n : DOMAIN Stall(q, j, n) \subseteq Jobs
  BY DEF Add, Has, Take, Finish, Retry, Discard, Stall

------------------------------------------------------------------------------
(* What the actions do, field by field. *)

\* What a campaign is marked with, no mail being accounted for.
Tells(c, marks) ==
    /\ tally' \in TallyType /\ tally'.inHand = tally.inHand
    /\ \A d \in Campaigns : tally'.marred[d] = IF d = c THEN tally.marred[d] \cup marks ELSE tally.marred[d]
\* Only worker w moves: it rests, or it is at pc with this in its hands.
Only(w)  == run' \in [Workers -> RunType] /\ \A v \in Workers \ {w} : run'[v] = run[v]
Rests(w) == Only(w) /\ run'[w] = IdleRun
Turns(w, pc, list, left, send, mark, sent) ==
    /\ Only(w) /\ run'[w].job = run[w].job /\ run'[w].pc = pc /\ run'[w].list = list /\ run'[w].left = left
    /\ run'[w].chunk.send = send /\ run'[w].chunk.mark = mark /\ run'[w].sent = sent
Keeps(w, pc) ==
    Turns(w, pc, run[w].list, run[w].left, run[w].chunk.send, run[w].chunk.mark, run[w].sent)
\* Only c is written, and has status s afterwards.
Writes(c, s) ==
    /\ campaign' \in [Campaigns -> RowType] /\ \A d \in Campaigns \ {c} : campaign'[d] = campaign[d]
    /\ campaign'[c].status = s /\ campaign'[c].excluded = campaign[c].excluded
\* The rows of R say s, if there are any.
Rewrites(c, R, s) ==
    /\ rows' \in [Campaigns -> [Recipients -> SUBSET Outcomes]]
    /\ \A d \in Campaigns, r \in Recipients :
          rows'[d][r] = IF d = c /\ r \in R /\ rows[d][r] # {} THEN {s} ELSE rows[d][r]
\* One mail more, and if c is stopped one less that it may send.
Posts(c, r) ==
    /\ mails' \in [Campaigns -> [Recipients -> Nat]]
    /\ \A d \in Campaigns, q \in Recipients :
          mails'[d][q] = IF d = c /\ q = r THEN mails[d][q] + 1 ELSE mails[d][q]
Counts(c, marks) ==
    /\ tally' \in TallyType
    /\ \A d \in Campaigns :
          /\ tally'.marred[d] = IF d = c THEN tally.marred[d] \cup marks ELSE tally.marred[d]
          /\ tally'.inHand[d] =
                IF d = c /\ campaign[c].status \in {"cancelled", "deleted"}
                         /\ "overwritten" \notin tally.marred[c]
                THEN tally.inHand[d] - 1 ELSE tally.inHand[d]

\* A campaign is marked.
Marked(t, u, c, M) ==
    /\ u \in TallyType /\ u.inHand = t.inHand
    /\ \A d \in Campaigns : u.marred[d] = IF d = c THEN t.marred[d] \cup M ELSE t.marred[d]
\* Marking a campaign changes its marks and nothing else.
LEMMA Marking ==
    ASSUME NEW t \in TallyType, NEW c \in Campaigns, NEW M \in SUBSET Marks, NEW u, u = Mark(t, c, M)
    PROVE  Marked(t, u, c, M)
  BY DEF TallyType, Mark, Marked

\* What is done beside the normal is counted.
LEMMA Spending ==
    ASSUME NEW t \in TallyType, NEW n \in Nat, Spend(n, t)
    PROVE  /\ tally' \in TallyType /\ tally'.marred = t.marred /\ tally'.inHand = t.inHand
  BY DEF TallyType, Spend

\* So is what goes wrong.
LEMMA Mishaps ==
    ASSUME NEW t \in TallyType, Mishap(t)
    PROVE  /\ tally' \in TallyType /\ tally'.marred = t.marred /\ tally'.inHand = t.inHand
  BY Spending DEF TallyType, Mishap

\* The marks of the steps.
LEMMA Telling ==
    ASSUME TypeInv, NEW c \in Campaigns, NEW M \in SUBSET Marks
    PROVE  /\ tally' = tally \/ Event(tally) \/ Spend(2, tally) => Tells(c, {})
           /\ tally' = Mark(tally, c, M) \/ Event(Mark(tally, c, M)) \/ Trouble(c, M) => Tells(c, M)
<1>1. tally \in TallyType BY DEF TypeInv
<1>2. ASSUME tally' = tally \/ Event(tally) \/ Spend(2, tally) PROVE Tells(c, {})
  BY <1>1, Spending, <1>2 DEF Tells, Event
<1>3. ASSUME tally' = Mark(tally, c, M) \/ Event(Mark(tally, c, M)) \/ Trouble(c, M) PROVE Tells(c, M)
    <2>a. PICK t \in TallyType : t = tally BY <1>1
    <2>1. PICK u : u = Mark(t, c, M) OBVIOUS
    <2>b. /\ u \in TallyType /\ u.inHand = t.inHand
          /\ \A d \in Campaigns : u.marred[d] = IF d = c THEN t.marred[d] \cup M ELSE t.marred[d]
    BY <2>1, Marking DEF Marked
    <2>2. /\ u \in TallyType /\ u.inHand = tally.inHand
          /\ \A d \in Campaigns : u.marred[d] = IF d = c THEN tally.marred[d] \cup M ELSE tally.marred[d]
        BY <2>a, <2>b
    <2>3. tally' = u \/ Spend(1, u) \/ Mishap(u) BY <1>3, <2>a, <2>1 DEF Event, Trouble
    <2>4. tally' \in TallyType /\ tally'.marred = u.marred /\ tally'.inHand = u.inHand
        BY <2>2, <2>3, Spending, Mishaps
    <2> QED  BY <2>2, <2>4 DEF Tells
<1> QED  BY <1>2, <1>3

\* A mail of c is accounted for, and c marked.
LEMMA Counting ==
    ASSUME TypeInv, NEW w \in Workers, Of(w) \in Campaigns, NEW r
    PROVE  /\ tally' = Accounted(w, r) => Counts(Of(w), {})
           /\ Mishap(Mark(Accounted(w, r), Of(w), {"lost"})) => Counts(Of(w), {"lost"})
<1>1. PICK c \in Campaigns : c = Of(w) OBVIOUS
<1>2. tally \in TallyType BY DEF TypeInv
<1>3. PICK h \in [Campaigns -> Int] : h = tally.inHand BY <1>2 DEF TallyType
<1>4. PICK k \in Int : k = IF campaign[c].status \in {"cancelled", "deleted"} /\ "overwritten" \notin tally.marred[c]
                           THEN h[c] - 1 ELSE h[c]
    OBVIOUS
<1>5. PICK g \in [Campaigns -> Int] : g = [h EXCEPT ![c] = k] OBVIOUS
<1>6. PICK u : u = Accounted(w, r) OBVIOUS
<1>7. u = [tally EXCEPT !.inHand = g] BY <1>1, <1>6, <1>4, <1>5, <1>2, <1>3 DEF Accounted, TallyType
<1>8. u = [marred |-> tally.marred, resumes |-> tally.resumes, inHand |-> g, events |-> tally.events,
           trouble |-> tally.trouble]
    BY <1>2, <1>7 DEF TallyType
<1>9. u \in TallyType /\ u.marred = tally.marred /\ u.inHand = g BY <1>2, <1>8 DEF TallyType
<1>a. \A d \in Campaigns : g[d] =
         IF d = c /\ campaign[c].status \in {"cancelled", "deleted"} /\ "overwritten" \notin tally.marred[c]
         THEN tally.inHand[d] - 1 ELSE tally.inHand[d]
    BY <1>3, <1>4, <1>5
<1>b. ASSUME tally' = Accounted(w, r) PROVE Counts(Of(w), {}) BY <1>1, <1>6, <1>9, <1>a, <1>b DEF Counts
<1>c. ASSUME Mishap(Mark(Accounted(w, r), Of(w), {"lost"})) PROVE Counts(Of(w), {"lost"})
    <2>1. PICK y : y = Mark(u, c, {"lost"}) OBVIOUS
    <2>2. {"lost"} \subseteq Marks BY DEF Marks
    <2>3. /\ y \in TallyType /\ y.inHand = g
          /\ \A d \in Campaigns : y.marred[d] = IF d = c THEN tally.marred[d] \cup {"lost"} ELSE tally.marred[d]
        <3>1. Marked(u, y, c, {"lost"}) BY <1>9, <2>1, <2>2, Marking
        <3> QED  BY <1>9, <3>1 DEF Marked
    <2>4. Mishap(y) BY <1>1, <1>6, <1>c, <2>1
    <2>5. tally' \in TallyType /\ tally'.marred = y.marred /\ tally'.inHand = g BY <2>3, <2>4, Mishaps
    <2> QED  BY <1>1, <1>a, <2>3, <2>5 DEF Counts
<1> QED  BY <1>b, <1>c

\* A run that is under way has a job, and its campaign was made.
LEMMA AtWork ==
    ASSUME TypeInv, HandInv, NEW w \in Workers, run[w].pc # "idle"
    PROVE  /\ run[w] \in RunType /\ Hand(run[w]) /\ run[w].job \in Jobs /\ Of(w) \in Campaigns
           /\ run[w].pc # "load" => campaign[Of(w)].status # "none"
  BY JobOf DEF TypeInv, HandInv, Hand, Of

\* What a slot holds, written out.
Slot(pc, job, list, left, send, mark, sent) ==
    [pc |-> pc, job |-> job, list |-> list, left |-> left, chunk |-> [send |-> send, mark |-> mark],
     sent |-> sent]
\* Every slot is one of these, and so is an idle one.
LEMMA Slots ==
    ASSUME NEW x \in RunType
    PROVE  /\ x = Slot(x.pc, x.job, x.list, x.left, x.chunk.send, x.chunk.mark, x.sent)
           /\ x.chunk = [send |-> x.chunk.send, mark |-> x.chunk.mark]
           /\ x.list \subseteq Recipients /\ x.left \subseteq Recipients /\ x.sent \in Nat
           /\ x.chunk.send \subseteq Recipients /\ x.chunk.mark \subseteq Recipients
           /\ IdleRun = Slot("idle", NoJob, {}, {}, {}, {}, 0) /\ IdleRun \in RunType
  BY DEF RunType, ChunkType, Slot, IdleRun, NoChunk

\* A slot that changes holds what it was given.
LEMMA Turning ==
    ASSUME TypeInv, NEW w \in Workers, NEW pc \in {"idle", "load", "begin", "resolve", "check", "send"},
           NEW list \in SUBSET Recipients, NEW left \in SUBSET Recipients,
           NEW send \in SUBSET Recipients, NEW mark \in SUBSET Recipients, NEW sent \in Nat,
           run' = [run EXCEPT ![w] = Slot(pc, run[w].job, list, left, send, mark, sent)]
    PROVE  Turns(w, pc, list, left, send, mark, sent)
  BY DEF TypeInv, Slot, RunType, ChunkType, Only, Turns

\* A slot that is left is idle.
LEMMA Leaving ==
    ASSUME TypeInv, NEW w \in Workers, Leave(w) PROVE Rests(w)
  BY Slots DEF TypeInv, Leave, Rests, Only

\* A run goes on with what it has.
LEMMA GoesOn ==
    ASSUME TypeInv, NEW w \in Workers, NEW pc \in {"begin", "resolve", "check"}, Go(w, pc) PROVE Keeps(w, pc)
<1>1. run \in [Workers -> RunType] BY DEF TypeInv
<1>2. PICK x \in RunType : x = run[w] BY <1>1
<1>3. PICK y : y = Slot(pc, x.job, x.list, x.left, x.chunk.send, x.chunk.mark, x.sent) OBVIOUS
<1>4. x = Slot(x.pc, x.job, x.list, x.left, x.chunk.send, x.chunk.mark, x.sent) BY Slots
<1>5. [x EXCEPT !.pc = pc] = y BY <1>3, <1>4 DEF Slot
<1>6. run' = [run EXCEPT ![w] = y] BY <1>1, <1>2, <1>5 DEF Go
<1>7. /\ x.list \subseteq Recipients /\ x.left \subseteq Recipients /\ x.sent \in Nat
      /\ x.chunk.send \subseteq Recipients /\ x.chunk.mark \subseteq Recipients
    BY Slots
<1>8. Turns(w, pc, x.list, x.left, x.chunk.send, x.chunk.mark, x.sent) BY <1>2, <1>3, <1>6, <1>7, Turning
<1> QED  BY <1>2, <1>8 DEF Keeps

\* A worker begins to carry out a job.
Starts(w) ==
    /\ run[w].pc = "idle" /\ Only(w)
    /\ run'[w].pc = "load" /\ run'[w].job \in Jobs /\ run'[w].list = {} /\ run'[w].left = {}
    /\ run'[w].chunk = NoChunk /\ run'[w].sent = 0
\* That is what StartJob does.
LEMMA Starting ==
    ASSUME TypeInv, NEW w \in Workers, StartJob(w) PROVE Starts(w) /\ DOMAIN queue' \subseteq Jobs
<1>1. PICK j \in Jobs : /\ queue' = Take(queue, j, w)
                        /\ run' = [run EXCEPT ![w] = [IdleRun EXCEPT !.pc = "load", !.job = j]]
    BY DEF StartJob
<1>2. run \in [Workers -> RunType] BY DEF TypeInv
<1>3. PICK y : y = Slot("load", j, {}, {}, {}, {}, 0) OBVIOUS
<1>4. [IdleRun EXCEPT !.pc = "load"] = Slot("load", NoJob, {}, {}, {}, {}, 0) BY DEF IdleRun, NoChunk, Slot
<1>5. [IdleRun EXCEPT !.pc = "load", !.job = j] = y
    <2>1. PICK z : z = [IdleRun EXCEPT !.pc = "load"] OBVIOUS
    <2>2. PICK k : k = [send |-> {}, mark |-> {}] OBVIOUS
    <2>3. z = [pc |-> "load", job |-> NoJob, list |-> {}, left |-> {}, chunk |-> k, sent |-> 0]
        BY <1>4, <2>1, <2>2 DEF Slot
    <2>4. y = [pc |-> "load", job |-> j, list |-> {}, left |-> {}, chunk |-> k, sent |-> 0]
        BY <1>3, <2>2 DEF Slot
    <2>5. [z EXCEPT !.job = j] = y BY <2>3, <2>4
    <2> QED  BY <2>1, <2>5
<1>6. y \in RunType BY <1>3 DEF Slot, RunType, ChunkType
<1>7. run' = [run EXCEPT ![w] = y] BY <1>1, <1>5
<1>8. Only(w) /\ run'[w] = y BY <1>2, <1>6, <1>7 DEF Only
<1>9. y.pc = "load" /\ y.job = j /\ y.list = {} /\ y.left = {} /\ y.chunk = NoChunk /\ y.sent = 0
    BY <1>3 DEF Slot, NoChunk
<1>a. PICK q : q = queue OBVIOUS
<1>b. DOMAIN q \subseteq Jobs BY <1>a DEF TypeInv
<1>c. DOMAIN Take(q, j, w) \subseteq Jobs BY <1>b, Queues
<1>d. DOMAIN queue' \subseteq Jobs BY <1>1, <1>a, <1>c
<1>e. run[w].pc = "idle" BY DEF StartJob, In
<1> QED  BY <1>8, <1>9, <1>d, <1>e DEF Starts

\* A worker gives its job up or back.
LEMMA Ending ==
    ASSUME TypeInv, HandInv, NEW w \in Workers, run[w].pc # "idle", Done(w) \/ Throw(w)
    PROVE  Rests(w) /\ DOMAIN queue' \subseteq Jobs
  BY Leaving, AtWork, Queues DEF Done, Throw, TypeInv

\* A status is written.
LEMMA Writing ==
    ASSUME TypeInv, NEW c \in Campaigns, NEW s \in Status, Write(c, s) PROVE Writes(c, s)
  BY DEF TypeInv, RowType, Write, Writes

\* Rows are rewritten.
LEMMA Rewriting ==
    ASSUME TypeInv, NEW c \in Campaigns, NEW R, NEW s \in Outcomes, rows' = Rewrite(c, R, s)
    PROVE  Rewrites(c, R, s)
  BY DEF TypeInv, Rewrite, Rewrites

\* A mail is taken.
LEMMA Posting ==
    ASSUME TypeInv, NEW w \in Workers, Of(w) \in Campaigns, NEW r \in Recipients, Mailed(w, r)
    PROVE  Posts(Of(w), r)
  BY DEF TypeInv, Mailed, Posts

\* A run finds its campaign, or ends.
LEMMA Loads ==
    ASSUME TypeInv, HandInv, NEW w \in Workers, LoadCampaign(w)
    PROVE  /\ run[w].pc = "load" /\ DOMAIN queue' \subseteq Jobs
           /\ Rests(w) \/ (Keeps(w, "begin") /\ campaign[Of(w)].status # "none")
  BY GoesOn, Ending DEF LoadCampaign, In, TypeInv, Row

\* Writing over a cancellation is a mark.
LEMMA OverMarks == \A c : Over(c) \subseteq Marks /\ Over(c) \subseteq {"overwritten"}
BY DEF Over, If, Marks

\* Its campaign is being sent.
LEMMA Sends ==
    ASSUME TypeInv, HandInv, NEW w \in Workers, MarkSending(w)
    PROVE  /\ run[w].pc = "begin" /\ Row(Of(w)) /\ Of(w) \in Campaigns
           /\ Keeps(w, "resolve") /\ Writes(Of(w), "sending") /\ Tells(Of(w), Over(Of(w)))
  BY AtWork, GoesOn, Writing, OverMarks, Telling DEF MarkSending, In, Status

\* It fails, or has no quota left.
LEMMA Halts ==
    ASSUME TypeInv, HandInv, NEW w \in Workers, RefuseAudience(w) \/ NoQuota(w)
    PROVE  /\ run[w].pc \in {"resolve", "check"} /\ Of(w) \in Campaigns /\ Row(Of(w))
           /\ Rests(w) /\ DOMAIN queue' \subseteq Jobs
           /\ Writes(Of(w), "failed") \/ Writes(Of(w), "paused_quota")
           /\ Tells(Of(w), Over(Of(w))) /\ UNCHANGED <<rows, suppressed, mails>>
  BY AtWork, Ending, Writing, OverMarks, Telling DEF RefuseAudience, NoQuota, In, NextChunk, Status, EndAs

\* It lists its recipients.
Busy(w) == \E v \in Workers \ {w} : run[v].list # {} /\ Of(v) = Of(w)
Creates(w) ==
    /\ run[w].pc = "resolve" /\ Row(Of(w)) /\ Of(w) \in Campaigns
    /\ Turns(w, "check", Listed(Of(w)), Listed(Of(w)), {}, {}, 0)
    /\ rows' \in [Campaigns -> [Recipients -> SUBSET Outcomes]]
    /\ \A d \in Campaigns, r \in Recipients :
          rows'[d][r] = IF d = Of(w) /\ r \in Listed(d) THEN rows[d][r] \cup {"pending"} ELSE rows[d][r]
    /\ \E M \in SUBSET {"rerun", "relisted"} :
          /\ Tells(Of(w), M)
          /\ "rerun" \in M <=> Busy(w) \/ \E r \in Recipients : mails[Of(w)][r] > 0
          /\ "relisted" \in M <=> Busy(w) \/ \E r \in Recipients : rows[Of(w)][r] # {}
    /\ UNCHANGED <<campaign, queue, suppressed, mails>>
\* That is what CreateRows does.
LEMMA Listing ==
    ASSUME TypeInv, HandInv, NEW w \in Workers, CreateRows(w) PROVE Creates(w)
<1>1. run[w].pc = "resolve" /\ Row(Of(w)) /\ UNCHANGED <<campaign, queue, suppressed, mails>>
    BY DEF CreateRows, In
<1>2. PICK c \in Campaigns : c = Of(w) BY <1>1, AtWork
<1>3. PICK L \in SUBSET Recipients : L = Listed(c) BY DEF Listed
<1>4. Turns(w, "check", L, L, {}, {}, 0)
    <2>1. run \in [Workers -> RunType] BY DEF TypeInv
    <2>2. PICK x \in RunType : x = run[w] BY <2>1
    <2>3. x.chunk.send = {} /\ x.chunk.mark = {} /\ x.sent = 0 /\ x.pc = "resolve"
        <3>1. Hand(run[w]) BY <1>1, AtWork
        <3>2. x.chunk = [send |-> {}, mark |-> {}] /\ x.sent = 0 /\ x.pc = "resolve"
            BY <1>1, <2>2, <3>1 DEF Hand, NoChunk
        <3> QED  BY <3>2
    <2>4. x = Slot(x.pc, x.job, x.list, x.left, {}, {}, 0) BY <2>3, Slots
    <2>5. PICK y1 : y1 = Slot("check", x.job, x.list, x.left, {}, {}, 0) OBVIOUS
    <2>6. [x EXCEPT !.pc = "check"] = y1 BY <2>4, <2>5 DEF Slot
    <2>7. PICK y2 : y2 = Slot("check", x.job, L, x.left, {}, {}, 0) OBVIOUS
    <2>8. [y1 EXCEPT !.list = L] = y2 BY <2>5, <2>7 DEF Slot
    <2>9. PICK y3 : y3 = Slot("check", x.job, L, L, {}, {}, 0) OBVIOUS
    <2>a. [y2 EXCEPT !.left = L] = y3 BY <2>7, <2>9 DEF Slot
    <2>b. PICK f : f = [run EXCEPT ![w].pc = "check"] OBVIOUS
    <2>c. f = [run EXCEPT ![w] = y1] BY <2>1, <2>2, <2>6, <2>b
    <2>d. PICK g : g = [f EXCEPT ![w].list = L] OBVIOUS
    <2>e. g = [run EXCEPT ![w] = y2] BY <2>1, <2>c, <2>d, <2>8
    <2>f. run' = [g EXCEPT ![w].left = L] BY <1>2, <1>3, <2>b, <2>d DEF CreateRows
    <2>g. run' = [run EXCEPT ![w] = y3] BY <2>1, <2>e, <2>f, <2>a
    <2>h. run' = [run EXCEPT ![w] = Slot("check", run[w].job, L, L, {}, {}, 0)] BY <2>2, <2>9, <2>g
    <2> QED  BY <2>h, Turning
<1>5. /\ rows' \in [Campaigns -> [Recipients -> SUBSET Outcomes]]
      /\ \A d \in Campaigns, r \in Recipients :
            rows'[d][r] = IF d = c /\ r \in Listed(d) THEN rows[d][r] \cup {"pending"} ELSE rows[d][r]
  BY <1>2, <1>3 DEF TypeInv, If, Outcomes, CreateRows
<1>6. PICK M1 : M1 = If(Busy(w) \/ \E r \in Recipients : mails[c][r] > 0, "rerun") OBVIOUS
<1>7. PICK M2 : M2 = If(Busy(w) \/ \E r \in Recipients : rows[c][r] # {}, "relisted") OBVIOUS
<1>8. PICK M : M = M1 \cup M2 OBVIOUS
<1>9. M1 \subseteq {"rerun"} /\ ("rerun" \in M1 <=> Busy(w) \/ \E r \in Recipients : mails[c][r] > 0)
    BY <1>6 DEF If
<1>a. M2 \subseteq {"relisted"} /\ ("relisted" \in M2 <=> Busy(w) \/ \E r \in Recipients : rows[c][r] # {})
    BY <1>7 DEF If
<1>b. M \in SUBSET {"rerun", "relisted"} /\ M \subseteq Marks BY <1>8, <1>9, <1>a DEF Marks
<1>c. tally' = Mark(tally, c, M) BY <1>2, <1>6, <1>7, <1>8 DEF CreateRows, Busy
<1>d. Tells(c, M) BY <1>b, <1>c, Telling
<1>e. ("rerun" \in M <=> "rerun" \in M1) /\ ("relisted" \in M <=> "relisted" \in M2) BY <1>8, <1>9, <1>a
<1>f. \E K \in SUBSET {"rerun", "relisted"} :
          /\ Tells(c, K)
          /\ "rerun" \in K <=> Busy(w) \/ \E r \in Recipients : mails[c][r] > 0
          /\ "relisted" \in K <=> Busy(w) \/ \E r \in Recipients : rows[c][r] # {}
    BY <1>9, <1>a, <1>b, <1>d, <1>e
<1> QED  BY <1>1, <1>2, <1>3, <1>4, <1>5, <1>f DEF Creates

\* One part of what a slot holds changes.
Puts(f, g, w, y) == g \in [Workers -> RunType] /\ g[w] = y /\ \A v \in Workers \ {w} : g[v] = f[v]
\* Where it is.
LEMMA PutPc ==
    ASSUME NEW f \in [Workers -> RunType], NEW w \in Workers, NEW g,
           NEW pc \in {"idle", "load", "begin", "resolve", "check", "send"}, g = [f EXCEPT ![w].pc = pc]
    PROVE  Puts(f, g, w, Slot(pc, f[w].job, f[w].list, f[w].left, f[w].chunk.send, f[w].chunk.mark, f[w].sent))
  BY Slots DEF Slot, RunType, Puts
\* Who is left.
LEMMA PutLeft ==
    ASSUME NEW f \in [Workers -> RunType], NEW w \in Workers, NEW g,
           NEW L \in SUBSET Recipients, g = [f EXCEPT ![w].left = L]
    PROVE  Puts(f, g, w, Slot(f[w].pc, f[w].job, f[w].list, L, f[w].chunk.send, f[w].chunk.mark, f[w].sent))
  BY Slots DEF Slot, RunType, Puts
\* How many were sent to.
LEMMA PutSent ==
    ASSUME NEW f \in [Workers -> RunType], NEW w \in Workers, NEW g,
           NEW n \in Nat, g = [f EXCEPT ![w].sent = n]
    PROVE  Puts(f, g, w, Slot(f[w].pc, f[w].job, f[w].list, f[w].left, f[w].chunk.send, f[w].chunk.mark, n))
  BY Slots DEF Slot, RunType, Puts
\* Its chunk, or a part of that.
LEMMA PutChunk ==
    ASSUME NEW f \in [Workers -> RunType], NEW w \in Workers, NEW g,
           NEW S \in SUBSET Recipients, NEW M \in SUBSET Recipients,
           \/ g = [f EXCEPT ![w].chunk = [send |-> S, mark |-> M]]
           \/ g = [f EXCEPT ![w].chunk.send = S] /\ M = f[w].chunk.mark
           \/ g = [f EXCEPT ![w].chunk.mark = M] /\ S = f[w].chunk.send
    PROVE  Puts(f, g, w, Slot(f[w].pc, f[w].job, f[w].list, f[w].left, S, M, f[w].sent))
<1>1. PICK x \in RunType : x = f[w] OBVIOUS
<1>2. PICK k \in ChunkType : k = x.chunk BY DEF RunType
<1>3. PICK h \in ChunkType : h = [send |-> S, mark |-> M] BY DEF ChunkType
<1>4. PICK y : y = Slot(x.pc, x.job, x.list, x.left, S, M, x.sent) OBVIOUS
<1>5. [x EXCEPT !.chunk = h] = y BY <1>3, <1>4 DEF RunType, Slot
<1>6. y \in RunType BY <1>5 DEF RunType
<1>7. g = [f EXCEPT ![w].chunk = h]
    <2>1. CASE g = [f EXCEPT ![w].chunk = [send |-> S, mark |-> M]] BY <1>3, <2>1
    <2>2. CASE g = [f EXCEPT ![w].chunk.send = S] /\ M = f[w].chunk.mark
        <3>1. [k EXCEPT !.send = S] = h BY <1>1, <1>2, <1>3, <2>2 DEF ChunkType
        <3> QED  BY <1>1, <1>2, <2>2, <3>1
    <2>3. CASE g = [f EXCEPT ![w].chunk.mark = M] /\ S = f[w].chunk.send BY <1>1, <1>2, <1>3, <2>3 DEF ChunkType
    <2> QED  BY <2>1, <2>2, <2>3
<1>8. g = [f EXCEPT ![w] = y] BY <1>1, <1>5, <1>7
<1> QED  BY <1>1, <1>4, <1>6, <1>8 DEF Puts

\* Two changes one after the other, and what is held afterwards.
LEMMA PutTwice ==
    ASSUME NEW f, NEW g, NEW h, NEW w \in Workers, NEW x, NEW y, Puts(f, g, w, x), Puts(g, h, w, y)
    PROVE  Puts(f, h, w, y)
BY DEF Puts
\* A slot written out holds what was written.
LEMMA Held ==
    \A pc, job, list, left, send, mark, sent :
        LET y == Slot(pc, job, list, left, send, mark, sent)
        IN  /\ y.pc = pc /\ y.job = job /\ y.list = list /\ y.left = left
            /\ y.chunk.send = send /\ y.chunk.mark = mark /\ y.sent = sent
BY DEF Slot
\* A slot that was put turns to what was put there.
LEMMA PutTurns ==
    ASSUME NEW w \in Workers, NEW pc, NEW list, NEW left, NEW send, NEW mark, NEW sent,
           Puts(run, run', w, Slot(pc, run[w].job, list, left, send, mark, sent))
    PROVE  Turns(w, pc, list, left, send, mark, sent)
  BY Held DEF Puts, Turns, Only

\* A run between two chunks, and one that sends, have these in their hands.
LEMMA InHandOf ==
    ASSUME TypeInv, HandInv, NEW w \in Workers
    PROVE  /\ run[w] \in RunType /\ run \in [Workers -> RunType]
           /\ run[w].left \subseteq run[w].list /\ run[w].list \subseteq Recipients
           /\ run[w].chunk.send \subseteq First(CHUNK_SIZE, run[w].left)
           /\ run[w].chunk.mark \subseteq First(CHUNK_SIZE, run[w].left)
           /\ First(CHUNK_SIZE, run[w].left) \subseteq run[w].left
           /\ run[w].chunk.send \cap run[w].chunk.mark = {}
           /\ run[w].pc # "send" => run[w].chunk.send = {} /\ run[w].chunk.mark = {}
<1>1. run \in [Workers -> RunType] /\ run[w] \in RunType BY DEF TypeInv
<1>2. Hand(run[w]) BY DEF HandInv
<1>3. run[w].list \subseteq Recipients /\ run[w].left \subseteq Recipients BY <1>1, Slots
<1>4. First(CHUNK_SIZE, run[w].left) \subseteq run[w].left BY <1>3, Chunks, Sizes
<1> QED  BY <1>1, <1>2, <1>3, <1>4 DEF Hand, NoChunk

\* It takes the next chunk.
Takes(w, told, allowed, dropped) ==
    /\ dropped \subseteq allowed /\ allowed \subseteq First(CHUNK_SIZE, run[w].left)
    /\ Turns(w, "send", run[w].list, run[w].left, allowed \ dropped, {}, run[w].sent)
    /\ told => /\ Rewrites(Of(w), dropped, "suppressed")
               /\ Tells(Of(w), If(allowed # First(CHUNK_SIZE, run[w].left), "cut"))
    /\ ~told => rows' = rows /\ \E M \in SUBSET {"lost", "cut"} : "lost" \in M /\ Tells(Of(w), M)
\* That is what TakeChunk does.
LEMMA Taking ==
    ASSUME TypeInv, HandInv, NEW w \in Workers, NEW remaining \in 1..CHUNK_SIZE, NEW told \in BOOLEAN,
           TakeChunk(w, remaining, told)
    PROVE  /\ run[w].pc = "check" /\ run[w].left # {} /\ ~Stopped(Of(w)) /\ Of(w) \in Campaigns
           /\ \E allowed, dropped : Takes(w, told, allowed, dropped)
           /\ UNCHANGED <<campaign, queue, suppressed, mails>>
<1>1. run[w].pc = "check" /\ run[w].left # {} /\ ~Stopped(Of(w)) /\ UNCHANGED <<campaign, queue, suppressed, mails>>
    BY DEF TakeChunk, NextChunk, In
<1>2. PICK c \in Campaigns : c = Of(w) BY <1>1, AtWork
<1>3. PICK n \in Nat : n = IF remaining < CHUNK_SIZE THEN remaining ELSE CHUNK_SIZE BY Sizes
<1>4. n <= CHUNK_SIZE BY <1>3, Sizes
<1>5. PICK allowed : allowed = First(n, run[w].left) OBVIOUS
<1>6. run[w].left \subseteq Recipients BY InHandOf
<1>7. allowed \subseteq First(CHUNK_SIZE, run[w].left) BY <1>4, <1>5, <1>6, Sizes, Chunks
<1>8. allowed \subseteq Recipients BY <1>5, <1>6, Chunks
<1>9. PICK dropped : dropped = allowed \cap Recheck(w) OBVIOUS
<1>a. PICK S \in SUBSET Recipients : S = allowed \ dropped BY <1>8
<1>b. Turns(w, "send", run[w].list, run[w].left, S, {}, run[w].sent)
    <2>1. run \in [Workers -> RunType] /\ run[w].chunk.mark = {} BY <1>1, InHandOf
    <2>2. PICK f : f = [run EXCEPT ![w].pc = "send"] OBVIOUS
    <2>3. Puts(run, f, w, Slot("send", run[w].job, run[w].list, run[w].left, run[w].chunk.send, {}, run[w].sent))
        BY <2>1, <2>2, PutPc
    <2>4. f \in [Workers -> RunType] BY <2>3 DEF Puts
    <2>5. /\ f[w].pc = "send" /\ f[w].job = run[w].job /\ f[w].list = run[w].list /\ f[w].left = run[w].left
          /\ f[w].chunk.mark = {} /\ f[w].sent = run[w].sent
        BY <2>3, Held DEF Puts
    <2>6. PICK g : g = run' OBVIOUS
    <2>7. g = [f EXCEPT ![w].chunk.send = S] BY <1>3, <1>5, <1>9, <1>a, <2>2, <2>6 DEF TakeChunk, Slice
    <2>8. Puts(f, g, w, Slot("send", run[w].job, run[w].list, run[w].left, S, {}, run[w].sent))
        BY <2>4, <2>5, <2>7, PutChunk
    <2>9. Puts(run, g, w, Slot("send", run[w].job, run[w].list, run[w].left, S, {}, run[w].sent))
        BY <2>3, <2>8, PutTwice
    <2> QED  BY <2>6, <2>9, PutTurns
<1>c. ASSUME told
      PROVE  Rewrites(c, dropped, "suppressed") /\ Tells(c, If(allowed # First(CHUNK_SIZE, run[w].left), "cut"))
  BY <1>2, <1>3, <1>5, <1>9, <1>c, Rewriting, Telling DEF TakeChunk, Slice, If, Marks, Outcomes
<1>d. ASSUME ~told PROVE rows' = rows /\ \E M \in SUBSET {"lost", "cut"} : "lost" \in M /\ Tells(c, M)
  BY <1>d, <1>2, <1>3, <1>5, Telling DEF TakeChunk, Slice, If, Marks
<1>e. dropped \subseteq allowed BY <1>9
<1>f. Takes(w, told, allowed, dropped) BY <1>2, <1>7, <1>a, <1>b, <1>c, <1>d, <1>e DEF Takes
<1> QED  BY <1>1, <1>2, <1>f

\* A recipient of the chunk is done with: the provider took the mail, its row
\* says so, or it says that it was refused.
LEMMA Accepting ==
    ASSUME TypeInv, HandInv, NEW w \in Workers, NEW r \in Recipients, Accepts(w, r)
    PROVE  /\ run[w].pc = "send" /\ Of(w) \in Campaigns /\ r \in run[w].chunk.send
           /\ Turns(w, "send", run[w].list, run[w].left, run[w].chunk.send \ {r}, run[w].chunk.mark \cup {r},
                    run[w].sent)
           /\ Posts(Of(w), r) /\ Counts(Of(w), {}) /\ UNCHANGED <<campaign, rows, queue, suppressed>>
<1>1. r \in run[w].chunk.send /\ UNCHANGED <<campaign, rows, queue, suppressed>> BY DEF Accepts
<1>2. run[w].pc = "send" BY <1>1, InHandOf
<1>3. Of(w) \in Campaigns BY <1>2, AtWork
<1>4. Posts(Of(w), r) /\ Counts(Of(w), {}) BY <1>3, Posting, Counting DEF Accepts
<1>5. PICK S \in SUBSET Recipients, M \in SUBSET Recipients :
         S = run[w].chunk.send \ {r} /\ M = run[w].chunk.mark \cup {r}
    BY InHandOf
<1>6. run \in [Workers -> RunType] BY InHandOf
<1>7. PICK f : f = [run EXCEPT ![w].chunk.send = S] OBVIOUS
<1>8. PICK g : g = run' OBVIOUS
<1>9. run[w].chunk.mark \subseteq Recipients BY <1>6, Slots
<1>a. Puts(run, f, w, Slot("send", run[w].job, run[w].list, run[w].left, S, run[w].chunk.mark, run[w].sent))
    BY <1>2, <1>6, <1>7, <1>9, PutChunk
<1>b. f \in [Workers -> RunType] BY <1>a DEF Puts
<1>c. /\ f[w].pc = "send" /\ f[w].job = run[w].job /\ f[w].list = run[w].list /\ f[w].left = run[w].left
      /\ f[w].chunk.send = S /\ f[w].sent = run[w].sent /\ f[w].chunk.mark = run[w].chunk.mark
    BY <1>a, Held DEF Puts
<1>d. g = [f EXCEPT ![w].chunk.mark = M] BY <1>8, <1>5, <1>7, <1>b, <1>c DEF Accepts
<1>e. Puts(f, g, w, Slot("send", run[w].job, run[w].list, run[w].left, S, M, run[w].sent))
    BY <1>b, <1>c, <1>d, PutChunk
<1>f. Puts(run, g, w, Slot("send", run[w].job, run[w].list, run[w].left, S, M, run[w].sent))
    BY <1>a, <1>e, PutTwice
<1>g. Turns(w, "send", run[w].list, run[w].left, S, M, run[w].sent) BY <1>8, <1>f, PutTurns
<1> QED  BY <1>1, <1>2, <1>3, <1>4, <1>5, <1>g

\* Its row says that the mail was sent.
LEMMA MarkingSent ==
    ASSUME TypeInv, HandInv, NEW w \in Workers, NEW r \in Recipients, MarkSent(w, r)
    PROVE  /\ run[w].pc = "send" /\ Of(w) \in Campaigns /\ r \in run[w].chunk.mark
           /\ Turns(w, "send", run[w].list, run[w].left, run[w].chunk.send, run[w].chunk.mark \ {r},
                    run[w].sent + 1)
           /\ Rewrites(Of(w), {r}, "sent") /\ UNCHANGED <<campaign, queue, suppressed, mails, tally>>
<1>1. r \in run[w].chunk.mark /\ UNCHANGED <<campaign, queue, suppressed, mails, tally>> BY DEF MarkSent
<1>2. run[w].pc = "send" BY <1>1, InHandOf
<1>3. Of(w) \in Campaigns BY <1>2, AtWork
<1>4. Rewrites(Of(w), {r}, "sent") BY <1>3, Rewriting DEF MarkSent, Outcomes
<1>5. PICK M \in SUBSET Recipients : M = run[w].chunk.mark \ {r} BY InHandOf
<1>6. run \in [Workers -> RunType] BY InHandOf
<1>7. PICK f : f = [run EXCEPT ![w].chunk.mark = M] OBVIOUS
<1>8. PICK g : g = run' OBVIOUS
<1>9. run[w].chunk.send \subseteq Recipients /\ run[w].sent \in Nat BY <1>6, Slots
<1>a. Puts(run, f, w, Slot("send", run[w].job, run[w].list, run[w].left, run[w].chunk.send, M, run[w].sent))
    BY <1>2, <1>6, <1>7, <1>9, PutChunk
<1>b. f \in [Workers -> RunType] BY <1>a DEF Puts
<1>c. /\ f[w].pc = "send" /\ f[w].job = run[w].job /\ f[w].list = run[w].list /\ f[w].left = run[w].left
      /\ f[w].chunk.send = run[w].chunk.send /\ f[w].sent = run[w].sent /\ f[w].chunk.mark = M
    BY <1>a, Held DEF Puts
<1>n. PICK n \in Nat : n = run[w].sent + 1 BY <1>9
<1>d. g = [f EXCEPT ![w].sent = n] BY <1>8, <1>5, <1>7, <1>n, <1>b, <1>c DEF MarkSent
<1>e. Puts(f, g, w, Slot("send", run[w].job, run[w].list, run[w].left, run[w].chunk.send, M, n))
    BY <1>b, <1>c, <1>d, PutSent
<1>f. Puts(run, g, w, Slot("send", run[w].job, run[w].list, run[w].left, run[w].chunk.send, M, n))
    BY <1>a, <1>e, PutTwice
<1>g. Turns(w, "send", run[w].list, run[w].left, run[w].chunk.send, M, n) BY <1>8, <1>f, PutTurns
<1> QED  BY <1>1, <1>2, <1>3, <1>4, <1>5, <1>n, <1>g

\* Its row says that the transport refused it.
LEMMA Refusing ==
    ASSUME TypeInv, HandInv, NEW w \in Workers, NEW r \in Recipients, Refuses(w, r)
    PROVE  /\ run[w].pc = "send" /\ Of(w) \in Campaigns /\ r \in run[w].chunk.send
           /\ Turns(w, "send", run[w].list, run[w].left, run[w].chunk.send \ {r}, run[w].chunk.mark, run[w].sent)
           /\ Rewrites(Of(w), {r}, "failed") /\ UNCHANGED <<campaign, queue, suppressed, mails, tally>>
  BY InHandOf, AtWork, Rewriting, Slots, PutChunk, PutTurns DEF Refuses, Outcomes

\* Nobody knows what came of a mail, or it could not be written down.
Loses(w, r) ==
    /\ run[w].pc = "send" /\ Of(w) \in Campaigns /\ r \in run[w].chunk.send \cup run[w].chunk.mark
    /\ Turns(w, "send", run[w].list, run[w].left, run[w].chunk.send \ {r}, run[w].chunk.mark \ {r},
             run[w].sent)
    /\ rows' = rows \/ Rewrites(Of(w), {r}, "failed")
    /\ \/ r \in run[w].chunk.send /\ Posts(Of(w), r) /\ Counts(Of(w), {"lost"})
       \/ mails' = mails /\ Tells(Of(w), {"lost"})
    /\ UNCHANGED <<campaign, queue, suppressed>>
\* That is what LosesTrack does.
LEMMA LosingTrack ==
    ASSUME TypeInv, HandInv, NEW w \in Workers, NEW r \in Recipients, NEW taken \in BOOLEAN, NEW s,
           LosesTrack(w, r, taken, s)
    PROVE  Loses(w, r)
  BY InHandOf, AtWork, Rewriting, PutChunk, PutTurns, Posting, Counting, Telling DEF LosesTrack, Outcomes,
     RunType, Marks, Loses

\* The chunk is through.
LEMMA Saving ==
    ASSUME TypeInv, HandInv, NEW w \in Workers, SaveProgress(w)
    PROVE  /\ run[w].pc = "send" /\ Of(w) \in Campaigns /\ Row(Of(w))
           /\ run[w].chunk.send = {} /\ run[w].chunk.mark = {}
           /\ Turns(w, "check", run[w].list, run[w].left \ First(CHUNK_SIZE, run[w].left), {}, {}, run[w].sent)
           /\ Writes(Of(w), campaign[Of(w)].status) /\ UNCHANGED <<rows, queue, suppressed, mails, tally>>
<1>1. /\ run[w].pc = "send" /\ Row(Of(w)) /\ run[w].chunk = NoChunk
      /\ UNCHANGED <<rows, queue, suppressed, mails, tally>>
    BY DEF SaveProgress, In
<1>2. PICK c \in Campaigns : c = Of(w) BY <1>1, AtWork
<1>3. run[w].chunk.send = {} /\ run[w].chunk.mark = {} BY <1>1 DEF NoChunk
<1>4. run \in [Workers -> RunType] /\ run[w].sent \in Nat BY InHandOf, Slots
<1>5. PICK L \in SUBSET Recipients : L = Step(w) BY InHandOf DEF Step
<1>6. PICK f : f = [run EXCEPT ![w].pc = "check"] OBVIOUS
<1>7. Puts(run, f, w, Slot("check", run[w].job, run[w].list, run[w].left, {}, {}, run[w].sent))
    BY <1>3, <1>4, <1>6, PutPc
<1>8. f \in [Workers -> RunType] BY <1>7 DEF Puts
<1>9. /\ f[w].pc = "check" /\ f[w].job = run[w].job /\ f[w].list = run[w].list
      /\ f[w].chunk.send = {} /\ f[w].sent = run[w].sent /\ f[w].chunk.mark = {}
    BY <1>7, Held DEF Puts
<1>a. PICK g : g = run' OBVIOUS
<1>b. g = [f EXCEPT ![w].left = L] BY <1>5, <1>6, <1>a DEF SaveProgress
<1>c. Puts(f, g, w, Slot("check", run[w].job, run[w].list, L, {}, {}, run[w].sent)) BY <1>8, <1>9, <1>b, PutLeft
<1>d. Puts(run, g, w, Slot("check", run[w].job, run[w].list, L, {}, {}, run[w].sent)) BY <1>7, <1>c, PutTwice
<1>e. Turns(w, "check", run[w].list, L, {}, {}, run[w].sent) BY <1>a, <1>d, PutTurns
<1>f. Writes(c, campaign[c].status) BY <1>4, <1>2 DEF TypeInv, RowType, SaveProgress, Writes
<1>g. L = run[w].left \ First(CHUNK_SIZE, run[w].left) BY <1>5 DEF Step, Slice
<1> QED  BY <1>1, <1>2, <1>3, <1>e, <1>f, <1>g

\* The campaign is sent.
LEMMA Closing ==
    ASSUME TypeInv, HandInv, NEW w \in Workers, MarkCampaignSent(w)
    PROVE  /\ run[w].pc = "check" /\ run[w].left = {} /\ Of(w) \in Campaigns /\ Row(Of(w))
           /\ Rests(w) /\ DOMAIN queue' \subseteq Jobs
           /\ Writes(Of(w), "sent") /\ campaign'[Of(w)].sentCount = run[w].sent /\ Tells(Of(w), Over(Of(w)))
           /\ UNCHANGED <<rows, suppressed, mails>>
<1>1. /\ run[w].pc = "check" /\ run[w].left = {} /\ Row(Of(w)) /\ Done(w)
      /\ UNCHANGED <<rows, suppressed, mails>>
    BY DEF MarkCampaignSent, LastChunk, In
<1>2. PICK c \in Campaigns : c = Of(w) BY <1>1, AtWork
<1>3. Rests(w) /\ DOMAIN queue' \subseteq Jobs BY <1>1, Ending
<1>4. tally' = Mark(tally, c, Over(c)) BY <1>2 DEF MarkCampaignSent
<1>5. Tells(c, Over(c)) BY <1>4, OverMarks, Telling
<1>6. PICK n \in Nat : n = run[w].sent BY InHandOf, Slots
<1>7. campaign \in [Campaigns -> RowType] BY DEF TypeInv
<1>8. PICK x \in RowType : x = campaign[c] BY <1>7
<1>9. PICK y : y = [status |-> "sent", excluded |-> x.excluded, sentCount |-> n] OBVIOUS
<1>a. y \in RowType BY <1>9 DEF RowType, Status
<1>b. campaign' = [campaign EXCEPT ![c] = y]
    <2>1. PICK z : z = [x EXCEPT !.status = "sent"] OBVIOUS
    <2>2. z = [status |-> "sent", excluded |-> x.excluded, sentCount |-> x.sentCount] BY <2>1 DEF RowType
    <2>3. [z EXCEPT !.sentCount = n] = y BY <1>9, <2>2
    <2>4. PICK f : f = [campaign EXCEPT ![c].status = "sent"] OBVIOUS
    <2>5. f = [campaign EXCEPT ![c] = z] BY <1>7, <1>8, <2>1, <2>4
    <2>6. campaign' = [f EXCEPT ![c].sentCount = n] BY <1>2, <1>6, <2>4 DEF MarkCampaignSent
    <2> QED  BY <1>7, <2>3, <2>5, <2>6
<1>c. Writes(c, "sent") /\ campaign'[c].sentCount = n BY <1>7, <1>8, <1>9, <1>a, <1>b DEF Writes
<1> QED  BY <1>1, <1>2, <1>3, <1>5, <1>6, <1>c

\* A run ends and nothing is written: it finds the campaign cancelled, a call
\* throws, or the process dies.
Stumbles(w) ==
    /\ run[w].pc # "idle" /\ Of(w) \in Campaigns /\ Rests(w) /\ DOMAIN queue' \subseteq Jobs
    /\ \E M \in SUBSET {"lost", "gaveUp"} : Tells(Of(w), M)
    /\ UNCHANGED <<campaign, rows, suppressed, mails>>
\* That is how a run ends that writes nothing.
LEMMA Stumbling ==
    ASSUME TypeInv, HandInv, NEW w \in Workers, StopCancelled(w) \/ CallThrows(w) \/ WorkerCrash(w)
    PROVE  Stumbles(w)
  BY AtWork, Ending, Leaving, Telling DEF StopCancelled, NextChunk, CallThrows, WorkerCrash, In, TypeInv,
     GaveUp, If, Marks, Stumbles

\* There are finitely many slots, and what they have in hand is theirs.
LEMMA WorkersFinite ==
    /\ IsFiniteSet(Workers) /\ Cardinality(Workers) \in Nat /\ IsFiniteSet(Workers \X Recipients)
    /\ IsFiniteSet(Workers \X (1..CHUNK_SIZE))
    /\ Cardinality(Workers \X (1..CHUNK_SIZE)) = CHUNK_SIZE * Cardinality(Workers)
<1>1. IsFiniteSet(Workers) /\ Cardinality(Workers) \in Nat BY CampaignAssumption, FS_CardinalityType
<1>2. IsFiniteSet(Workers \X Recipients) BY <1>1, RecipientsFinite, FS_Product
<1>3. IsFiniteSet(1..CHUNK_SIZE) /\ Cardinality(1..CHUNK_SIZE) = CHUNK_SIZE BY Sizes, FS_Interval
<1>4. /\ IsFiniteSet(Workers \X (1..CHUNK_SIZE))
      /\ Cardinality(Workers \X (1..CHUNK_SIZE)) = Cardinality(Workers) * Cardinality(1..CHUNK_SIZE)
    BY <1>1, <1>3, FS_Product
<1>5. PICK k \in Nat, n \in Nat : k = CHUNK_SIZE /\ n = Cardinality(Workers) BY <1>1, Sizes
<1>6. n * k = k * n BY <1>5
<1> QED  BY <1>1, <1>2, <1>3, <1>4, <1>5, <1>6

\* What runs hold of a campaign.
Handed(g, c) == {z \in Workers \X Recipients : g[z[1]].job[1] = c /\ z[2] \in g[z[1]].chunk.send}
\* It is what the runs have in hand one by one, and finite.
LEMMA HandedOf ==
    ASSUME NEW g \in [Workers -> RunType], NEW c
    PROVE  /\ UNION {{w} \X (IF g[w].job[1] = c THEN g[w].chunk.send ELSE {}) : w \in Workers} = Handed(g, c)
           /\ IsFiniteSet(Handed(g, c)) /\ Cardinality(Handed(g, c)) \in Nat
<1> DEFINE H(w) == IF g[w].job[1] = c THEN g[w].chunk.send ELSE {}
           U    == UNION {{w} \X H(w) : w \in Workers}
<1>1. \A w \in Workers : g[w].chunk.send \subseteq Recipients BY Slots
<1>2. \A z \in U : z \in Handed(g, c)
    <2> TAKE z \in U
    <2>1. PICK w \in Workers : z \in {w} \X H(w) OBVIOUS
    <2>2. PICK r \in H(w) : z = <<w, r>> BY <2>1
    <2>3. g[w].job[1] = c /\ r \in g[w].chunk.send BY <2>2
    <2> QED  BY <1>1, <2>2, <2>3 DEF Handed
<1>3. ASSUME NEW w \in Workers, NEW r \in Recipients, g[w].job[1] = c, r \in g[w].chunk.send
      PROVE  <<w, r>> \in U
  BY <1>3
<1>4. U = Handed(g, c) BY <1>2, <1>3 DEF Handed
<1>5. IsFiniteSet(Handed(g, c)) BY WorkersFinite, FS_Subset DEF Handed
<1> QED  BY <1>4, <1>5, FS_CardinalityType
\* InHands is that of the runs as they are.
LEMMA InHandsAre ==
    ASSUME TypeInv, NEW c PROVE InHands(c) = Handed(run, c) /\ Cardinality(InHands(c)) \in Nat
  BY HandedOf DEF TypeInv, InHands, InHand

\* What a route has done once it answers.
Commits(route, c) ==
    /\ Row(c) /\ \E s \in Written[route] : Writes(c, s)
    /\ route # "delete" => rows' = rows
    /\ route = "delete" =>
          /\ rows' \in [Campaigns -> [Recipients -> SUBSET Outcomes]]
          /\ \A d \in Campaigns, r \in Recipients : rows'[d][r] = IF d = c THEN {} ELSE rows[d][r]
    /\ tally' \in TallyType /\ \A d \in Campaigns :
          /\ tally.marred[d] \subseteq tally'.marred[d]
          /\ tally'.marred[d] \subseteq tally.marred[d] \cup {"overwritten", "jobless"}
          /\ d # c \/ route \in {"send", "resume"} => tally'.inHand[d] = tally.inHand[d]
    /\ route = "cancel" => tally'.inHand[c] = Cardinality(InHands(c))
    /\ route = "delete" => tally'.inHand[c] = tally.inHand[c] + CHUNK_SIZE * Cardinality(Workers)
    /\ DOMAIN queue' \subseteq Jobs /\ UNCHANGED <<suppressed, run, mails>>

\* A resume is counted.
LEMMA Resuming ==
    ASSUME TypeInv, NEW c \in Campaigns, NEW route, NEW t, t = Counted(route, c)
    PROVE  t \in TallyType /\ t.marred = tally.marred /\ t.inHand = tally.inHand
<1>1. tally \in TallyType BY DEF TypeInv
<1>2. PICK f \in [Campaigns -> Nat] : f = tally.resumes BY <1>1 DEF TallyType
<1>3. PICK n \in Nat : n = f[c] + IF route = "resume" THEN 1 ELSE 0 OBVIOUS
<1>4. PICK g \in [Campaigns -> Nat] : g = [f EXCEPT ![c] = n] OBVIOUS
<1>5. t = [tally EXCEPT !.resumes = g] BY <1>1, <1>2, <1>3, <1>4 DEF Counted, TallyType
<1>6. t = [marred |-> tally.marred, resumes |-> g, inHand |-> tally.inHand, events |-> tally.events,
           trouble |-> tally.trouble]
    BY <1>1, <1>5 DEF TallyType
<1> QED  BY <1>1, <1>6 DEF TallyType

\* What a campaign may still mail is set.
LEMMA HandSet ==
    ASSUME NEW t \in TallyType, NEW c \in Campaigns, NEW n \in Int, NEW u, u = [t EXCEPT !.inHand[c] = n]
    PROVE  /\ u \in TallyType /\ u.marred = t.marred /\ u.inHand[c] = n
           /\ \A d \in Campaigns \ {c} : u.inHand[d] = t.inHand[d]
  BY DEF TallyType

\* The queue after a route.
LEMMA Requeuing ==
    ASSUME TypeInv, NEW c \in Campaigns, NEW route \in DOMAIN Allowed,
           route = "resume" => tally.resumes[c] < MaxResumes, queue' = Requeued(route, c)
    PROVE  DOMAIN queue' \subseteq Jobs
<1>1. PICK q : q = queue OBVIOUS
<1>2. DOMAIN q \subseteq Jobs BY <1>1 DEF TypeInv
<1>3. PICK i : i = <<c, 0>> OBVIOUS
<1>4. i \in Jobs BY <1>3, CampaignAssumption DEF Jobs
<1>5. PICK n \in Nat : n = tally.resumes[c] BY DEF TypeInv, TallyType
<1>6. PICK j : j = <<c, n + 1>> OBVIOUS
<1>7. ASSUME route = "resume" PROVE j \in Jobs BY <1>5, <1>6, <1>7, CampaignAssumption DEF Jobs
<1>8. PICK d : d = [attempts |-> 0] OBVIOUS
<1>9. queue' = Add(q, i, d) \/ queue' = Discard(q, i) \/ queue' = q \/ (route = "resume" /\ queue' = Add(q, j, d))
    BY <1>1, <1>3, <1>5, <1>6, <1>8 DEF Requeued, ResumeJob
<1>a. DOMAIN Add(q, i, d) \subseteq Jobs /\ DOMAIN Discard(q, i) \subseteq Jobs BY <1>2, <1>4, Queues
<1>b. route = "resume" => DOMAIN Add(q, j, d) \subseteq Jobs BY <1>2, <1>7, Queues
<1> QED  BY <1>2, <1>9, <1>a, <1>b

\* That is what Commit does.
LEMMA Committing ==
    ASSUME TypeInv, NEW p, NEW c \in Campaigns, NEW route \in DOMAIN Allowed, Commit(p, route, c)
    PROVE  Commits(route, c)
<1>1. Row(c) /\ UNCHANGED <<suppressed, run, mails>> BY DEF Commit
<1>2. \E s \in Written[route] : Writes(c, s) BY Writing DEF Commit, Written, Allowed, Status
<1>3. route # "delete" => rows' = rows BY DEF Commit
<1>4. ASSUME route = "delete"
      PROVE  /\ rows' \in [Campaigns -> [Recipients -> SUBSET Outcomes]]
             /\ \A d \in Campaigns, r \in Recipients : rows'[d][r] = IF d = c THEN {} ELSE rows[d][r]
  BY <1>4 DEF TypeInv, Commit
<1>5. DOMAIN queue' \subseteq Jobs BY Requeuing DEF Commit
<1>6. PICK t : t = Counted(route, c) OBVIOUS
<1>7. t \in TallyType /\ t.marred = tally.marred /\ t.inHand = tally.inHand BY <1>6, Resuming
<1>8. PICK u : u = tally' OBVIOUS
<1>9. u = Judged(t, route, c) BY <1>6, <1>8 DEF Commit
<1>a. t.inHand[c] \in Int BY <1>7 DEF TallyType
<1>b. PICK k \in Nat : k = CHUNK_SIZE * Cardinality(Workers) BY WorkersFinite, Sizes
<1>c. PICK h \in Nat : h = Cardinality(InHands(c)) BY InHandsAre
<1>d. /\ u \in TallyType
      /\ \A d \in Campaigns : /\ t.marred[d] \subseteq u.marred[d]
                              /\ u.marred[d] \subseteq t.marred[d] \cup {"overwritten", "jobless"}
                              /\ d # c \/ route \in {"send", "resume"} => u.inHand[d] = t.inHand[d]
      /\ route = "cancel" => u.inHand[c] = h
      /\ route = "delete" => u.inHand[c] = t.inHand[c] + k
    <2>1. CASE route \in {"send", "resume"}
        <3>1. PICK M : M = IF route = "send"
                           THEN Over(c) \cup If(Has(queue, <<c, 0>>) /\ ~Live(queue, <<c, 0>>), "jobless")
                           ELSE Over(c)
            OBVIOUS
        <3>2. M \in SUBSET {"overwritten", "jobless"} /\ M \subseteq Marks BY <3>1 DEF Over, If, Marks
        <3>3. u = Mark(t, c, M) BY <1>9, <3>1, <2>1 DEF Judged
        <3>4. /\ u \in TallyType /\ u.inHand = t.inHand
              /\ \A d \in Campaigns : u.marred[d] = IF d = c THEN t.marred[d] \cup M ELSE t.marred[d]
            <4>1. Marked(t, u, c, M) BY <1>7, <3>2, <3>3, Marking
            <4> QED  BY <4>1 DEF Marked
        <3>5. route # "cancel" /\ route # "delete" BY <2>1
        <3>6. \A d \in Campaigns : /\ t.marred[d] \subseteq u.marred[d]
                                   /\ u.marred[d] \subseteq t.marred[d] \cup {"overwritten", "jobless"}
            BY <3>2, <3>4
        <3> QED  BY <3>4, <3>5, <3>6
    <2>2. CASE route = "cancel" BY <1>9, <1>c, <2>2, <1>7, HandSet DEF Judged
    <2>3. CASE route = "delete"
        <3>1. PICK n \in Int : n = t.inHand[c] + k BY <1>a
        <3>2. u = [t EXCEPT !.inHand[c] = n] BY <1>9, <1>b, <2>3, <1>7, <3>1 DEF Judged, TallyType
        <3> QED  BY <1>7, <2>3, <3>1, <3>2, HandSet
    <2> QED  BY <2>1, <2>2, <2>3 DEF Allowed
<1>e. /\ tally' \in TallyType
      /\ \A d \in Campaigns : /\ tally.marred[d] \subseteq tally'.marred[d]
                              /\ tally'.marred[d] \subseteq tally.marred[d] \cup {"overwritten", "jobless"}
                              /\ d # c \/ route \in {"send", "resume"} => tally'.inHand[d] = tally.inHand[d]
    BY <1>7, <1>8, <1>d
<1>f. /\ route = "cancel" => tally'.inHand[c] = Cardinality(InHands(c))
      /\ route = "delete" => tally'.inHand[c] = tally.inHand[c] + CHUNK_SIZE * Cardinality(Workers)
    BY <1>7, <1>8, <1>b, <1>c, <1>d
<1> QED  BY <1>1, <1>2, <1>3, <1>4, <1>5, <1>e, <1>f DEF Commits

------------------------------------------------------------------------------
(* The steps. *)

\* Nothing happens to campaigns, rows, runs and mails.
Quiet ==
    /\ tally' \in TallyType /\ tally'.inHand = tally.inHand
    /\ \A d \in Campaigns : /\ tally.marred[d] \subseteq tally'.marred[d]
                            /\ tally'.marred[d] \subseteq tally.marred[d] \cup {"jobless", "gaveUp"}
    /\ suppressed \subseteq suppressed' /\ suppressed' \subseteq Recipients /\ DOMAIN queue' \subseteq Jobs
    /\ UNCHANGED <<campaign, rows, run, mails>>
\* A campaign is made.
Makes(c) ==
    /\ campaign[c].status = "none"
    /\ campaign' \in [Campaigns -> RowType] /\ \A d \in Campaigns \ {c} : campaign'[d] = campaign[d]
    /\ campaign'[c].status = "draft" /\ Tells(c, {}) /\ UNCHANGED <<rows, queue, suppressed, run, mails>>
\* What a worker does.
StartStep(w)     == Starts(w) /\ DOMAIN queue' \subseteq Jobs /\ UNCHANGED <<campaign, rows, suppressed, mails, tally>>
LoadStep(w)      == /\ run[w].pc = "load" /\ Keeps(w, "begin") /\ campaign[Of(w)].status # "none"
                    /\ DOMAIN queue' \subseteq Jobs /\ UNCHANGED <<campaign, rows, suppressed, mails, tally>>
SendingStep(w)   == /\ run[w].pc = "begin" /\ Row(Of(w)) /\ Of(w) \in Campaigns
                    /\ Keeps(w, "resolve") /\ Writes(Of(w), "sending") /\ Tells(Of(w), Over(Of(w)))
                    /\ UNCHANGED <<rows, queue, suppressed, mails>>
HaltStep(w)      == /\ run[w].pc \in {"resolve", "check"} /\ Of(w) \in Campaigns /\ Row(Of(w))
                    /\ Rests(w) /\ DOMAIN queue' \subseteq Jobs
                    /\ Writes(Of(w), "failed") \/ Writes(Of(w), "paused_quota")
                    /\ Tells(Of(w), Over(Of(w))) /\ UNCHANGED <<rows, suppressed, mails>>
TakeStep(w)      == /\ run[w].pc = "check" /\ run[w].left # {} /\ ~Stopped(Of(w)) /\ Of(w) \in Campaigns
                    /\ \E told, allowed, dropped : told \in BOOLEAN /\ Takes(w, told, allowed, dropped)
                    /\ UNCHANGED <<campaign, queue, suppressed, mails>>
AcceptStep(w, r) == /\ run[w].pc = "send" /\ Of(w) \in Campaigns /\ r \in run[w].chunk.send
                    /\ Turns(w, "send", run[w].list, run[w].left, run[w].chunk.send \ {r},
                             run[w].chunk.mark \cup {r}, run[w].sent)
                    /\ Posts(Of(w), r) /\ Counts(Of(w), {}) /\ UNCHANGED <<campaign, rows, queue, suppressed>>
MarkStep(w, r)   == /\ run[w].pc = "send" /\ Of(w) \in Campaigns /\ r \in run[w].chunk.mark
                    /\ Turns(w, "send", run[w].list, run[w].left, run[w].chunk.send, run[w].chunk.mark \ {r},
                             run[w].sent + 1)
                    /\ Rewrites(Of(w), {r}, "sent") /\ UNCHANGED <<campaign, queue, suppressed, mails, tally>>
RefuseStep(w, r) == /\ run[w].pc = "send" /\ Of(w) \in Campaigns /\ r \in run[w].chunk.send
                    /\ Turns(w, "send", run[w].list, run[w].left, run[w].chunk.send \ {r}, run[w].chunk.mark,
                             run[w].sent)
                    /\ Rewrites(Of(w), {r}, "failed") /\ UNCHANGED <<campaign, queue, suppressed, mails, tally>>
SaveStep(w)      == /\ run[w].pc = "send" /\ Of(w) \in Campaigns /\ Row(Of(w))
                    /\ run[w].chunk.send = {} /\ run[w].chunk.mark = {}
                    /\ Turns(w, "check", run[w].list, run[w].left \ First(CHUNK_SIZE, run[w].left), {}, {},
                             run[w].sent)
                    /\ Writes(Of(w), campaign[Of(w)].status)
                    /\ UNCHANGED <<rows, queue, suppressed, mails, tally>>
CloseStep(w)     == /\ run[w].pc = "check" /\ run[w].left = {} /\ Of(w) \in Campaigns /\ Row(Of(w))
                    /\ Rests(w) /\ DOMAIN queue' \subseteq Jobs
                    /\ Writes(Of(w), "sent") /\ campaign'[Of(w)].sentCount = run[w].sent
                    /\ Tells(Of(w), Over(Of(w))) /\ UNCHANGED <<rows, suppressed, mails>>
RecipientStep(w, r) == AcceptStep(w, r) \/ MarkStep(w, r) \/ RefuseStep(w, r) \/ Loses(w, r)
WorkerStep(w) ==
    \/ StartStep(w) \/ LoadStep(w) \/ SendingStep(w) \/ HaltStep(w) \/ Creates(w) \/ TakeStep(w)
    \/ SaveStep(w) \/ CloseStep(w) \/ Stumbles(w)
    \/ \E r \in Recipients : RecipientStep(w, r)

\* Steps that only concern requests, queue and suppressions are quiet.
LEMMA QuietTells ==
    ASSUME TypeInv, NEW c \in Campaigns, NEW M \in SUBSET {"jobless", "gaveUp"},
           Tells(c, M) \/ Tells(c, {}) \/ tally' = tally,
           suppressed \subseteq suppressed', suppressed' \subseteq Recipients,
           DOMAIN queue' \subseteq Jobs, UNCHANGED <<campaign, rows, run, mails>>
    PROVE  Quiet
  BY DEF TypeInv, Tells, Quiet

\* Requests.
LEMMA RequestSteps ==
    ASSUME TypeInv, NEW p, NEW c \in Campaigns,
           \/ \E route \in DOMAIN Allowed : ReadStatus(p, route, c) \/ Rollback(p, route, c)
           \/ Answers(p, c)
    PROVE  Quiet \/ \E route \in DOMAIN Allowed : Commits(route, c)
<1>s. suppressed \subseteq Recipients /\ DOMAIN queue \subseteq Jobs BY DEF TypeInv
<1>1. ASSUME NEW route \in DOMAIN Allowed, ReadStatus(p, route, c) PROVE Quiet
  BY <1>1, Telling, <1>s, QuietTells DEF ReadStatus
<1>2. ASSUME NEW route \in DOMAIN Allowed, Rollback(p, route, c) PROVE Quiet
    <2>1. UNCHANGED <<campaign, rows, suppressed, run, mails>> BY <1>2 DEF Rollback
    <2>2. DOMAIN queue' \subseteq Jobs BY <1>2, Requeuing DEF Rollback
    <2>3. PICK t : t = Counted(route, c) OBVIOUS
    <2>4. t \in TallyType /\ t.marred = tally.marred /\ t.inHand = tally.inHand BY <2>3, Resuming
    <2>5. PICK M : M = If(route = "cancel" /\ queue' # queue, "jobless") OBVIOUS
    <2>6. M \in SUBSET Marks /\ M \in SUBSET {"jobless", "gaveUp"} BY <2>5 DEF If, Marks
    <2>7. PICK u : u = Mark(t, c, M) OBVIOUS
    <2>8. Marked(t, u, c, M) BY <2>4, <2>6, <2>7, Marking
    <2>9. Mishap(u) BY <1>2, <2>3, <2>5, <2>7 DEF Rollback
    <2>a. tally' \in TallyType /\ tally'.marred = u.marred /\ tally'.inHand = u.inHand
        BY <2>8, <2>9, Mishaps DEF Marked
    <2>b. Tells(c, M) BY <2>4, <2>8, <2>a DEF Marked, Tells
    <2> QED  BY <1>s, <2>1, <2>2, <2>6, <2>b, QuietTells
<1>3. ASSUME RequestFails(p, c) PROVE Quiet BY <1>3, Telling, <1>s, QuietTells DEF RequestFails
<1>4. ASSUME NEW route \in DOMAIN Allowed, Commit(p, route, c) PROVE Commits(route, c) BY <1>4, Committing
<1> QED  BY <1>1, <1>2, <1>3, <1>4 DEF Answers

\* The check for stalled jobs.
LEMMA QueueSteps ==
    ASSUME TypeInv, NEW j \in Jobs, JobStalls(j) PROVE Quiet
  BY Queues, JobOf, Telling, QuietTells DEF JobStalls, TypeInv, If, Marks

\* A suppression.
LEMMA SuppressSteps ==
    ASSUME TypeInv, NEW r \in Recipients, Suppress(r) PROVE Quiet
  BY Spending DEF Suppress, Event, TypeInv, Quiet

\* New campaigns.
LEMMA MakeSteps ==
    ASSUME TypeInv, NEW c \in Campaigns,
           CreateCampaign(c) \/ \E a \in Campaigns, openers \in SUBSET Recipients : Retarget(a, c, openers)
    PROVE  Makes(c)
<1>1. campaign \in [Campaigns -> RowType] BY DEF TypeInv
<1>2. UNCHANGED <<rows, queue, suppressed, run, mails>> /\ campaign[c].status = "none"
    BY DEF CreateCampaign, Retarget
<1>3. Tells(c, {}) BY Telling DEF CreateCampaign, Retarget
<1>4. \E y \in RowType : y.status = "draft" /\ campaign' = [campaign EXCEPT ![c] = y]
    <2>1. CASE CreateCampaign(c) BY <1>1, <2>1 DEF RowType, Status, CreateCampaign
    <2>2. ASSUME NEW a \in Campaigns, NEW openers \in SUBSET Recipients, Retarget(a, c, openers)
          PROVE  \E y \in RowType : y.status = "draft" /\ campaign' = [campaign EXCEPT ![c] = y]
        <3>1. PICK E \in SUBSET Recipients : E = {r \in Recipients : "sent" \in rows[a][r]} \ openers OBVIOUS
        <3>2. PICK y : y = [status |-> "draft", excluded |-> E, sentCount |-> 0] OBVIOUS
        <3>3. y \in RowType /\ y.status = "draft" BY <3>2 DEF RowType, Status
        <3>4. [NoCampaign EXCEPT !.status = "draft", !.excluded = E] = y
            <4>1. PICK z : z = [NoCampaign EXCEPT !.status = "draft"] OBVIOUS
            <4>2. z = [status |-> "draft", excluded |-> {}, sentCount |-> 0] BY <4>1 DEF NoCampaign
            <4>3. [z EXCEPT !.excluded = E] = y BY <3>2, <4>2
            <4> QED  BY <4>1, <4>3
        <3>5. campaign' = [campaign EXCEPT ![c] = y] BY <2>2, <3>1, <3>4 DEF Retarget
        <3> QED  BY <3>3, <3>5
    <2> QED  BY <2>1, <2>2
<1> QED  BY <1>1, <1>2, <1>3, <1>4 DEF Makes

\* The workers.
LEMMA WorkSteps ==
    ASSUME TypeInv, HandInv, NEW w \in Workers, Works(w) \/ Strays(w) PROVE WorkerStep(w)
<1>1. ASSUME StartJob(w) PROVE StartStep(w) BY <1>1, Starting DEF StartJob, StartStep
<1>2. ASSUME LoadCampaign(w) PROVE LoadStep(w) \/ Stumbles(w)
  BY <1>2, Loads, AtWork, Telling DEF LoadCampaign, LoadStep, Stumbles
<1>3. ASSUME MarkSending(w) PROVE SendingStep(w) BY <1>3, Sends DEF MarkSending, SendingStep
<1>4. ASSUME CreateRows(w) PROVE Creates(w) BY <1>4, Listing
<1>5. ASSUME StopCancelled(w) \/ CallThrows(w) \/ WorkerCrash(w) PROVE Stumbles(w) BY <1>5, Stumbling
<1>6. ASSUME NEW told \in BOOLEAN, NEW remaining \in 1..CHUNK_SIZE, TakeChunk(w, remaining, told)
      PROVE  TakeStep(w)
    BY <1>6, Taking DEF TakeStep
<1>7. ASSUME SaveProgress(w) PROVE SaveStep(w) BY <1>7, Saving DEF SaveStep
<1>8. ASSUME MarkCampaignSent(w) PROVE CloseStep(w) BY <1>8, Closing DEF CloseStep
<1>9. ASSUME NEW r \in Recipients, SendsMail(w, r) PROVE RecipientStep(w, r)
    BY <1>9, Accepting, MarkingSent, Refusing DEF SendsMail, RecipientStep, AcceptStep, MarkStep, RefuseStep
<1>a. ASSUME NEW r \in Recipients, NEW taken \in BOOLEAN, NEW s, LosesTrack(w, r, taken, s)
      PROVE  RecipientStep(w, r)
    BY <1>a, LosingTrack DEF RecipientStep
<1>b. ASSUME RefuseAudience(w) \/ NoQuota(w) PROVE HaltStep(w) BY <1>b, Halts DEF HaltStep
<1>c. ASSUME Works(w) PROVE WorkerStep(w)
    BY <1>c, <1>1, <1>2, <1>3, <1>4, <1>5, <1>6, <1>7, <1>8, <1>9 DEF Works, WorkerStep
<1>d. ASSUME Strays(w) PROVE WorkerStep(w) BY <1>d, <1>5, <1>6, <1>a, <1>b DEF Strays, WorkerStep
<1> QED  BY <1>c, <1>d

\* Every step is one of these.
LEMMA Steps ==
    ASSUME TypeInv, HandInv, [Next]_vars
    PROVE  \/ Quiet
           \/ \E c \in Campaigns : Makes(c) \/ \E route \in DOMAIN Allowed : Commits(route, c)
           \/ \E w \in Workers : WorkerStep(w)
<1>1. ASSUME UNCHANGED vars PROVE Quiet BY <1>1 DEF vars, TypeInv, Quiet
<1>2. ASSUME NEW c \in Campaigns, CreateCampaign(c) PROVE Makes(c) BY <1>2, MakeSteps
<1>3. ASSUME NEW c \in Campaigns, NEW new \in Campaigns, NEW openers \in SUBSET Recipients,
             Retarget(c, new, openers)
      PROVE  Makes(new)
    BY <1>3, MakeSteps
<1>4. ASSUME NEW p \in Callers, NEW c \in Campaigns,
             \/ \E route \in DOMAIN Allowed : ReadStatus(p, route, c) \/ Rollback(p, route, c)
             \/ Answers(p, c)
      PROVE  Quiet \/ \E route \in DOMAIN Allowed : Commits(route, c)
    BY <1>4, RequestSteps
<1>5. ASSUME NEW w \in Workers, Works(w) \/ Strays(w) PROVE WorkerStep(w) BY <1>5, WorkSteps
<1>6. ASSUME NEW j \in Jobs, JobStalls(j) PROVE Quiet BY <1>6, QueueSteps
<1>7. ASSUME NEW r \in Recipients, Suppress(r) PROVE Quiet BY <1>7, SuppressSteps
<1>8. ASSUME Next
      PROVE  \/ Quiet
             \/ \E c \in Campaigns : Makes(c) \/ \E route \in DOMAIN Allowed : Commits(route, c)
             \/ \E w \in Workers : WorkerStep(w)
    BY <1>8, <1>2, <1>3, <1>4, <1>5, <1>6, <1>7 DEF Next
<1> QED  BY <1>1, <1>8

------------------------------------------------------------------------------
(* Types and hands are kept. *)

\* What a route writes.
LEMMA WrittenIs ==
    /\ \A route \in DOMAIN Allowed : \A s \in Written[route] : s \in Status \ {"none", "sent"}
    /\ \A route \in DOMAIN Allowed : \A s \in Written[route] :
          (s = "cancelled" => route = "cancel") /\ (s = "deleted" <=> route = "delete")
BY DEF Allowed, Written, Status

\* Every step keeps the types.
LEMMA TypeStep == TypeInv /\ HandInv /\ [Next]_vars => TypeInv'
<1> SUFFICES ASSUME TypeInv, HandInv, [Next]_vars PROVE TypeInv' OBVIOUS
<1>0. /\ campaign \in [Campaigns -> RowType] /\ rows \in [Campaigns -> [Recipients -> SUBSET Outcomes]]
      /\ DOMAIN queue \subseteq Jobs /\ suppressed \subseteq Recipients /\ run \in [Workers -> RunType]
      /\ mails \in [Campaigns -> [Recipients -> Nat]] /\ tally \in TallyType
    BY DEF TypeInv
<1>1. CASE Quiet BY <1>0, <1>1 DEF Quiet, TypeInv
<1>2. ASSUME NEW c \in Campaigns, Makes(c) PROVE TypeInv' BY <1>0, <1>2 DEF Makes, Tells, TypeInv
<1>3. ASSUME NEW c \in Campaigns, NEW route \in DOMAIN Allowed, Commits(route, c) PROVE TypeInv'
  BY <1>0, <1>3 DEF Commits, Writes, TypeInv
<1>4. ASSUME NEW w \in Workers, WorkerStep(w) PROVE TypeInv'
    <2>1. CASE StartStep(w) BY <1>0, <2>1 DEF StartStep, Starts, Only, TypeInv
    <2>2. CASE LoadStep(w) BY <1>0, <2>2 DEF LoadStep, Keeps, Turns, Only, TypeInv
    <2>3. CASE SendingStep(w) BY <1>0, <2>3 DEF SendingStep, Keeps, Turns, Only, Writes, Tells, TypeInv
    <2>4. CASE HaltStep(w) BY <1>0, <2>4 DEF HaltStep, Rests, Only, Writes, Tells, TypeInv
    <2>5. CASE Creates(w) BY <1>0, <2>5 DEF Creates, Turns, Only, Tells, TypeInv
    <2>6. CASE TakeStep(w) BY <2>6, <1>0 DEF TakeStep, Takes, Turns, Only, Rewrites, Tells, TypeInv
    <2>7. CASE SaveStep(w) BY <1>0, <2>7 DEF SaveStep, Turns, Only, Writes, TypeInv
    <2>8. CASE CloseStep(w) BY <1>0, <2>8 DEF CloseStep, Rests, Only, Writes, Tells, TypeInv
    <2>9. CASE Stumbles(w) BY <1>0, <2>9 DEF Stumbles, Rests, Only, Tells, TypeInv
    <2>a. ASSUME NEW r \in Recipients, RecipientStep(w, r) PROVE TypeInv'
    BY <1>0, <2>a DEF AcceptStep, Turns, Only, Posts, Counts, TypeInv, MarkStep, Rewrites, RefuseStep, Loses,
       Tells, RecipientStep
    <2> QED  BY <1>4, <2>1, <2>2, <2>3, <2>4, <2>5, <2>6, <2>7, <2>8, <2>9, <2>a DEF WorkerStep
<1> QED  BY <1>1, <1>2, <1>3, <1>4, Steps

\* A campaign that was made stays made, with those it excludes; a row of the
\* table is made but once; what is suppressed stays so, and so does a mark.
LEMMA Lasting ==
    ASSUME TypeInv, HandInv, [Next]_vars
    PROVE  /\ suppressed \subseteq suppressed'
           /\ \A c \in Campaigns :
                 /\ tally.marred[c] \subseteq tally'.marred[c]
                 /\ campaign[c].status # "none" => campaign'[c].status # "none"
                 /\ campaign[c].status # "none" => campaign'[c].excluded = campaign[c].excluded
                 /\ Row(c)' => Row(c) \/ campaign[c].status = "none"
<1> DEFINE P == /\ suppressed \subseteq suppressed'
                /\ \A c \in Campaigns :
                      /\ tally.marred[c] \subseteq tally'.marred[c]
                      /\ campaign[c].status # "none" => campaign'[c].status # "none"
                      /\ campaign[c].status # "none" => campaign'[c].excluded = campaign[c].excluded
                      /\ Row(c)' => Row(c) \/ campaign[c].status = "none"
<1>1. CASE Quiet BY <1>1 DEF Quiet, Row
<1>2. ASSUME NEW c \in Campaigns, Makes(c) PROVE P BY <1>2 DEF Makes, Tells, Row
<1>3. ASSUME NEW c \in Campaigns, NEW route \in DOMAIN Allowed, Commits(route, c) PROVE P
  BY <1>3, WrittenIs DEF Commits, Writes, Row
<1>4. ASSUME NEW w \in Workers, WorkerStep(w) PROVE P
    <2>1. CASE StartStep(w) BY <2>1 DEF StartStep, Row
    <2>2. CASE LoadStep(w) BY <2>2 DEF LoadStep, Row
    <2>3. CASE SendingStep(w) BY <2>3 DEF SendingStep, Writes, Tells, Row
    <2>4. CASE HaltStep(w) BY <2>4 DEF HaltStep, Writes, Tells, Row
    <2>5. CASE Creates(w) BY <2>5 DEF Creates, Tells, Row
    <2>6. CASE TakeStep(w) BY <2>6 DEF TakeStep, Takes, Tells, Row
    <2>7. CASE SaveStep(w) BY <2>7 DEF SaveStep, Writes, Row
    <2>8. CASE CloseStep(w) BY <2>8 DEF CloseStep, Writes, Tells, Row
    <2>9. CASE Stumbles(w) BY <2>9 DEF Stumbles, Tells, Row
    <2>a. ASSUME NEW r \in Recipients, RecipientStep(w, r) PROVE P
    BY <2>a DEF AcceptStep, Counts, Row, MarkStep, RefuseStep, Loses, Tells, RecipientStep
    <2> QED  BY <1>4, <2>1, <2>2, <2>3, <2>4, <2>5, <2>6, <2>7, <2>8, <2>9, <2>a DEF WorkerStep
<1> QED  BY <1>1, <1>2, <1>3, <1>4, Steps

\* What makes a slot's hands right.
LEMMA HandOf ==
    ASSUME NEW x \in RunType, x.pc # "idle", x.job \in Jobs,
           x.pc \notin {"check", "send"} => x.list = {} /\ x.sent = 0,
           x.pc = "send" => x.left # {},
           x.pc # "send" => x.chunk.send = {} /\ x.chunk.mark = {},
           x.left \subseteq x.list,
           x.chunk.send \cup x.chunk.mark \subseteq First(CHUNK_SIZE, x.left),
           x.chunk.send \cap x.chunk.mark = {},
           x.sent + Cardinality(x.chunk.send \cup x.chunk.mark) <= Cardinality(x.list \ ToCome(x))
    PROVE  Hand(x)
  BY Slots DEF NoChunk, Hand

\* A run that mailed nobody has right hands.
LEMMA EmptyHand ==
    ASSUME NEW x \in RunType, x.pc \notin {"idle", "send"}, x.job \in Jobs,
           x.pc # "check" => x.list = {}, x.left = x.list,
           x.chunk.send = {}, x.chunk.mark = {}, x.sent = 0
    PROVE  Hand(x)
<1>1. x.list \ ToCome(x) \subseteq Recipients BY Slots
<1>2. Cardinality(x.list \ ToCome(x)) \in Nat BY <1>1, RecipientsFinite
<1>3. Cardinality(x.chunk.send \cup x.chunk.mark) = 0 BY FS_EmptySet
<1> QED  BY <1>2, <1>3, HandOf

\* The hands of a run that sends: what it has done with is no more than what it
\* took.
LEMMA SendingHand ==
    ASSUME TypeInv, HandInv, NEW w \in Workers, run[w].pc = "send", NEW x \in RunType,
           x.pc = "send", x.job = run[w].job, x.list = run[w].list, x.left = run[w].left,
           NEW U \in SUBSET (run[w].chunk.send \cup run[w].chunk.mark),
           x.chunk.send \cup x.chunk.mark = U, x.chunk.send \cap x.chunk.mark = {},
           x.sent + Cardinality(U) <= run[w].sent + Cardinality(run[w].chunk.send \cup run[w].chunk.mark)
    PROVE  Hand(x)
<1>1. PICK v \in RunType : v = run[w] BY InHandOf
<1>2. Hand(v) BY <1>1 DEF HandInv
<1>3. ToCome(x) = ToCome(v) BY <1>1 DEF ToCome
<1>4. /\ v.list \subseteq Recipients /\ v.sent \in Nat /\ x.sent \in Nat
      /\ v.chunk.send \subseteq Recipients /\ v.chunk.mark \subseteq Recipients
    BY Slots
<1>5. PICK a \in Nat, b \in Nat, d \in Nat :
         /\ a = Cardinality(U) /\ b = Cardinality(v.chunk.send \cup v.chunk.mark)
         /\ d = Cardinality(v.list \ ToCome(v))
  BY <1>1, <1>4, RecipientsFinite
<1>6. v.sent + b <= d /\ x.sent + a <= v.sent + b BY <1>1, <1>2, <1>5 DEF Hand
<1>7. x.sent + Cardinality(x.chunk.send \cup x.chunk.mark) <= Cardinality(x.list \ ToCome(x))
    BY <1>1, <1>3, <1>4, <1>5, <1>6
<1>8. /\ x.job \in Jobs /\ x.left # {} /\ x.left \subseteq x.list
      /\ x.chunk.send \cup x.chunk.mark \subseteq First(CHUNK_SIZE, x.left)
    BY <1>1, <1>2 DEF Hand
<1> QED  BY <1>7, <1>8, HandOf

\* Every step keeps the hands right.
LEMMA HandStep == TypeInv /\ HandInv /\ [Next]_vars => HandInv'
<1> SUFFICES ASSUME TypeInv, HandInv, [Next]_vars PROVE HandInv' OBVIOUS
<1>0. ASSUME NEW v \in Workers, run'[v] = run[v]
      PROVE  Hand(run'[v]) /\ (run'[v].pc \notin {"idle", "load"} => campaign'[Of(v)'].status # "none")
    <2>1. Hand(run[v]) /\ (run[v].pc \notin {"idle", "load"} => campaign[Of(v)].status # "none") BY DEF HandInv
    <2>2. Of(v)' = Of(v) BY <1>0 DEF Of
    <2>3. ASSUME run[v].pc \notin {"idle", "load"} PROVE campaign'[Of(v)].status # "none"
        BY <2>1, <2>3, AtWork, Lasting
    <2> QED  BY <1>0, <2>1, <2>2, <2>3
<1>i. Hand(IdleRun) /\ IdleRun.pc = "idle" BY FS_EmptySet DEF IdleRun, NoChunk, ToCome, Hand
<1>e. ASSUME run' = run PROVE HandInv' BY <1>e, <1>0 DEF HandInv
<1>w. ASSUME NEW w \in Workers, Only(w), Hand(run'[w]),
             run'[w].pc \notin {"idle", "load"} => campaign'[Of(w)'].status # "none"
      PROVE  HandInv'
    BY <1>w, <1>0 DEF Only, HandInv
<1>1. CASE Quiet BY <1>1, <1>e DEF Quiet
<1>2. ASSUME NEW c \in Campaigns, Makes(c) PROVE HandInv' BY <1>2, <1>e DEF Makes
<1>3. ASSUME NEW c \in Campaigns, NEW route \in DOMAIN Allowed, Commits(route, c) PROVE HandInv'
    BY <1>3, <1>e DEF Commits
<1>4. ASSUME NEW w \in Workers, WorkerStep(w) PROVE HandInv'
    <2>0. Hand(run[w]) /\ run[w] \in RunType BY InHandOf DEF HandInv
    <2>r. ASSUME Rests(w) PROVE HandInv' BY <2>r, <1>i, <1>w DEF Rests
    <2>m. ASSUME run[w].pc \notin {"idle", "load"}, run'[w].job = run[w].job
          PROVE  campaign'[Of(w)'].status # "none"
    BY <2>m, AtWork, Lasting DEF Of
    <2>1. CASE StartStep(w)
        <3>1. /\ Only(w) /\ run'[w].pc = "load" /\ run'[w].job \in Jobs /\ run'[w].list = {}
              /\ run'[w].left = {} /\ run'[w].sent = 0 /\ run'[w].chunk = NoChunk
            BY <2>1 DEF StartStep, Starts
        <3>2. run'[w].chunk.send = {} /\ run'[w].chunk.mark = {} /\ run'[w] \in RunType
            BY <3>1 DEF NoChunk, Only
        <3>3. Hand(run'[w]) BY <3>1, <3>2, EmptyHand
        <3> QED  BY <3>1, <3>3, <1>w
    <2>2. CASE LoadStep(w) \/ SendingStep(w)
        <3>1. PICK pc \in {"begin", "resolve"} : run[w].pc # "idle" /\ Keeps(w, pc) /\ run[w].pc \in {"load", "begin"}
            BY <2>2 DEF LoadStep, SendingStep
        <3>2. /\ run[w].list = {} /\ run[w].sent = 0 /\ run[w].left = {} /\ run[w].job \in Jobs
              /\ run[w].chunk.send = {} /\ run[w].chunk.mark = {}
            BY <2>0, <3>1 DEF Hand, NoChunk
        <3>3. /\ Only(w) /\ run'[w] \in RunType /\ run'[w].pc = pc /\ run'[w].job = run[w].job /\ run'[w].list = {}
              /\ run'[w].left = {} /\ run'[w].sent = 0 /\ run'[w].chunk.send = {} /\ run'[w].chunk.mark = {}
            BY <3>1, <3>2 DEF Keeps, Turns, Only
        <3>4. Hand(run'[w]) BY <3>1, <3>2, <3>3, EmptyHand
        <3>5. campaign'[Of(w)'].status # "none" BY <3>3, <2>2 DEF Of, LoadStep, SendingStep, Writes
        <3> QED  BY <3>3, <3>4, <3>5, <1>w
    <2>3. CASE HaltStep(w) \/ CloseStep(w) \/ Stumbles(w) BY <2>3, <2>r DEF HaltStep, CloseStep, Stumbles
    <2>4. CASE Creates(w) BY <2>4, <2>0, EmptyHand, <2>m, <1>w DEF Creates, Turns, Only, Hand
    <2>5. CASE TakeStep(w)
        <3>1. PICK told, allowed, dropped : told \in BOOLEAN /\ Takes(w, told, allowed, dropped)
            BY <2>5 DEF TakeStep
        <3>2. PICK F \in SUBSET Recipients : F = First(CHUNK_SIZE, run[w].left) BY InHandOf
        <3>l. PICK L \in SUBSET Recipients : L = run[w].list BY InHandOf
        <3>3. PICK R \in SUBSET L : L = run[w].list /\ R = run[w].left BY <3>l, InHandOf
        <3>4. PICK S \in SUBSET F : S = allowed \ dropped BY <3>1, <3>2 DEF Takes
        <3>5. PICK x \in RunType : x = run'[w] BY <3>1 DEF Takes, Turns, Only
        <3>6. /\ Only(w) /\ x.pc = "send" /\ x.job = run[w].job /\ x.list = L /\ x.left = R
              /\ x.chunk.send = S /\ x.chunk.mark = {} /\ x.sent = run[w].sent
            BY <3>1, <3>3, <3>4, <3>5 DEF Takes, Turns
        <3>7. run[w].pc = "check" /\ R # {} /\ run[w].chunk.send = {} /\ run[w].chunk.mark = {} /\ run[w].job \in Jobs
            BY <2>0, <2>5, <3>3 DEF TakeStep, Hand, NoChunk
        <3>8. F \subseteq R BY <3>2, <3>3, InHandOf
        <3>9. PICK n \in Nat, a \in Nat, b \in Nat, s \in Nat :
                 n = run[w].sent /\ a = Cardinality(L \ R) /\ b = Cardinality(F) /\ s = Cardinality(S)
            BY <2>0, Slots, RecipientsFinite
        <3>a. n <= a BY <2>0, <3>7, FS_EmptySet, <3>3, <3>9 DEF Hand, ToCome
        <3>b. s <= b BY <3>9, SubsetCount
        <3>c. ToCome(x) = R \ F BY <3>2, <3>3, <3>6 DEF ToCome
        <3>d. x.list \ ToCome(x) = (L \ R) \cup F BY <3>6, <3>8, <3>c
        <3>e. Cardinality((L \ R) \cup F) = a + b BY <3>8, <3>9, CountBoth
        <3>f. x.chunk.send \cup x.chunk.mark = S BY <3>6
        <3>g. x.sent + Cardinality(x.chunk.send \cup x.chunk.mark) <= Cardinality(x.list \ ToCome(x))
            <4>1. Cardinality(x.chunk.send \cup x.chunk.mark) = s BY <3>9, <3>f
            <4>2. Cardinality(x.list \ ToCome(x)) = a + b BY <3>d, <3>e
            <4>3. x.sent = n BY <3>6, <3>9
            <4> HIDE <3>d, <3>f
            <4> QED  BY <3>9, <3>a, <3>b, <4>1, <4>2, <4>3
        <3>h. Hand(x) BY <3>2, <3>3, <3>6, <3>f, <3>7, <3>g, HandOf
        <3> QED  BY <3>5, <3>6, <3>7, <3>h, <2>m, <1>w
    <2>6. CASE SaveStep(w) BY <2>6, <2>0, InHandOf, HandOf, <2>m, <1>w DEF SaveStep, Turns, Only, ToCome, Hand
    <2>7. ASSUME NEW r \in Recipients, RecipientStep(w, r) PROVE HandInv'
        <3>1. PICK x \in RunType : x = run'[w]
            BY <2>7 DEF RecipientStep, AcceptStep, MarkStep, RefuseStep, Loses, Turns, Only
        <3>2. PICK S \in SUBSET Recipients, M \in SUBSET Recipients : S = run[w].chunk.send /\ M = run[w].chunk.mark
            BY InHandOf
        <3>3. S \cap M = {} BY <3>2, InHandOf
        <3>4. PICK n \in Nat, u \in Nat : n = run[w].sent /\ u = Cardinality(S \cup M)
            BY <2>0, Slots, RecipientsFinite
        <3>5. /\ Only(w) /\ x.pc = "send" /\ x.job = run[w].job /\ x.list = run[w].list /\ x.left = run[w].left
              /\ run[w].pc = "send"
            BY <2>7, <3>1 DEF RecipientStep, AcceptStep, MarkStep, RefuseStep, Loses, Turns
        <3>6. /\ x.chunk.send \cup x.chunk.mark \in SUBSET (S \cup M) /\ x.chunk.send \cap x.chunk.mark = {}
              /\ x.sent + Cardinality(x.chunk.send \cup x.chunk.mark) <= n + u
            <4>1. CASE AcceptStep(w, r)
                <5>1. x.chunk.send = S \ {r} /\ x.chunk.mark = M \cup {r} /\ r \in S /\ x.sent = n
                    BY <3>1, <3>2, <3>4, <4>1 DEF AcceptStep, Turns
                <5>2. x.chunk.send \cup x.chunk.mark = S \cup M /\ x.chunk.send \cap x.chunk.mark = {}
                    BY <3>3, <5>1
                <5>3. Cardinality(x.chunk.send \cup x.chunk.mark) = u BY <3>4, <5>2
                <5>4. x.chunk.send \cup x.chunk.mark \in SUBSET (S \cup M) BY <5>2
                <5> QED  BY <3>4, <5>1, <5>2, <5>3, <5>4
            <4>2. CASE MarkStep(w, r) BY <3>1, <3>2, <3>4, <4>2, <3>3, OneMore DEF MarkStep, Turns
            <4>3. CASE RefuseStep(w, r) \/ Loses(w, r)
        BY <3>1, <3>2, <3>4, <4>3, SubsetCount, RecipientsFinite, <3>3 DEF RefuseStep, Loses, Turns
            <4> QED  BY <2>7, <4>1, <4>2, <4>3 DEF RecipientStep
        <3>7. PICK U \in SUBSET (run[w].chunk.send \cup run[w].chunk.mark) : U = x.chunk.send \cup x.chunk.mark
            BY <3>2, <3>6
        <3>8. x.sent + Cardinality(U) <= run[w].sent + Cardinality(run[w].chunk.send \cup run[w].chunk.mark)
            BY <3>2, <3>4, <3>6, <3>7
        <3>9. Hand(x) BY <3>5, <3>6, <3>7, <3>8, SendingHand
        <3> QED  BY <3>1, <3>5, <3>9, <2>m, <1>w
    <2> QED  BY <1>4, <2>1, <2>2, <2>3, <2>4, <2>5, <2>6, <2>7 DEF WorkerStep
<1> QED  BY <1>1, <1>2, <1>3, <1>4, Steps

------------------------------------------------------------------------------
(* Nobody is mailed twice. *)

\* What a run has to mail, and what it has mailed and not written down, it
\* listed.
LEMMA FreshListed ==
    ASSUME NEW x \in RunType, Hand(x)
    PROVE  Fresh(x) \subseteq x.left /\ x.chunk.mark \subseteq x.left /\ x.left \subseteq x.list
  BY Slots, Chunks, Sizes DEF Hand, Fresh, ToCome

\* A run of c has no more to mail than before.
Fewer(c, v) ==
    run'[v].job[1] = c =>
        \/ run'[v].list = {} /\ Fresh(run'[v]) = {}
        \/ Of(v) = c /\ run'[v].list = run[v].list /\ Fresh(run'[v]) \subseteq Fresh(run[v])
\* A run that ends has nobody to mail.
LEMMA FewerRests ==
    ASSUME NEW c, NEW w \in Workers, Rests(w)
    PROVE  Fewer(c, w) /\ run'[w].list = {} /\ run'[w].pc = "idle" /\ run'[w].chunk.mark = {} /\ run'[w].left = {}
BY DEF Rests, Fewer, IdleRun, NoChunk, Fresh, ToCome
\* Every step makes it fewer, but the one that lists.
LEMMA FewerSteps ==
    ASSUME TypeInv, HandInv, [Next]_vars, NEW c \in Campaigns, NEW v \in Workers
    PROVE  Fewer(c, v) \/ (Creates(v) /\ Of(v) = c)
<1>1. ASSUME run'[v] = run[v] PROVE Fewer(c, v) BY <1>1 DEF Fewer, Of
<1>2. ASSUME NEW w \in Workers, WorkerStep(w), w # v PROVE Fewer(c, v)
  BY <1>2, <1>1 DEF WorkerStep, RecipientStep, StartStep, Starts, LoadStep, Keeps, SendingStep, HaltStep, Rests,
     Creates, TakeStep, Takes, SaveStep, CloseStep, Stumbles, AcceptStep, MarkStep, RefuseStep, Loses, Turns,
     Only
<1>3. ASSUME WorkerStep(v) PROVE Fewer(c, v) \/ (Creates(v) /\ Of(v) = c)
    <2>1. CASE StartStep(v) BY <2>1 DEF StartStep, Starts, Fewer, Fresh, ToCome, NoChunk
    <2>2. CASE LoadStep(v) \/ SendingStep(v)
    BY <2>2 DEF LoadStep, SendingStep, Keeps, Turns, Fewer, Fresh, ToCome, Of
    <2>3. CASE HaltStep(v) \/ CloseStep(v) \/ Stumbles(v) BY <2>3, FewerRests DEF HaltStep, CloseStep, Stumbles
    <2>4. CASE Creates(v) BY <2>4 DEF Creates, Turns, Fewer, Of
    <2>5. CASE TakeStep(v) BY <2>5, InHandOf DEF TakeStep, Takes, Turns, Fewer, Fresh, ToCome, Of
    <2>6. CASE SaveStep(v) BY <2>6 DEF SaveStep, Turns, Fewer, Fresh, ToCome, Of
    <2>7. ASSUME NEW r \in Recipients, RecipientStep(v, r) PROVE Fewer(c, v)
    BY <2>7 DEF RecipientStep, AcceptStep, MarkStep, RefuseStep, Loses, Turns, Fewer, Fresh, ToCome, Of
    <2> QED  BY <1>3, <2>1, <2>2, <2>3, <2>4, <2>5, <2>6, <2>7 DEF WorkerStep
<1>4. CASE Quiet BY <1>1, <1>4 DEF Quiet
<1>5. ASSUME NEW d \in Campaigns, Makes(d) PROVE Fewer(c, v) BY <1>1, <1>5 DEF Makes
<1>6. ASSUME NEW d \in Campaigns, NEW route \in DOMAIN Allowed, Commits(route, d) PROVE Fewer(c, v)
    BY <1>1, <1>6 DEF Commits
<1> QED  BY <1>2, <1>3, <1>4, <1>5, <1>6, Steps

\* Nobody is mailed, and nobody listed.
LEMMA OnceStays ==
    ASSUME TypeInv, HandInv, OnceInv, NEW c \in Campaigns, tally.marred[c] \subseteq tally'.marred[c],
           \A r \in Recipients : mails'[c][r] = mails[c][r],
           \A v \in Workers : Fewer(c, v)
    PROVE  Once(c)'
<1> SUFFICES ASSUME Spared(c, {"rerun"})'
             PROVE  /\ Alone(c)'
                    /\ \A r \in Recipients : mails'[c][r] <= 1
                    /\ \A w \in Workers : run'[w].job[1] = c => \A r \in Fresh(run'[w]) : mails'[c][r] = 0
    BY DEF Once, Of
<1>1. Spared(c, {"rerun"}) BY DEF Spared
<1>2. /\ Alone(c) /\ \A r \in Recipients : mails[c][r] <= 1
      /\ \A w \in Workers : Of(w) = c => \A r \in Fresh(run[w]) : mails[c][r] = 0
    BY <1>1 DEF OnceInv, Once
<1>3. Alone(c)' BY <1>2 DEF Alone, Fewer, Of
<1>4. ASSUME NEW w \in Workers, run'[w].job[1] = c, NEW r \in Fresh(run'[w]) PROVE mails'[c][r] = 0
  BY <1>4, <1>2, InHandOf, FreshListed DEF Fewer, HandInv
<1> QED  BY <1>2, <1>3, <1>4

\* A mail is taken, of the one run of c that has anybody to mail.
LEMMA OncePosts ==
    ASSUME TypeInv, HandInv, OnceInv, NEW w \in Workers, NEW c \in Campaigns, c = Of(w),
           NEW r \in run[w].chunk.send, run[w].pc = "send", tally.marred[c] \subseteq tally'.marred[c],
           Posts(c, r), Only(w), run'[w].job = run[w].job, run'[w].pc = "send", run'[w].list = run[w].list,
           run'[w].left = run[w].left, run'[w].chunk.send = run[w].chunk.send \ {r}
    PROVE  Once(c)'
<1> SUFFICES ASSUME Spared(c, {"rerun"})'
             PROVE  /\ Alone(c)'
                    /\ \A q \in Recipients : mails'[c][q] <= 1
                    /\ \A v \in Workers : run'[v].job[1] = c => \A q \in Fresh(run'[v]) : mails'[c][q] = 0
    BY DEF Once, Of
<1>1. Spared(c, {"rerun"}) BY DEF Spared
<1>2. /\ Alone(c) /\ \A q \in Recipients : mails[c][q] <= 1
      /\ \A v \in Workers : Of(v) = c => \A q \in Fresh(run[v]) : mails[c][q] = 0
    BY <1>1 DEF OnceInv, Once
<1>3. Alone(c)' BY <1>2 DEF Alone, Only, Of
<1>4. r \in First(CHUNK_SIZE, run[w].left) /\ r \in run[w].list /\ r \in Recipients /\ run[w].list # {}
    BY InHandOf
<1>5. mails[c][r] = 0 BY <1>2 DEF Fresh
<1>6. \A q \in Recipients : mails'[c][q] = IF q = r THEN mails[c][q] + 1 ELSE mails[c][q] BY DEF Posts
<1>7. \A q \in Recipients : mails'[c][q] <= 1 BY <1>2, <1>5, <1>6
<1>8. Fresh(run'[w]) \subseteq Fresh(run[w]) \ {r} BY <1>4 DEF Fresh, ToCome
<1>9. ASSUME NEW v \in Workers, run'[v].job[1] = c, NEW q \in Fresh(run'[v]) PROVE mails'[c][q] = 0
  BY <1>8, <1>9, InHandOf, FreshListed, <1>2, <1>6, <1>4 DEF HandInv, Only, Of, Alone
<1> QED  BY <1>3, <1>7, <1>9

\* A run lists its recipients, and is the first to do so.
LEMMA OnceCreates ==
    ASSUME TypeInv, HandInv, OnceInv, NEW w \in Workers, NEW c \in Campaigns, c = Of(w), Creates(w)
    PROVE  Once(c)'
<1> SUFFICES ASSUME Spared(c, {"rerun"})'
             PROVE  /\ Alone(c)'
                    /\ \A r \in Recipients : mails'[c][r] <= 1
                    /\ \A v \in Workers : run'[v].job[1] = c => \A r \in Fresh(run'[v]) : mails'[c][r] = 0
    BY DEF Once, Of
<1>1. PICK M \in SUBSET {"rerun", "relisted"} :
          /\ Tells(c, M)
          /\ "rerun" \in M <=> Busy(w) \/ \E r \in Recipients : mails[c][r] > 0
    BY DEF Creates
<1>2. "rerun" \notin M BY <1>1 DEF Tells, Spared
<1>3. mails \in [Campaigns -> [Recipients -> Nat]] BY DEF TypeInv
<1>4. \A r \in Recipients : mails[c][r] = 0 BY <1>1, <1>2, <1>3
<1>5. ~Busy(w) BY <1>1, <1>2
<1>6. \A v \in Workers \ {w} : run'[v] = run[v] /\ (Of(v) = c => run[v].list = {})
    BY <1>5 DEF Creates, Turns, Only, Busy
<1>7. Alone(c)' BY <1>6 DEF Alone, Of
<1>8. \A v \in Workers : Fresh(run'[v]) \subseteq Recipients
    <2> TAKE v \in Workers
    <2>1. CASE v = w BY <2>1 DEF Creates, Turns, Listed, Fresh, ToCome
    <2>2. CASE v # w BY <1>6, <2>2, InHandOf, FreshListed DEF HandInv
    <2> QED  BY <2>1, <2>2
<1>9. mails' = mails BY DEF Creates
<1> QED  BY <1>4, <1>7, <1>8, <1>9

\* Every step keeps mails at one for each recipient.
LEMMA OnceStep == TypeInv /\ HandInv /\ OnceInv /\ [Next]_vars => OnceInv'
<1> SUFFICES ASSUME TypeInv, HandInv, OnceInv, [Next]_vars, NEW c \in Campaigns PROVE Once(c)' BY DEF OnceInv
<1>0. tally.marred[c] \subseteq tally'.marred[c] BY Lasting
<1>1. ASSUME NEW w \in Workers, Creates(w), c = Of(w) PROVE Once(c)' BY <1>1, OnceCreates
<1>2. CASE ~\E w \in Workers : Creates(w) /\ c = Of(w)
    <2>1. \A v \in Workers : Fewer(c, v) BY <1>2, FewerSteps
    <2>2. ASSUME \A r \in Recipients : mails'[c][r] = mails[c][r] PROVE Once(c)' BY <1>0, <2>1, <2>2, OnceStays
    <2>3. CASE mails' = mails BY <2>2, <2>3
    <2>4. ASSUME NEW w \in Workers, NEW r \in Recipients, AcceptStep(w, r) PROVE Once(c)'
    BY <1>0, <2>4, OncePosts, <2>2 DEF AcceptStep, Turns, Posts
    <2>5. ASSUME NEW w \in Workers, NEW r \in Recipients, Loses(w, r) PROVE Once(c)'
    BY <1>0, <2>5, OncePosts, <2>2 DEF Loses, Turns, Posts
    <2>6. \/ mails' = mails
          \/ \E w \in Workers : \E r \in Recipients : AcceptStep(w, r) \/ Loses(w, r)
        <3>1. ASSUME NEW w \in Workers, WorkerStep(w)
              PROVE  mails' = mails \/ \E r \in Recipients : AcceptStep(w, r) \/ Loses(w, r)
            BY <3>1 DEF WorkerStep, RecipientStep, StartStep, LoadStep, SendingStep, HaltStep, Creates, TakeStep,
                        SaveStep, CloseStep, Stumbles, MarkStep, RefuseStep
        <3> QED  BY <3>1, Steps DEF Quiet, Makes, Commits
    <2> QED  BY <2>3, <2>4, <2>5, <2>6
<1> QED  BY <1>1, <1>2

------------------------------------------------------------------------------
(* The rows tell what was done. *)

\* One mail more is a mail of a run that had it in hand.
LEMMA MailSteps ==
    ASSUME TypeInv, HandInv, [Next]_vars, NEW c \in Campaigns, NEW r \in Recipients
    PROVE  \/ mails'[c][r] = mails[c][r]
           \/ /\ mails'[c][r] = mails[c][r] + 1
              /\ \E w \in Workers : Of(w) = c /\ run[w].pc = "send" /\ r \in run[w].chunk.send
<1>1. ASSUME NEW w \in Workers, NEW q \in Recipients, AcceptStep(w, q) \/ Loses(w, q)
      PROVE  \/ mails'[c][r] = mails[c][r]
             \/ mails'[c][r] = mails[c][r] + 1 /\ Of(w) = c /\ run[w].pc = "send" /\ r \in run[w].chunk.send
    BY <1>1 DEF AcceptStep, Loses, Posts
<1>2. ASSUME NEW w \in Workers, WorkerStep(w)
      PROVE  mails' = mails \/ \E q \in Recipients : AcceptStep(w, q) \/ Loses(w, q)
    BY <1>2 DEF WorkerStep, RecipientStep, StartStep, LoadStep, SendingStep, HaltStep, Creates, TakeStep,
                SaveStep, CloseStep, Stumbles, MarkStep, RefuseStep
<1>3. mails' = mails \/ \E w \in Workers : \E q \in Recipients : AcceptStep(w, q) \/ Loses(w, q)
    BY <1>2, Steps DEF Quiet, Makes, Commits
<1> QED  BY <1>1, <1>3

\* How the rows of a recipient change.
RowSame(c, r)   == rows'[c][r] = rows[c][r]
RowEnds(c, r)   == /\ rows[c][r] # {} /\ rows'[c][r] \in {{"suppressed"}, {"failed"}}
                   /\ \E w \in Workers :
                         /\ Of(w) = c /\ run[w].pc \in {"check", "send"}
                         /\ \/ "lost" \in tally'.marred[c]
                            \/ r \in Fresh(run[w]) /\ r \notin Fresh(run'[w]) /\ mails' = mails
RowSent(c, r)   == /\ rows[c][r] # {} /\ rows'[c][r] = {"sent"}
                   /\ \E w \in Workers :
                         Of(w) = c /\ run[w].pc = "send" /\ r \in run[w].chunk.mark /\ MarkStep(w, r)
RowListed(c, r) == /\ \E w \in Workers : Of(w) = c /\ Creates(w)
                   /\ r \in Listed(c) /\ rows'[c][r] = rows[c][r] \cup {"pending"}
RowGone(c, r)   == Row(c) /\ ~Row(c)' /\ rows'[c][r] = {}
\* A row changes in one of these ways.
LEMMA RowSteps ==
    ASSUME TypeInv, HandInv, [Next]_vars, NEW c \in Campaigns, NEW r \in Recipients
    PROVE  RowSame(c, r) \/ RowEnds(c, r) \/ RowSent(c, r) \/ RowListed(c, r) \/ RowGone(c, r)
<1>1. ASSUME rows' = rows PROVE RowSame(c, r) BY <1>1 DEF RowSame
<1>2. ASSUME NEW d \in Campaigns, NEW route \in DOMAIN Allowed, Commits(route, d)
      PROVE  RowSame(c, r) \/ RowGone(c, r)
  BY <1>1, <1>2 DEF Commits, RowSame, Writes, Written, RowGone, Row
<1>3. ASSUME NEW w \in Workers, WorkerStep(w)
      PROVE  RowSame(c, r) \/ RowEnds(c, r) \/ RowSent(c, r) \/ RowListed(c, r)
    <2>1. CASE StartStep(w) \/ LoadStep(w) \/ SendingStep(w) \/ HaltStep(w) \/ SaveStep(w) \/ CloseStep(w) \/ Stumbles(w)
        BY <1>1, <2>1 DEF StartStep, LoadStep, SendingStep, HaltStep, SaveStep, CloseStep, Stumbles
    <2>2. CASE Creates(w) BY <2>2 DEF Creates, RowSame, RowListed
    <2>3. CASE TakeStep(w)
        <3>1. PICK told, allowed, dropped : told \in BOOLEAN /\ Takes(w, told, allowed, dropped)
            BY <2>3 DEF TakeStep
        <3>2. CASE told
            <4>1. rows'[c][r] = IF c = Of(w) /\ r \in dropped /\ rows[c][r] # {} THEN {"suppressed"} ELSE rows[c][r]
                BY <3>1, <3>2 DEF Takes, Rewrites
            <4>2. ASSUME r \in dropped PROVE r \in Fresh(run[w]) /\ r \notin Fresh(run'[w])
        BY <2>3, <3>1, <4>2, InHandOf DEF Takes, TakeStep, Turns, Fresh, ToCome
            <4> QED  BY <2>3, <4>1, <4>2 DEF RowSame, RowEnds, TakeStep
        <3>3. CASE ~told BY <1>1, <3>1, <3>3 DEF Takes
        <3> QED  BY <3>2, <3>3
    <2>4. ASSUME NEW q \in Recipients, RecipientStep(w, q) PROVE RowSame(c, r) \/ RowEnds(c, r) \/ RowSent(c, r)
        <3>1. CASE AcceptStep(w, q) BY <1>1, <3>1 DEF AcceptStep
        <3>2. CASE MarkStep(w, q)
            <4>1. rows'[c][r] = IF c = Of(w) /\ r = q /\ rows[c][r] # {} THEN {"sent"} ELSE rows[c][r]
                BY <3>2 DEF MarkStep, Rewrites
            <4> QED  BY <3>2, <4>1 DEF RowSame, RowSent, MarkStep
        <3>3. CASE RefuseStep(w, q) \/ (Loses(w, q) /\ Rewrites(Of(w), {q}, "failed"))
            <4>1. rows'[c][r] = IF c = Of(w) /\ r = q /\ rows[c][r] # {} THEN {"failed"} ELSE rows[c][r]
                BY <3>3 DEF RefuseStep, Rewrites
            <4>2. run[w].pc = "send" BY <3>3 DEF RefuseStep, Loses
            <4>3. ASSUME RefuseStep(w, q) PROVE q \in Fresh(run[w]) /\ q \notin Fresh(run'[w]) /\ mails' = mails
        BY <4>3, InHandOf, <4>2 DEF RefuseStep, Turns, Fresh, ToCome
            <4>4. ASSUME Loses(w, q), c = Of(w) PROVE "lost" \in tally'.marred[c]
                BY <4>4 DEF Loses, Counts, Tells
            <4> QED  BY <3>3, <4>1, <4>2, <4>3, <4>4 DEF RowSame, RowEnds
        <3>4. CASE Loses(w, q) /\ rows' = rows BY <1>1, <3>4
        <3> QED  BY <2>4, <3>1, <3>2, <3>3, <3>4 DEF RecipientStep, Loses
    <2> QED  BY <1>3, <2>1, <2>2, <2>3, <2>4 DEF WorkerStep
<1> QED  BY <1>1, <1>2, <1>3, Steps DEF Quiet, Makes

\* How what a run listed, and what it has mailed and not written down, changes.
LEMMA ListSteps ==
    ASSUME TypeInv, HandInv, [Next]_vars, NEW c \in Campaigns, NEW v \in Workers, run'[v].job[1] = c
    PROVE  \/ run'[v].list = {}
           \/ Of(v) = c /\ run'[v].list = run[v].list
           \/ Of(v) = c /\ Creates(v) /\ run'[v].list = Listed(c)
<1>1. Fewer(c, v) \/ (Creates(v) /\ Of(v) = c) BY FewerSteps
<1> QED  BY <1>1 DEF Fewer, Creates, Turns
\* Who is mailed and not written down was so before, or is mailed now.
LEMMA MarkSteps ==
    ASSUME TypeInv, HandInv, [Next]_vars, NEW c \in Campaigns, NEW v \in Workers, run'[v].job[1] = c,
           NEW q \in run'[v].chunk.mark
    PROVE  /\ Of(v) = c
           /\ q \in run[v].chunk.mark \/ mails'[c][q] = mails[c][q] + 1
<1>1. CASE run'[v] = run[v] BY <1>1 DEF Of
<1>2. ASSUME NEW w \in Workers, WorkerStep(w), w # v PROVE run'[v] = run[v]
  BY <1>2 DEF WorkerStep, RecipientStep, StartStep, Starts, LoadStep, Keeps, SendingStep, HaltStep, Rests,
     Creates, TakeStep, Takes, SaveStep, CloseStep, Stumbles, AcceptStep, MarkStep, RefuseStep, Loses, Turns,
     Only
<1>3. CASE WorkerStep(v)
    <2>1. CASE StartStep(v) BY <2>1 DEF StartStep, Starts, NoChunk
    <2>2. CASE LoadStep(v) \/ SendingStep(v) BY <2>2 DEF LoadStep, SendingStep, Keeps, Turns, Of
    <2>3. CASE HaltStep(v) \/ CloseStep(v) \/ Stumbles(v) BY <2>3, FewerRests DEF HaltStep, CloseStep, Stumbles
    <2>4. CASE Creates(v) \/ TakeStep(v) \/ SaveStep(v) BY <2>4 DEF Creates, TakeStep, Takes, SaveStep, Turns
    <2>5. ASSUME NEW r \in Recipients, RecipientStep(v, r)
          PROVE  Of(v) = c /\ (q \in run[v].chunk.mark \/ mails'[c][q] = mails[c][q] + 1)
    BY <2>5 DEF RecipientStep, AcceptStep, MarkStep, RefuseStep, Loses, Turns, Of, Posts
    <2> QED  BY <1>3, <2>1, <2>2, <2>3, <2>4, <2>5 DEF WorkerStep
<1> QED  BY <1>1, <1>2, <1>3, Steps DEF Quiet, Makes, Commits

\* Only a run that lists its recipients marks its campaign as run again.
LEMMA RerunSteps ==
    ASSUME TypeInv, HandInv, [Next]_vars, NEW c \in Campaigns, "rerun" \in tally'.marred[c]
    PROVE  "rerun" \in tally.marred[c] \/ \E w \in Workers : Creates(w) /\ Of(w) = c
<1>0. ASSUME NEW d, NEW M, Tells(d, M), "rerun" \notin M PROVE "rerun" \in tally.marred[c] BY <1>0 DEF Tells
<1>x. \A d : Over(d) \subseteq {"overwritten"} BY OverMarks
<1>1. ASSUME NEW w \in Workers, WorkerStep(w) PROVE "rerun" \in tally.marred[c] \/ (Creates(w) /\ Of(w) = c)
    <2>1. CASE StartStep(w) \/ LoadStep(w) \/ SaveStep(w) BY <2>1 DEF StartStep, LoadStep, SaveStep
    <2>2. CASE SendingStep(w) \/ HaltStep(w) \/ CloseStep(w)
    BY <1>x, <1>0, <2>2 DEF SendingStep, HaltStep, CloseStep
    <2>3. CASE Creates(w) BY <2>3 DEF Creates, Tells
    <2>4. CASE Stumbles(w) BY <2>4, <1>0 DEF Stumbles
    <2>5. CASE TakeStep(w) BY <2>5, <1>0 DEF TakeStep, Takes, If
    <2>6. ASSUME NEW r \in Recipients, RecipientStep(w, r) PROVE "rerun" \in tally.marred[c]
        <3>1. ASSUME NEW M, Counts(Of(w), M), "rerun" \notin M PROVE "rerun" \in tally.marred[c]
            BY <3>1 DEF Counts
        <3>2. CASE AcceptStep(w, r) BY <3>1, <3>2 DEF AcceptStep
        <3>3. CASE MarkStep(w, r) \/ RefuseStep(w, r) BY <3>3 DEF MarkStep, RefuseStep
        <3>4. CASE Loses(w, r) BY <3>4, <1>0, <3>1 DEF Loses
        <3> QED  BY <2>6, <3>2, <3>3, <3>4 DEF RecipientStep
    <2> QED  BY <1>1, <2>1, <2>2, <2>3, <2>4, <2>5, <2>6 DEF WorkerStep
<1>2. ASSUME Quiet PROVE "rerun" \in tally.marred[c] BY <1>2 DEF Quiet
<1>3. ASSUME NEW d \in Campaigns, Makes(d) PROVE "rerun" \in tally.marred[c] BY <1>3 DEF Makes, Tells
<1>4. ASSUME NEW d \in Campaigns, NEW route \in DOMAIN Allowed, Commits(route, d) PROVE "rerun" \in tally.marred[c]
    BY <1>4 DEF Commits
<1> QED  BY <1>1, <1>2, <1>3, <1>4, Steps

\* Every step keeps the rows true.
LEMMA TrueStep == TypeInv /\ HandInv /\ TrueInv /\ [Next]_vars => TrueInv'
<1> SUFFICES ASSUME TypeInv, HandInv, TrueInv, [Next]_vars, NEW c \in Campaigns PROVE Truthful(c)'
    BY DEF TrueInv
<1>0. Truthful(c) BY DEF TrueInv
<1>t. /\ mails \in [Campaigns -> [Recipients -> Nat]]
      /\ campaign[c].status # "none" => campaign'[c].status # "none"
      /\ Row(c)' => Row(c) \/ campaign[c].status = "none"
    BY Lasting DEF TypeInv
<1>w. \A w \in Workers : Of(w) = c /\ run[w].pc \notin {"idle", "load"} => campaign[c].status # "none" BY AtWork
<1>m. \A r \in Recipients : mails'[c][r] \in Nat /\ mails'[c][r] >= mails[c][r] BY <1>t, MailSteps
<1>1. ASSUME campaign'[c].status = "none", NEW r \in Recipients PROVE mails'[c][r] = 0 /\ rows'[c][r] = {}
    <2>1. campaign[c].status = "none" BY <1>1, <1>t
    <2>2. mails[c][r] = 0 /\ rows[c][r] = {} BY <1>0, <2>1 DEF Truthful
    <2>3. mails'[c][r] = mails[c][r] BY <1>w, <2>1, MailSteps
    <2>4. \A w \in Workers : Creates(w) => run[w].pc = "resolve" BY DEF Creates
    <2>5. rows'[c][r] = rows[c][r]
        BY <1>w, <2>1, <2>2, <2>4, RowSteps DEF RowSame, RowEnds, RowSent, RowListed, RowGone, Row
    <2> QED  BY <2>2, <2>3, <2>5
<1>2. ASSUME NEW r \in Recipients, "sent" \in rows'[c][r] PROVE mails'[c][r] > 0
  BY <1>0, <1>2, RowSteps, <1>m, <1>t DEF RowSame, RowEnds, RowSent, RowListed, RowGone, Truthful
<1>3. ASSUME NEW w \in Workers, run'[w].job[1] = c, NEW r \in Recipients, r \in run'[w].chunk.mark
      PROVE  mails'[c][r] > 0
  BY <1>3, MarkSteps, <1>0, <1>m, <1>t DEF Truthful
<1>4. ASSUME Row(c)', NEW r \in Recipients,
             mails'[c][r] > 0 \/ \E w \in Workers : run'[w].job[1] = c /\ r \in run'[w].list
      PROVE  rows'[c][r] # {}
    <2>1. CASE campaign[c].status = "none"
        <3>1. mails[c][r] = 0 BY <1>0, <2>1 DEF Truthful
        <3>2. mails'[c][r] = mails[c][r] BY <1>w, <2>1, MailSteps
        <3>3. PICK w \in Workers : run'[w].job[1] = c /\ r \in run'[w].list BY <1>4, <3>1, <3>2
        <3>4. Of(w) = c /\ (r \in run[w].list \/ run[w].pc = "resolve") BY <3>3, ListSteps DEF Creates
        <3>5. run[w].pc \in {"idle", "load"} BY <1>w, <2>1, <3>4
        <3>6. run[w].list = {} BY <3>5 DEF HandInv, Hand
        <3> QED  BY <3>4, <3>5, <3>6
    <2>2. CASE Row(c)
        <3>1. ASSUME rows[c][r] # {} PROVE rows'[c][r] # {}
            <4>1. RowSame(c, r) \/ RowEnds(c, r) \/ RowSent(c, r) \/ RowListed(c, r) \/ RowGone(c, r)
                BY RowSteps
            <4>2. ~RowGone(c, r) BY <1>4 DEF RowGone
            <4> QED  BY <3>1, <4>1, <4>2 DEF RowSame, RowEnds, RowSent, RowListed
        <3>2. CASE mails'[c][r] > 0 BY <3>2, MailSteps, InHandOf, <1>0, <2>2, <3>1 DEF Truthful
        <3>3. ASSUME NEW w \in Workers, run'[w].job[1] = c, r \in run'[w].list PROVE rows'[c][r] # {}
            <4>1. CASE Of(w) = c /\ r \in run[w].list BY <1>0, <2>2, <4>1, <3>1 DEF Truthful
            <4>2. CASE Of(w) = c /\ Creates(w) /\ r \in Listed(c) BY <4>2 DEF Creates
            <4> QED  BY <3>3, <4>1, <4>2, ListSteps
        <3> QED  BY <1>4, <3>2, <3>3
    <2> QED  BY <1>4, <1>t, <2>1, <2>2
<1>5. ASSUME "rerun" \in tally'.marred[c] PROVE "relisted" \in tally'.marred[c]
    <2>1. CASE "rerun" \in tally.marred[c] BY <1>0, <2>1, Lasting DEF Truthful
    <2>2. ASSUME NEW w \in Workers, Creates(w), Of(w) = c, "rerun" \notin tally.marred[c]
          PROVE  "relisted" \in tally'.marred[c]
        <3>1. PICK M \in SUBSET {"rerun", "relisted"} :
                  /\ Tells(c, M)
                  /\ "rerun" \in M <=> Busy(w) \/ \E r \in Recipients : mails[c][r] > 0
                  /\ "relisted" \in M <=> Busy(w) \/ \E r \in Recipients : rows[c][r] # {}
            BY <2>2 DEF Creates
        <3>2. "rerun" \in M BY <1>5, <2>2, <3>1 DEF Tells
        <3>3. Row(c) BY <2>2 DEF Creates
        <3>4. "relisted" \in M BY <1>0, <3>1, <3>2, <3>3 DEF Truthful
        <3> QED  BY <3>1, <3>4 DEF Tells
    <2> QED  BY <1>5, <2>1, <2>2, RerunSteps
<1>6. /\ campaign'[c].status = "none" => \A r \in Recipients : mails'[c][r] = 0 /\ rows'[c][r] = {}
      /\ \A r \in Recipients : "sent" \in rows'[c][r] => mails'[c][r] > 0
      /\ \A w \in Workers : run'[w].job[1] = c => \A r \in run'[w].chunk.mark : mails'[c][r] > 0
  BY TypeStep, Slots, <1>1, <1>2, <1>3 DEF TypeInv
<1> QED  BY <1>4, <1>5, <1>6 DEF Truthful, Of

------------------------------------------------------------------------------
(* What failed is not mailed, and what is sent is complete. *)

\* A run that lists the recipients of a campaign that no other has listed.
LEMMA FirstList ==
    ASSUME NEW w \in Workers, NEW c \in Campaigns, c = Of(w), Creates(w), "relisted" \notin tally'.marred[c]
    PROVE  /\ \A r \in Recipients : rows[c][r] = {}
           /\ \A v \in Workers \ {w} : Of(v) = c => run[v].list = {}
  BY DEF Creates, Tells, Busy

\* A campaign whose recipients were listed once has one run.
LEMMA OneRun ==
    ASSUME OnceInv, TrueInv, NEW c \in Campaigns, "relisted" \notin tally.marred[c]
    PROVE  /\ Alone(c)
           /\ \A w \in Workers : Of(w) = c => \A r \in Fresh(run[w]) : mails[c][r] = 0
  BY DEF TrueInv, Truthful, Spared, OnceInv, Once

\* The recipients a campaign may still list become fewer.
LEMMA ListedLess ==
    ASSUME TypeInv, HandInv, [Next]_vars, NEW c \in Campaigns, campaign[c].status # "none"
    PROVE  Listed(c)' \subseteq Listed(c)
BY Lasting DEF Listed

\* A run with nobody on its list was one before, or has just listed nobody.
LEMMA EmptyLists ==
    ASSUME TypeInv, HandInv, [Next]_vars, NEW c \in Campaigns, NEW v \in Workers,
           run'[v].job[1] = c, run'[v].pc \in {"check", "send"}
    PROVE  /\ Of(v) = c
           /\ \/ run[v].pc \in {"check", "send"} /\ run'[v].list = run[v].list
              \/ Creates(v) /\ run'[v].list = Listed(c)
<1> DEFINE P == /\ Of(v) = c
                /\ \/ run[v].pc \in {"check", "send"} /\ run'[v].list = run[v].list
                   \/ Creates(v) /\ run'[v].list = Listed(c)
<1>1. ASSUME run'[v] = run[v] PROVE P BY <1>1 DEF Of
<1>2. ASSUME NEW w \in Workers, WorkerStep(w), w # v PROVE run'[v] = run[v]
  BY <1>2 DEF WorkerStep, RecipientStep, StartStep, Starts, LoadStep, Keeps, SendingStep, HaltStep, Rests,
     Creates, TakeStep, Takes, SaveStep, CloseStep, Stumbles, AcceptStep, MarkStep, RefuseStep, Loses, Turns,
     Only
<1>3. ASSUME WorkerStep(v) PROVE P
    <2>1. CASE StartStep(v) \/ LoadStep(v) \/ SendingStep(v)
        BY <2>1 DEF StartStep, Starts, LoadStep, SendingStep, Keeps, Turns
    <2>2. CASE HaltStep(v) \/ CloseStep(v) \/ Stumbles(v) BY <2>2, FewerRests DEF HaltStep, CloseStep, Stumbles
    <2>3. CASE Creates(v) BY <2>3 DEF Creates, Turns, Of
    <2>4. CASE TakeStep(v) BY <2>4 DEF TakeStep, Takes, Turns, Of
    <2>5. CASE SaveStep(v) BY <2>5 DEF SaveStep, Turns, Of
    <2>6. ASSUME NEW r \in Recipients, RecipientStep(v, r) PROVE P
        BY <2>6 DEF RecipientStep, AcceptStep, MarkStep, RefuseStep, Loses, Turns, Of
    <2> QED  BY <1>3, <2>1, <2>2, <2>3, <2>4, <2>5, <2>6 DEF WorkerStep
<1> QED  BY <1>1, <1>2, <1>3, Steps DEF Quiet, Makes, Commits

\* A campaign that listed nobody.
LEMMA NobodyListed ==
    ASSUME TypeInv, HandInv, ToldInv, [Next]_vars, NEW c \in Campaigns, Spared(c, {"relisted"})',
           NEW w \in Workers, run'[w].job[1] = c, run'[w].pc \in {"check", "send"}, run'[w].list = {}
    PROVE  NoRows(c)' /\ Listed(c)' = {}
<1>0. Of(w) = c /\ "relisted" \notin tally'.marred[c] BY EmptyLists DEF Spared
<1>1. ASSUME Listed(c) = {}, NoRows(c), campaign[c].status # "none" PROVE NoRows(c)' /\ Listed(c)' = {}
    <2>1. Listed(c)' = {} BY <1>1, ListedLess
    <2>2. ASSUME NEW r \in Recipients PROVE rows'[c][r] = {}
    BY RowSteps, <1>1 DEF NoRows, RowSame, RowEnds, RowSent, RowListed, RowGone
    <2> QED  BY <2>1, <2>2 DEF NoRows
<1>2. CASE run[w].pc \in {"check", "send"} /\ run'[w].list = run[w].list
  BY Lasting, <1>0, <1>2, AtWork, <1>1 DEF Spared, ToldInv, Told
<1>3. CASE Creates(w) /\ run'[w].list = Listed(c) BY <1>0, <1>3, FirstList, <1>1 DEF NoRows, Creates, Row
<1> QED  BY <1>2, <1>3, EmptyLists

\* Who failed or was suppressed is not mailed.
LEMMA NotMailed ==
    ASSUME TypeInv, HandInv, OnceInv, TrueInv, ToldInv, [Next]_vars, NEW c \in Campaigns,
           Spared(c, {"relisted", "lost"})'
    PROVE  /\ \A r \in Recipients : rows'[c][r] \cap {"failed", "suppressed"} # {} => mails'[c][r] = 0
           /\ \A w \in Workers : run'[w].job[1] = c =>
                 \A r \in Fresh(run'[w]) : rows'[c][r] \cap {"failed", "suppressed"} = {}
<1>0. /\ "relisted" \notin tally'.marred[c] /\ "lost" \notin tally'.marred[c]
      /\ "relisted" \notin tally.marred[c] /\ "lost" \notin tally.marred[c]
    BY Lasting DEF Spared
<1>1. /\ \A r \in Recipients : rows[c][r] \cap {"failed", "suppressed"} # {} => mails[c][r] = 0
      /\ \A w \in Workers : Of(w) = c => \A r \in Fresh(run[w]) : rows[c][r] \cap {"failed", "suppressed"} = {}
    BY <1>0 DEF ToldInv, Told, Spared
<1>2. Alone(c) /\ \A w \in Workers : Of(w) = c => \A r \in Fresh(run[w]) : mails[c][r] = 0 BY <1>0, OneRun
<1>3. \A r \in Recipients :
         RowSame(c, r) \/ RowEnds(c, r) \/ RowSent(c, r) \/ RowListed(c, r) \/ RowGone(c, r)
    BY RowSteps
<1>4. ASSUME NEW r \in Recipients, RowEnds(c, r)
      PROVE  \E w \in Workers : Of(w) = c /\ r \in Fresh(run[w]) /\ r \notin Fresh(run'[w]) /\ mails' = mails
    BY <1>0, <1>4 DEF RowEnds
<1>5. ASSUME NEW r \in Recipients, RowListed(c, r) PROVE rows'[c][r] = {"pending"}
  BY <1>0, <1>5, FirstList DEF RowListed
<1>6. ASSUME NEW r \in Recipients, rows'[c][r] \cap {"failed", "suppressed"} # {} PROVE mails'[c][r] = 0
  BY <1>3, <1>5, <1>6, <1>2, <1>4, <1>1, MailSteps DEF RowSent, RowGone, RowSame, Fresh
<1>7. ASSUME NEW w \in Workers, run'[w].job[1] = c, NEW r \in Fresh(run'[w])
      PROVE  rows'[c][r] \cap {"failed", "suppressed"} = {}
    <2>0. r \in Recipients BY TypeStep, HandStep, FreshListed, Slots DEF TypeInv, HandInv
    <2>1. CASE Creates(w) /\ Of(w) = c
        <3>1. rows[c][r] = {} BY <1>0, <2>0, <2>1, FirstList
        <3>2. rows'[c][r] \subseteq {"pending"} BY <2>0, <2>1, <3>1 DEF Creates
        <3> QED  BY <3>2
    <2>2. CASE ~(Creates(w) /\ Of(w) = c)
        <3>1. Of(w) = c /\ r \in Fresh(run[w]) BY <1>7, <2>2, FewerSteps DEF Fewer
        <3>2. rows[c][r] \cap {"failed", "suppressed"} = {} BY <1>1, <3>1
        <3>3. ~RowEnds(c, r)
            <4>1. SUFFICES ASSUME RowEnds(c, r) PROVE FALSE OBVIOUS
            <4>2. PICK v \in Workers : Of(v) = c /\ r \in Fresh(run[v]) /\ r \notin Fresh(run'[v])
                BY <1>4, <2>0, <4>1
            <4>3. run[v].list # {} /\ run[w].list # {} BY <3>1, <4>2, InHandOf, FreshListed DEF HandInv
            <4>4. v = w BY <1>2, <3>1, <4>2, <4>3 DEF Alone
            <4> QED  BY <1>7, <4>2, <4>4
        <3>4. RowSame(c, r) \/ RowSent(c, r) \/ RowListed(c, r) \/ RowGone(c, r) BY <1>3, <2>0, <3>3
        <3>5. rows'[c][r] = rows[c][r] \/ rows'[c][r] = {"sent"} \/ rows'[c][r] = {"pending"} \/ rows'[c][r] = {}
            BY <1>5, <2>0, <3>4 DEF RowSame, RowSent, RowGone
        <3> QED  BY <3>2, <3>5
    <2> QED  BY <2>1, <2>2
<1> QED  BY <1>6, <1>7

\* Those a run has still to hear of.
Awaits(x) == Fresh(x) \cup x.chunk.mark

\* A run of a campaign for which nothing was lost and no chunk was cut: it waits
\* for fewer, and the row of whoever it no longer waits for does not wait either.
Settled(c, w) ==
    /\ Of(w) = c /\ run'[w].list = run[w].list /\ Awaits(run'[w]) \subseteq Awaits(run[w])
    /\ \A r \in Recipients : r \in Awaits(run[w]) /\ "pending" \in rows'[c][r]
          => r \in Awaits(run'[w])
    /\ run'[w].sent = run[w].sent \/ \E r \in Recipients : MarkStep(w, r)
\* Every step keeps that, but the one that lists.
LEMMA WaitSteps ==
    ASSUME TypeInv, HandInv, [Next]_vars, NEW c \in Campaigns, NEW w \in Workers,
           run'[w].job[1] = c, run'[w].list # {}, ~Creates(w),
           "lost" \notin tally'.marred[c], "cut" \notin tally'.marred[c]
    PROVE  Settled(c, w)
<1>1. CASE run'[w] = run[w] BY <1>1 DEF Settled, Of
<1>2. ASSUME NEW v \in Workers, WorkerStep(v), w # v PROVE run'[w] = run[w]
  BY <1>2 DEF WorkerStep, RecipientStep, StartStep, Starts, LoadStep, Keeps, SendingStep, HaltStep, Rests,
     Creates, TakeStep, Takes, SaveStep, CloseStep, Stumbles, AcceptStep, MarkStep, RefuseStep, Loses, Turns,
     Only
<1>3. CASE WorkerStep(w)
    <2>0. /\ First(CHUNK_SIZE, run[w].left) \subseteq run[w].left
          /\ run[w].chunk.send \cup run[w].chunk.mark \subseteq First(CHUNK_SIZE, run[w].left)
          /\ run[w].chunk.send \cap run[w].chunk.mark = {}
          /\ run[w].pc # "send" => run[w].chunk.send = {} /\ run[w].chunk.mark = {}
        BY InHandOf
    <2>1. CASE StartStep(w) \/ HaltStep(w) \/ CloseStep(w) \/ Stumbles(w)
        BY <2>1, FewerRests DEF StartStep, Starts, HaltStep, CloseStep, Stumbles
    <2>2. CASE LoadStep(w) \/ SendingStep(w)
    BY <2>2 DEF LoadStep, SendingStep, Keeps, Turns, Settled, Awaits, Fresh, ToCome, Of
    <2>3. CASE TakeStep(w)
        <3>1. PICK told, allowed, dropped : told \in BOOLEAN /\ Takes(w, told, allowed, dropped)
            BY <2>3 DEF TakeStep
        <3>2. /\ run[w].pc = "check" /\ run'[w].pc = "send" /\ run'[w].left = run[w].left
              /\ run'[w].list = run[w].list /\ run'[w].chunk.send = allowed \ dropped
              /\ run'[w].chunk.mark = {} /\ run'[w].sent = run[w].sent /\ Of(w) = c
            BY <2>3, <3>1 DEF TakeStep, Takes, Turns, Of
        <3>3. told
            <4>1. SUFFICES ASSUME ~told PROVE FALSE OBVIOUS
            <4>2. PICK M \in SUBSET {"lost", "cut"} : "lost" \in M /\ Tells(c, M) BY <3>1, <3>2, <4>1 DEF Takes
            <4> QED  BY <4>2 DEF Tells
        <3>4. allowed = First(CHUNK_SIZE, run[w].left)
            <4>1. SUFFICES ASSUME allowed # First(CHUNK_SIZE, run[w].left) PROVE FALSE OBVIOUS
            <4>2. PICK M : M = If(allowed # First(CHUNK_SIZE, run[w].left), "cut") OBVIOUS
            <4>3. Tells(c, M) /\ "cut" \in M BY <3>1, <3>2, <3>3, <4>1, <4>2 DEF Takes, If
            <4> QED  BY <4>3 DEF Tells
        <3>5. Awaits(run[w]) = run[w].left /\ Awaits(run'[w]) = run[w].left \ dropped
            BY <2>0, <3>1, <3>2, <3>4 DEF Awaits, Fresh, ToCome, Takes
        <3>6. ASSUME NEW r \in Recipients, r \in dropped PROVE "pending" \notin rows'[c][r]
      BY <3>1, <3>2, <3>3, <3>6 DEF Takes, Rewrites
        <3> QED  BY <3>2, <3>5, <3>6 DEF Settled
    <2>4. CASE SaveStep(w) BY <2>4 DEF SaveStep, Turns, Settled, Awaits, Fresh, ToCome, Of
    <2>5. ASSUME NEW q \in Recipients, RecipientStep(w, q) PROVE Settled(c, w)
        <3>1. /\ run[w].pc = "send" /\ run'[w].pc = "send" /\ run'[w].left = run[w].left
              /\ run'[w].list = run[w].list /\ run'[w].job = run[w].job /\ Of(w) = c
            BY <2>5 DEF RecipientStep, AcceptStep, MarkStep, RefuseStep, Loses, Turns, Of
        <3>2. CASE AcceptStep(w, q) BY <3>1, <3>2 DEF AcceptStep, Turns, Settled, Awaits, Fresh, ToCome
        <3>3. CASE MarkStep(w, q)
            <4>1. rows'[c][q] = IF rows[c][q] # {} THEN {"sent"} ELSE rows[c][q]
                BY <3>1, <3>3 DEF MarkStep, Rewrites
            <4>2. "pending" \notin rows'[c][q] BY <4>1
            <4>3. run'[w].chunk.send = run[w].chunk.send /\ run'[w].chunk.mark = run[w].chunk.mark \ {q}
                BY <3>3 DEF MarkStep, Turns
            <4> QED  BY <3>1, <3>3, <4>2, <4>3 DEF Settled, Awaits, Fresh, ToCome
        <3>4. CASE RefuseStep(w, q)
      BY <3>1, <3>4 DEF RefuseStep, Rewrites, Turns, Settled, Awaits, Fresh, ToCome
        <3>5. CASE Loses(w, q) BY <3>1, <3>5 DEF Loses, Counts, Tells
        <3> QED  BY <2>5, <3>2, <3>3, <3>4, <3>5 DEF RecipientStep
    <2> QED  BY <1>3, <2>1, <2>2, <2>3, <2>4, <2>5 DEF WorkerStep
<1> QED  BY <1>1, <1>2, <1>3, Steps DEF Quiet, Makes, Commits

\* The run that listed the recipients of a campaign knows who waits, and how
\* many it sent to.
LEMMA KnowsStep ==
    ASSUME TypeInv, HandInv, OnceInv, TrueInv, ToldInv, [Next]_vars, NEW c \in Campaigns,
           Spared(c, {"relisted", "lost", "cut"})', Row(c)',
           NEW w \in Workers, run'[w].job[1] = c, run'[w].list # {}
    PROVE  Knows(c, run[w])'
<1>0. /\ "relisted" \notin tally'.marred[c] /\ "lost" \notin tally'.marred[c] /\ "cut" \notin tally'.marred[c]
      /\ "relisted" \notin tally.marred[c] /\ Spared(c, {"relisted", "lost", "cut"})
    BY Lasting DEF Spared
<1>a. TypeInv' /\ HandInv' BY TypeStep, HandStep
<1>b. Awaits(run'[w]) \subseteq Recipients BY <1>a, FreshListed, Slots DEF TypeInv, HandInv, Awaits
<1>c. \A r \in Recipients :
         RowSame(c, r) \/ RowEnds(c, r) \/ RowSent(c, r) \/ RowListed(c, r) \/ RowGone(c, r)
    BY RowSteps
<1>1. CASE Creates(w) /\ Of(w) = c
    <2>1. \A r \in Recipients : rows[c][r] = {} BY <1>0, <1>1, FirstList
    <2>2. \A r \in Recipients : rows'[c][r] = IF r \in Listed(c) THEN {"pending"} ELSE {}
        BY <1>1, <2>1 DEF Creates
    <2>3. /\ run'[w].pc = "check" /\ run'[w].left = Listed(c) /\ run'[w].chunk.send = {}
          /\ run'[w].chunk.mark = {} /\ run'[w].sent = 0
        BY <1>1 DEF Creates, Turns
    <2>4. SentRows(c)' = {} BY <2>2 DEF SentRows
    <2>5. Cardinality(SentRows(c)') = 0 BY <2>4, FS_EmptySet
    <2>6. Fresh(run'[w]) \cup run'[w].chunk.mark = Listed(c) BY <2>3 DEF Fresh, ToCome
    <2>7. \A r \in Recipients : "pending" \in rows'[c][r] => r \in Fresh(run'[w]) \cup run'[w].chunk.mark
        BY <2>2, <2>6
    <2>8. \A r \in Fresh(run'[w]) \cup run'[w].chunk.mark : "sent" \notin rows'[c][r] BY <2>2, <2>6 DEF Listed
    <2> QED  BY <2>3, <2>5, <2>7, <2>8 DEF Knows
<1>2. CASE ~(Creates(w) /\ Of(w) = c)
    <2>0. ~Creates(w) BY <1>2 DEF Creates, Turns, Of
    <2>1. Settled(c, w) BY <1>0, <2>0, WaitSteps
    <2>2. /\ Of(w) = c /\ run[w].list # {} /\ Awaits(run'[w]) \subseteq Awaits(run[w])
          /\ run'[w].sent = run[w].sent \/ \E r \in Recipients : MarkStep(w, r)
          /\ \A r \in Recipients : r \in Awaits(run[w]) /\ "pending" \in rows'[c][r] => r \in Awaits(run'[w])
        BY <2>1 DEF Settled
    <2>3. run[w] \in RunType /\ Hand(run[w]) /\ run[w].pc \notin {"idle", "load"} /\ campaign[c].status # "none"
    BY <2>2, AtWork DEF TypeInv, HandInv, Hand, IdleRun
    <2>4. Row(c) BY <2>3, Lasting
    <2>5. Knows(c, run[w]) BY <1>0, <2>2, <2>4 DEF ToldInv, Complete
    <2>6. /\ \A r \in Recipients : "pending" \in rows[c][r] => r \in Awaits(run[w])
          /\ \A r \in Awaits(run[w]) : "sent" \notin rows[c][r]
          /\ run[w].sent = Cardinality(SentRows(c))
        BY <2>5 DEF Knows, Awaits
    <2>7. ASSUME NEW v \in Workers, Of(v) = c, run[v].list # {} PROVE v = w
        BY <1>0, <2>2, <2>7, OneRun DEF Alone
    <2>8. ASSUME NEW r \in Recipients, RowListed(c, r) PROVE FALSE
    BY <2>8, <1>0, <2>0, <2>2, FirstList DEF RowListed
    <2>9. \A r \in Recipients : ~RowGone(c, r) BY DEF RowGone
    <2>a. ASSUME NEW r \in Recipients, RowSent(c, r) PROVE MarkStep(w, r) BY <2>a, InHandOf, <2>7 DEF RowSent
    <2>b. ASSUME NEW r \in Recipients, RowEnds(c, r) PROVE r \in Awaits(run[w])
    BY <1>0, <2>b, InHandOf, FreshListed, <2>7 DEF RowEnds, HandInv, Awaits
    <2>c. ASSUME NEW r \in Recipients, MarkStep(w, r)
          PROVE  /\ run'[w].sent = run[w].sent + 1 /\ r \in Awaits(run[w]) /\ r \notin Awaits(run'[w])
                 /\ \A q \in Recipients : rows'[c][q] = IF q = r /\ rows[c][q] # {} THEN {"sent"} ELSE rows[c][q]
                 /\ rows[c][r] # {}
    BY <2>c, InHandOf, <2>2, <2>4 DEF MarkStep, Turns, Awaits, Fresh, ToCome, Rewrites, TrueInv, Truthful
    <2>d. ASSUME NEW r \in Recipients, "pending" \in rows'[c][r] PROVE r \in Awaits(run'[w])
    BY <1>c, <2>8, <2>9, <2>d, <2>2, <2>6 DEF RowEnds, RowSent, RowSame
    <2>e. ASSUME NEW r \in Awaits(run'[w]) PROVE "sent" \notin rows'[c][r]
    BY <1>b, <2>2, <2>6, <2>a, <2>c, <1>c, <2>8, <2>9 DEF RowSame, RowEnds
    <2>f. run'[w].sent = Cardinality(SentRows(c)')
        <3>0. SentRows(c) \in SUBSET Recipients BY DEF SentRows
        <3>1. CASE \E r \in Recipients : MarkStep(w, r) BY <3>1, <2>6, <2>c, <3>0, OneMore DEF SentRows
        <3>2. CASE ~\E r \in Recipients : MarkStep(w, r)
            <4>1. ASSUME NEW r \in Recipients PROVE "sent" \in rows'[c][r] <=> "sent" \in rows[c][r]
        BY <1>c, <2>8, <2>9, <2>a, <3>2, <2>6, <2>b DEF RowSame, RowEnds
            <4>2. SentRows(c)' = SentRows(c) BY <4>1 DEF SentRows
            <4> QED  BY <2>2, <2>6, <3>2, <4>2
        <3> QED  BY <3>1, <3>2
    <2> QED  BY <2>d, <2>e, <2>f DEF Knows, Awaits
<1> QED  BY <1>1, <1>2

\* Who calls a campaign sent.
LEMMA SentSteps ==
    ASSUME TypeInv, HandInv, [Next]_vars, NEW c \in Campaigns, campaign'[c].status = "sent"
    PROVE  \/ campaign'[c] = campaign[c]
           \/ \E w \in Workers : Of(w) = c /\ CloseStep(w)
           \/ campaign[c].status = "sent" /\ \E w \in Workers : Of(w) = c /\ SaveStep(w)
<1>1. ASSUME NEW d \in Campaigns, Makes(d) PROVE campaign'[c] = campaign[c] BY <1>1 DEF Makes
<1>2. ASSUME NEW d \in Campaigns, NEW route \in DOMAIN Allowed, Commits(route, d)
      PROVE  campaign'[c] = campaign[c]
  BY <1>2, WrittenIs DEF Commits, Writes
<1>3. ASSUME NEW w \in Workers, WorkerStep(w)
      PROVE  \/ campaign'[c] = campaign[c]
             \/ Of(w) = c /\ CloseStep(w)
             \/ campaign[c].status = "sent" /\ Of(w) = c /\ SaveStep(w)
    <2>1. CASE StartStep(w) \/ LoadStep(w) \/ Creates(w) \/ TakeStep(w) \/ Stumbles(w)
        BY <2>1 DEF StartStep, LoadStep, Creates, TakeStep, Stumbles
    <2>2. CASE SendingStep(w) \/ HaltStep(w) BY <2>2 DEF SendingStep, HaltStep, Writes
    <2>3. CASE SaveStep(w) \/ CloseStep(w) BY <2>3 DEF SaveStep, CloseStep, Writes
    <2>4. ASSUME NEW r \in Recipients, RecipientStep(w, r) PROVE campaign'[c] = campaign[c]
        BY <2>4 DEF RecipientStep, AcceptStep, MarkStep, RefuseStep, Loses
    <2> QED  BY <1>3, <2>1, <2>2, <2>3, <2>4 DEF WorkerStep
<1> QED  BY <1>1, <1>2, <1>3, Steps DEF Quiet

\* A campaign that is sent stays complete.
LEMMA SentStays ==
    ASSUME TypeInv, HandInv, OnceInv, TrueInv, ToldInv, [Next]_vars, NEW c \in Campaigns,
           Spared(c, {"relisted", "lost", "cut"})', campaign[c].status = "sent", campaign'[c].status = "sent",
           campaign'[c] = campaign[c]
    PROVE  /\ \A r \in Recipients : "pending" \notin rows'[c][r]
           /\ campaign'[c].sentCount = Cardinality(SentRows(c)')
           /\ \A w \in Workers : run'[w].job[1] = c => run'[w].list = {}
           /\ Listed(c)' = {} \/ ~NoRows(c)'
<1>0. /\ "relisted" \notin tally'.marred[c] /\ "lost" \notin tally'.marred[c]
      /\ Spared(c, {"relisted", "lost", "cut"})
    BY Lasting DEF Spared
<1>1. /\ \A r \in Recipients : "pending" \notin rows[c][r]
      /\ campaign[c].sentCount = Cardinality(SentRows(c))
      /\ \A w \in Workers : Of(w) = c => run[w].list = {}
      /\ Listed(c) = {} \/ ~NoRows(c)
    BY <1>0 DEF ToldInv, Complete
<1>2. ASSUME NEW w \in Workers, Of(w) = c, Creates(w) PROVE Listed(c) = {}
    BY <1>0, <1>1, <1>2, FirstList DEF NoRows
<1>3. ASSUME NEW r \in Recipients PROVE rows'[c][r] = rows[c][r]
    <2>1. RowSame(c, r) \/ RowEnds(c, r) \/ RowSent(c, r) \/ RowListed(c, r) \/ RowGone(c, r) BY RowSteps
    <2>2. ~RowEnds(c, r)
        <3>1. SUFFICES ASSUME RowEnds(c, r) PROVE FALSE OBVIOUS
        <3>2. PICK v \in Workers : Of(v) = c /\ r \in Fresh(run[v]) BY <1>0, <3>1 DEF RowEnds
        <3> QED  BY <1>1, <3>2, InHandOf, FreshListed DEF HandInv
    <2>3. ~RowSent(c, r)
        <3>1. SUFFICES ASSUME RowSent(c, r) PROVE FALSE OBVIOUS
        <3>2. PICK v \in Workers : Of(v) = c /\ r \in run[v].chunk.mark BY <3>1 DEF RowSent
        <3> QED  BY <1>1, <3>2, InHandOf
    <2>4. ~RowListed(c, r) BY <1>2 DEF RowListed
    <2>5. ~RowGone(c, r) BY DEF RowGone, Row
    <2> QED  BY <2>1, <2>2, <2>3, <2>4, <2>5 DEF RowSame
<1>4. SentRows(c)' = SentRows(c) BY <1>3 DEF SentRows
<1>5. ASSUME NEW w \in Workers, run'[w].job[1] = c PROVE run'[w].list = {} BY <1>1, <1>2, <1>5, ListSteps
<1>6. Listed(c)' \subseteq Listed(c) BY ListedLess
<1>7. ~NoRows(c) => ~NoRows(c)' BY <1>3 DEF NoRows
<1> QED  BY <1>1, <1>3, <1>4, <1>5, <1>6, <1>7

\* The run that went through all its chunks calls its campaign sent.
LEMMA SentCloses ==
    ASSUME TypeInv, HandInv, OnceInv, TrueInv, ToldInv, [Next]_vars, NEW c \in Campaigns,
           Spared(c, {"relisted", "lost", "cut"})', NEW w \in Workers, Of(w) = c, CloseStep(w)
    PROVE  /\ \A r \in Recipients : "pending" \notin rows'[c][r]
           /\ campaign'[c].sentCount = Cardinality(SentRows(c)')
           /\ \A v \in Workers : run'[v].job[1] = c => run'[v].list = {}
           /\ Listed(c)' = {} \/ ~NoRows(c)'
<1>0. /\ "relisted" \notin tally.marred[c] /\ Spared(c, {"relisted"}) /\ Spared(c, {"relisted", "lost", "cut"})
    BY Lasting DEF Spared
<1>1. /\ run[w].pc = "check" /\ run[w].left = {} /\ Row(c) /\ Rests(w)
      /\ campaign'[c].sentCount = run[w].sent /\ rows' = rows
    BY DEF CloseStep
<1>2. run[w].chunk.send = {} /\ run[w].chunk.mark = {} /\ run[w].list \subseteq Recipients BY <1>1, InHandOf
<1>3. Truthful(c) BY DEF TrueInv
<1>4. SentRows(c)' = SentRows(c) /\ NoRows(c)' = NoRows(c) BY <1>1 DEF SentRows, NoRows
<1>5. ASSUME NEW v \in Workers, run'[v].job[1] = c, v # w PROVE run'[v] = run[v] /\ Of(v) = c
    BY <1>1, <1>5 DEF Rests, Only, Of
<1>6. run'[w].list = {} BY <1>1, FewerRests
<1>7. campaign[c].status # "none" BY <1>1, AtWork
<1>8. CASE run[w].list # {}
    <2>1. Knows(c, run[w]) BY <1>0, <1>1, <1>8 DEF ToldInv, Complete
    <2>2. Fresh(run[w]) \cup run[w].chunk.mark = {} BY <1>1, <1>2 DEF Fresh, ToCome
    <2>3. /\ \A r \in Recipients : "pending" \notin rows[c][r]
          /\ run[w].sent = Cardinality(SentRows(c))
        BY <2>1, <2>2 DEF Knows
    <2>4. PICK r \in Recipients : r \in run[w].list BY <1>2, <1>8
    <2>5. ~NoRows(c) BY <1>1, <1>3, <2>4 DEF Truthful, NoRows
    <2>6. ASSUME NEW v \in Workers, run'[v].job[1] = c PROVE run'[v].list = {}
        BY <1>0, <1>5, <1>6, <1>8, <2>6, OneRun DEF Alone
    <2> QED  BY <1>1, <1>4, <2>3, <2>5, <2>6
<1>9. CASE run[w].list = {}
    <2>1. NoRows(c) /\ Listed(c) = {} BY <1>0, <1>1, <1>9 DEF ToldInv, Told
    <2>2. run[w].sent = 0
        <3>1. run[w] \in RunType /\ Hand(run[w]) BY <1>1, AtWork
        <3>2. run[w].sent + Cardinality(run[w].chunk.send \cup run[w].chunk.mark)
                 <= Cardinality(run[w].list \ ToCome(run[w]))
            BY <3>1 DEF Hand
        <3>3. run[w].list \ ToCome(run[w]) = {} /\ run[w].chunk.send \cup run[w].chunk.mark = {} BY <1>2, <1>9
        <3>4. Cardinality(run[w].list \ ToCome(run[w])) = 0 BY <3>3, FS_EmptySet
        <3>5. Cardinality(run[w].chunk.send \cup run[w].chunk.mark) = 0 BY <3>3, FS_EmptySet
        <3>6. run[w].sent \in Nat BY <3>1, Slots
        <3> QED  BY <3>2, <3>4, <3>5, <3>6
    <2>3. SentRows(c) = {} BY <2>1 DEF SentRows, NoRows
    <2>4. Cardinality(SentRows(c)') = 0 BY <1>4, <2>3, FS_EmptySet
    <2>5. \A r \in Recipients : "pending" \notin rows'[c][r] BY <1>1, <2>1 DEF NoRows
    <2>6. ASSUME NEW v \in Workers, run'[v].job[1] = c PROVE run'[v].list = {}
    BY <1>6, <1>5, <2>6, InHandOf, <1>1, <1>3, <2>1 DEF Truthful, NoRows
    <2>7. Listed(c)' = {} BY <1>7, <2>1, ListedLess
    <2> QED  BY <1>1, <2>2, <2>4, <2>5, <2>6, <2>7
<1> QED  BY <1>8, <1>9

\* Every step keeps what the tables tell.
LEMMA ToldStep == TypeInv /\ HandInv /\ OnceInv /\ TrueInv /\ ToldInv /\ [Next]_vars => ToldInv'
<1> SUFFICES ASSUME TypeInv, HandInv, OnceInv, TrueInv, ToldInv, [Next]_vars, NEW c \in Campaigns
             PROVE  Told(c)' /\ Complete(c)'
    BY DEF ToldInv
<1>1. ASSUME Spared(c, {"relisted"})', NEW w \in Workers, run'[w].job[1] = c, run'[w].pc \in {"check", "send"},
             run'[w].list = {}
      PROVE  NoRows(c)' /\ Listed(c)' = {}
    BY <1>1, NobodyListed
<1>2. ASSUME Spared(c, {"relisted", "lost"})'
      PROVE  /\ \A r \in Recipients : rows'[c][r] \cap {"failed", "suppressed"} # {} => mails'[c][r] = 0
             /\ \A w \in Workers : run'[w].job[1] = c =>
                   \A r \in Fresh(run'[w]) : rows'[c][r] \cap {"failed", "suppressed"} = {}
    BY <1>2, NotMailed
<1>3. Told(c)' BY <1>1, <1>2 DEF Told, Of
<1>4. ASSUME Spared(c, {"relisted", "lost", "cut"})', Row(c)', NEW w \in Workers, run'[w].job[1] = c,
             run'[w].list # {}
      PROVE  Knows(c, run[w])'
    BY <1>4, KnowsStep
<1>5. ASSUME Spared(c, {"relisted", "lost", "cut"})', campaign'[c].status = "sent"
      PROVE  /\ \A r \in Recipients : "pending" \notin rows'[c][r]
             /\ campaign'[c].sentCount = Cardinality(SentRows(c)')
             /\ \A w \in Workers : run'[w].job[1] = c => run'[w].list = {}
             /\ Listed(c)' = {} \/ ~NoRows(c)'
    <2>1. CASE campaign'[c] = campaign[c] BY <1>5, <2>1, SentStays
    <2>2. CASE \E w \in Workers : Of(w) = c /\ CloseStep(w) BY <2>2, <1>5, SentCloses
    <2>3. CASE campaign[c].status = "sent" /\ \E w \in Workers : Of(w) = c /\ SaveStep(w)
        <3>1. PICK w \in Workers : Of(w) = c /\ run[w].pc = "send" BY <2>3 DEF SaveStep
        <3>2. run[w].left # {} /\ run[w].left \subseteq run[w].list BY <3>1 DEF HandInv, Hand
        <3>3. Spared(c, {"relisted", "lost", "cut"}) BY <1>5, Lasting DEF Spared
        <3>4. run[w].list = {} BY <2>3, <3>1, <3>3 DEF ToldInv, Complete
        <3> QED  BY <3>2, <3>4
    <2> QED  BY <1>5, <2>1, <2>2, <2>3, SentSteps
<1>6. Complete(c)' BY <1>4, <1>5 DEF Complete, Of
<1> QED  BY <1>3, <1>6

------------------------------------------------------------------------------
(* A cancelled campaign comes to a stop. *)

\* What runs may still mail of a campaign that is deleted.
Room(x)    == IF x.pc = "check" THEN CHUNK_SIZE ELSE Cardinality(x.chunk.send)
Mays(g, c) == {z \in Workers \X (1..CHUNK_SIZE) : g[z[1]].job[1] = c /\ z[2] <= Room(g[z[1]])}
\* It is at most a chunk for each slot.
LEMMA MaysOf ==
    ASSUME NEW g, NEW c
    PROVE  /\ IsFiniteSet(Mays(g, c)) /\ Cardinality(Mays(g, c)) \in Nat
           /\ Cardinality(Mays(g, c)) <= CHUNK_SIZE * Cardinality(Workers)
  BY WorkersFinite, FS_Subset, FS_CardinalityType DEF Mays
\* May is that of the runs as they are.
LEMMA MayIs == ASSUME NEW c PROVE May(c) = Mays(run, c) /\ May(c)' = Mays(run', c)
BY DEF May, Mays, Holds, Room, Of
\* InHands before and after a step.
LEMMA HandedIs ==
    ASSUME TypeInv, HandInv, [Next]_vars, NEW c
    PROVE  InHands(c) = Handed(run, c) /\ InHands(c)' = Handed(run', c)
  BY TypeStep, HandedOf DEF TypeInv, InHands, InHand

\* Who has a run of a cancelled campaign in hand: fewer and fewer.
LEMMA HandedLess ==
    ASSUME TypeInv, HandInv, [Next]_vars, NEW c \in Campaigns, campaign[c].status = "cancelled",
           NEW v \in Workers, run'[v].job[1] = c
    PROVE  run'[v].chunk.send = {} \/ (Of(v) = c /\ run'[v].chunk.send \subseteq run[v].chunk.send)
<1> DEFINE P == run'[v].chunk.send = {} \/ (Of(v) = c /\ run'[v].chunk.send \subseteq run[v].chunk.send)
<1>1. ASSUME run'[v] = run[v] PROVE P BY <1>1 DEF Of
<1>2. ASSUME NEW w \in Workers, WorkerStep(w), w # v PROVE run'[v] = run[v]
  BY <1>2 DEF WorkerStep, RecipientStep, StartStep, Starts, LoadStep, Keeps, SendingStep, HaltStep, Rests,
     Creates, TakeStep, Takes, SaveStep, CloseStep, Stumbles, AcceptStep, MarkStep, RefuseStep, Loses, Turns,
     Only
<1>3. ASSUME WorkerStep(v) PROVE P
    <2>1. CASE StartStep(v) BY <2>1 DEF StartStep, Starts, NoChunk
    <2>2. CASE LoadStep(v) \/ SendingStep(v) BY <2>2 DEF LoadStep, SendingStep, Keeps, Turns, Of
    <2>3. CASE HaltStep(v) \/ CloseStep(v) \/ Stumbles(v)
        BY <2>3 DEF HaltStep, CloseStep, Stumbles, Rests, IdleRun, NoChunk
    <2>4. CASE Creates(v) \/ SaveStep(v) BY <2>4 DEF Creates, SaveStep, Turns
    <2>5. CASE TakeStep(v) BY <2>5 DEF TakeStep, Takes, Turns, Of, Stopped
    <2>6. ASSUME NEW r \in Recipients, RecipientStep(v, r) PROVE P
        BY <2>6 DEF RecipientStep, AcceptStep, MarkStep, RefuseStep, Loses, Turns, Of
    <2> QED  BY <1>3, <2>1, <2>2, <2>3, <2>4, <2>5, <2>6 DEF WorkerStep
<1> QED  BY <1>1, <1>2, <1>3, Steps DEF Quiet, Makes, Commits

\* How many a run of a deleted campaign may mail: not more than before.
LEMMA MaysLess ==
    ASSUME TypeInv, HandInv, [Next]_vars, NEW c \in Campaigns, campaign[c].status = "deleted",
           NEW v \in Workers, run'[v].job[1] = c
    PROVE  Room(run'[v]) = 0 \/ (Of(v) = c /\ Room(run'[v]) <= Room(run[v]))
<1> DEFINE P == Room(run'[v]) = 0 \/ (Of(v) = c /\ Room(run'[v]) <= Room(run[v]))
<1>a. run[v].chunk.send \in SUBSET Recipients /\ Room(run[v]) \in Nat
  BY Slots, RecipientsFinite, Sizes DEF TypeInv, Room
<1>b. Cardinality({}) = 0 BY FS_EmptySet
<1>1. ASSUME run'[v] = run[v] PROVE P BY <1>1, <1>a DEF Of
<1>2. ASSUME NEW w \in Workers, WorkerStep(w), w # v PROVE run'[v] = run[v]
  BY <1>2 DEF WorkerStep, RecipientStep, StartStep, Starts, LoadStep, Keeps, SendingStep, HaltStep, Rests,
     Creates, TakeStep, Takes, SaveStep, CloseStep, Stumbles, AcceptStep, MarkStep, RefuseStep, Loses, Turns,
     Only
<1>3. ASSUME WorkerStep(v) PROVE P
    <2>1. CASE StartStep(v) BY <1>b, <2>1 DEF StartStep, Starts, NoChunk, Room
    <2>2. CASE LoadStep(v) BY <1>a, <2>2 DEF LoadStep, Keeps, Turns, Of, Room
    <2>3. CASE Stumbles(v) BY <1>b, <2>3 DEF Stumbles, Rests, IdleRun, NoChunk, Room
    <2>4. CASE SendingStep(v) \/ Creates(v) \/ SaveStep(v)
    BY <2>4 DEF SendingStep, Creates, SaveStep, Keeps, Turns, Of, Row
    <2>5. CASE HaltStep(v) \/ CloseStep(v) BY <1>b, <2>5 DEF HaltStep, CloseStep, Rests, IdleRun, NoChunk, Room
    <2>6. CASE TakeStep(v)
        <3>1. PICK told, allowed, dropped : told \in BOOLEAN /\ Takes(v, told, allowed, dropped)
            BY <2>6 DEF TakeStep
        <3>2. /\ run[v].pc = "check" /\ run'[v].pc = "send" /\ run'[v].chunk.send = allowed \ dropped /\ Of(v) = c
            BY <2>6, <3>1 DEF TakeStep, Takes, Turns, Of
        <3>3. PICK F : F = First(CHUNK_SIZE, run[v].left) OBVIOUS
        <3>4. run[v].left \in SUBSET Recipients BY Slots DEF TypeInv
        <3>5. F \in SUBSET Recipients /\ Cardinality(F) <= CHUNK_SIZE BY <3>3, <3>4, Chunks, Sizes
        <3>6. allowed \ dropped \in SUBSET F BY <3>1, <3>3 DEF Takes
        <3>7. PICK S \in SUBSET F : S = allowed \ dropped BY <3>6
        <3>8. Cardinality(S) <= Cardinality(F) /\ Cardinality(S) \in Nat /\ Cardinality(F) \in Nat
            BY <3>5, SubsetCount, RecipientsFinite
        <3>9. Cardinality(S) <= CHUNK_SIZE BY <3>5, <3>8, Sizes
        <3> QED  BY <3>2, <3>7, <3>9 DEF Room
    <2>7. ASSUME NEW r \in Recipients, RecipientStep(v, r) PROVE P
    BY <2>7, <1>a, SubsetCount DEF RecipientStep, AcceptStep, MarkStep, RefuseStep, Loses, Turns, Of, Room
    <2> QED  BY <1>3, <2>1, <2>2, <2>3, <2>4, <2>5, <2>6, <2>7 DEF WorkerStep
<1> QED  BY <1>1, <1>2, <1>3, Steps DEF Quiet, Makes, Commits

\* The same for all runs of it.
LEMMA FewerHanded ==
    ASSUME TypeInv, HandInv, [Next]_vars, NEW c \in Campaigns, campaign[c].status = "cancelled"
    PROVE  Handed(run', c) \subseteq Handed(run, c)
  BY HandedLess DEF Handed, Of
\* All runs of a deleted campaign may mail no more than before.
LEMMA FewerMays ==
    ASSUME TypeInv, HandInv, [Next]_vars, NEW c \in Campaigns, campaign[c].status = "deleted"
    PROVE  Mays(run', c) \subseteq Mays(run, c)
<1> SUFFICES ASSUME NEW w \in Workers, NEW k \in 1..CHUNK_SIZE, run'[w].job[1] = c, k <= Room(run'[w])
             PROVE  run[w].job[1] = c /\ k <= Room(run[w])
    BY DEF Mays
<1>1. /\ \A v \in Workers : run[v].chunk.send \in SUBSET Recipients
      /\ \A v \in Workers : run'[v].chunk.send \in SUBSET Recipients
    BY TypeStep, Slots DEF TypeInv
<1>2. Room(run[w]) \in Nat /\ Room(run'[w]) \in Nat BY <1>1, RecipientsFinite, Sizes DEF Room
<1>3. Room(run'[w]) = 0 \/ (Of(w) = c /\ Room(run'[w]) <= Room(run[w])) BY MaysLess
<1>4. CHUNK_SIZE \in Nat BY Sizes
<1> QED  BY <1>2, <1>3, <1>4 DEF Of

\* Who cancels or deletes a campaign.
Ends(c) == \E route \in {"cancel", "delete"} : Commits(route, c)
\* A campaign is called cancelled or deleted by these alone.
LEMMA StatusSteps ==
    ASSUME TypeInv, HandInv, [Next]_vars, NEW c \in Campaigns, campaign'[c].status \in {"cancelled", "deleted"}
    PROVE  campaign'[c].status = campaign[c].status \/ Ends(c)
<1>1. ASSUME NEW d \in Campaigns, Makes(d) PROVE campaign'[c].status = campaign[c].status BY <1>1 DEF Makes
<1>2. ASSUME NEW d \in Campaigns, NEW route \in DOMAIN Allowed, Commits(route, d)
      PROVE  campaign'[c].status = campaign[c].status \/ Ends(c)
  BY <1>2, WrittenIs DEF Commits, Writes, Ends
<1>3. ASSUME NEW w \in Workers, WorkerStep(w) PROVE campaign'[c].status = campaign[c].status
    <2>1. CASE StartStep(w) \/ LoadStep(w) \/ Creates(w) \/ TakeStep(w) \/ Stumbles(w)
        BY <2>1 DEF StartStep, LoadStep, Creates, TakeStep, Stumbles
    <2>2. CASE SendingStep(w) \/ HaltStep(w) BY <2>2 DEF SendingStep, HaltStep, Writes
    <2>3. CASE SaveStep(w) \/ CloseStep(w) BY <2>3 DEF SaveStep, CloseStep, Writes
    <2>4. ASSUME NEW r \in Recipients, RecipientStep(w, r) PROVE campaign'[c].status = campaign[c].status
        BY <2>4 DEF RecipientStep, AcceptStep, MarkStep, RefuseStep, Loses
    <2> QED  BY <1>3, <2>1, <2>2, <2>3, <2>4 DEF WorkerStep
<1> QED  BY <1>1, <1>2, <1>3, Steps DEF Quiet

\* What changes the number of mails a stopped campaign may still send: one mail.
Spends(c, w, r) ==
    /\ Of(w) = c /\ run[w].pc = "send" /\ r \in run[w].chunk.send
    /\ campaign[c].status \in {"cancelled", "deleted"} /\ "overwritten" \notin tally.marred[c]
    /\ run'[w].pc = "send" /\ run'[w].chunk.send = run[w].chunk.send \ {r}
    /\ tally'.inHand[c] = tally.inHand[c] - 1
\* Every other step leaves it as it is.
LEMMA InHandSteps ==
    ASSUME TypeInv, HandInv, [Next]_vars, NEW c \in Campaigns, ~Ends(c)
    PROVE  tally'.inHand[c] = tally.inHand[c] \/ \E w \in Workers, r \in Recipients : Spends(c, w, r)
<1>0. ASSUME NEW d, NEW M, Tells(d, M) PROVE tally'.inHand[c] = tally.inHand[c] BY <1>0 DEF Tells
<1>1. ASSUME NEW d \in Campaigns, Makes(d) PROVE tally'.inHand[c] = tally.inHand[c] BY <1>0, <1>1 DEF Makes
<1>2. ASSUME NEW d \in Campaigns, NEW route \in DOMAIN Allowed, Commits(route, d)
      PROVE  tally'.inHand[c] = tally.inHand[c]
  BY <1>2 DEF Ends, Allowed, Commits
<1>3. ASSUME NEW w \in Workers, WorkerStep(w)
      PROVE  tally'.inHand[c] = tally.inHand[c] \/ \E r \in Recipients : Spends(c, w, r)
    <2>1. CASE StartStep(w) \/ LoadStep(w) \/ SaveStep(w) BY <2>1 DEF StartStep, LoadStep, SaveStep
    <2>2. CASE SendingStep(w) \/ HaltStep(w) \/ CloseStep(w) \/ Creates(w) \/ Stumbles(w)
        BY <1>0, <2>2 DEF SendingStep, HaltStep, CloseStep, Creates, Stumbles
    <2>3. CASE TakeStep(w) BY <2>3, <1>0 DEF TakeStep, Takes
    <2>4. ASSUME NEW r \in Recipients, RecipientStep(w, r)
          PROVE  tally'.inHand[c] = tally.inHand[c] \/ Spends(c, w, r)
    BY <1>0, <2>4 DEF MarkStep, RefuseStep, AcceptStep, Counts, Turns, Spends, Loses, RecipientStep
    <2> QED  BY <1>3, <2>1, <2>2, <2>3, <2>4 DEF WorkerStep
<1> QED  BY <1>1, <1>2, <1>3, Steps DEF Quiet

\* One mail of a stopped campaign is one less that it may send.
LEMMA OneHanded ==
    ASSUME TypeInv, HandInv, [Next]_vars, NEW c \in Campaigns, campaign[c].status = "cancelled",
           NEW w \in Workers, NEW r \in Recipients, Spends(c, w, r)
    PROVE  Cardinality(Handed(run', c)) <= Cardinality(Handed(run, c)) - 1
<1>1. run \in [Workers -> RunType] /\ run' \in [Workers -> RunType] BY TypeStep DEF TypeInv
<1>2. PICK S : S = Handed(run, c) OBVIOUS
<1>3. PICK T : T = Handed(run', c) OBVIOUS
<1>4. IsFiniteSet(S) /\ Cardinality(S) \in Nat /\ IsFiniteSet(T) /\ Cardinality(T) \in Nat
    BY <1>1, <1>2, <1>3, HandedOf
<1>5. T \in SUBSET S BY <1>2, <1>3, FewerHanded
<1>6. <<w, r>> \in S /\ <<w, r>> \notin T BY <1>2, <1>3 DEF Spends, Of, Handed
<1>7. Cardinality(T) <= Cardinality(S) /\ Cardinality(T) # Cardinality(S) BY <1>4, <1>5, <1>6, FS_Subset
<1> QED  BY <1>2, <1>3, <1>4, <1>7
\* The same for a campaign that is deleted.
LEMMA OneMay ==
    ASSUME TypeInv, HandInv, [Next]_vars, NEW c \in Campaigns, campaign[c].status = "deleted",
           NEW w \in Workers, NEW r \in Recipients, Spends(c, w, r)
    PROVE  Cardinality(Mays(run', c)) <= Cardinality(Mays(run, c)) - 1
<1>2. PICK S : S = Mays(run, c) OBVIOUS
<1>3. PICK T : T = Mays(run', c) OBVIOUS
<1>4. IsFiniteSet(S) /\ Cardinality(S) \in Nat /\ IsFiniteSet(T) /\ Cardinality(T) \in Nat BY <1>2, <1>3, MaysOf
<1>5. T \in SUBSET S BY <1>2, <1>3, FewerMays
<1>6. PICK U \in SUBSET Recipients : U = run[w].chunk.send BY Slots DEF TypeInv
<1>7. PICK k \in Nat : k = Cardinality(U) BY RecipientsFinite
<1>8. Cardinality(U \ {r}) = k - 1 /\ r \in U BY <1>6, <1>7, OneMore DEF Spends
<1>9. k \in 1..CHUNK_SIZE BY InHandOf, Chunks, Sizes, <1>6, SubsetCount, RecipientsFinite, <1>7, <1>8
<1>a. Room(run[w]) = k /\ Room(run'[w]) = k - 1 BY <1>6, <1>7, <1>8 DEF Spends, Room
<1>b. <<w, k>> \in S /\ <<w, k>> \notin T BY <1>a, <1>2, <1>3, <1>9 DEF Spends, Of, Mays
<1>c. Cardinality(T) <= Cardinality(S) /\ Cardinality(T) # Cardinality(S) BY <1>4, <1>5, <1>b, FS_Subset
<1> QED  BY <1>2, <1>3, <1>4, <1>c

\* Every step keeps a stopped campaign from going on.
LEMMA StopStep == TypeInv /\ HandInv /\ StopInv /\ [Next]_vars => StopInv'
<1> SUFFICES ASSUME TypeInv, HandInv, StopInv, [Next]_vars, NEW c \in Campaigns PROVE Stops(c)' BY DEF StopInv
<1>0. Stops(c) BY DEF StopInv
<1>a. InHands(c) = Handed(run, c) /\ InHands(c)' = Handed(run', c) /\ May(c) = Mays(run, c) /\ May(c)' = Mays(run', c)
    BY HandedIs, MayIs
<1>b. PICK n \in Int, m \in Int : n = tally.inHand[c] /\ m = tally'.inHand[c] BY TypeStep DEF TypeInv, TallyType
<1>c. run \in [Workers -> RunType] /\ run' \in [Workers -> RunType] BY TypeStep DEF TypeInv
<1>d. PICK h \in Nat : h = Cardinality(Handed(run, c)) BY <1>c, HandedOf
<1>e. PICK h2 \in Nat : h2 = Cardinality(Handed(run', c)) BY <1>c, HandedOf
<1>f. PICK p \in Nat : p = Cardinality(Mays(run, c)) BY MaysOf
<1>g. PICK p2 \in Nat : p2 = Cardinality(Mays(run', c)) BY MaysOf
<1>h. /\ n >= 0
      /\ Spared(c, {"overwritten"}) => /\ campaign[c].status = "cancelled" => n >= h
                                       /\ campaign[c].status = "deleted"   => n >= p
    BY <1>0, <1>a, <1>b, <1>d, <1>f DEF Stops
<1>i. SUFFICES /\ m >= 0
               /\ Spared(c, {"overwritten"})' => /\ campaign'[c].status = "cancelled" => m >= h2
                                                 /\ campaign'[c].status = "deleted"   => m >= p2
    BY <1>a, <1>b, <1>e, <1>g DEF Stops
<1>j. Spared(c, {"overwritten"})' => Spared(c, {"overwritten"}) BY Lasting DEF Spared
<1>1. CASE Ends(c)
  BY <1>1, <1>a, <1>b, <1>d, <1>e, Sizes, WorkersFinite, <1>g, MaysOf, <1>h DEF Ends, Commits, Writes, Written
<1>2. CASE ~Ends(c)
    <2>1. campaign'[c].status \in {"cancelled", "deleted"} => campaign'[c].status = campaign[c].status
        BY <1>2, StatusSteps
    <2>2. CASE m = n
    BY <1>c, <1>d, <1>e, FewerHanded, HandedOf, FS_Subset, <1>f, <1>g, FewerMays, MaysOf, <1>h, <1>j, <2>1, <2>2
    <2>3. CASE \E w \in Workers, r \in Recipients : Spends(c, w, r)
    BY <2>3, <1>b, <1>d, <1>e, OneHanded, <1>f, <1>g, OneMay, <1>h, <2>1 DEF Spends, Spared
    <2> QED  BY <1>2, <1>b, <2>2, <2>3, InHandSteps
<1> QED  BY <1>1, <1>2

------------------------------------------------------------------------------
(* The theorems. *)

\* It all begins right: no campaign, no job, nobody at work.
LEMMA Begins == Init => IInv
<1> SUFFICES ASSUME Init PROVE IInv OBVIOUS
<1> USE DEF Init
<1>1. TypeInv
  BY DEF NoCampaign, RowType, Status, EmptyQueue, IdleRun, NoChunk, RunType, ChunkType, TallyType, Zero, TypeInv
<1>2. \A w \in Workers :
         /\ run[w] = IdleRun /\ run[w].pc = "idle" /\ run[w].list = {} /\ run[w].left = {} /\ run[w].sent = 0
         /\ run[w].chunk = NoChunk /\ run[w].chunk.send = {} /\ run[w].chunk.mark = {} /\ Of(w) = NoJob[1]
         /\ Fresh(run[w]) = {} /\ ToCome(run[w]) = {}
    BY DEF IdleRun, NoChunk, Of, Fresh, ToCome
<1>3. HandInv
    <2> SUFFICES ASSUME NEW w \in Workers PROVE Hand(run[w]) BY <1>2 DEF HandInv
    <2>1. run[w].sent + Cardinality(run[w].chunk.send \cup run[w].chunk.mark)
             <= Cardinality(run[w].list \ ToCome(run[w]))
        <3>1. run[w].chunk.send \cup run[w].chunk.mark = {} /\ run[w].list \ ToCome(run[w]) = {} /\ run[w].sent = 0
            BY <1>2
        <3>2. Cardinality(run[w].chunk.send \cup run[w].chunk.mark) = 0 BY <3>1, FS_EmptySet
        <3>3. Cardinality(run[w].list \ ToCome(run[w])) = 0 BY <3>1, FS_EmptySet
        <3> QED  BY <3>1, <3>2, <3>3
    <2>2. run[w].chunk.send \cup run[w].chunk.mark \subseteq First(CHUNK_SIZE, run[w].left) BY <1>2
    <2> QED  BY <1>2, <2>1, <2>2 DEF Hand
<1>4. OnceInv BY <1>2 DEF OnceInv, Once, Alone
<1>5. TrueInv BY <1>2 DEF TrueInv, Truthful
<1>6. ToldInv BY <1>2 DEF ToldInv, Told, Complete, NoCampaign
<1>7. StopInv BY DEF Zero, NoCampaign, StopInv, Stops
<1> QED  BY <1>1, <1>3, <1>4, <1>5, <1>6, <1>7 DEF IInv

\* And stays so.
LEMMA Always == Spec => []IInv
  BY Begins, TypeStep, HandStep, OnceStep, TrueStep, ToldStep, StopStep, PTL DEF IInv, Spec

\* A campaign mails each recipient once, whatever is suspended, retried, cancelled
\* or crashes in processCampaign, unless a second run begins over the first.
THEOREM MailedOnceAlways == Spec => []MailedOnce
<1>1. IInv => MailedOnce BY DEF IInv, OnceInv, Once, MailedOnce
<1> QED  BY <1>1, Always, PTL

\* The rows of campaign_recipients tell the truth, and a campaign that
\* processCampaign calls 'sent' left nobody waiting and has counted its mails.
THEOREM RecordsAlwaysTrue == Spec => []RecordsAreTrue
<1>1. ASSUME IInv PROVE TypeOK
    <2>1. TypeInv /\ HandInv BY <1>1 DEF IInv
    <2>2. campaign \in [Campaigns -> [status : Status, excluded : SUBSET Recipients, sentCount : Nat]]
        BY <2>1 DEF TypeInv, RowType
    <2>3. ASSUME NEW w \in Workers
          PROVE  /\ run[w].pc \in {"idle", "load", "begin", "resolve", "check", "send"}
                 /\ run[w].job \in Jobs \cup {NoJob} /\ run[w].left \subseteq run[w].list
                 /\ run[w].list \subseteq Recipients /\ run[w].sent \in 0..Cardinality(run[w].list)
        <3>1. run[w] \in RunType /\ Hand(run[w]) BY <2>1 DEF TypeInv, HandInv
        <3>2. PICK x \in RunType : x = run[w] BY <3>1
        <3>3. x.list \in SUBSET Recipients /\ x.sent \in Nat BY <3>2, Slots
        <3>4. PICK S \in SUBSET x.list : S = x.list \ ToCome(x) OBVIOUS
        <3>5. PICK T \in SUBSET Recipients : T = x.chunk.send \cup x.chunk.mark BY <3>2, Slots
        <3>6. x.sent + Cardinality(T) <= Cardinality(S) BY <3>1, <3>2, <3>4, <3>5 DEF Hand
        <3>7. /\ Cardinality(S) <= Cardinality(x.list)
              /\ Cardinality(S) \in Nat /\ Cardinality(x.list) \in Nat /\ Cardinality(T) \in Nat
            BY <3>3, SubsetCount, RecipientsFinite
        <3>8. x.sent \in 0..Cardinality(x.list) BY <3>3, <3>6, <3>7
        <3>9. x.pc \in {"idle", "load", "begin", "resolve", "check", "send"} /\ x.job \in Jobs \cup {NoJob}
            BY <3>2 DEF RunType
        <3> QED  BY <3>1, <3>2, <3>3, <3>8, <3>9 DEF Hand
    <2> QED  BY <2>1, <2>2, <2>3 DEF TypeOK, TypeInv, Outcomes
<1>2. ASSUME IInv PROVE RowsAreTrue BY <1>2 DEF IInv, TrueInv, Truthful, ToldInv, Told, RowsAreTrue
<1>3. ASSUME IInv PROVE SentIsComplete
    <2> SUFFICES ASSUME NEW c \in Campaigns, campaign[c].status = "sent",
                        Spared(c, {"relisted", "lost", "cut"})
                 PROVE  /\ \A r \in Recipients : "pending" \notin rows[c][r]
                        /\ campaign[c].sentCount = Cardinality({r \in Recipients : "sent" \in rows[c][r]})
        BY DEF SentIsComplete
    <2> QED  BY <1>3 DEF IInv, ToldInv, Complete, SentRows
<1>4. IInv => RecordsAreTrue BY <1>1, <1>2, <1>3 DEF RecordsAreTrue
<1> QED  BY <1>4, Always, PTL

\* A campaign that was cancelled mails nobody but those in hand when it was, and
\* one that was deleted no more than a chunk for each slot.
THEOREM CancelAlwaysStops == Spec => []CancelStopsRuns
<1>1. IInv => CancelStopsRuns BY DEF IInv, StopInv, Stops, CancelStopsRuns
<1> QED  BY <1>1, Always, PTL
==============================================================================
