----------------------------- MODULE MailboxPool -----------------------------
(***************************************************************************)
(* Connected mailboxes and their warmup.                                   *)
(*   workers/warmupWorker.ts      the hourly tick over the warmup pool     *)
(*   workers/sequenceWorker.ts    the mails a sequence sends from them     *)
(*   routes/mailboxes/index.ts    connect, test, delete, warmup on and off *)
(* One customer's mailboxes; of the others in the pool, only whether one   *)
(* is there to warm up with.                                               *)
(* Days are relative: a date is how many days ago it was (reset, ramped,   *)
(* started), no more than the code can tell apart.                         *)
(***************************************************************************)
EXTENDS Integers, FiniteSets

CONSTANTS
    Mailboxes, Connected,           \* mailboxes, those connected at the start
    Callers,                    \* requests that connect one
    CAP,                        \* mailboxes of the plan
    LIMIT,                      \* daily limit of a mailbox
    FLOOR, RAMP, RAMP_DAYS,     \* 5 mails at least, 2 more each day, until rampUpDays
    TICKS,                      \* ticks of a day
    Targets,                    \* target_per_day an owner may choose
    MaxActs                     \* bound: acts of owners, failures (which count twice)

\* No mailbox.
Nobody == "nobody"

\* What is connected at the start is within the plan, and nobody may choose a target
\* below the floor (warmupSchema: at least 5).
ASSUME PoolAssumption ==
    /\ IsFiniteSet(Mailboxes) /\ Nobody \notin Mailboxes
    /\ Connected \subseteq Mailboxes /\ Cardinality(Connected) <= CAP
    /\ Targets # {} /\ \A n \in Targets : n >= FLOOR
    /\ {CAP, LIMIT, FLOOR, RAMP_DAYS, TICKS} \cup Targets \subseteq Nat \ {0}
    /\ {RAMP, MaxActs} \subseteq Nat

VARIABLES
    mailbox,    \* mailboxes
    warm,       \* warmup_configs
    others,     \* the pool has active mailboxes of other customers
    wtick,      \* the warmup tick: what it has loaded, and the mailbox it is at
    mailing,    \* the mailbox a sequence has just mailed from, before it counts
    caller,     \* requests that connect: the number of mailboxes they counted
    book        \* ghosts and bounds

poolVars == <<mailbox, warm, others, wtick, mailing, caller, book>>

Least(a, b) == IF a < b THEN a ELSE b
Most(a, b)  == IF a < b THEN b ELSE a
Gone        == [status |-> "gone", sent |-> 0, reset |-> 0]
Fresh       == [status |-> "active", sent |-> 0, reset |-> 0]
NoWarmup    == [on |-> FALSE, there |-> FALSE, target |-> 0, rate |-> 0, ramped |-> 1, age |-> 0]
Warmup(n)   == [on |-> TRUE, there |-> TRUE, target |-> n, rate |-> FLOOR, ramped |-> 1, age |-> 0]
Resting     == [pc |-> "idle", stale |-> 0, others |-> FALSE, todo |-> {}, box |-> << >>, conf |-> << >>,
                at |-> Nobody, left |-> 0]

PoolInit ==
    /\ mailbox = [b \in Mailboxes |-> IF b \in Connected THEN Fresh ELSE Gone]
    /\ \E n \in Targets :
          warm = [b \in Mailboxes |-> IF b \in Connected THEN Warmup(n) ELSE NoWarmup]
    /\ others = TRUE
    /\ wtick = Resting
    /\ mailing = Nobody
    /\ caller = [c \in Callers |-> -1]
    /\ book = [acts |-> 0, raced |-> 0, base |-> [b \in Mailboxes |-> FLOOR],
               warmed |-> [b \in Mailboxes |-> 0], mailed |-> [b \in Mailboxes |-> 0],
               marred |-> [b \in Mailboxes |-> {}]]

Exists(b) == mailbox[b].status # "gone"
Cost(n, k) == k.acts + n <= MaxActs /\ book' = [k EXCEPT !.acts = @ + n]
Act(k)  == Cost(1, k)
Fail(k) == Cost(2, k)
\* Ghost: something made the count of a mailbox untrue, or moved its target.
Blot(k, b, what) == [k EXCEPT !.marred[b] = @ \cup {what}]

------------------------------------------------------------------------------
\* Midnight.  A tick goes on with the day it began in.
BoxNextDay(m)  == [m EXCEPT !.reset = Least(m.reset + 1, 2)]
ConfNextDay(c) == [c EXCEPT !.ramped = 1, !.age = Least(c.age + 1, RAMP_DAYS)]
NewDay ==
    /\ wtick.stale = 0
    /\ mailbox' = [b \in Mailboxes |-> IF Exists(b) THEN BoxNextDay(mailbox[b]) ELSE Gone]
    /\ warm' = [b \in Mailboxes |-> ConfNextDay(warm[b])]
    /\ wtick' = IF wtick.pc = "idle" THEN wtick
                ELSE [wtick EXCEPT !.stale = 1,
                          !.box  = [b \in Mailboxes |-> BoxNextDay(wtick.box[b])],
                          !.conf = [b \in Mailboxes |-> ConfNextDay(wtick.conf[b])]]
    /\ UNCHANGED <<others, mailing, caller, book>>

\* processWarmupTick loads every mailbox whose warmup is on; with fewer than two
\* mailboxes in the pool it does nothing.
Enrolled == {b \in Mailboxes : Exists(b) /\ warm[b].on}
InPool == others \/ Cardinality(Enrolled) >= 2
StartWarmup ==
    /\ wtick.pc = "idle" /\ Enrolled # {} /\ InPool
    /\ wtick' = [pc |-> "run", stale |-> 0, others |-> others, todo |-> Enrolled, box |-> mailbox, conf |-> warm,
                 at |-> Nobody, left |-> 0]
    /\ UNCHANGED <<others, mailbox, warm, mailing, caller, book>>

\* getTodayTarget, on the configuration as it was loaded.
TodayTarget(c) ==
    IF c.age >= RAMP_DAYS THEN c.target ELSE Most(FLOOR, Least(c.target, c.rate + RAMP))

\* One mailbox: the counter starts again on a new day, and the tick's share of
\* what is left of the day's target is sent.
NewCountNever(b) == FALSE                                          \* mutant
NewCount(b)  == wtick.box[b].reset > wtick.stale
Remaining(b) == TodayTarget(wtick.conf[b]) - (IF NewCount(b) THEN 0 ELSE wtick.box[b].sent)
Turn(b)     == Least(Remaining(b), (TodayTarget(wtick.conf[b]) + TICKS - 1) \div TICKS)
Partner(b)   == wtick.others \/ \E o \in Mailboxes \ {b} : wtick.conf[o].on /\ wtick.box[o].status = "active"
Visit(b) ==
    /\ wtick.pc = "run" /\ wtick.at = Nobody /\ b \in wtick.todo
    /\ LET rest == [wtick EXCEPT !.todo = @ \ {b}]
           sends == Remaining(b) > 0 /\ Partner(b)
       IN  IF wtick.box[b].status # "active"
           THEN wtick' = rest /\ UNCHANGED <<mailbox, book>>
           ELSE IF NewCount(b) /\ ~Exists(b)          \* the update throws
           THEN wtick' = Resting /\ UNCHANGED <<mailbox, book>>
           ELSE /\ wtick' = IF sends THEN [rest EXCEPT !.at = b, !.left = Turn(b)] ELSE rest
                /\ mailbox' = IF NewCount(b)
                              THEN [mailbox EXCEPT ![b].sent = 0, ![b].reset = wtick.stale]
                              ELSE mailbox
                /\ book' = IF ~NewCount(b) THEN book
                           ELSE [book EXCEPT !.warmed[b] = 0, !.mailed[b] = 0, !.base[b] = wtick.conf[b].rate,
                                             !.marred[b] = IF warm[b] = wtick.conf[b] THEN {} ELSE {"retargeted"}]
    /\ UNCHANGED <<others, warm, mailing, caller>>

\* A mail to a partner, and its count: a failure of the send costs the turn, and
\* one of the count leaves it uncounted.
WarmMail ==
    LET b == wtick.at
    IN  /\ wtick.pc = "run" /\ b # Nobody /\ wtick.left > 0
        /\ wtick' = [wtick EXCEPT !.left = @ - 1]
        /\ \/ /\ Exists(b)
              /\ mailbox' = [mailbox EXCEPT ![b].sent = @ + 1]
              /\ book' = [book EXCEPT !.warmed[b] = @ + 1]
           \/ /\ UNCHANGED mailbox
              /\ Fail(Blot([book EXCEPT !.warmed[b] = @ + 1], b, "uncounted"))
           \/ ~Exists(b) /\ UNCHANGED <<mailbox, book>>
        /\ UNCHANGED <<others, warm, mailing, caller>>

\* The rate goes up to what today's target was, once a day.
RampEachTick(b) == [warm EXCEPT ![b].rate = TodayTarget(wtick.conf[b]), ![b].ramped = 0]  \* mutant
RampTo(b) ==
    IF wtick.conf[b].ramped = 0 THEN warm
    ELSE [warm EXCEPT ![b].rate = TodayTarget(wtick.conf[b]), ![b].ramped = 0]
Ramp ==
    LET b == wtick.at
    IN  /\ wtick.pc = "run" /\ b # Nobody /\ wtick.left = 0
        /\ IF Exists(b) THEN warm' = RampTo(b) /\ wtick' = [wtick EXCEPT !.at = Nobody]
           ELSE UNCHANGED warm /\ wtick' = IF wtick.conf[b].ramped = 0
                                           THEN [wtick EXCEPT !.at = Nobody] ELSE Resting
        /\ UNCHANGED <<others, mailbox, mailing, caller, book>>

EndWarmup ==
    /\ wtick.pc = "run" /\ wtick.at = Nobody /\ wtick.todo = {}
    /\ wtick' = Resting
    /\ UNCHANGED <<others, mailbox, warm, mailing, caller, book>>
WarmupDies ==
    /\ wtick.pc = "run" /\ Fail(book) /\ wtick' = Resting
    /\ UNCHANGED <<others, mailbox, warm, mailing, caller>>

------------------------------------------------------------------------------
\* The sequence worker mails from a mailbox under its limit, and counts.
MayMail(b) == mailbox[b].status = "active" /\ mailbox[b].sent < LIMIT
SequenceMails(b) ==
    /\ mailing = Nobody /\ MayMail(b)
    /\ mailing' = b
    /\ book' = [book EXCEPT !.mailed[b] = @ + 1]
    /\ UNCHANGED <<others, mailbox, warm, wtick, caller>>
SequenceCounts ==
    /\ mailing # Nobody /\ mailing' = Nobody
    /\ \/ /\ Exists(mailing)
          /\ mailbox' = [mailbox EXCEPT ![mailing].sent = @ + 1]
          /\ UNCHANGED book
       \/ UNCHANGED mailbox /\ Fail(Blot(book, mailing, "uncounted"))
       \/ ~Exists(mailing) /\ UNCHANGED <<mailbox, book>>
    /\ UNCHANGED <<others, warm, wtick, caller>>

------------------------------------------------------------------------------
\* POST /mailboxes: the mailboxes are counted, the login is tried, the row made.
Count == Cardinality({b \in Mailboxes : Exists(b)})
AllowedAny(n) == n <= CAP                                          \* mutant
Allowed(n)    == n < CAP
ConnectCounts(c) ==
    /\ caller[c] = -1 /\ Allowed(Count) /\ caller' = [caller EXCEPT ![c] = Count] /\ Act(book)
    /\ UNCHANGED <<others, mailbox, warm, wtick, mailing>>
\* A new row has a new id: no tick or sequence has it in hand.
NewId(b) == ~Exists(b) /\ b \notin wtick.todo \cup {wtick.at, mailing}
ConnectCreates(c, b, status) ==
    /\ caller[c] # -1 /\ NewId(b)
    /\ caller' = [caller EXCEPT ![c] = -1]
    /\ mailbox' = [mailbox EXCEPT ![b] = [Fresh EXCEPT !.status = status]]
    /\ book' = [book EXCEPT !.raced = IF Count # caller[c] THEN @ + 1 ELSE @]
    /\ UNCHANGED <<others, warm, wtick, mailing>>

\* The consent screen's callback, in one transaction: a known address is active
\* again, a new one is counted and made.
OAuthConnects(b) ==
    /\ mailbox[b].status = "error" \/ (NewId(b) /\ Allowed(Count))
    /\ mailbox' = IF Exists(b) THEN [mailbox EXCEPT ![b].status = "active"] ELSE [mailbox EXCEPT ![b] = Fresh]
    /\ Act(book)
    /\ UNCHANGED <<others, warm, wtick, mailing, caller>>

\* The connection test writes what it found.
TestMailbox(b, status) ==
    /\ Exists(b) /\ mailbox[b].status # status
    /\ mailbox' = [mailbox EXCEPT ![b].status = status] /\ Act(book)
    /\ UNCHANGED <<others, warm, wtick, mailing, caller>>
DeleteMailbox(b) ==
    /\ Exists(b) /\ mailbox' = [mailbox EXCEPT ![b] = Gone]
    /\ warm' = [warm EXCEPT ![b] = NoWarmup]
    /\ Act([book EXCEPT !.warmed[b] = 0, !.mailed[b] = 0, !.marred[b] = {}])
    /\ UNCHANGED <<others, wtick, mailing, caller>>

\* Warmup on (a configuration is made, or takes the new target) and off.
EnableWarmup(b, n) ==
    /\ Exists(b)
    /\ warm' = IF warm[b].there THEN [warm EXCEPT ![b].on = TRUE, ![b].target = n] ELSE [warm EXCEPT ![b] = Warmup(n)]
    /\ warm' # warm /\ Act(Blot(book, b, "retargeted"))
    /\ UNCHANGED <<others, mailbox, wtick, mailing, caller>>
DisableWarmup(b) ==
    /\ warm[b].on /\ warm' = [warm EXCEPT ![b].on = FALSE] /\ Act(book)
    /\ UNCHANGED <<others, mailbox, wtick, mailing, caller>>

\* The mailboxes of others come and go.
OthersChange == others' = ~others /\ Act(book) /\ UNCHANGED <<mailbox, warm, wtick, mailing, caller>>

------------------------------------------------------------------------------
WarmupWorks == StartWarmup \/ (\E b \in Mailboxes : Visit(b)) \/ WarmMail \/ Ramp \/ EndWarmup

PoolNext ==
    \/ NewDay \/ WarmupWorks \/ WarmupDies
    \/ SequenceCounts \/ OthersChange
    \/ \E b \in Mailboxes :
          \/ SequenceMails(b)
          \/ OAuthConnects(b)
          \/ \E status \in {"active", "error"} :
                TestMailbox(b, status) \/ \E c \in Callers : ConnectCreates(c, b, status)
          \/ DeleteMailbox(b)
          \/ \E n \in Targets : EnableWarmup(b, n)
          \/ DisableWarmup(b)
    \/ \E c \in Callers : ConnectCounts(c)

PoolSpec == PoolInit /\ [][PoolNext]_poolVars

------------------------------------------------------------------------------
\* Properties.

\* The mails of a mailbox between two resets: a sequence never takes it over its
\* daily limit, unless a mail was not counted, and a warmup that ramps sends no more
\* than two ramps over the rate it began with (the first tick raises the rate, and the
\* later ones add a ramp to the raised rate), unless that or its configuration changed.
RampBounded ==
    \A b \in Mailboxes :
        /\ "uncounted" \notin book.marred[b] => book.mailed[b] <= LIMIT
        /\ book.marred[b] = {} /\ warm[b].on /\ warm[b].age < RAMP_DAYS =>
              book.warmed[b] <= Most(FLOOR, Least(warm[b].target, book.base[b] + 2 * RAMP))

\* The plan's cap is passed only by requests that had counted before.
CapBounded == Count <= CAP + book.raced

\* Both: what a mailbox sends, and how many there are.
MailboxLimits == RampBounded /\ CapBounded

\* A mailbox at its limit that is in a pool of two or more can send again.
Warming(b) == warm[b].on /\ mailbox[b].status = "active"
Refreshed ==
    \A b \in Mailboxes : []<>(~Exists(b) \/ mailbox[b].sent < LIMIT \/ ~Warming(b) \/ ~InPool)

\* "emails to add per day" (schema.prisma): a day's warmup is one ramp over the
\* rate of the day before.
OneRampADay ==
    \A b \in Mailboxes : book.marred[b] = {} /\ warm[b].on /\ warm[b].age < RAMP_DAYS =>
        book.warmed[b] <= Most(FLOOR, book.base[b] + RAMP)
=============================================================================
