------------------------------ MODULE Outreach -------------------------------
(***************************************************************************)
(* Drip sequences: who is enrolled, what a tick mails, what a reply stops. *)
(*   workers/sequenceWorker.ts      the tick, every five minutes           *)
(*   workers/imapWorker.ts          the poll of connected mailboxes        *)
(*   routes/sequences/index.ts      sequences, steps, enrollment, tasks    *)
(*   routes/{leads,connectors,mcp}  enrollments made on the side           *)
(* One API key.  nextSendAt is "now" (passed), "later" or "never" (null).  *)
(* A step that is not 'always' looks for an open or a click of the step    *)
(* before; see Holds for what the tick can find.                           *)
(***************************************************************************)
EXTENDS Integers, FiniteSets, SequencesExt

CONSTANTS
    Leads, SequenceIds, Boxes,   \* addresses; sequences; connected mailboxes
    Design,                      \* the steps a sequence is given, one by one
    Existing, Parents,           \* sequences there at the start; the parents of subsequences
    Trigger,                     \* the trigger of a subsequence
    Workers, Pollers, Requests,  \* sequence workers, polls, POST .../contacts requests
    BATCH,                       \* enrollments of a tick
    MaxEvents                    \* bound: acts of owners and leads, enrollments met outside
                                 \* their send window, and mishaps, which count twice

StepTypes  == {"email", "linkedin", "task"}
Conditions == {"always", "if_not_opened", "if_opened", "if_not_clicked", "if_not_replied"}

\* A sequence is given at least one step, and each step has an id of its own; a
\* worker is no poll.
ASSUME OutreachAssumption ==
    /\ Existing \subseteq SequenceIds
    /\ BATCH \in Nat \ {0} /\ MaxEvents \in Nat
    /\ \A s \in SequenceIds :
          LET ids == [i \in DOMAIN Design[s] |-> Design[s][i].id]
          IN  /\ Design[s] \in Seq([id : Range(ids), kind : StepTypes, cond : Conditions])
              /\ Design[s] # << >> /\ IsInjective(ids)
    /\ Workers \cap Pollers = {} /\ "none" \notin Workers \cup Pollers

VARIABLES
    sequence,   \* sequences and their steps
    row,        \* sequence_enrollments, per sequence and lead
    box,        \* mailboxes: "active", "full" (sentToday at dailyLimit) or "error"
    blocked,    \* suppressions: the reason, per lead
    lead,       \* leads.status
    replies,    \* reply_events: lead and enrollment
    inbox,      \* unseen replies that a poll can still find, one per lead
    tick, poll, request,   \* what each worker, poll and request is doing
    sent,       \* mails of each step that reached a lead
    tally       \* ghosts and bounds

vars == <<sequence, row, box, blocked, lead, replies, inbox, tick, poll, request, sent, tally>>
people == <<blocked, lead, replies, inbox>>
doers  == <<tick, poll, request>>

------------------------------------------------------------------------------
None   == "none"
NoRow  == [status |-> None, step |-> 0, due |-> "never", box |-> None, replied |-> FALSE]
NewRow(due) == [NoRow EXCEPT !.status = "active", !.due = due]
Row(s, l) == row[s][l]
Is(s, l, statuses) == row[s][l].status \in statuses
With(s, l, r) == [row EXCEPT ![s][l] = r]

Pairs    == SequenceIds \X Leads
StepIds  == UNION {{Design[s][i].id : i \in DOMAIN Design[s]} : s \in SequenceIds}
Unmade   == [exists |-> FALSE, stop |-> TRUE, steps |-> << >>, made |-> 0]
Made(s, n, kinds) ==
    [exists |-> TRUE, stop |-> TRUE, made |-> n,
     steps |-> [i \in 1..n |-> [Design[s][i] EXCEPT !.kind = IF kinds = "all" THEN "email" ELSE @]]]

IdleTick    == [pc |-> "idle", todo |-> {}, rows |-> << >>, steps |-> << >>, blocked |-> << >>,
                at |-> << >>, box |-> None]
IdlePoll    == [pc |-> "idle", lead |-> None, seq |-> None, stop |-> FALSE, kind |-> None]
IdleRequest == [pc |-> "idle", seq |-> None, lead |-> None, force |-> FALSE]

Init ==
    /\ sequence = [s \in SequenceIds |-> IF s \in Existing THEN Made(s, Len(Design[s]), "own")
                                                           ELSE Unmade]
    /\ row      = [s \in SequenceIds |-> [l \in Leads |-> NoRow]]
    /\ box      = [b \in Boxes |-> "active"]
    /\ blocked  = [l \in Leads |-> None]
    /\ lead     = [l \in Leads |-> "new"]
    /\ replies  = {}
    /\ inbox    = {}
    /\ tick     = [w \in Workers |-> IdleTick]
    /\ poll     = [p \in Pollers |-> IdlePoll]
    /\ request  = [r \in Requests |-> IdleRequest]
    /\ sent     = [s \in SequenceIds |-> [l \in Leads |-> [i \in StepIds |-> 0]]]
    /\ tally    = [events |-> 0, from |-> {}, stopped |-> {}, refused |-> {},
                   listed |-> [w \in Workers |-> {}], unblocked |-> [w \in Workers |-> {}],
                   unwelcome |-> {}, intruded |-> {}, marred |-> [p \in Pairs |-> {}]]

\* Ghosts: something happens, and an enrollment is the worse for it:
\*   again      a step was mailed, or may have been, and not recorded
\*   overlap    two ticks had it in hand
\*   overtaken  it was stopped while a tick or a poll had it in hand
\*   rejoined   the owner put a stopped lead back
\*   stuck      it is active with nothing due: no steps at enrollment, the last one skipped,
\*              or made active again by a reply when it was over
\*   missed     a reply was gone before a poll could use it, or did not count as one
\*   unshared   an opt-out did not reach the suppression list
\*   boxless    the mailbox it was mailed from is not the one on record
Mark(t, pairs, mark) ==
    [t EXCEPT !.marred = [p \in Pairs |-> IF p \in pairs THEN @[p] \cup {mark} ELSE @[p]]]
Spend(cost, t) == tally.events + cost <= MaxEvents /\ tally' = [t EXCEPT !.events = @ + cost]
Event(t)  == Spend(1, t)
Mishap(t) == Spend(2, t)

OfLead(l)   == SequenceIds \X {l}
InHand(p, me) ==
    \/ \E w \in Workers \ {me} : p \in tick[w].todo \/ tick[w].at = p
    \/ \E q \in Pollers \ {me} : poll[q].pc # "idle" /\ <<poll[q].seq, poll[q].lead>> = p
\* An enrollment is stopped: mail that others have in hand may still go out.
Stop(t, p, me) ==
    Mark([t EXCEPT !.stopped = @ \cup {p}], IF InHand(p, me) THEN {p} ELSE {}, "overtaken")

------------------------------------------------------------------------------
\* processSequenceTick: BATCH enrollments that are due, in no order, with their
\* sequences and the suppressions of their addresses as they are now.  The
\* worker runs one at a time, unless the job stalls and is given to another.
Due == {p \in Pairs : Is(p[1], p[2], {"active"}) /\ row[p[1]][p[2]].due = "now"}
Batches == kSubset(IF Cardinality(Due) < BATCH THEN Cardinality(Due) ELSE BATCH, Due)
StartTick(w) ==
    /\ tick[w].pc = "idle" /\ Due # {}
    /\ \E todo \in Batches :
          LET t == [tally EXCEPT !.listed[w] = todo \ tally.stopped,
                                    !.unblocked[w] = {p[2] : p \in {q \in todo : blocked[q[2]] = None}}]
          IN  /\ tick' = [tick EXCEPT ![w] =
                    [pc |-> "run", todo |-> todo, rows |-> [p \in todo |-> row[p[1]][p[2]]],
                     steps |-> [s \in {p[1] : p \in todo} |-> sequence[s].steps],
                     blocked |-> [l \in {p[2] : p \in todo} |-> blocked[l]],
                     at |-> << >>, box |-> None]]
              /\ IF \A v \in Workers : tick[v].pc = "idle" THEN tally' = t
                 ELSE Mishap(Mark(t, Due, "overlap"))
    /\ UNCHANGED <<sequence, row, box, people, poll, request, sent>>

\* evaluateCondition, on the enrollment as it was loaded.  Opens and clicks are
\* recorded only for a send_messages row with the step's tracking id
\* (routes/track/index.ts:41), and no row of a sequence has one: the tick finds
\* none, so stop_on_open and stop_on_click never stop anyone.
Holds(cond, r) == CASE cond = "if_opened"      -> FALSE
                    [] cond = "if_not_replied" -> ~r.replied
                    [] OTHER                   -> TRUE

Reason(w, l) == tick[w].blocked[l]
VerdictUnblocked(w, p) ==                                          \* mutant
    LET r == tick[w].rows[p]
        steps == tick[w].steps[p[1]]
    IN  IF r.step >= Len(steps) THEN "complete" ELSE IF ~Holds(steps[r.step + 1].cond, r)
        THEN "skip" ELSE IF steps[r.step + 1].kind # "email" THEN "park" ELSE "mail"
Verdict(w, p) ==
    LET r == tick[w].rows[p]
        steps == tick[w].steps[p[1]]
    IN  IF Reason(w, p[2]) # None                      THEN "refuse"
        ELSE IF r.step >= Len(steps)                   THEN "complete"
        ELSE IF ~Holds(steps[r.step + 1].cond, r)      THEN "skip"
        ELSE IF steps[r.step + 1].kind # "email"       THEN "park"
        ELSE "mail"

\* The day and hour of the step after the one at index i.
NextDueShort(steps, i) == IF i + 2 < Len(steps) THEN "later" ELSE "never"    \* mutant
NextDue(steps, i) == IF i + 1 < Len(steps) THEN "later" ELSE "never"

Rest(w, p) == [tick EXCEPT ![w].todo = @ \ {p}]
OutOfWindow(w, p) ==
    /\ tick[w].pc = "run" /\ p \in tick[w].todo /\ Reason(w, p[2]) = None
    /\ tick' = Rest(w, p) /\ Event(tally)
    /\ UNCHANGED <<sequence, row, box, people, poll, request, sent>>

\* The enrollments that are not mailed get a new status or step.  The update of
\* a row that is gone throws, and ends the tick.
Updated(w, p) ==
    LET r == tick[w].rows[p]
        v == Verdict(w, p)
    IN  CASE v = "refuse"   -> [Row(p[1], p[2]) EXCEPT !.status =
                                  IF Reason(w, p[2]) = "unsubscribed" THEN "unsubscribed" ELSE "bounced"]
          [] v = "complete" -> [Row(p[1], p[2]) EXCEPT !.status = "completed"]
          [] v = "skip"     -> [Row(p[1], p[2]) EXCEPT !.step = r.step + 1,
                                                       !.due = NextDue(tick[w].steps[p[1]], r.step)]
          [] v = "park"     -> [Row(p[1], p[2]) EXCEPT !.status = "awaiting_manual_action"]
SkippedLast(w, p) ==
    Verdict(w, p) = "skip" /\ NextDue(tick[w].steps[p[1]], tick[w].rows[p].step) = "never"
Decide(w, p) ==
    /\ tick[w].pc = "run" /\ p \in tick[w].todo /\ Verdict(w, p) # "mail"
    /\ IF Is(p[1], p[2], {None})
       THEN tick' = [tick EXCEPT ![w] = IdleTick] /\ UNCHANGED <<row, tally>>
       ELSE /\ tick'  = Rest(w, p)
            /\ row'   = With(p[1], p[2], Updated(w, p))
            /\ tally' = IF SkippedLast(w, p) THEN Mark(tally, {p}, "stuck")
                        ELSE IF Verdict(w, p) = "refuse" THEN Stop(tally, p, w) ELSE tally
    /\ UNCHANGED <<sequence, box, people, poll, request, sent>>

\* The mailbox: one that is active and under its limit, the one on record for a
\* follow-up; the shared SES account when there is none.
Free(b) == box[b] = "active"
Senders(r) ==
    LET free == {b \in Boxes : Free(b)}
    IN  IF r.box \in free /\ r.step > 0 THEN {r.box} ELSE IF free = {} THEN {"ses"} ELSE free

\* The mail goes out, and the lead has it...
Delivered(t, w, p, b) ==
    LET u == [t EXCEPT !.unwelcome = @ \cup ({p} \ tally.listed[w]),
                       !.intruded  = @ \cup ({p[2]} \ tally.unblocked[w])]
        v == IF b = "ses" \/ b = tick[w].rows[p].box \/ tick[w].rows[p].step = 0 THEN u
             ELSE Mark(u, {p}, "boxless")
    IN  IF b = "ses" THEN Mark(v, {p}, "boxless") ELSE [v EXCEPT !.from = @ \cup {<<p[1], p[2], b>>}]
StepId(w, p) == tick[w].steps[p[1]][tick[w].rows[p].step + 1].id
Reached(w, p) == [sent EXCEPT ![p[1]][p[2]][StepId(w, p)] = @ + 1]
Mail(w, p) ==
    /\ tick[w].pc = "run" /\ p \in tick[w].todo /\ Verdict(w, p) = "mail"
    /\ \E b \in Senders(tick[w].rows[p]) :
          /\ tick'  = [tick EXCEPT ![w].pc = "sent", ![w].todo = @ \ {p}, ![w].at = p, ![w].box = b]
          /\ tally' = Delivered(tally, w, p, b)
    /\ sent' = Reached(w, p)
    /\ UNCHANGED <<sequence, row, box, people, poll, request>>

\* ...or the call throws, after the mail was accepted or before: the enrollment
\* stays due.
MailFails(w, p) ==
    /\ tick[w].pc = "run" /\ p \in tick[w].todo /\ Verdict(w, p) = "mail"
    /\ tick' = Rest(w, p)
    /\ \/ Event(tally) /\ UNCHANGED sent
       \/ /\ Mishap(Mark(Delivered(tally, w, p, "ses"), {p}, "again"))
          /\ sent' = Reached(w, p)
    /\ UNCHANGED <<sequence, row, box, people, poll, request>>

\* The step is recorded, on the row as it is by now; the last one completes it.
\* Of a mailbox chosen for a later step nothing is kept.
IsLast(w) == tick[w].rows[tick[w].at].step + 1 >= Len(tick[w].steps[tick[w].at[1]])
AdvancedNot(w) == Row(tick[w].at[1], tick[w].at[2])                \* mutant
Advanced(w) ==
    LET p == tick[w].at
        r == tick[w].rows[p]
        n == Row(p[1], p[2])
    IN  [n EXCEPT !.step = r.step + 1, !.due = NextDue(tick[w].steps[p[1]], r.step),
                  !.box  = IF r.step = 0 /\ tick[w].box \in Boxes THEN tick[w].box ELSE @,
                  !.status = IF IsLast(w) THEN "completed" ELSE @]
Advance(w) ==
    LET p == tick[w].at
    IN  /\ tick[w].pc = "sent"
        /\ tick' = [tick EXCEPT ![w].pc = IF IsLast(w) /\ ~Is(p[1], p[2], {None}) THEN "follow" ELSE "run",
                                ![w].at = IF IsLast(w) /\ ~Is(p[1], p[2], {None}) THEN p ELSE << >>,
                                ![w].box = None]
        /\ row'  = IF Is(p[1], p[2], {None}) THEN row ELSE With(p[1], p[2], Advanced(w))
        /\ UNCHANGED <<sequence, box, people, poll, request, sent, tally>>

\* A lead that is not in a subsequence of s yet enters it.
Subs(s, trigger) == {c \in SequenceIds : sequence[c].exists /\ Parents[c] = s /\ Trigger[c] = trigger}
Entered(rows, cs, l) ==
    [s \in SequenceIds |-> IF s \in cs /\ rows[s][l].status = None
        THEN [rows[s] EXCEPT ![l] = NewRow(IF sequence[s].steps = << >> THEN "never" ELSE "later")]
        ELSE rows[s]]
Stranded(t, rows) ==
    Mark(t, {p \in Pairs : Is(p[1], p[2], {None}) /\ rows[p[1]][p[2]].status = "active"
                              /\ rows[p[1]][p[2]].due = "never"}, "stuck")

\* After the last step: the subsequences for who has not replied.
Follow(w) ==
    LET p == tick[w].at
        rows == Entered(row, Subs(p[1], "NOT_REPLIED_IN_DAYS"), p[2])
    IN  /\ tick[w].pc = "follow"
        /\ tick'  = [tick EXCEPT ![w].pc = "run", ![w].at = << >>]
        /\ row'   = rows
        /\ tally' = Stranded(tally, rows)
        /\ UNCHANGED <<sequence, box, people, poll, request, sent>>

Unlisted(t, w) == [t EXCEPT !.listed[w] = {}, !.unblocked[w] = {}]
EndTick(w) ==
    /\ tick[w].pc = "run" /\ tick[w].todo = {}
    /\ tick'  = [tick EXCEPT ![w] = IdleTick]
    /\ tally' = Unlisted(tally, w)
    /\ UNCHANGED <<sequence, row, box, people, poll, request, sent>>

\* The worker dies, or cannot reach the database.
TickDies(w) ==
    /\ tick[w].pc # "idle"
    /\ Mishap(LET t == Unlisted(tally, w)
              IN  IF tick[w].pc = "sent" THEN Mark(t, {tick[w].at}, "again") ELSE t)
    /\ tick' = [tick EXCEPT ![w] = IdleTick]
    /\ UNCHANGED <<sequence, row, box, people, poll, request, sent>>

------------------------------------------------------------------------------
\* A lead answers a mail that came from a mailbox.  The answer is found by every
\* poll until it is read in the mailbox, or is too old.
Kinds == {"interested", "out_of_office", "unsubscribe", "bounced"}
HardStop(kind) == kind \in {"unsubscribe", "bounced"}
Reply(l) ==
    /\ \A m \in inbox : m.lead # l
    /\ \E f \in tally.from, k \in Kinds :
          /\ f[2] = l /\ inbox' = inbox \cup {[lead |-> l, box |-> f[3], seq |-> f[1], kind |-> k]}
          /\ Event(IF HardStop(k) THEN [tally EXCEPT !.refused = @ \cup {<<f[1], l>>}] ELSE tally)
    /\ UNCHANGED <<sequence, row, box, blocked, lead, replies, tick, poll, request, sent>>
Expire(m) ==
    /\ inbox' = inbox \ {m}
    /\ tally' = IF <<m.lead, m.seq>> \in replies THEN tally ELSE Mark(tally, {<<m.seq, m.lead>>}, "missed")
    /\ UNCHANGED <<sequence, row, box, blocked, lead, replies, tick, poll, request, sent>>

\* pollOneMailbox: the first active enrollment of the sender that has this
\* mailbox on record; without one the reply is only stored.  classifyReplyBody
\* answers with the kind, or "unknown" when it fails.
Found(m) == {s \in SequenceIds : Is(s, m.lead, {"active"}) /\ row[s][m.lead].box = m.box}
PollRead(p, m) ==
    /\ poll[p].pc = "idle" /\ box[m.box] # "error"
    /\ IF Found(m) = {}
       THEN /\ replies' = replies \cup {<<m.lead, None>>}
            /\ replies' # replies
            /\ UNCHANGED <<poll, tally>>
       ELSE /\ \E s \in Found(m), k \in {m.kind, "unknown"} :
                  /\ poll' = [poll EXCEPT ![p] = [pc |-> "found", lead |-> m.lead, seq |-> s,
                                                  stop |-> sequence[s].stop, kind |-> k]]
                  /\ IF k = m.kind THEN UNCHANGED tally
                     ELSE Mishap(Mark(tally, {<<s, m.lead>>}, "missed"))
            /\ UNCHANGED replies
    /\ UNCHANGED <<sequence, row, box, blocked, lead, inbox, tick, request, sent>>

\* Out of office: the next step waits three days.
Postpone(p) ==
    LET s == poll[p].seq
        l == poll[p].lead
    IN  /\ poll[p].pc = "found" /\ poll[p].kind = "out_of_office"
        /\ poll' = [poll EXCEPT ![p] = IdlePoll]
        /\ row'  = IF Is(s, l, {None}) THEN row ELSE With(s, l, [row[s][l] EXCEPT !.due = "later"])
        /\ replies' = replies \cup {<<l, s>>}
        /\ tally' = IF Is(s, l, {"active"}) THEN tally ELSE Mark(tally, {<<s, l>>}, "overtaken")
        /\ UNCHANGED <<sequence, box, blocked, lead, inbox, tick, request, sent>>

\* Any other reply: a new status, for the lead too, and the subsequences for who
\* has replied.  An enrollment that a reply does not stop is written back as it
\* was found, active.
ReplyStatusSoft(p) == IF poll[p].stop THEN "replied" ELSE "active"    \* mutant
ReplyStatus(p) ==
    CASE poll[p].kind = "bounced"     -> "bounced"
      [] poll[p].kind = "unsubscribe" -> "unsubscribed"
      [] OTHER -> IF poll[p].stop THEN "replied" ELSE "active"
LeadStatus(kind) ==
    CASE kind = "unsubscribe" -> "unsubscribed"
      [] kind = "unknown"     -> "replied"
      [] OTHER                -> kind
NoteReply(p) ==
    LET s == poll[p].seq
        l == poll[p].lead
        mine == With(s, l, [row[s][l] EXCEPT !.status = ReplyStatus(p), !.replied = TRUE])
        rows == IF HardStop(poll[p].kind) THEN mine ELSE Entered(mine, Subs(s, "REPLIED"), l)
        over == ~Is(s, l, {"active"}) /\ ReplyStatus(p) = "active"
    IN  /\ poll[p].pc = "found" /\ poll[p].kind # "out_of_office"
        /\ IF Is(s, l, {None})          \* the update throws, the mailbox is done
           THEN /\ poll' = [poll EXCEPT ![p] = IdlePoll]
                /\ UNCHANGED <<row, lead, replies, tally>>
           ELSE /\ row'  = rows
                /\ lead' = [lead EXCEPT ![l] = LeadStatus(poll[p].kind)]
                /\ IF HardStop(poll[p].kind)
                   THEN poll' = [poll EXCEPT ![p].pc = "share"] /\ UNCHANGED replies
                   ELSE poll' = [poll EXCEPT ![p] = IdlePoll] /\ replies' = replies \cup {<<l, s>>}
                /\ tally' = LET t == Stranded(tally, rows)
                                u == IF over THEN Mark(Mark(t, {<<s, l>>}, "stuck"), {<<s, l>>}, "overtaken")
                                     ELSE t
                            IN  IF ReplyStatus(p) = "active" THEN u ELSE Stop(u, <<s, l>>, p)
        /\ UNCHANGED <<sequence, box, blocked, inbox, tick, request, sent>>

\* Who opted out or bounced goes on the suppression list of the platform; a
\* failure is swallowed.
Blocked(l, reason) == [blocked EXCEPT ![l] = IF @ = None THEN reason ELSE @]
Share(p) ==
    LET l == poll[p].lead
    IN  /\ poll[p].pc = "share"
        /\ poll'    = [poll EXCEPT ![p] = IdlePoll]
        /\ replies' = replies \cup {<<l, poll[p].seq>>}
        /\ \/ /\ blocked' = Blocked(l, IF poll[p].kind = "unsubscribe" THEN "unsubscribed" ELSE "hard_bounce")
              /\ UNCHANGED tally
           \/ Mishap(Mark(tally, OfLead(l), "unshared")) /\ UNCHANGED blocked
        /\ UNCHANGED <<sequence, row, box, lead, inbox, tick, request, sent>>

\* The worker dies, or the poll hangs and its mailbox is left after 45 seconds.
PollDies(p) ==
    /\ poll[p].pc # "idle"
    /\ Mishap(IF poll[p].pc = "share" THEN Mark(tally, OfLead(poll[p].lead), "unshared") ELSE tally)
    /\ poll' = [poll EXCEPT ![p] = IdlePoll]
    /\ UNCHANGED <<sequence, row, box, people, tick, request, sent>>

------------------------------------------------------------------------------
\* The rest of the platform: time, a mailbox that fills up, fails or recovers, an
\* address suppressed by another channel, a lead closed in Salesforce.
Elapse(s, l) ==
    /\ row[s][l].due = "later"
    /\ row' = With(s, l, [row[s][l] EXCEPT !.due = "now"])
    /\ UNCHANGED <<sequence, box, people, doers, sent, tally>>
BoxChanges(b, state) ==
    /\ box[b] # state /\ box' = [box EXCEPT ![b] = state]
    /\ Event(IF state = "error" THEN Mark(tally, Pairs, "missed") ELSE tally)
    /\ UNCHANGED <<sequence, row, people, doers, sent>>
Suppress(l, reason) ==
    /\ blocked[l] = None /\ blocked' = Blocked(l, reason) /\ Event(tally)
    /\ UNCHANGED <<sequence, row, box, lead, replies, inbox, doers, sent>>
Paused(l, but) == [s \in SequenceIds |-> IF s # but /\ Is(s, l, {"active"})
                                         THEN [row[s] EXCEPT ![l].status = "paused"] ELSE row[s]]
SalesforceStops(l) ==
    /\ row' = Paused(l, None) /\ row' # row
    /\ lead' = [lead EXCEPT ![l] = "do_not_contact"]
    /\ Event(tally)
    /\ UNCHANGED <<sequence, box, blocked, replies, inbox, doers, sent>>

\* POST /sequences/:id/contacts: in one transaction, which sees what others have
\* committed, each address is looked up, here and in the other sequences...
CanEnroll(s, l, force) == Is(s, l, {None}) /\ (force \/ \A o \in SequenceIds : ~Is(o, l, {"active"}))
EnrollReads(r, s, l, force) ==
    /\ request[r].pc = "idle" /\ sequence[s].exists /\ CanEnroll(s, l, force)
    /\ Event(tally)
    /\ request' = [request EXCEPT ![r] = [pc |-> "create", seq |-> s, lead |-> l, force |-> force]]
    /\ UNCHANGED <<sequence, row, box, people, tick, poll, sent>>

\* ...and enrolled, unless it is by now; a forced move pauses it elsewhere.
FirstDue(s) == IF sequence[s].steps = << >> THEN "never" ELSE "now"
EnrollWrites(r) ==
    LET s == request[r].seq
        l == request[r].lead
        rows == [(IF request[r].force THEN Paused(l, s) ELSE row) EXCEPT ![s][l] = NewRow(FirstDue(s))]
    IN  /\ request[r].pc = "create"
        /\ request' = [request EXCEPT ![r] = IdleRequest]
        /\ IF sequence[s].exists /\ Is(s, l, {None})
           THEN row' = rows /\ tally' = Stranded(tally, rows)
           ELSE UNCHANGED <<row, tally>>
        /\ UNCHANGED <<sequence, box, people, tick, poll, sent>>

\* Leads, connectors and payment events enroll without looking elsewhere, and
\* leave an enrollment as it is.  The MCP tool makes it active again.
Upsert(s, l) ==
    /\ sequence[s].exists /\ Is(s, l, {None})
    /\ row' = With(s, l, NewRow("now")) /\ Event(tally)
    /\ UNCHANGED <<sequence, box, people, doers, sent>>
McpEnroll(s, l) ==
    /\ sequence[s].exists
    /\ row' = With(s, l, IF Is(s, l, {None}) THEN NewRow("now")
                         ELSE [row[s][l] EXCEPT !.status = "active", !.due = "now"])
    /\ row' # row
    /\ Event(IF <<s, l>> \in tally.stopped THEN Mark(tally, {<<s, l>>}, "rejoined") ELSE tally)
    /\ UNCHANGED <<sequence, box, people, doers, sent>>

\* DELETE /sequences/:id/contacts/:email.
Unenroll(s, l) ==
    /\ sequence[s].exists /\ ~Is(s, l, {None, "unsubscribed"})
    /\ row' = With(s, l, [row[s][l] EXCEPT !.status = "unsubscribed"])
    /\ Event(Stop(tally, <<s, l>>, None))
    /\ UNCHANGED <<sequence, box, people, doers, sent>>

\* complete-task: a manual step is done.
CompleteTask(s, l) ==
    LET n == row[s][l].step + 1
        steps == sequence[s].steps
    IN  /\ Is(s, l, {"awaiting_manual_action"})
        /\ row' = With(s, l, [row[s][l] EXCEPT !.step = n, !.due = NextDue(steps, n - 1),
                                  !.status = IF n >= Len(steps) THEN "completed" ELSE "active"])
        /\ Event(tally)
        /\ UNCHANGED <<sequence, box, people, doers, sent>>

\* trigger-subsequence, by hand.
TriggerSub(s, c, l) ==
    LET rows == Entered(row, {c}, l)
    IN  /\ sequence[s].exists /\ sequence[c].exists /\ Parents[c] = s
        /\ ~Is(s, l, {None}) /\ Is(c, l, {None})
        /\ row' = rows /\ Event(Stranded(tally, rows))
        /\ UNCHANGED <<sequence, box, people, doers, sent>>

\* Sequences and steps.
SetSequence(s, q) ==
    /\ sequence' = [sequence EXCEPT ![s] = q] /\ Event(tally)
    /\ UNCHANGED <<row, box, people, doers, sent>>
New(s) == ~sequence[s].exists /\ sequence[s].made = 0
CreateSequence(s) == New(s) /\ Parents[s] = None /\ SetSequence(s, [Unmade EXCEPT !.exists = TRUE])
CreateSubsequence(s) ==
    /\ New(s) /\ Parents[s] # None /\ sequence[Parents[s]].exists
    /\ SetSequence(s, [Unmade EXCEPT !.exists = TRUE])
FromTemplate(s) == New(s) /\ Parents[s] = None /\ SetSequence(s, Made(s, Len(Design[s]), "all"))
\* The copy of a step keeps neither its type nor its note: it is an email.
Duplicate(s, n) ==
    /\ sequence[s].exists /\ New(n) /\ Parents[n] = None
    /\ SetSequence(n, [Unmade EXCEPT !.exists = TRUE, !.made = Len(Design[n]),
          !.steps = [i \in DOMAIN sequence[s].steps |-> [sequence[s].steps[i] EXCEPT !.kind = "email"]]])
PatchSequence(s) ==
    sequence[s].exists /\ SetSequence(s, [sequence[s] EXCEPT !.stop = ~@])
AddStep(s) ==
    /\ sequence[s].exists /\ sequence[s].made < Len(Design[s])
    /\ SetSequence(s, [sequence[s] EXCEPT !.made = @ + 1,
                                          !.steps = Append(@, Design[s][sequence[s].made + 1])])
PatchStep(s, i) ==
    /\ i \in DOMAIN sequence[s].steps
    /\ SetSequence(s, [sequence[s] EXCEPT !.steps[i].cond = IF @ = "always" THEN "if_opened" ELSE "always"])
DeleteStep(s, i) ==
    /\ i \in DOMAIN sequence[s].steps
    /\ SetSequence(s, [sequence[s] EXCEPT !.steps = RemoveAt(@, i)])
\* The enrollments go with it.
DeleteSequence(s) ==
    /\ sequence[s].exists
    /\ sequence' = [sequence EXCEPT ![s].exists = FALSE, ![s].steps = << >>, ![s].made = Len(Design[s])]
    /\ row' = [row EXCEPT ![s] = [l \in Leads |-> NoRow]]
    /\ Event(tally)
    /\ UNCHANGED <<box, people, doers, sent>>

------------------------------------------------------------------------------
TickWorks(w) ==
    \/ StartTick(w)
    \/ \E p \in Pairs : Decide(w, p) \/ Mail(w, p)
    \/ Advance(w)
    \/ Follow(w)
    \/ EndTick(w)
PollWorks(p) ==
    \/ \E m \in inbox : PollRead(p, m)
    \/ Postpone(p)
    \/ NoteReply(p)
    \/ Share(p)

Next ==
    \/ \E w \in Workers :
          \/ TickWorks(w)
          \/ \E p \in Pairs : OutOfWindow(w, p) \/ MailFails(w, p)
          \/ TickDies(w)
    \/ \E p \in Pollers : PollWorks(p) \/ PollDies(p)
    \/ \E l \in Leads :
          \/ Reply(l)
          \/ \E reason \in {"unsubscribed", "hard_bounce"} : Suppress(l, reason)
          \/ SalesforceStops(l)
    \/ \E m \in inbox : Expire(m)
    \/ \E b \in Boxes, state \in {"active", "full", "error"} : BoxChanges(b, state)
    \/ \E s \in SequenceIds, l \in Leads :
          \/ Elapse(s, l)
          \/ \E r \in Requests, force \in BOOLEAN : EnrollReads(r, s, l, force)
          \/ Upsert(s, l) \/ McpEnroll(s, l) \/ Unenroll(s, l) \/ CompleteTask(s, l)
          \/ \E c \in SequenceIds : TriggerSub(s, c, l)
    \/ \E r \in Requests : EnrollWrites(r)
    \/ \E s \in SequenceIds :
          \/ CreateSequence(s) \/ CreateSubsequence(s) \/ FromTemplate(s)
          \/ \E n \in SequenceIds : Duplicate(s, n)
          \/ PatchSequence(s) \/ AddStep(s)
          \/ \E i \in DOMAIN sequence[s].steps : PatchStep(s, i) \/ DeleteStep(s, i)
          \/ DeleteSequence(s)

Spec == Init /\ [][Next]_vars

\* The ticks and polls are repeatable jobs, and time passes: steps come due, and
\* a poll looks only at the replies of the day.
Fairness ==
    /\ WF_vars(\E w \in Workers : TickWorks(w))
    /\ WF_vars(\E p \in Pollers : PollWorks(p))
    /\ WF_vars(\E s \in SequenceIds, l \in Leads : Elapse(s, l))
    /\ WF_vars(\E m \in inbox : Expire(m))
FairSpec == Spec /\ Fairness

------------------------------------------------------------------------------
\* Properties.

Spared(p, marks) == tally.marred[p] \cap marks = {}

\* A lead gets each step of a sequence once, however ticks, edits of the steps,
\* replies and re-enrollments interleave, unless a mail went out and was not
\* recorded or two ticks had the enrollment.
StepOnce ==
    \A p \in Pairs : Spared(p, {"again", "overlap"}) => \A i \in StepIds : sent[p[1]][p[2]][i] <= 1

\* Who is stopped stays stopped: an enrollment that a reply, a bounce or the
\* owner ended is neither active again nor mailed by a later tick, unless the
\* owner puts the lead back or the stop met a tick or poll that had the row in
\* hand; and no tick mails an address that was suppressed when it began.
StaysStopped ==
    /\ \A p \in Pairs : Spared(p, {"overtaken", "rejoined"}) =>
          /\ p \in tally.stopped => ~Is(p[1], p[2], {"active"})
          /\ p \notin tally.unwelcome
    /\ tally.intruded = {}

\* An opt-out or bounce that arrives ends the enrollment it answers, unless it
\* was gone before a poll, the mail came from a mailbox not on record, or the
\* owner puts the lead back.
ReplyStops ==
    \A p \in Pairs :
        []<>(p \notin tally.refused \/ ~Is(p[1], p[2], {"active"})
                \/ ~Spared(p, {"missed", "boxless", "rejoined"}))

\* An enrollment does not stay active for ever: the steps run out, unless it was
\* left with nothing due.
Ends ==
    \A s \in SequenceIds, l \in Leads :
        []<>(~Is(s, l, {"active"}) \/ ~Spared(<<s, l>>, {"stuck"}))

\* Both: how an enrollment ends.
EnrollmentsEnd == ReplyStops /\ Ends

\* "one active sequence per lead" (subsequences apart).
OneActiveSequence ==
    \A l \in Leads : Cardinality({s \in SequenceIds : Parents[s] = None /\ Is(s, l, {"active"})}) <= 1
=============================================================================
