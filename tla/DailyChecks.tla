----------------------------- MODULE DailyChecks -----------------------------
(***************************************************************************)
(* The job of 06:00, one at a time (workers/scheduledChecks.ts): expired   *)
(* keys are revoked, expiring ones warned about, A/B tests decided.  One   *)
(* key and its A/B campaigns.                                              *)
(***************************************************************************)
EXTENDS Integers, FiniteSets

CONSTANTS Tests,        \* A/B campaigns of the key
    LIFETIME,           \* days the key lasts
    MaxDailyActs        \* bound: opens, failures (which count twice)

ASSUME DailyAssumption == {LIFETIME, MaxDailyActs} \subseteq Nat

VARIABLES
    expiry,     \* days left, whether the hour is within half an hour of the job's, active
    daily,      \* the job
    test,       \* opens of a campaign sent more than four hours ago: few, or the leading variant
    audit,      \* audit_log: today's warnings, campaigns whose winner was picked
    alarm       \* ghosts and bounds

dailyVars == <<expiry, daily, test, audit, alarm>>

WarnDays  == {7, 1}
DailyIdle == [due |-> FALSE, pc |-> "idle", days |-> {}, tests |-> {}]
DailyInit ==
    /\ \E b \in BOOLEAN : expiry = [left |-> LIFETIME, aligned |-> b, active |-> TRUE]
    /\ daily = DailyIdle
    /\ test = [t \in Tests |-> "few"]
    /\ audit = [warned |-> {}, picked |-> {}]
    /\ alarm = [acts |-> 0, warns |-> [d \in WarnDays |-> 0], picks |-> [t \in Tests |-> 0], unrecorded |-> FALSE]

Debit(n, a)   == a.acts + n <= MaxDailyActs /\ alarm' = [a EXCEPT !.acts = @ + n]
Unrecorded(a) == [a EXCEPT !.unrecorded = TRUE]
OneMore(n) == IF n < 2 THEN n + 1 ELSE n

------------------------------------------------------------------------------
Opens(t, v) ==
    /\ test[t] # v /\ test' = [test EXCEPT ![t] = v] /\ Debit(1, alarm)
    /\ UNCHANGED <<expiry, daily, audit>>

DayPasses ==
    /\ daily = DailyIdle /\ expiry.left > 0
    /\ expiry' = [expiry EXCEPT !.left = @ - 1]
    /\ daily' = [daily EXCEPT !.due = TRUE]
    /\ audit' = [audit EXCEPT !.warned = {}]
    /\ UNCHANGED <<test, alarm>>

\* The job revokes, then warns, then decides the tests.  The windows are half an
\* hour about the job's own time of day.
InWindow(d) == expiry.active /\ expiry.left = d /\ expiry.aligned
StartDaily ==
    /\ daily.due /\ daily.pc = "idle"
    /\ expiry' = IF expiry.left = 0 THEN [expiry EXCEPT !.active = FALSE] ELSE expiry
    /\ daily' = [daily EXCEPT !.pc = "warn", !.days = {d \in WarnDays : InWindow(d)}]
    /\ UNCHANGED <<test, audit, alarm>>
WarnedNever(d) == FALSE                                                      \* mutant
WarnedAlready(d) == d \in audit.warned
Warn(d) ==
    /\ daily.pc = "warn" /\ d \in daily.days
    /\ IF WarnedAlready(d) THEN daily' = [daily EXCEPT !.days = @ \ {d}] /\ UNCHANGED alarm
       ELSE /\ daily' = [daily EXCEPT !.pc = "warned"]
            /\ \/ alarm' = [alarm EXCEPT !.warns[d] = OneMore(@)]
               \/ Debit(2, alarm)                            \* the answer of sendEmail is not read
    /\ UNCHANGED <<expiry, test, audit>>
RecordWarning(d) ==
    /\ daily.pc = "warned" /\ d \in daily.days
    /\ daily' = [daily EXCEPT !.pc = "warn", !.days = @ \ {d}]
    /\ \/ audit' = [audit EXCEPT !.warned = @ \cup {d}] /\ UNCHANGED alarm
       \/ UNCHANGED audit /\ Debit(2, Unrecorded(alarm))
    /\ UNCHANGED <<expiry, test>>

StartTests ==
    /\ daily.pc = "warn" /\ daily.days = {}
    /\ daily' = [daily EXCEPT !.pc = "tests", !.tests = Tests]
    /\ UNCHANGED <<expiry, test, audit, alarm>>
\* Some pick of the key is looked up, not this campaign's: with two tests the
\* other's may be found, and this one is decided again.
Found(t) == IF audit.picked = {} THEN {FALSE} ELSE {p = t : p \in audit.picked}
PickWinner(t) ==
    /\ daily.pc = "tests" /\ t \in daily.tests
    /\ daily' = [daily EXCEPT !.tests = @ \ {t}]
    /\ \E mine \in Found(t) :
          IF mine \/ test[t] = "few" THEN UNCHANGED <<audit, alarm>>
          ELSE /\ \/ audit' = [audit EXCEPT !.picked = @ \cup {t}] /\ alarm' = [alarm EXCEPT !.picks[t] = OneMore(@)]
                  \/ UNCHANGED audit /\ Debit(2, Unrecorded([alarm EXCEPT !.picks[t] = OneMore(@)]))
    /\ UNCHANGED <<expiry, test>>
EndDaily ==
    /\ daily.pc = "tests" /\ daily.tests = {} /\ daily' = DailyIdle
    /\ UNCHANGED <<expiry, test, audit, alarm>>
\* A job that dies begins again, one that throws has failed until tomorrow.
DailyDies ==
    /\ daily.pc # "idle" /\ \E b \in BOOLEAN : daily' = [DailyIdle EXCEPT !.due = b]
    /\ Debit(2, IF daily.pc = "warned" THEN Unrecorded(alarm) ELSE alarm)
    /\ UNCHANGED <<expiry, test, audit>>

DailyNext ==
    \/ DayPasses \/ StartDaily \/ StartTests \/ EndDaily \/ DailyDies
    \/ \E t \in Tests : PickWinner(t) \/ \E v \in {"a", "b"} : Opens(t, v)
    \/ \E d \in WarnDays : Warn(d) \/ RecordWarning(d)

------------------------------------------------------------------------------
\* No warning is written twice and the only A/B test of a key is decided once,
\* whatever dies and begins again, but for a record that was lost
\* (scheduledChecks.ts:57-68, 161-167).
WarnedOnce ==
    ~alarm.unrecorded => /\ \A d \in WarnDays : alarm.warns[d] <= 1
                         /\ \A t \in Tests : audit.picked \subseteq {t} => alarm.picks[t] <= 1

\* A key that expires has been warned about, seven days and one day before
\* (scheduledChecks.ts:6, "7-day and 1-day advance emails").
ExpiryIsWarned ==
    expiry.left = 0 /\ LIFETIME > 7 /\ alarm.acts = 0 => \A d \in WarnDays : alarm.warns[d] = 1
=============================================================================
