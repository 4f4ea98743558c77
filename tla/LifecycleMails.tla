--------------------------- MODULE LifecycleMails ----------------------------
(***************************************************************************)
(* What the platform writes to its own customers (workers/emailSweep.ts,   *)
(* lib/email.ts): welcome, the milestones of a key's age, the quota of a   *)
(* month.  Every monitor process sweeps each hour, and nothing waits for   *)
(* the last sweep to end.  One key; the windows are phases of its age.     *)
(***************************************************************************)
EXTENDS Integers, FiniteSets

CONSTANTS Sweepers, MaxMailActs     \* bound: usage, failures (which count twice)

ASSUME LifecycleAssumption == MaxMailActs \in Nat

VARIABLES
    age,        \* of the key: phase of its life, month, and how much of its quota is used
    claims,     \* sent_emails
    sweep,      \* mails a sweep has to write, the one at hand
    post        \* ghosts and bounds

lifecycleVars == <<age, claims, sweep, post>>

Once(kind)    == [kind |-> kind, month |-> 0]
Monthly(kind) == [kind |-> kind, month |-> age.month]
Mails == {[kind |-> k, month |-> 0] : k \in {"welcome", "milestone"}}
         \cup {[kind |-> k, month |-> m] : k \in {"quota80", "quota100"}, m \in {1, 2}}
NoSweep == [pc |-> "idle", todo |-> {}, at |-> << >>]
LifecycleInit ==
    /\ age = [phase |-> "young", month |-> 1, used |-> "low"]
    /\ claims = {} /\ sweep = [s \in Sweepers |-> NoSweep]
    /\ post = [acts |-> 0, mails |-> [m \in Mails |-> 0], unanswered |-> {}]

Afford(n, p) == p.acts + n <= MaxMailActs /\ post' = [p EXCEPT !.acts = @ + n]

------------------------------------------------------------------------------
GrowsOlder ==
    /\ \/ age.phase = "young" /\ age' = [age EXCEPT !.phase = "milestone"]
       \/ age.phase = "milestone" /\ age' = [age EXCEPT !.phase = "past"]
       \/ age.month = 1 /\ age' = [age EXCEPT !.month = 2, !.used = "low"]
    /\ UNCHANGED <<claims, sweep, post>>
Uses ==
    /\ age.used # "all" /\ Afford(1, post)
    /\ age' = [age EXCEPT !.used = IF @ = "low" THEN "most" ELSE "all"]
    /\ UNCHANGED <<claims, sweep>>

------------------------------------------------------------------------------
DueMails ==
    (IF age.phase = "young" THEN {Once("welcome")} ELSE {})
    \cup (IF age.phase = "milestone" THEN {Once("milestone")} ELSE {})
    \cup (IF age.used = "all" THEN {Monthly("quota100")} ELSE {})
    \cup (IF age.used = "most" THEN {Monthly("quota80")} ELSE {})
StartSweep(s) ==
    /\ sweep[s].pc = "idle" /\ DueMails \ claims # {}
    /\ s = CHOOSE x \in Sweepers : sweep[x].pc = "idle"
    /\ sweep' = [sweep EXCEPT ![s] = [NoSweep EXCEPT !.pc = "run", !.todo = DueMails]]
    /\ UNCHANGED <<age, claims, post>>

\* The claim is an insert that a second one of the same id does not make.
ClaimedByAnyone(m) == FALSE                                                  \* mutant
Claimed(m) == m \in claims
NextMail(s) == IF sweep[s].todo = {} THEN NoSweep ELSE [sweep[s] EXCEPT !.pc = "run", !.at = << >>]
ClaimMail(s, m) ==
    /\ sweep[s].pc = "run" /\ m \in sweep[s].todo
    /\ LET rest == [sweep[s] EXCEPT !.todo = @ \ {m}]
       IN  IF Claimed(m)
           THEN sweep' = [sweep EXCEPT ![s] = IF rest.todo = {} THEN NoSweep ELSE rest] /\ UNCHANGED claims
           ELSE /\ claims' = claims \cup {m}
                /\ sweep' = [sweep EXCEPT ![s] = [rest EXCEPT !.pc = "send", !.at = <<m>>]]
    /\ UNCHANGED <<age, post>>

\* SES takes the mail, or refuses it, or takes it and its answer is lost.
SendMail(s) ==
    LET m == sweep[s].at[1]
        mailed == [post EXCEPT !.mails[m] = IF @ < 2 THEN @ + 1 ELSE @]
    IN  /\ sweep[s].pc = "send"
        /\ \/ post' = mailed /\ sweep' = [sweep EXCEPT ![s] = NextMail(s)]
           \/ Afford(2, post) /\ sweep' = [sweep EXCEPT ![s].pc = "release"]
           \/ Afford(2, [mailed EXCEPT !.unanswered = @ \cup {m}]) /\ sweep' = [sweep EXCEPT ![s].pc = "release"]
        /\ UNCHANGED <<age, claims>>
ReleaseMail(s) ==
    /\ sweep[s].pc = "release" /\ sweep' = [sweep EXCEPT ![s] = NextMail(s)]
    /\ \/ claims' = claims \ {sweep[s].at[1]} /\ UNCHANGED post
       \/ Afford(2, post) /\ UNCHANGED claims                \* best effort: the mail is never sent
    /\ UNCHANGED <<age>>
SweepDies(s) ==                                     \* a mail that was claimed is never sent
    /\ sweep[s].pc # "idle" /\ sweep' = [sweep EXCEPT ![s] = NoSweep] /\ Afford(2, post)
    /\ UNCHANGED <<age, claims>>

LifecycleNext ==
    \/ GrowsOlder \/ Uses
    \/ \E s \in Sweepers : StartSweep(s) \/ SendMail(s) \/ ReleaseMail(s) \/ SweepDies(s)
                           \/ \E m \in sweep[s].todo : ClaimMail(s, m)

------------------------------------------------------------------------------
\* However many sweeps run, no mail is written twice, but one that SES took without
\* answering (emailSweep.ts:74-96): the claim comes before the mail, and is given
\* back only for one that was refused.
WrittenOnce == \A m \in Mails \ post.unanswered : post.mails[m] <= 1
=============================================================================
