----------------------------- MODULE Connectors ------------------------------
(***************************************************************************)
(* Leads pushed by other systems (routes/connectors/index.ts) and payment  *)
(* events (connectors/payment.ts), each sent again if its answer is lost.  *)
(* One address, one sequence that may be the customer's or not, a rule for *)
(* the event.                                                              *)
(***************************************************************************)
EXTENDS Integers, FiniteSets

CONSTANT MaxPushes                  \* bound: pushes, edits; a failure counts as two

ASSUME ConnectorsAssumption == MaxPushes \in Nat

VARIABLES
    lead,       \* is there a lead of the address
    enrolled,   \* sequence_enrollments of the address
    rule,       \* connector_rules of the event
    payment,    \* a payment callback at work
    journal,    \* connector_events, and what was done (ghost)
    pushes      \* ghosts and bound

connectorVars == <<lead, enrolled, rule, payment, journal, pushes>>

ConnectorInit ==
    /\ lead = FALSE /\ enrolled = "none" /\ payment = "idle"
    /\ rule \in {"none", "send", "enroll"}
    /\ journal = [sent |-> 0, logged |-> 0, unlogged |-> 0]
    /\ pushes = [acts |-> 0, stopped |-> FALSE]

Pushes(n) == pushes.acts + n <= MaxPushes /\ pushes' = [pushes EXCEPT !.acts = @ + n]

\* The upsert of an enrollment changes none that exists.
EnrolledAgain == "active"                                                    \* mutant
Enrolled == IF enrolled = "none" THEN "active" ELSE enrolled

\* Lead and enrollment in one transaction, a row of the push at a time.
Upsert(sequence) ==
    /\ lead' = TRUE /\ enrolled' = IF sequence = "own" THEN Enrolled ELSE enrolled
Refused == UNCHANGED <<lead, enrolled>>

\* Clay: a sequence that is not the customer's is left out; an address that does not verify may
\* be skipped (verify=true and skip_invalid=true).
ClayPush(sequence) == Pushes(1) /\ (Upsert(sequence) \/ Refused) /\ UNCHANGED <<rule, payment, journal>>

\* The others do not look at whose the sequence is: the database refuses another's, and the lead
\* with it, where it guards its rows; else the address is enrolled in a sequence not watched here.
OtherPush(sequence) ==
    /\ Pushes(1) /\ UNCHANGED <<rule, payment, journal>>
    /\ Upsert(sequence) \/ (sequence = "foreign" /\ Refused)
ApolloPush(sequence) == OtherPush(sequence)
GenericPush(sequence) == OtherPush(sequence)
StopEnrollment ==                                   \* Outreach: a reply, the customer
    /\ enrolled = "active" /\ enrolled' = "stopped"
    /\ pushes' = [pushes EXCEPT !.stopped = TRUE] /\ UNCHANGED <<lead, rule, payment, journal>>
RestartEnrollment ==                                \* Outreach: the customer enrolls again
    /\ enrolled = "stopped" /\ enrolled' = "active" /\ pushes.acts < MaxPushes
    /\ pushes' = [acts |-> pushes.acts + 1, stopped |-> FALSE]
    /\ UNCHANGED <<lead, rule, payment, journal>>

------------------------------------------------------------------------------
SetRule(r) == rule # r /\ rule' = r /\ Pushes(1) /\ UNCHANGED <<lead, enrolled, payment, journal>>

\* executeRule: a template is sent through the platform's own API, a sequence by an upsert.
ReceivePayment(address) ==
    /\ payment = "idle" /\ Pushes(1)
    /\ payment' = IF rule = "none" \/ ~address THEN "log" ELSE rule
    /\ UNCHANGED <<lead, enrolled, rule, journal>>
SendTemplate ==                                     \* taken, refused, or taken without an answer
    /\ payment = "send"
    /\ \/ payment' = "log sent" /\ journal' = [journal EXCEPT !.sent = @ + 1] /\ UNCHANGED pushes
       \/ payment' = "log" /\ UNCHANGED journal /\ Pushes(2)
       \/ payment' = "log" /\ Pushes(2) /\ journal' = [journal EXCEPT !.sent = @ + 1, !.unlogged = @ + 1]
    /\ UNCHANGED <<lead, enrolled, rule>>
EnrollPayer ==
    /\ payment = "enroll" /\ enrolled' = Enrolled /\ payment' = "log"
    /\ UNCHANGED <<lead, rule, journal, pushes>>
LogPayment ==
    /\ payment \in {"log", "log sent"} /\ payment' = "idle"
    /\ LET did == IF payment = "log sent" THEN 1 ELSE 0
       IN  \/ journal' = [journal EXCEPT !.logged = @ + did] /\ UNCHANGED pushes
           \/ Pushes(2) /\ journal' = [journal EXCEPT !.unlogged = @ + did]        \* caught
    /\ UNCHANGED <<lead, enrolled, rule>>
PaymentDies ==
    /\ payment # "idle" /\ payment' = "idle" /\ Pushes(2)
    /\ journal' = [journal EXCEPT !.unlogged = @ + (IF payment = "log sent" THEN 1 ELSE 0)]
    /\ UNCHANGED <<lead, enrolled, rule>>

ConnectorNext ==
    \/ \E sequence \in {"none", "own", "foreign"} : ClayPush(sequence) \/ ApolloPush(sequence) \/ GenericPush(sequence)
    \/ StopEnrollment \/ RestartEnrollment
    \/ \E r \in {"none", "send", "enroll"} : SetRule(r)
    \/ \E address \in BOOLEAN : ReceivePayment(address)
    \/ SendTemplate \/ EnrollPayer \/ LogPayment \/ PaymentDies

------------------------------------------------------------------------------
\* However often a lead is pushed or a payment reported, by whichever connector, an enrollment
\* that was stopped is not started again (connectors/index.ts:164-168, payment.ts:265-269);
\* and the journal shows each template that was sent, but for answers and rows that were lost.
RepeatsAreHarmless ==
    /\ pushes.stopped => enrolled # "active"
    /\ payment = "idle" => journal.sent = journal.logged + journal.unlogged
=============================================================================
