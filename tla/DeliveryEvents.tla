--------------------------- MODULE DeliveryEvents ----------------------------
(***************************************************************************)
(* What the mail services report of mails sent (routes/send/events.ts,     *)
(* smtp2goEvents.ts, lib/bounceHandling.ts): a callback per event, sent    *)
(* again until it is answered, in any order.  Mails to one address; the    *)
(* handlers are the API's requests.                                        *)
(***************************************************************************)
EXTENDS Integers, FiniteSets

CONSTANTS Handlers, Strikes,
    MaxEvActs                       \* bound: events; a repetition counts as one, a failure as two

ASSUME DeliveryAssumption == Strikes \in Nat \ {0} /\ MaxEvActs \in Nat

VARIABLES
    mail,       \* send_messages: status, and whether the service's id of it is stored
    due,        \* callbacks that wait for an answer
    handler,    \* a callback at work
    block,      \* the suppression of the address, the soft bounces counted
    alerted,    \* of the rates of bounces and complaints: audit rows within the cooldown
    noted       \* ghosts and bound

deliveryVars == <<mail, due, handler, block, alerted, noted>>

EventTypes == {"delivered", "soft", "hard", "complaint"}
Rates == {"hard", "complaint"}
NoEventHeld == [pc |-> "idle", event |-> "delivered"]
DeliveryInit ==
    /\ mail = [status |-> "sent", known |-> FALSE]
    /\ due = [e \in EventTypes |-> 0] /\ handler = [h \in Handlers |-> NoEventHeld]
    /\ block = [suppressed |-> "no", strikes |-> 0] /\ alerted = [r \in Rates |-> "none"]
    /\ noted = [acts |-> 0, soft |-> 0, bad |-> FALSE, lost |-> FALSE, alerts |-> [r \in Rates |-> 0], doubled |-> FALSE]

Spend(n, t) == t.acts + n <= MaxEvActs /\ noted' = [t EXCEPT !.acts = @ + n]
At(h, pc) == handler[h].pc = pc
Goes(h, pc) == handler' = [handler EXCEPT ![h].pc = pc]
Ends(h) == handler' = [handler EXCEPT ![h] = NoEventHeld]
Others(h) == Handlers \ {h}

------------------------------------------------------------------------------
(* The services. *)
Happens(e) ==                                       \* several mails to the address: several events
    /\ Spend(1, [noted EXCEPT !.bad = @ \/ e \in Rates]) /\ due' = [due EXCEPT ![e] = @ + 1]
    /\ UNCHANGED <<mail, handler, block, alerted>>
Twice(h) ==                                         \* answered, and sent again all the same
    /\ ~At(h, "idle") /\ due' = [due EXCEPT ![handler[h].event] = @ + 1] /\ Spend(1, noted)
    /\ UNCHANGED <<mail, handler, block, alerted>>

\* The send has stored the service's message id (SendPipeline).
IdStored ==
    /\ ~mail.known /\ mail' = [mail EXCEPT !.known = TRUE] /\ UNCHANGED <<due, handler, block, alerted, noted>>

\* An event of a message whose id is not stored yet is answered and gone.
ReceiveEvent(h, e) ==
    /\ due[e] > 0 /\ At(h, "idle") /\ h = CHOOSE x \in Handlers : At(x, "idle")
    /\ due' = [due EXCEPT ![e] = @ - 1]
    /\ IF mail.known
       THEN handler' = [handler EXCEPT ![h] = [pc |-> "record", event |-> e]] /\ UNCHANGED noted
       ELSE noted' = [noted EXCEPT !.lost = TRUE] /\ UNCHANGED handler
    /\ UNCHANGED <<mail, block, alerted>>

------------------------------------------------------------------------------
(* The handler: the event's row and the status, the last event having the last word. *)
Shown(e) == IF e \in {"soft", "hard"} THEN "bounced" ELSE IF e = "complaint" THEN "complained" ELSE e
AfterRecordOnce(e) ==                                                        \* mutant
    IF e = "delivered" \/ mail.status = Shown(e) THEN "idle" ELSE IF e = "soft" THEN "look" ELSE "suppress"
AfterRecord(e) == IF e = "delivered" THEN "idle" ELSE IF e = "soft" THEN "look" ELSE "suppress"
Record(h) ==
    LET e == handler[h].event
    IN  /\ At(h, "record") /\ mail' = [mail EXCEPT !.status = Shown(e)]
        /\ IF AfterRecord(e) = "idle" THEN Ends(h) ELSE Goes(h, AfterRecord(e))
        /\ UNCHANGED <<due, block, alerted, noted>>

Suppressed(reason) == IF block.suppressed = "no" THEN reason ELSE block.suppressed
Suppress(h) ==
    LET e == handler[h].event
        next == IF e \in Rates THEN "rate" ELSE "idle"
    IN  /\ At(h, "suppress") /\ IF next = "idle" THEN Ends(h) ELSE Goes(h, next)
        /\ \/ block' = [block EXCEPT !.suppressed = Suppressed(e)] /\ UNCHANGED noted
           \/ Spend(2, [noted EXCEPT !.lost = TRUE]) /\ UNCHANGED block             \* caught
        /\ UNCHANGED <<mail, due, alerted>>

\* trackSoftBounce: an address that is suppressed is not counted; the third strike suppresses.
Look(h) ==
    /\ At(h, "look")
    /\ IF block.suppressed = "no" THEN Goes(h, "count") ELSE Ends(h)
    /\ UNCHANGED <<mail, due, block, alerted, noted>>
AtTheLimitLate(n) == n > Strikes                                             \* mutant
AtTheLimit(n) == n >= Strikes
Count(h) ==
    LET n == block.strikes + 1
    IN  /\ At(h, "count")
        /\ \/ /\ block' = [block EXCEPT !.strikes = n] /\ noted' = [noted EXCEPT !.soft = @ + 1]
              /\ IF AtTheLimit(n) THEN Goes(h, "suppress") ELSE Ends(h)
           \/ Spend(2, [noted EXCEPT !.lost = TRUE]) /\ Ends(h) /\ UNCHANGED block
        /\ UNCHANGED <<mail, due, alerted>>

------------------------------------------------------------------------------
(* checkBounceRate and checkComplaintRate, which nobody waits for: the rate is over the     *)
(* limit.  The mail comes before the row that keeps the next one back, and the row's failure *)
(* is swallowed.                                                                             *)
KeepsQuietNever(r) == FALSE                                                  \* mutant
KeepsQuiet(r) == alerted[r] # "none"
Rate(h) ==
    LET r == handler[h].event
    IN  /\ At(h, "rate") /\ UNCHANGED <<mail, due, block, alerted>>
        /\ IF KeepsQuiet(r) THEN Ends(h) /\ UNCHANGED noted
           ELSE /\ Goes(h, "mail")
                /\ noted' = [noted EXCEPT !.doubled = @ \/ \E x \in Others(h) :
                                handler[x].event = r /\ (At(x, "mail") \/ At(x, "audit"))]
MailAlert(h) ==
    /\ At(h, "mail") /\ Goes(h, "audit")
    /\ noted' = [noted EXCEPT !.alerts[handler[h].event] = IF @ < 2 THEN @ + 1 ELSE @]
    /\ UNCHANGED <<mail, due, block, alerted>>
Audit(h) ==
    /\ At(h, "audit") /\ Ends(h)
    /\ \/ alerted' = [alerted EXCEPT ![handler[h].event] = "recent"] /\ UNCHANGED noted
       \/ Spend(2, [noted EXCEPT !.doubled = TRUE]) /\ UNCHANGED alerted
    /\ UNCHANGED <<mail, due, block>>
CooldownPasses(r) ==
    /\ alerted[r] = "recent" /\ \A h \in Handlers : At(h, "idle")
    /\ alerted' = [alerted EXCEPT ![r] = "none"] /\ Spend(1, [noted EXCEPT !.alerts[r] = 0])
    /\ UNCHANGED <<mail, due, handler, block>>

\* A write that throws, or a process that dies: no answer, and the service sends it again.
HandlerDies(h) ==
    LET answered == handler[h].pc \in {"rate", "mail", "audit"}
    IN  /\ ~At(h, "idle") /\ Ends(h)
        /\ due' = IF answered THEN due ELSE [due EXCEPT ![handler[h].event] = @ + 1]
        /\ Spend(2, [noted EXCEPT !.doubled = @ \/ At(h, "audit")])
        /\ UNCHANGED <<mail, block, alerted>>

EventsHandled ==
    \E h \in Handlers : Record(h) \/ Suppress(h) \/ Look(h) \/ Count(h) \/ Rate(h) \/ MailAlert(h) \/ Audit(h)
                        \/ \E e \in EventTypes : ReceiveEvent(h, e)
DeliveryNext ==
    \/ \E e \in EventTypes : Happens(e)
    \/ \E h \in Handlers : Twice(h) \/ HandlerDies(h)
    \/ \E r \in Rates : CooldownPasses(r)
    \/ IdStored \/ EventsHandled

------------------------------------------------------------------------------
\* Soft bounces suppress an address at the third that is counted, not before, and once nothing
\* is under way not after (bounceHandling.ts:55-75): counting is atomic however many callbacks
\* run.  Repetitions count, and so do bounces with deliveries in between.
ThreeStrikes ==
    /\ block.suppressed = "soft" => noted.soft >= Strikes
    /\ noted.soft >= Strikes /\ ~noted.lost /\ (\A h \in Handlers : At(h, "idle"))
       => block.suppressed # "no" \/ due["soft"] > 0

\* Within a cooldown the owner is told once of a rate, unless two callbacks judged it at the
\* same time or the row that says so was not written (bounceHandling.ts:135-206, 233-302).
AlertedOnce == noted.doubled \/ \A r \in Rates : noted.alerts[r] <= 1

\* A hard bounce or a complaint of a known message blocks the address in the end, unless the
\* write failed (which is swallowed) or the report came before the message's id.
BlockedInTheEnd == []<>(noted.bad => block.suppressed # "no" \/ noted.lost)
=============================================================================
