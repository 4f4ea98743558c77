------------------------------ MODULE SmtpRelay ------------------------------
(***************************************************************************)
(* The SMTP relay (src/src/smtp-relay.ts): a session is authenticated with *)
(* an API key, whose usage it remembers, and hands over letters, each      *)
(* mailed to its recipients one after the other before the client hears    *)
(* of it.  A client that hears nothing, or an error, may hand the letter   *)
(* over again; the relay goes on with a letter whose client has left.      *)
(***************************************************************************)
EXTENDS Integers, FiniteSets

CONSTANTS
    Sessions, Letters, Mailees,     \* connections; messages; the recipients of each
    SendLimit,                      \* getSendLimit of the key
    MaxRelayActs                    \* bound: letters handed over, and everything that goes wrong

ASSUME RelayAssumption == SendLimit \in Nat /\ MaxRelayActs \in Nat

VARIABLES
    session,    \* per session: what it does, the usage it read, its letter, who is left, mails sent
    posted,     \* per letter and recipient: how often it was mailed
    heard,      \* per letter: what its client heard last
    books,      \* the key's usage; the mails there were; who is suppressed
    relayLog    \* steps spent; letters handed over again; recipients passed over or failed; counts lost

relayVars == <<session, posted, heard, books, relayLog>>

NoLetter == "none"
Closed == [pc |-> "closed", seen |-> 0, letter |-> NoLetter, todo |-> {}, to |-> NoLetter, sent |-> 0]
RelayInit ==
    /\ session = [s \in Sessions |-> Closed]
    /\ posted = [m \in Letters |-> [r \in Mailees |-> 0]] /\ heard = [m \in Letters |-> "nothing"]
    /\ books = [used |-> 0, mails |-> 0, suppressed |-> {}]
    /\ relayLog = [acts |-> 0, offered |-> {}, again |-> {}, dropped |-> {}, harmed |-> FALSE]

RelaySpend(log) == relayLog.acts < MaxRelayActs /\ relayLog' = [log EXCEPT !.acts = @ + 1]
Sess(s, new)    == session' = [session EXCEPT ![s] = new]
Serving(s)      == session[s].pc \in {"next", "send"}
Tell(s, what)   == heard' = [heard EXCEPT ![session[s].letter] = IF @ = "waiting" THEN what ELSE @]
LetterDone(s)   == Sess(s, [Closed EXCEPT !.pc = "open", !.seen = session[s].seen])
Mail(m, r)      == posted' = [posted EXCEPT ![m][r] = @ + 1]

------------------------------------------------------------------------------
OnAuth(s) ==
    /\ session[s].pc = "closed" /\ Sess(s, [Closed EXCEPT !.pc = "open", !.seen = books.used])
    /\ UNCHANGED <<posted, heard, books, relayLog>>
Quit(s) == session[s].pc = "open" /\ Sess(s, Closed) /\ UNCHANGED <<posted, heard, books, relayLog>>

\* A letter that was not accepted, or refused for good.  The quota is compared
\* with the usage as it was when the session was opened.
OnData(s, m) ==
    /\ session[s].pc = "open" /\ heard[m] \in {"nothing", "error"}
    /\ RelaySpend([relayLog EXCEPT !.offered = @ \union {m}, !.again = IF m \in relayLog.offered THEN @ \union {m} ELSE @])
    /\ IF session[s].seen < SendLimit
       THEN Sess(s, [session[s] EXCEPT !.pc = "next", !.letter = m, !.todo = Mailees]) /\ heard' = [heard EXCEPT ![m] = "waiting"]
       ELSE heard' = [heard EXCEPT ![m] = "refused"] /\ UNCHANGED session
    /\ UNCHANGED <<posted, books>>

\* The next recipient, passed over when suppressed.
StopAt(w, r) == {}                                                       \* mutant
Others(w, r) == w.todo \ {r}
PassOver(s) ==
    \E r \in session[s].todo \intersect books.suppressed :
        /\ session[s].pc = "next" /\ Sess(s, [session[s] EXCEPT !.todo = Others(session[s], r)])
        /\ relayLog' = [relayLog EXCEPT !.dropped = @ \union {<<session[s].letter, r>>}]
        /\ UNCHANGED <<posted, heard, books>>
NextRecipient(s) ==
    \E r \in session[s].todo \ books.suppressed :
        /\ session[s].pc = "next" /\ Sess(s, [session[s] EXCEPT !.pc = "send", !.to = r, !.todo = @ \ {r}])
        /\ UNCHANGED <<posted, heard, books, relayLog>>

\* SES takes the mail, and a row is written for it (a failure of that is only
\* logged); or it fails, or its answer is lost, and the next one has its turn.
SendViaSes(s) ==
    LET w == session[s]
    IN  /\ w.pc = "send" /\ Sess(s, [w EXCEPT !.pc = "next", !.to = NoLetter, !.sent = @ + 1])
        /\ Mail(w.letter, w.to) /\ books' = [books EXCEPT !.mails = @ + 1] /\ UNCHANGED <<heard, relayLog>>
SendFails(s) ==
    LET w == session[s]
    IN  /\ w.pc = "send" /\ Sess(s, [w EXCEPT !.pc = "next", !.to = NoLetter]) /\ UNCHANGED heard
        /\ \/ UNCHANGED <<posted, books>>
           \/ Mail(w.letter, w.to) /\ books' = [books EXCEPT !.mails = @ + 1]
        /\ RelaySpend([relayLog EXCEPT !.dropped = @ \union {<<w.letter, w.to>>}, !.harmed = @ \/ books' # books])

\* The end: what was sent is counted, or the count fails unnoticed, and the
\* client hears that the letter was accepted, whoever has got it.
CountAll(w)  == Cardinality(Mailees)                                     \* mutant
SentCount(w) == w.sent
Accept(s) ==
    /\ session[s].pc = "next" /\ session[s].todo = {} /\ LetterDone(s) /\ Tell(s, "accepted") /\ UNCHANGED posted
    /\ \/ books' = [books EXCEPT !.used = @ + SentCount(session[s])] /\ UNCHANGED relayLog
       \/ RelaySpend([relayLog EXCEPT !.harmed = TRUE]) /\ UNCHANGED books

\* The lookup of a suppression fails: an error, and what was sent is not counted.
LookupFails(s) ==
    /\ session[s].pc = "next" /\ session[s].todo # {} /\ LetterDone(s) /\ Tell(s, "error")
    /\ RelaySpend([relayLog EXCEPT !.harmed = TRUE]) /\ UNCHANGED <<posted, books>>

\* The client's connection breaks before it has heard.
ClientLeaves(s) ==
    /\ Serving(s) /\ heard[session[s].letter] = "waiting" /\ Tell(s, "nothing")
    /\ RelaySpend(relayLog) /\ UNCHANGED <<session, posted, books>>

\* The one process that serves all sessions dies.
RelayDies ==
    /\ \E s \in Sessions : Serving(s)
    /\ session' = [s \in Sessions |-> Closed]
    /\ heard' = [m \in Letters |-> IF heard[m] = "waiting" THEN "nothing" ELSE heard[m]]
    /\ RelaySpend([relayLog EXCEPT !.harmed = TRUE]) /\ UNCHANGED <<posted, books>>

\* A bounce, an opt-out, or the owner.
SuppressMailee(r) ==
    /\ r \notin books.suppressed /\ books' = [books EXCEPT !.suppressed = @ \union {r}]
    /\ RelaySpend(relayLog) /\ UNCHANGED <<session, posted, heard>>

RelayNext ==
    \/ \E s \in Sessions : \/ OnAuth(s) \/ Quit(s) \/ PassOver(s) \/ NextRecipient(s) \/ SendViaSes(s) \/ SendFails(s)
                           \/ Accept(s) \/ LookupFails(s) \/ ClientLeaves(s)
                           \/ \E m \in Letters : OnData(s, m)
    \/ RelayDies \/ \E r \in Mailees : SuppressMailee(r)

RelaySpec == RelayInit /\ [][RelayNext]_relayVars

------------------------------------------------------------------------------
\* Whoever is not passed over is mailed when a letter is accepted, and once only
\* unless its client handed it over again; the key is charged for the mails
\* there were, never for more, and for fewer only when a count, an answer or the
\* process was lost.
RelayHolds ==
    /\ \A m \in Letters, r \in Mailees :
          /\ heard[m] = "accepted" => posted[m][r] > 0 \/ <<m, r>> \in relayLog.dropped
          /\ posted[m][r] > 1 => m \in relayLog.again
    /\ books.used <= books.mails
    /\ books.used < books.mails => relayLog.harmed \/ \E s \in Sessions : Serving(s)

\* The comment at line 138: the quota every other send surface enforces, without
\* which a key could push unlimited volume through the relay.  (Does not hold: a
\* session that stays open never looks again.)
QuotaIsEnforced == books.used < SendLimit + Cardinality(Sessions) * Cardinality(Mailees)
==============================================================================
