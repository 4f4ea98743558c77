------------------------------ MODULE Audience -------------------------------
(***************************************************************************)
(* Who may be mailed: the suppression list, one for all customers          *)
(* (routes/{suppressions,unsubscribe,preferences,privacy}), and the        *)
(* memberships of a customer's lists (routes/{contacts,lists,connectors}). *)
(* One address; the lists are those of the key Home.  A call is one step   *)
(* per transaction.                                                        *)
(***************************************************************************)
EXTENDS Integers, FiniteSets

CONSTANTS AudKeys, Home, AudLists,
    MaxAudActs                      \* bound: calls; a failure counts as two

ASSUME AudienceAssumption == Home \in AudKeys /\ "nobody" \notin AudKeys /\ MaxAudActs \in Nat

VARIABLES
    supp,       \* the row of the address in suppressions
    member,     \* contact_list_memberships of the contact
    audCall,    \* the calls that are under way, one of a kind
    person      \* ghosts: what the person asked for; bound: acts

audVars == <<supp, member, audCall, person>>

NoEntry == [reason |-> "none", by |-> "nobody"]
NoCall  == [pc |-> "idle", list |-> Home, seen |-> FALSE]
Kinds   == {"subscribe", "confirm", "leave", "prefs", "hygiene", "import", "erase"}
AudienceInit ==
    /\ supp = NoEntry
    /\ member \in [AudLists -> {"none", "subscribed"}]
    /\ audCall = [c \in Kinds |-> NoCall]
    /\ person = [acts |-> 0, out |-> {}, absorbed |-> {}, left |-> {}, raced |-> {}, carried |-> FALSE]

Does(n, p) == p.acts + n <= MaxAudActs /\ person' = [p EXCEPT !.acts = @ + n]
Idle(c) == audCall[c].pc = "idle"
BeginCall(c, pc, l, seen) == audCall' = [audCall EXCEPT ![c] = [pc |-> pc, list |-> l, seen |-> seen]]
Over(c) == audCall' = [audCall EXCEPT ![c] = NoCall]

\* Every upsert of the list but one leaves an entry that exists as it is.
Upserted(k, reason) == IF supp = NoEntry THEN [reason |-> reason, by |-> k] ELSE supp

\* The person leaves k.  An entry of another key takes the wish in without a trace of it.
OptedOut(k) ==
    [person EXCEPT !.out = @ \cup {k},
        !.absorbed = IF supp = NoEntry \/ supp.by \in {k, "nobody"} THEN @ \ {k} ELSE @ \cup {k}]
Unsubscribed == [l \in AudLists |-> IF member[l] = "none" THEN "none" ELSE "unsubscribed"]
LeftAll(p) == [p EXCEPT !.left = @ \cup {l \in AudLists : member[l] # "none"},
                        !.raced = @ \ {l \in AudLists : member[l] # "none"}]

------------------------------------------------------------------------------
(* The person. *)

\* GET /unsubscribe: one transaction for the list of suppressions, one for the memberships.
UnsubscribeLink(k) ==
    /\ Idle("leave") /\ Does(1, OptedOut(k))
    /\ supp' = Upserted(k, "unsubscribed")
    /\ IF supp = NoEntry /\ k = Home THEN BeginCall("leave", "write", Home, FALSE) ELSE UNCHANGED audCall
    /\ UNCHANGED member
UnsubscribeLists ==
    /\ audCall["leave"].pc = "write" /\ Over("leave") /\ UNCHANGED supp
    /\ \/ member' = Unsubscribed /\ person' = LeftAll(person)
       \/ Does(2, person) /\ UNCHANGED member                   \* caught
OneClick(k) ==                                                  \* POST /unsubscribe
    /\ Does(1, OptedOut(k)) /\ supp' = Upserted(k, "unsubscribed") /\ UNCHANGED <<member, audCall>>

\* POST /preferences: all mail, or the lists of a page.
UnsubscribeAll ==
    /\ Idle("prefs") /\ Does(1, OptedOut(Home)) /\ supp' = Upserted(Home, "unsubscribed")
    /\ BeginCall("prefs", "write", Home, FALSE) /\ UNCHANGED member
UnsubscribeAllLists ==
    LET subscribed == {l \in AudLists : member[l] = "subscribed"}
    IN  /\ audCall["prefs"].pc = "write" /\ Over("prefs") /\ UNCHANGED supp
        /\ \/ /\ member' = [l \in AudLists |-> IF l \in subscribed THEN "unsubscribed" ELSE member[l]]
              /\ person' = [person EXCEPT !.left = @ \cup subscribed, !.raced = @ \ subscribed]
           \/ Does(2, person) /\ UNCHANGED member               \* 500: only the list is left
\* Without a list to keep, the entry is made inside the tenant's transaction; where the
\* database hides one of another key from it, the insert collides and nothing is saved.
SavePreferences(keep) ==
    /\ LET drops == {l \in AudLists \ keep : member[l] = "subscribed"}
           joins == {l \in keep : member[l] \in {"pending", "unsubscribed"}}
           wish  == IF keep = {} THEN OptedOut(Home) ELSE person
       IN  /\ member' = [l \in AudLists |-> IF l \in drops THEN "unsubscribed"
                                            ELSE IF l \in joins THEN "subscribed" ELSE member[l]]
           /\ Does(1, [wish EXCEPT !.left = (@ \ keep) \cup drops, !.raced = (@ \ keep) \ drops])
    /\ supp' = IF keep = {} THEN Upserted(Home, "unsubscribed") ELSE supp
    /\ UNCHANGED audCall

\* GET /confirm: the membership is read, then updated whatever it has become.
CanConfirmAny(l) == member[l] # "none"                                       \* mutant
CanConfirm(l) == member[l] = "pending"
Confirm(l) ==
    /\ Idle("confirm") /\ CanConfirm(l) /\ Does(1, person)
    /\ BeginCall("confirm", "write", l, FALSE) /\ UNCHANGED <<supp, member>>
ConfirmWrite ==
    LET l == audCall["confirm"].list
    IN  /\ audCall["confirm"].pc = "write" /\ Over("confirm") /\ UNCHANGED supp
        /\ member' = [member EXCEPT ![l] = IF @ = "none" THEN @ ELSE "subscribed"]
        /\ person' = [person EXCEPT !.raced = @ \cup {l}]

------------------------------------------------------------------------------
(* Mail servers: a bounce, a complaint, a reply that asks to stop. *)
Report(k, reason) ==
    /\ reason = "complaint" \/ supp = NoEntry
    /\ \/ /\ supp' = Upserted(k, reason)
          /\ Does(1, IF reason = "complaint" THEN OptedOut(k) ELSE person)
       \/ Does(2, person) /\ UNCHANGED supp                     \* caught: the report is lost
    /\ UNCHANGED <<member, audCall>>

------------------------------------------------------------------------------
(* The customers. *)
AddEntry(k) ==                                                  \* POST /suppressions, /bulk
    /\ supp = NoEntry /\ Does(1, person)
    /\ supp' = Upserted(k, "manual") /\ UNCHANGED <<member, audCall>>

MayDeleteAny(k) == supp # NoEntry                                            \* mutant
MayDelete(k) == supp # NoEntry /\ supp.by = k
DeleteEntry(k) ==                                               \* DELETE /suppressions/:email
    /\ MayDelete(k)
    /\ Does(1, [person EXCEPT !.out = @ \ {k}, !.absorbed = @ \ {k}, !.carried = FALSE])
    /\ supp' = NoEntry /\ UNCHANGED <<member, audCall>>

\* POST /lists/:id/contacts: the list of suppressions is asked before the transaction.
Subscribe(l, optin) ==
    /\ Idle("subscribe") /\ supp = NoEntry /\ Does(1, person)
    /\ BeginCall("subscribe", "write", l, optin) /\ UNCHANGED <<supp, member>>
SubscribeWrite ==
    LET l == audCall["subscribe"].list
    IN  /\ audCall["subscribe"].pc = "write" /\ Over("subscribe") /\ UNCHANGED supp
        /\ member' = [member EXCEPT ![l] = IF audCall["subscribe"].seen THEN "pending" ELSE "subscribed"]
        /\ person' = [person EXCEPT !.left = @ \ {l}, !.raced = @ \ {l}]
ConnectorSubscribe(l) ==                                        \* POST /connectors/webhook
    /\ member[l] # "subscribed"
    /\ member' = [member EXCEPT ![l] = "subscribed"]
    /\ Does(1, [person EXCEPT !.left = @ \ {l}, !.raced = @ \ {l}]) /\ UNCHANGED <<supp, audCall>>
DeleteMember(l) ==                                              \* DELETE /lists/:id/contacts/:email
    /\ member[l] \in {"pending", "subscribed"}
    /\ member' = [member EXCEPT ![l] = "unsubscribed"] /\ Does(1, person) /\ UNCHANGED <<supp, audCall>>

\* POST /lists/:id/hygiene/suppress: the members are read, unsubscribed, and suppressed one by
\* one; the upsert gives an entry that exists the reason "manual", whoever made it.
Hygiene(l) ==
    /\ Idle("hygiene") /\ member[l] = "subscribed" /\ Does(1, person)
    /\ BeginCall("hygiene", "lists", l, FALSE) /\ UNCHANGED <<supp, member>>
HygieneLists ==
    LET l == audCall["hygiene"].list
    IN  /\ audCall["hygiene"].pc = "lists" /\ BeginCall("hygiene", "suppress", l, FALSE)
        /\ member' = [member EXCEPT ![l] = IF @ = "none" THEN @ ELSE "unsubscribed"]
        /\ UNCHANGED <<supp, person>>
HygieneSuppress ==
    /\ audCall["hygiene"].pc = "suppress" /\ Over("hygiene")
    /\ supp' = [Upserted(Home, "manual") EXCEPT !.reason = "manual"]
    /\ UNCHANGED <<member, person>>

\* POST /contacts/import: the list of suppressions is read once at the start.  A member stays
\* what he is.  The suppressions that come with the contacts are inserted last, by a statement
\* that names no id and gives the reason as text: the database refuses it.
Import(l, listed) ==
    /\ Idle("import") /\ Does(1, [person EXCEPT !.carried = listed])
    /\ BeginCall("import", IF listed THEN "contacts, suppressions" ELSE "contacts", l, supp # NoEntry)
    /\ UNCHANGED <<supp, member>>
ImportedRevived(l) == "subscribed"                                           \* mutant
Imported(l) == IF member[l] = "none" THEN "subscribed" ELSE member[l]
ImportContact ==
    LET i == audCall["import"]
    IN  /\ i.pc \in {"contacts", "contacts, suppressions"} /\ UNCHANGED <<supp, person>>
        /\ member' = IF i.seen THEN member ELSE [member EXCEPT ![i.list] = Imported(i.list)]
        /\ IF i.pc = "contacts" THEN Over("import") ELSE BeginCall("import", "suppressions", i.list, i.seen)
ImportSuppressions ==
    /\ audCall["import"].pc = "suppressions" /\ Over("import") /\ UNCHANGED <<supp, member, person>>

\* DELETE /privacy/data-subject: what is known of the person goes, an entry of nobody stays.
Erase ==
    /\ Idle("erase") /\ Does(1, [person EXCEPT !.left = {}, !.raced = {}])
    /\ member' = [l \in AudLists |-> "none"]
    /\ BeginCall("erase", "suppress", Home, FALSE) /\ UNCHANGED supp
EraseSuppress ==
    /\ audCall["erase"].pc = "suppress" /\ Over("erase") /\ UNCHANGED member
    /\ supp' = Upserted("nobody", "manual") /\ person' = OptedOut("nobody")

\* A process that dies takes its calls with it.
CallDies(c) ==
    /\ ~Idle(c) /\ Over(c)
    /\ Does(2, [person EXCEPT !.carried = @ /\ c # "import"]) /\ UNCHANGED <<supp, member>>

AudienceNext ==
    \/ UnsubscribeLists \/ UnsubscribeAll \/ UnsubscribeAllLists \/ ConfirmWrite \/ SubscribeWrite
    \/ HygieneLists \/ HygieneSuppress \/ ImportContact \/ ImportSuppressions \/ Erase \/ EraseSuppress
    \/ \E k \in AudKeys : UnsubscribeLink(k) \/ OneClick(k) \/ AddEntry(k) \/ DeleteEntry(k)
                          \/ Report(k, "complaint") \/ Report(k, "bounce")
    \/ \E l \in AudLists : Confirm(l) \/ ConnectorSubscribe(l) \/ DeleteMember(l) \/ Hygiene(l)
                           \/ \E b \in BOOLEAN : Subscribe(l, b) \/ Import(l, b)
    \/ \E keep \in SUBSET AudLists : SavePreferences(keep)
    \/ \E c \in Kinds : CallDies(c)

------------------------------------------------------------------------------
\* A person who has left a customer's mail, by whatever way, cannot be mailed again until that
\* customer deletes the entry (routes/suppressions/index.ts:246-265): not by another customer,
\* an import, a confirmation.  The exception is a wish that found an entry of another customer
\* and left no trace of its own.
OptOutHolds == supp = NoEntry => person.out \subseteq person.absorbed

\* A person who has left a list stays out of it, unless the customer subscribes him or he
\* chooses the list again (preferences/index.ts:436-457): an import does not bring him back
\* (contacts/index.ts:657-661), and a confirmation only if it was under way.
LeftStaysLeft == \A l \in person.left \ person.raced : member[l] # "subscribed"

\* Both: what a person has asked for holds.
WishesHold == OptOutHolds /\ LeftStaysLeft

\* VIOLATED: "a real bounce/complaint/opt-out should hold platform-wide, not just for the
\* customer who caused it" (suppressions/index.ts:201-202).
OptOutOutlivesOthers == supp = NoEntry => person.out = {}

\* VIOLATED: the import "also accepts a separate suppression list" (contacts/index.ts:558-559).
ImportedHold == person.carried /\ Idle("import") => supp # NoEntry
=============================================================================
