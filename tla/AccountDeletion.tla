-------------------------- MODULE AccountDeletion --------------------------
(***************************************************************************)
(* DELETE /account (src/src/routes/account/index.ts) and deleteAccountData *)
(* (src/src/lib/accountData.ts): one transaction that lists what the key   *)
(* owns and deletes table after table, children first, then the key is     *)
(* revoked, while workers and requests go on adding rows.  Other           *)
(* transactions see its deletions when it commits; a row that refers to    *)
(* one it has deleted waits until then.                                    *)
(***************************************************************************)
EXTENDS Integers, Sequences, FiniteSets

CONSTANTS
    Written,        \* bound: the tables rows are added to meanwhile
    MaxDelActs      \* bound: rows added, requests and failures

ASSUME DeletionAssumption == MaxDelActs \in Nat

VARIABLES
    rows,       \* what other transactions see, less what is being deleted
    deletion,   \* the request: its stage, its step, the rows it listed, those it deleted
    keyActive,  \* the key's isActive
    delActs     \* steps spent

deletionVars == <<rows, deletion, keyActive, delActs>>

\* The tables in the order of the steps.
ParentsFirst == <<                                                       \* mutant
    "mailboxes", "replyEvents", "trackingEvents", "monitorChecks", "webhookDeliveries", "sendMessages",
    "verifications", "bulkJobs", "automationEnrollments", "automations", "campaigns", "sequences", "contacts",
    "mailingLists", "segments", "sendingDomains", "emailTemplates", "leads", "inboxTests", "webhooks", "monitors">>
DeletionOrder == <<
    "replyEvents", "trackingEvents", "monitorChecks", "webhookDeliveries", "sendMessages", "verifications", "bulkJobs",
    "automationEnrollments", "automations", "campaigns", "sequences", "mailboxes", "contacts", "mailingLists",
    "segments", "sendingDomains", "emailTemplates", "leads", "inboxTests", "webhooks", "monitors">>
Deleted == {DeletionOrder[i] : i \in 1..Len(DeletionOrder)}

\* Tables of the key that no step deletes: AgentRun stands for Account,
\* ApiRequestLog, brand_kits, the connectors' and Salesforce's as well.
Kept == {"agentRuns"}

\* The table whose listed rows scope the deletion of another.  A tracking event
\* belongs to a message, a campaign or a sequence (here: a campaign), which the
\* database lets go; the others may not lose their parent.
Parent == [replyEvents |-> "mailboxes", monitorChecks |-> "monitors", webhookDeliveries |-> "webhooks",
           automationEnrollments |-> "automations", trackingEvents |-> "campaigns"]
Restricting == DOMAIN Parent \ {"trackingEvents"}

\* A row: its table, the parent row it belongs to (or itself), when it was added.
Row(t, n, when) == [table |-> t, of |-> n, at |-> when]
ParentIn(r, set) == \E p \in set : p.table = Parent[r.table] /\ p.of = r.of

NoDeletion == [stage |-> "idle", step |-> 0, listed |-> {}, gone |-> {}, met |-> FALSE]
DeletionInit ==
    /\ rows = {Row(t, 1, 0) : t \in Deleted \union Kept}
    /\ deletion = NoDeletion /\ keyActive = TRUE /\ delActs = 0

DelSpend == delActs < MaxDelActs /\ delActs' = delActs + 1
Deleting == deletion.stage = "deleting"

------------------------------------------------------------------------------
\* The ids are read in one round at the start of the transaction.
RequestDeletion ==
    /\ ~Deleting /\ deletion.stage # "revoke" /\ DelSpend
    /\ deletion' = [NoDeletion EXCEPT !.stage = "deleting", !.step = 1, !.listed = rows]
    /\ UNCHANGED <<rows, keyActive>>

\* One deleteMany: the rows of the key, or of the listed parents, as they are now.
Doomed(t) == {r \in rows : r.table = t /\ (t \in DOMAIN Parent => ParentIn(r, deletion.listed))}
StillReferred(t) == \E c \in rows : c.table \in Restricting /\ ParentIn(c, Doomed(t))
DeleteStep ==
    LET t == DeletionOrder[deletion.step]
    IN  /\ Deleting /\ ~StillReferred(t)
        /\ rows' = rows \ Doomed(t)
        /\ deletion' = IF deletion.step = Len(DeletionOrder) THEN [deletion EXCEPT !.stage = "revoke", !.gone = {}]
                       ELSE [deletion EXCEPT !.step = @ + 1, !.gone = @ \union Doomed(t)]
        /\ UNCHANGED <<keyActive, delActs>>

\* The whole of it is undone: a foreign key refuses, or the transaction takes
\* longer than the client's limit, or its process dies.
RollBack(stage) ==
    /\ Deleting /\ rows' = rows \union deletion.gone
    /\ deletion' = [deletion EXCEPT !.stage = stage, !.gone = {}] /\ UNCHANGED keyActive
DeletionRefused == Deleting /\ StillReferred(DeletionOrder[deletion.step]) /\ RollBack("refused") /\ UNCHANGED delActs
DeletionLost == RollBack("lost") /\ DelSpend

\* The key is revoked in a transaction of its own.
RevokeOwnKey ==
    /\ deletion.stage = "revoke" /\ keyActive' = FALSE
    /\ deletion' = [deletion EXCEPT !.stage = "answered"] /\ UNCHANGED <<rows, delActs>>
NotRevoked ==
    /\ deletion.stage = "revoke" /\ DelSpend
    /\ deletion' = [deletion EXCEPT !.stage = "lost", !.listed = {}] /\ UNCHANGED <<rows, keyActive>>

\* Workers, callbacks and requests of the same key go on, a revoked key's
\* workers included.  They see a parent the transaction has deleted, but where
\* the database restricts they wait.
AddRow(t) ==
    \E n \in 1..2 :
        /\ t \in Restricting => ParentIn(Row(t, n, 0), rows)
        /\ t \in DOMAIN Parent => ParentIn(Row(t, n, 0), rows \union deletion.gone)
        /\ rows' = rows \union {Row(t, n, delActs + 1)} /\ DelSpend
        /\ deletion' = [deletion EXCEPT !.met = @ \/ Deleting] /\ UNCHANGED keyActive

DeletionNext ==
    RequestDeletion \/ DeleteStep \/ DeletionRefused \/ DeletionLost \/ RevokeOwnKey \/ NotRevoked \/ \E t \in Written : AddRow(t)

DeletionSpec == DeletionInit /\ [][DeletionNext]_deletionVars

------------------------------------------------------------------------------
\* An account that is told "deleted" is without every row that was there when it
\* asked and is revoked; a deletion is refused only if a row was added under its
\* hands, never by the order of its own steps; one that fails leaves everything.
\* A tracking event that outlived its campaign, added under an earlier
\* deletion's hands, is never found again.
Owned(r) == r.table \in Deleted /\ (r.table = "trackingEvents" => ParentIn(r, deletion.listed))
DeletionHolds ==
    /\ deletion.stage = "answered" => ~keyActive /\ \A r \in deletion.listed : Owned(r) => r \notin rows
    /\ deletion.stage = "refused" => deletion.met
    /\ deletion.stage \in {"refused", "lost"} => deletion.listed \subseteq rows

\* The route's comment: "Deletes all owned content", with the exceptions of
\* lib/accountData.ts, which are not the key's.  (Does not hold: see Kept.)
NothingRemains == deletion.stage = "answered" => \A r \in deletion.listed : r \notin rows
=============================================================================
