------------------------------- MODULE Domains -------------------------------
(***************************************************************************)
(* Sending domains: one domain name, which several keys may register, its  *)
(* DNS records, its one identity at SES, and the checks that verify it.    *)
(*   routes/domains/index.ts        add, verify, delete, rotate-dkim       *)
(*   lib/domainVerify.ts, lib/deliverability.ts   one verification         *)
(*   workers/domainVerifyWorker.ts  the tick over pending domains          *)
(* SPF and DMARC are one thing here, the policy: both are looked up alike. *)
(***************************************************************************)
EXTENDS Integers, FiniteSets

CONSTANTS Holders, Visitors,    \* keys that register the domain, requests that verify it
    MaxDkim,                    \* bound: DKIM keys a holder generates
    MaxDomainActs               \* bound: calls, DNS edits, failures (which count twice)

ASSUME DomainAssumption == MaxDkim \in Nat \ {0} /\ MaxDomainActs \in Nat

VARIABLES
    domain,         \* sending_domains: id and key are numbers of DKIM keys
    registering,    \* a holder's key on its way to SES: 0 is none
    removing,       \* a deletion between SES and the row
    identity,       \* the identity at SES: whose key it signs with, and whether it is confirmed
    published,      \* DKIM records in the DNS
    policy,         \* SPF and DMARC are in the DNS
    checking,       \* verifications under way: the rows loaded, the one at hand, what it read
    zone            \* ghosts and bounds

domainVars == <<domain, registering, removing, identity, published, policy, checking, zone>>

Tick     == "tick"
Checkers == Visitors \cup {Tick}
NoDomain == [there |-> FALSE, id |-> 0, key |-> 0, dkim |-> "pending", status |-> "pending"]
NoIdentity == [key |-> << >>, ok |-> FALSE]
NotChecking == [pc |-> "idle", todo |-> {}, at |-> << >>, policy |-> FALSE, dkim |-> FALSE]

DomainInit ==
    /\ domain = [h \in Holders |-> NoDomain]
    /\ registering = [h \in Holders |-> 0] /\ removing = [h \in Holders |-> FALSE]
    /\ identity = NoIdentity /\ published = {} /\ policy = FALSE
    /\ checking = [c \in Checkers |-> NotChecking]
    /\ zone = [acts |-> 0, keys |-> [h \in Holders |-> 0]]

Pay(n)    == zone.acts + n <= MaxDomainActs /\ zone' = [zone EXCEPT !.acts = @ + n]
NewKey(h) == /\ zone.keys[h] < MaxDkim /\ zone.acts < MaxDomainActs
             /\ zone' = [acts |-> zone.acts + 1, keys |-> [zone.keys EXCEPT ![h] = @ + 1]]

------------------------------------------------------------------------------
AddDomain(h) ==
    LET k == zone.keys[h] + 1
    IN  /\ ~domain[h].there /\ registering[h] = 0 /\ NewKey(h)
        /\ domain' = [domain EXCEPT ![h] = [NoDomain EXCEPT !.there = TRUE, !.id = k, !.key = k]]
        /\ registering' = [registering EXCEPT ![h] = k]
        /\ UNCHANGED <<removing, identity, published, policy, checking>>

\* A new key and dkimStatus 'pending'; the status of the domain is left as it was.
RotateDkim(h) ==
    LET k == zone.keys[h] + 1
    IN  /\ domain[h].there /\ registering[h] = 0 /\ NewKey(h)
        /\ domain' = [domain EXCEPT ![h].key = k, ![h].dkim = "pending"]
        /\ registering' = [registering EXCEPT ![h] = k]
        /\ UNCHANGED <<removing, identity, published, policy, checking>>

\* CreateEmailIdentity, once and never again: it fails when the identity exists.
\* Adding a domain answers a failure with status 'pending'.
Registers(h) ==
    /\ registering[h] # 0 /\ registering' = [registering EXCEPT ![h] = 0]
    /\ \/ /\ identity.key = << >>
          /\ identity' = [key |-> <<h, registering[h]>>, ok |-> FALSE]
          /\ UNCHANGED <<domain, zone>>
       \/ /\ IF identity.key = << >> THEN Pay(2) ELSE UNCHANGED zone
          /\ domain' = IF registering[h] = domain[h].id THEN [domain EXCEPT ![h].status = "pending"] ELSE domain
          /\ UNCHANGED identity
    /\ UNCHANGED <<removing, published, policy, checking>>

RemoveIdentity(h) ==
    /\ domain[h].there /\ ~removing[h] /\ Pay(1)
    /\ identity' = NoIdentity                       \* whoever registered it
    /\ removing' = [removing EXCEPT ![h] = TRUE]
    /\ UNCHANGED <<domain, registering, published, policy, checking>>
RemoveRow(h) ==
    /\ removing[h] /\ removing' = [removing EXCEPT ![h] = FALSE]
    /\ \/ domain' = [domain EXCEPT ![h] = NoDomain] /\ UNCHANGED zone
       \/ Pay(2) /\ UNCHANGED domain
    /\ UNCHANGED <<registering, identity, published, policy, checking>>

\* External: the owner edits the DNS, SES looks at it on its own schedule.
Publish(h) ==
    /\ domain[h].there /\ <<h, domain[h].key>> \notin published /\ Pay(1)
    /\ published' = published \cup {<<h, domain[h].key>>}
    /\ UNCHANGED <<domain, registering, removing, identity, policy, checking>>
EditPolicy ==
    /\ policy' = ~policy /\ Pay(1)
    /\ UNCHANGED <<domain, registering, removing, identity, published, checking>>
SesLooks ==
    /\ identity.key # << >> /\ identity.ok # (identity.key \in published)
    /\ identity' = [identity EXCEPT !.ok = ~@]
    /\ UNCHANGED <<domain, registering, removing, published, policy, checking, zone>>

------------------------------------------------------------------------------
\* The tick's rows; a request verifies its own domain, whatever its status.
Pending(h) == domain[h].there /\ domain[h].status = "pending"
UnseenPending(h) == Pending(h) /\ domain[h].dkim = "verified"                \* mutant
TickRows(h) == Pending(h)
Row(h) == [holder |-> h, id |-> domain[h].id, dkim |-> domain[h].dkim]
StartCheck(c, S) ==
    /\ checking[c].pc = "idle" /\ S # {}
    /\ checking' = [checking EXCEPT ![c] = [NotChecking EXCEPT !.pc = "dns", !.todo = {Row(h) : h \in S}]]
    /\ UNCHANGED <<domain, registering, removing, identity, published, policy>>
StartTick == StartCheck(Tick, {h \in Holders : TickRows(h)}) /\ UNCHANGED zone
StartVerify(v, h) == domain[h].there /\ StartCheck(v, {h}) /\ Pay(1)

\* DKIM counts as valid when SES says so now, or when it ever did.
ReadDns(c, r) ==
    /\ checking[c].pc = "dns" /\ r \in checking[c].todo
    /\ checking' = [checking EXCEPT ![c].pc = "ses", ![c].todo = @ \ {r}, ![c].at = <<r>>, ![c].policy = policy]
    /\ UNCHANGED <<domain, registering, removing, identity, published, policy, zone>>
DkimValid(r) == r.dkim = "verified" \/ identity.ok
DkimRemembered(r) == r.dkim = "verified"                                     \* mutant
SesSays(r)   == DkimValid(r)
ReadSes(c) ==
    LET r == checking[c].at[1]
        Read(dkim) == checking' = [checking EXCEPT ![c].pc = "write", ![c].dkim = dkim]
    IN  /\ checking[c].pc = "ses"
        /\ \/ Read(SesSays(r)) /\ UNCHANGED zone
           \/ Read(r.dkim = "verified") /\ identity.ok /\ Pay(2)     \* GetEmailIdentity fails
        /\ UNCHANGED <<domain, registering, removing, identity, published, policy>>

\* A row that is gone makes the update throw; the tick goes on to the next.
WriteVerdict(c) ==
    LET k == checking[c]  h == k.at[1].holder
    IN  /\ k.pc = "write"
        /\ domain' = IF domain[h].id # k.at[1].id THEN domain
                     ELSE [domain EXCEPT ![h].dkim = IF k.dkim THEN "verified" ELSE "pending",
                                         ![h].status = IF k.dkim /\ k.policy THEN "verified" ELSE "pending"]
        /\ checking' = [checking EXCEPT ![c] = IF k.todo = {} THEN NotChecking
                                                ELSE [NotChecking EXCEPT !.pc = "dns", !.todo = k.todo]]
        /\ UNCHANGED <<registering, removing, identity, published, policy, zone>>
CheckDies(c) ==
    /\ checking[c].pc # "idle" /\ Pay(2)
    /\ checking' = [checking EXCEPT ![c] = NotChecking]
    /\ UNCHANGED <<domain, registering, removing, identity, published, policy>>

CheckWorks(c) == (\E r \in checking[c].todo : ReadDns(c, r)) \/ ReadSes(c) \/ WriteVerdict(c)
TickVerifies  == StartTick \/ CheckWorks(Tick)
DomainNext ==
    \/ \E h \in Holders : AddDomain(h) \/ RotateDkim(h) \/ Registers(h) \/ RemoveIdentity(h) \/ RemoveRow(h)
                          \/ Publish(h)
    \/ EditPolicy \/ SesLooks \/ TickVerifies
    \/ \E v \in Visitors : (\E h \in Holders : StartVerify(v, h)) \/ CheckWorks(v)
    \/ \E c \in Checkers : CheckDies(c)

------------------------------------------------------------------------------
\* A domain SES has confirmed, with its policy in the DNS, is verified in the end,
\* its owner asking or not, unless one of these is taken back
\* (domainVerifyWorker.ts:11-17, "this tick makes that claim actually true").
PendingIsVerified ==
    \A h \in Holders : []<>~(Pending(h) /\ identity.ok /\ policy)

\* Rotating the key puts the domain back to pending until SES has confirmed the
\* new one (routes/domains/index.ts:303, "status resets to pending until DNS re-verifies").
RotatedIsPending ==
    \A h \in Holders : domain[h].there /\ domain[h].dkim = "pending" => domain[h].status = "pending"
=============================================================================
