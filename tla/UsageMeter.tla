----------------------------- MODULE UsageMeter -----------------------------
(***************************************************************************)
(* The monthly counters of one API key.                                    *)
(*   plugins/auth.ts            the 60-second key cache of an API process  *)
(*   plugins/usageMeter.ts      requireMonthlyQuota,                       *)
(*                              requireMonthlySendQuota, the increments    *)
(*   workers/monitorWorker.ts   resetMonthlyUsage                          *)
(* A month is a number; usageResetAt = m says that the counter is due for  *)
(* a reset from month m on.  The column is NOT NULL with a default, so the *)
(* branch of requireMonthlyQuota for a key without a date is never taken.  *)
(* A request works on the record that the cache holds, which the other     *)
(* requests of the process share and change: records are objects with an   *)
(* identity here.                                                          *)
(***************************************************************************)
EXTENDS Integers, FiniteSets

CONSTANTS
    Apis, Requests,      \* API processes; requests in progress at a time
    Objects,             \* ids for cached records, enough of them
    Chargers,            \* workers that bill finder leads
    Quota,               \* getPlanLimit plus credits, and getSendLimit
    FinderLimit,         \* getFinderLimit
    FINDER_OVERFLOW_VERIFICATION_COST,
    AlertAt,             \* 80% of Quota
    MaxMonth, MaxCalls, MaxLeads    \* bounds: months; requests and billings; leads of one billing

Meters == {"verify", "send"}           \* the two independent pairs of counter and date
NoRecord   == "none"

ASSUME MeterAssumption ==
    /\ {Quota, FinderLimit, FINDER_OVERFLOW_VERIFICATION_COST, AlertAt, MaxMonth, MaxCalls,
        MaxLeads} \subseteq Nat \ {0}
    /\ NoRecord \notin Objects
    /\ \A S \in {Apis, Requests, Objects, Chargers} : IsFiniteSet(S)
    /\ Cardinality(Objects) >= Cardinality(Apis) + Cardinality(Requests) - 1

VARIABLES
    month,      \* the calendar
    key,        \* the api_keys row
    object,     \* records in the memory of the API processes
    cache,      \* the cached record of every API process
    request,    \* what each request is doing
    pending,    \* increments that were not awaited
    charger,    \* incrementFinderUsage calls
    alert,      \* usage alerts being mailed
    spent,      \* ghost: increments of this month
    tally       \* bound: requests and billings so far

meterVars == <<month, key, object, cache, request, pending, charger, alert, spent, tally>>

------------------------------------------------------------------------------
FreshKey == [used |-> [m \in Meters |-> 0], finder |-> 0, reset |-> [m \in Meters |-> 2],
             alertSent |-> 0]
IdleRequest == [pc |-> "idle", api |-> NoRecord, obj |-> NoRecord, meter |-> NoRecord, now |-> 0]
IdleCharger == [pc |-> "idle", count |-> 0, remaining |-> 0]

MeterInit ==
    /\ month   = 1
    /\ key     = FreshKey
    /\ object  = [o \in Objects |-> FreshKey]
    /\ cache   = [p \in Apis |-> NoRecord]
    /\ request = [r \in Requests |-> IdleRequest]
    /\ pending = [m \in Meters |-> 0]
    /\ charger = [f \in Chargers |-> IdleCharger]
    /\ alert   = 0
    /\ spent   = [m \in Meters |-> 0]
    /\ tally   = 0

InUse(o) == (\E p \in Apis : cache[p] = o) \/ (\E r \in Requests : request[r].obj = o)

------------------------------------------------------------------------------
\* requireAuth: the cached record...
CacheHit(r, p, m) ==
    /\ request[r].pc = "idle" /\ tally < MaxCalls
    /\ cache[p] # NoRecord
    /\ request' = [request EXCEPT ![r] =
          [pc |-> "meter", api |-> p, obj |-> cache[p], meter |-> m, now |-> month]]
    /\ tally' = tally + 1
    /\ UNCHANGED <<month, key, object, cache, pending, charger, alert, spent>>

\* ...or one read from the database, and cached.
CacheMiss(r, p, m) ==
    /\ request[r].pc = "idle" /\ tally < MaxCalls
    /\ cache[p] = NoRecord
    /\ LET o == CHOOSE o \in Objects : ~InUse(o)
       IN  /\ object'  = [object EXCEPT ![o] = key]
           /\ cache'   = [cache EXCEPT ![p] = o]
           /\ request' = [request EXCEPT ![r] =
                 [pc |-> "meter", api |-> p, obj |-> o, meter |-> m, now |-> month]]
    /\ tally' = tally + 1
    /\ UNCHANGED <<month, key, pending, charger, alert, spent>>

\* KEY_CACHE_TTL_MS passes, or the entry is evicted.
CacheExpires(p) ==
    /\ cache[p] # NoRecord
    /\ cache' = [cache EXCEPT ![p] = NoRecord]
    /\ UNCHANGED <<month, key, object, request, pending, charger, alert, spent, tally>>

CachedRecord(r) == object[request[r].obj]
Meter(r)  == request[r].meter
Goto(r, pc) == request' = [request EXCEPT ![r].pc = pc]

\* A new month: the counter is zeroed in the database, by what the record
\* says; the verification counter takes the finder counter with it.
IsDue(r) == request[r].now >= CachedRecord(r).reset[Meter(r)]
ResetDateOnly(k, m, now) == [k EXCEPT !.reset[m] = now + 1]                      \* mutant
CarriedOver(k, m, now) == [k EXCEPT !.used[m] = @ - Quota, !.reset[m] = now + 1] \* mutant
Zeroed(k, m, now) == [k EXCEPT !.used[m] = 0, !.reset[m] = now + 1,
                               !.finder = IF m = "verify" THEN 0 ELSE @]
ResetCounter(r) ==
    /\ request[r].pc = "meter" /\ IsDue(r)
    /\ key' = Zeroed(key, Meter(r), request[r].now)
    /\ Goto(r, "zeroed")
    /\ UNCHANGED <<month, object, cache, pending, charger, alert, spent, tally>>

\* Back from the database, the shared record is brought up to date.
UpdateRecord(r) ==
    /\ request[r].pc = "zeroed"
    /\ object' = [object EXCEPT ![request[r].obj] = Zeroed(@, Meter(r), request[r].now)]
    /\ Goto(r, "meter")
    /\ UNCHANGED <<month, key, cache, pending, charger, alert, spent, tally>>

ReadyToCheck(r) == request[r].pc = "meter" /\ ~IsDue(r)
OverLimit(r) == CachedRecord(r).used[Meter(r)] >= Quota

\* Over the limit: 429.
Refuse(r) ==
    /\ ReadyToCheck(r) /\ OverLimit(r)
    /\ request' = [request EXCEPT ![r] = IdleRequest]
    /\ UNCHANGED <<month, key, object, cache, pending, charger, alert, spent, tally>>

\* Let through, with an alert from 80% on, if the record knows of none this
\* month (only the verification meter; not awaited).
AlertDue(r) ==
    Meter(r) = "verify" /\ CachedRecord(r).used["verify"] >= AlertAt /\ CachedRecord(r).alertSent # request[r].now
Admit(r) ==
    /\ ReadyToCheck(r) /\ ~OverLimit(r)
    /\ alert' = IF AlertDue(r) THEN alert + 1 ELSE alert
    /\ Goto(r, "serve")
    /\ UNCHANGED <<month, key, object, cache, pending, charger, spent, tally>>

\* The work is done; `void incrementUsage(...)`, `void incrementSendUsageBy`.
Serve(r) ==
    /\ request[r].pc = "serve"
    /\ pending' = [pending EXCEPT ![Meter(r)] = @ + 1]
    /\ request' = [request EXCEPT ![r] = IdleRequest]
    /\ UNCHANGED <<month, key, object, cache, charger, alert, spent, tally>>

\* currentMonthUsage: { increment: 1 }
Increment(m) ==
    /\ pending[m] > 0
    /\ pending' = [pending EXCEPT ![m] = @ - 1]
    /\ key'     = [key EXCEPT !.used[m] = @ + 1]
    /\ spent'   = [spent EXCEPT ![m] = @ + 1]
    /\ UNCHANGED <<month, object, cache, request, charger, alert, tally>>

\* sendUsageAlert: the mail, then usageAlertSentAt.
SendUsageAlert ==
    /\ alert > 0
    /\ alert' = alert - 1
    /\ key'   = [key EXCEPT !.alertSent = month]
    /\ UNCHANGED <<month, object, cache, request, pending, charger, spent, tally>>

------------------------------------------------------------------------------
\* incrementFinderUsage(count): what the finder allowance has left is read...
RemainingIgnored(k)  == FinderLimit                               \* mutant
FinderRemaining(k)   == IF k.finder <= FinderLimit THEN FinderLimit - k.finder ELSE 0
ReadAllowance(f) ==
    /\ charger[f].pc = "idle"
    /\ tally < MaxCalls
    /\ \E n \in 1 .. MaxLeads :
          charger' = [charger EXCEPT ![f] =
              [pc |-> "write", count |-> n, remaining |-> FinderRemaining(key)]]
    /\ tally' = tally + 1
    /\ UNCHANGED <<month, key, object, cache, request, pending, alert, spent>>

\* ...and used up first; the rest is billed to the verification counter.
FromAllowance(c) == IF c.count <= c.remaining THEN c.count ELSE c.remaining
Overflow(c)      == (c.count - FromAllowance(c)) * FINDER_OVERFLOW_VERIFICATION_COST
BillLeads(f) ==
    /\ charger[f].pc = "write"
    /\ LET own == FromAllowance(charger[f])
           over == Overflow(charger[f])
       IN  /\ key'   = [key EXCEPT !.finder = @ + own, !.used["verify"] = @ + over]
           /\ spent' = [spent EXCEPT !["verify"] = @ + over]
    /\ charger' = [charger EXCEPT ![f] = IdleCharger]
    /\ UNCHANGED <<month, object, cache, request, pending, alert, tally>>

------------------------------------------------------------------------------
\* resetMonthlyUsage of the monitor worker, hourly: one conditional update.
DueTooLate(k) == k.reset["verify"] < month      \* mutant
DueForSweep(k) == k.reset["verify"] <= month
MonitorSweep ==
    /\ DueForSweep(key)
    /\ key' = [key EXCEPT !.used["verify"] = 0, !.reset["verify"] = month + 1]
    /\ UNCHANGED <<month, object, cache, request, pending, charger, alert, spent, tally>>

\* The first of a month; nothing in memory is older than the month before.
MonthPasses ==
    /\ month < MaxMonth
    /\ \A r \in Requests : request[r].pc = "idle" \/ request[r].now = month
    /\ month' = month + 1
    /\ spent' = [m \in Meters |-> 0]
    /\ UNCHANGED <<key, object, cache, request, pending, charger, alert, tally>>

------------------------------------------------------------------------------
RequestNext(r) ==
    \/ \E p \in Apis, m \in Meters : CacheHit(r, p, m) \/ CacheMiss(r, p, m)
    \/ ResetCounter(r) \/ UpdateRecord(r)
    \/ Refuse(r) \/ Admit(r) \/ Serve(r)

MeterNext ==
    \/ \E r \in Requests : RequestNext(r)
    \/ \E p \in Apis : CacheExpires(p)
    \/ \E m \in Meters : Increment(m)
    \/ \E f \in Chargers : ReadAllowance(f) \/ BillLeads(f)
    \/ SendUsageAlert \/ MonitorSweep \/ MonthPasses

MeterSpec == MeterInit /\ [][MeterNext]_meterVars

------------------------------------------------------------------------------
\* Properties.

KeyType == [used : [Meters -> Nat], finder : Nat, reset : [Meters -> Nat], alertSent : Nat]

\* The counters, dates, records and requests have the shape the code gives them.
MeterTypeOK ==
    /\ month \in Nat
    /\ key \in KeyType /\ object \in [Objects -> KeyType]
    /\ cache \in [Apis -> Objects \cup {NoRecord}]
    /\ request \in [Requests -> [pc : {"idle", "meter", "zeroed", "serve"},
          api : Apis \cup {NoRecord}, obj : Objects \cup {NoRecord}, meter : Meters \cup {NoRecord}, now : Nat]]
    /\ pending \in [Meters -> Nat]
    /\ charger \in [Chargers -> [pc : {"idle", "write"}, count : Nat, remaining : Nat]]
    /\ alert \in Nat
    /\ spent \in [Meters -> Nat]
    /\ tally \in Nat

\* "Resets usage at the start of each month": a counter whose date says that
\* this month's reset is done holds nothing of the month before, whichever of
\* the requests, processes and sweeps did it, and in whatever order.
StartsFromZero ==
    \A m \in Meters : key.reset[m] > month => key.used[m] <= spent[m]

\* "Bill count leads: first against the dedicated Finder allowance, then any
\* remainder against the shared verification pool": calls that overlap may
\* bill the same remainder to the allowance, each of them once.
OverdrawBounded == key.finder <= Cardinality(Chargers) * FinderLimit

\* A counter that is due is reset, request or no request: the hourly sweep does.
ResetInTheEnd == []<>(key.reset["verify"] > month)

\* The two bounds, and the types, of the counters plugins/usageMeter.ts resets and
\* adds to.
CountersHold == MeterTypeOK /\ StartsFromZero /\ OverdrawBounded
=============================================================================
