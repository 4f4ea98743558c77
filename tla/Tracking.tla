------------------------------ MODULE Tracking -------------------------------
(***************************************************************************)
(* Opens and clicks of tracked mails (routes/track/index.ts) and how those *)
(* of scanners are told from people's (engine/botDetection.ts): anonymous  *)
(* requests, many at a time, from addresses that may stand for many.       *)
(***************************************************************************)
EXTENDS Integers, FiniteSets

CONSTANTS Mails_, Addresses, Hits,  \* requests in flight
    FANOUT,                         \* distinct messages of one address within the window
    MaxHits                         \* bound: requests; a failure counts as two

ASSUME TrackingAssumption == FANOUT \in Nat \ {0} /\ MaxHits \in Nat

VARIABLES
    seen,       \* tracking_events within the window: message and address
    hit,        \* a request at work
    counts,     \* campaigns: opens of each variant
    opened,     \* messages whose status says "opened"
    scan        \* ghosts: what was counted although its address had fanned out; bound

trackVars == <<seen, hit, counts, opened, scan>>

Variants == {"a", "b"}
NoHit == [pc |-> "idle", msg |-> "-", addr |-> "-", kind |-> "open", bot |-> FALSE, spread |-> FALSE]
TrackInit ==
    /\ seen = {} /\ hit = [h \in Hits |-> NoHit]
    /\ counts = [v \in Variants |-> 0] /\ opened = {}
    /\ scan = [acts |-> 0, counted |-> 0, people |-> 0]

Costs(n, s) == s.acts + n <= MaxHits /\ scan' = [s EXCEPT !.acts = @ + n]
Step_(h, pc) == hit' = [hit EXCEPT ![h].pc = pc]

\* The messages of an address that have been touched within the window, each once.
Touched(a) == {r[1] : r \in {x \in seen : x[2] = a}}

\* Taken for a robot: an address of Apple's proxy, a robot's user agent, a fetch within three
\* seconds of the send.
ClassifyTrackingEvent == BOOLEAN

ArriveAs(h, m, a, kind, fast) ==
    /\ hit[h].pc = "idle" /\ h = CHOOSE x \in Hits : hit[x].pc = "idle"
    /\ hit' = [hit EXCEPT ![h] = [pc |-> IF fast THEN "store" ELSE "fanout", msg |-> m, addr |-> a,
                                  kind |-> kind, bot |-> fast,
                                  spread |-> Cardinality(Touched(a)) >= FANOUT]]
    /\ Costs(1, scan) /\ UNCHANGED <<seen, counts, opened>>

\* checkIpFanout asks for distinct messages, before the event at hand is stored.
FansOutLate(a) == Cardinality(Touched(a)) > FANOUT                           \* mutant
FansOut(a) == Cardinality(Touched(a)) >= FANOUT
CheckIpFanout(h) ==
    /\ hit[h].pc = "fanout"
    /\ \/ hit' = [hit EXCEPT ![h].pc = "store", ![h].bot = FansOut(hit[h].addr)] /\ UNCHANGED scan
       \/ hit' = [hit EXCEPT ![h].pc = "store", ![h].spread = FALSE] /\ Costs(2, scan)   \* fails open
    /\ UNCHANGED <<seen, counts, opened>>

Store(h) ==                                                     \* robots are recorded too
    /\ hit[h].pc = "store" /\ Step_(h, IF hit[h].bot THEN "idle" ELSE "count")
    /\ \/ seen' = seen \cup {<<hit[h].msg, hit[h].addr>>} /\ UNCHANGED scan
       \/ Costs(2, scan) /\ UNCHANGED seen                      \* caught
    /\ UNCHANGED <<counts, opened>>

\* The status and the variant's counter, in one transaction; a click has no status.
CountHit(h, v) ==
    LET r == hit[h]
    IN  /\ r.pc = "count" /\ Step_(h, "idle") /\ UNCHANGED seen
        /\ \/ /\ opened' = IF r.kind = "open" THEN opened \cup {r.msg} ELSE opened
              /\ counts' = IF r.kind = "open" THEN [counts EXCEPT ![v] = @ + 1] ELSE counts
              /\ scan' = [scan EXCEPT !.counted = @ + (IF r.spread THEN 1 ELSE 0), !.people = @ + (IF r.kind = "open" THEN 1 ELSE 0)]
           \/ Costs(2, scan) /\ UNCHANGED <<opened, counts>>    \* caught: the page is served all the same

WindowPasses ==
    /\ seen # {} /\ seen' = {} /\ \A h \in Hits : hit[h].pc = "idle"
    /\ UNCHANGED <<hit, counts, opened, scan>>

TrackNext ==
    \/ \E h \in Hits, m \in Mails_, a \in Addresses, kind \in {"open", "click"}, fast \in ClassifyTrackingEvent :
          ArriveAs(h, m, a, kind, fast)
    \/ \E h \in Hits : CheckIpFanout(h) \/ Store(h) \/ \E v \in Variants : CountHit(h, v)
    \/ WindowPasses

------------------------------------------------------------------------------
\* A request whose address had already touched FANOUT messages within the window when it came
\* is recorded but counts nowhere, whatever else is under way, unless the question failed
\* (botDetection.ts:116-135, track/index.ts:92-118); the counters add up to the opens that
\* were taken for people's.
ScannersDontCount == scan.counted = 0 /\ counts["a"] + counts["b"] = scan.people
=============================================================================
