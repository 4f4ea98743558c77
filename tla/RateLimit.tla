------------------------------ MODULE RateLimit ------------------------------
(***************************************************************************)
(* The fixed-window rate limiter (src/src/plugins/rateLimit.ts) on its     *)
(* Redis counter: INCR, EXPIRE by whoever counted 1, TTL for the headers   *)
(* or the refusal.  One counter: a key's, or an address's in one scope;    *)
(* both run through the same code.  A Redis command that fails lets the    *)
(* request through (fails open).                                           *)
(***************************************************************************)
EXTENDS Integers, FiniteSets

CONSTANTS
    Clients,        \* requests at a time, of any number of processes
    LimitRpm,       \* limitRpm
    MaxRateActs     \* bound: requests, failures and windows

ASSUME RateAssumption == LimitRpm \in Nat \ {0} /\ MaxRateActs \in Nat

VARIABLES
    window,     \* rl:<key> in Redis: its count (0 when there is none) and whether it expires
    calling,    \* what each request has got to: idle, incr, expire, answer
    rateLog     \* steps spent; let through in this window; whether its expiry was lost

rateVars == <<window, calling, rateLog>>

NoWindow == [n |-> 0, expires |-> FALSE]
RateInit ==
    /\ window = NoWindow /\ calling = [c \in Clients |-> "idle"]
    /\ rateLog = [acts |-> 0, admitted |-> 0, left |-> FALSE]

RateSpend(log) == rateLog.acts < MaxRateActs /\ rateLog' = [log EXCEPT !.acts = @ + 1]
Turn(c, pc)    == calling' = [calling EXCEPT ![c] = pc]

------------------------------------------------------------------------------
RequireRateLimit(c) == calling[c] = "idle" /\ Turn(c, "incr") /\ RateSpend(rateLog) /\ UNCHANGED window

\* The count decides; who counted 1 sets the expiry before it is told.
PastLimitLate(n)  == n > LimitRpm + 1                                    \* mutant
PastLimit(n)      == n > LimitRpm
SecondInWindow(n) == n = 2                                               \* mutant
FirstInWindow(n)  == n = 1
Incr(c) ==
    LET n == window.n + 1
    IN  /\ calling[c] = "incr" /\ window' = [window EXCEPT !.n = n]
        /\ Turn(c, IF FirstInWindow(n) THEN "expire" ELSE "answer")
        /\ rateLog' = [rateLog EXCEPT !.admitted = @ + IF PastLimit(n) THEN 0 ELSE 1]
Expire(c) ==
    /\ calling[c] = "expire" /\ window' = [window EXCEPT !.expires = TRUE]
    /\ Turn(c, "answer") /\ UNCHANGED rateLog

\* TTL, for the headers or for when to try again: a minute when Redis knows of
\* no expiry.
Answer(c) == calling[c] = "answer" /\ Turn(c, "idle") /\ UNCHANGED <<window, rateLog>>

\* Redis refuses the command, or the connection breaks before or after it was
\* carried out.  The one retry while reconnecting is made in the same turn of
\* the event loop, in which no command is accepted (lib/redis.ts), so it fails
\* too, and the request is let through.
Lost(c, w) == [rateLog EXCEPT !.left = @ \/ (w.n > 0 /\ ~w.expires /\ (window.n = 0 \/ calling[c] = "expire"))]
FailsOpen(c) ==
    /\ calling[c] # "idle" /\ Turn(c, "idle")
    /\ \E w \in {window, IF calling[c] = "incr" THEN [window EXCEPT !.n = @ + 1]
                     ELSE IF calling[c] = "expire" THEN [window EXCEPT !.expires = TRUE] ELSE window} :
          window' = w /\ RateSpend(Lost(c, w))

\* The process dies: its request is gone, the counter is as it is.
RateDies(c) ==
    /\ calling[c] # "idle" /\ Turn(c, "idle") /\ UNCHANGED window
    /\ RateSpend(Lost(c, window))

\* Sixty seconds after the expiry was set.
WindowEnds ==
    /\ window.expires /\ window' = NoWindow /\ UNCHANGED calling
    /\ RateSpend([rateLog EXCEPT !.admitted = 0, !.left = FALSE])

RateNext ==
    \/ \E c \in Clients : RequireRateLimit(c) \/ Incr(c) \/ Expire(c) \/ Answer(c) \/ FailsOpen(c) \/ RateDies(c)
    \/ WindowEnds

RateSpec == RateInit /\ [][RateNext]_rateVars

------------------------------------------------------------------------------
\* The counter does what a window is for: it lets no more than limitRpm requests
\* through, and ends, for whoever began it is about to say when, unless that
\* command or its sender was lost.  A counter left that way refuses everyone
\* once it is over the limit, for as long as Redis keeps it.
WindowHolds ==
    /\ rateLog.admitted <= LimitRpm
    /\ window.n > 0 /\ ~window.expires => rateLog.left \/ \E c \in Clients : calling[c] = "expire"

\* The comment of checkRateLimit: the window is reset, and an outage of Redis
\* does not take the API down.  (Does not hold.)
WindowResets ==
    window.n > 0 /\ ~window.expires => \E c \in Clients : calling[c] = "expire"
==============================================================================
