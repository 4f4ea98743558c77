------------------------------- MODULE Limiter -------------------------------
(***************************************************************************)
(* createLimiter of lib/concurrencyLimiter.ts: a rolling pool of at most   *)
(* maxConcurrent calls (paidProviderLimiter: 4 for the whole process).     *)
(* limit(fn) queues the resolver of a promise and calls next(), which      *)
(* hands a free slot to the oldest resolver; the call goes on in a later   *)
(* microtask, and gives its slot back in a finally.  JavaScript runs each  *)
(* of these pieces without interruption: one action each.                  *)
(***************************************************************************)
EXTENDS Integers, Sequences, FiniteSets

CONSTANTS Calls,           \* the calls of limit(), each made once
          maxConcurrent

ASSUME LimiterAssumption == IsFiniteSet(Calls) /\ maxConcurrent \in Nat \ {0}

VARIABLES queue,           \* resolvers of the calls that wait, oldest first
          active,          \* slots taken
          call             \* how far each call is

vars == <<queue, active, call>>

Init ==
    /\ queue  = <<>>
    /\ active = 0
    /\ call   = [c \in Calls |-> "new"]

------------------------------------------------------------------------------
\* next(), on the queue q, with a slots taken and the calls at k.
HasRoomFor1(a) == a <= maxConcurrent                          \* mutant
HasRoom(a)    == a < maxConcurrent
Grant(q, a, k) ==
    IF HasRoom(a) /\ q # <<>>
    THEN /\ queue'  = Tail(q)
         /\ active' = a + 1
         /\ call'   = [k EXCEPT ![Head(q)] = "granted"]
    ELSE queue' = q /\ active' = a /\ call' = k

\* limit(fn): queue.push(resolve); next()
Limit(c) ==
    /\ call[c] = "new"
    /\ Grant(Append(queue, c), active, [call EXCEPT ![c] = "queued"])

\* The promise was resolved: fn is called.
Begin(c) ==
    /\ call[c] = "granted"
    /\ call' = [call EXCEPT ![c] = "running"]
    /\ UNCHANGED <<queue, active>>

\* fn settled, either way: active--; next()
KeepSlot(q, a, k) == queue' = q /\ active' = a /\ call' = k   \* mutant: no next()
Release(q, a, k)  == Grant(q, a, k)
End(c) ==
    /\ call[c] = "running"
    /\ Release(queue, active - 1, [call EXCEPT ![c] = "done"])

Next == \E c \in Calls : Limit(c) \/ Begin(c) \/ End(c)

Spec == Init /\ [][Next]_vars

\* Microtasks run, and every fn settles (the providers' requests time out).
FairSpec == Spec /\ \A c \in Calls : WF_vars(Begin(c) \/ End(c))

------------------------------------------------------------------------------
\* Properties.

InState(s) == {c \in Calls : call[c] = s}
Holding    == InState("granted") \cup InState("running")

TypeOK ==
    /\ queue  \in Seq(Calls)
    /\ active \in Nat
    /\ call   \in [Calls -> {"new", "queued", "granted", "running", "done"}]

\* The queue holds waiting calls, each once (next() shifts a resolver exactly
\* once), and the slots add up.
QueueOK ==
    /\ \A i \in DOMAIN queue : call[queue[i]] = "queued"
    /\ \A i, j \in DOMAIN queue : queue[i] = queue[j] => i = j

\* Never more than maxConcurrent calls in flight ("at most K in flight at
\* once"), counted by the calls themselves and not by the counter.
AtMostMax == Cardinality(InState("running")) <= maxConcurrent

\* No slot leaks and none is handed out twice.
SlotsMatch == active = Cardinality(Holding)

\* "A rolling pool starts the next task the instant any slot frees up": a call
\* waits only while every slot is taken.
WorkConserving == queue # <<>> => active >= maxConcurrent

\* The state of the limiter is consistent between any two pieces of code: the
\* inductive invariant of Upkeep_proofs.
IInv == TypeOK /\ QueueOK /\ SlotsMatch /\ WorkConserving /\ active <= maxConcurrent

\* Every call gets its turn: none stays in the queue.
EveryCallRuns == \A c \in Calls : <>[](call[c] # "queued")
=============================================================================
