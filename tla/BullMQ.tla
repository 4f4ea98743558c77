------------------------------- MODULE BullMQ -------------------------------
(***************************************************************************)
(* The part of a BullMQ queue that the code in src/ relies on (the library *)
(* itself is not in the repository).  A queue is a function from the ids   *)
(* of the jobs Redis still remembers to their records.                     *)
(*                                                                         *)
(*   - add() with the id of a job that is still remembered, finished or    *)
(*     not, does nothing: the deduplication every caller in src/ counts on *)
(*     when it passes an explicit jobId;                                   *)
(*   - a worker that takes a job holds its lock; a job whose lock lapses   *)
(*     goes back to waiting, until it has done so maxStalledCount times,   *)
(*     and then fails;                                                     *)
(*   - only the holder of the lock can finish a job.                       *)
(*                                                                         *)
(* Delays are not modelled: a delayed job may be taken at any later time.  *)
(* Finished jobs are remembered for ever here; the code keeps the last     *)
(* 500 to 1000 of them for 1 to 7 days (lib/queue.ts).                     *)
(***************************************************************************)
EXTENDS Naturals

\* The queue with no job.
EmptyQueue == [id \in {} |-> id]

Has(q, id) == id \in DOMAIN q

\* Queue.add(name, data, {jobId: id})
Add(q, id, data) ==
    IF Has(q, id) THEN q
    ELSE [i \in DOMAIN q \cup {id} |->
             IF i = id
             THEN [state |-> "waiting", stalls |-> 0, holder |-> "nobody", data |-> data]
             ELSE q[i]]

Waiting(q, id) == Has(q, id) /\ q[id].state = "waiting"
Active(q, id)  == Has(q, id) /\ q[id].state = "active"
Live(q, id)    == Waiting(q, id) \/ Active(q, id)

\* A worker takes the job and its lock.
Take(q, id, w) == [q EXCEPT ![id].state = "active", ![id].holder = w]

\* Worker w's handler returned ("completed") or threw ("failed").  A worker
\* that lost the lock in the meantime cannot move the job any more.
Finish(q, id, w, outcome) ==
    IF Active(q, id) /\ q[id].holder = w
    THEN [q EXCEPT ![id].state = outcome, ![id].holder = "nobody"]
    ELSE q

\* The handler threw and attempts are left: after its backoff the job is
\* waiting again, with one more attempt on record in data.attempts.
Retry(q, id, w) ==
    IF Active(q, id) /\ q[id].holder = w
    THEN [q EXCEPT ![id].state = "waiting", ![id].holder = "nobody", ![id].data.attempts = @ + 1]
    ELSE q

\* Job.remove(); it throws if the job is locked, which is the caller's guard.
Discard(q, id) == [i \in DOMAIN q \ {id} |-> q[i]]

\* The stalled-job check finds an active job whose lock lapsed.
Stall(q, id, maxStalledCount) ==
    [q EXCEPT ![id].state  = IF @ = "active" /\ q[id].stalls < maxStalledCount
                             THEN "waiting" ELSE "failed",
              ![id].stalls = @ + 1,
              ![id].holder = "nobody"]
=============================================================================
