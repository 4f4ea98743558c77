-------------------------------- MODULE Finder --------------------------------
(***************************************************************************)
(* A search for people (src/src/routes/finder/index.ts,                    *)
(* src/src/lib/finderSearch.ts): the search service scrapes rows; whoever  *)
(* asks for the status of a search that has ended makes the bulk job that  *)
(* verifies its addresses, when there is none; and an import turns rows    *)
(* into leads and enrols them.                                             *)
(***************************************************************************)
EXTENDS Integers, FiniteSets

CONSTANTS
  Polls,         \* requests at work
  Rows_,         \* the addresses a search may find
  MaxFinderActs

VARIABLES
  search,   \* the search service's run: "none", "running", "ended", "failed"; and the addresses it found
  vjob,     \* bulk_jobs of the run: how many, and the first one's status and verdicts
  poll,     \* requests
  leads,    \* leads and enrolments made from the run
  fnd       \* what overlapped, and the steps spent (MaxFinderActs)

finderVars == <<search, vjob, poll, leads, fnd>>

NoPoll == [pc |-> "idle", rows |-> {}]

FinderInit ==
  /\ search = [st |-> "none", rows |-> {}]
  /\ vjob = [n |-> 0, st |-> "none", queued |-> FALSE, good |-> {}, asked |-> 0]
  /\ poll = [p \in Polls |-> NoPoll]
  /\ leads = [kept |-> {}, enrolled |-> {}, unverified |-> FALSE]
  /\ fnd = [raced |-> FALSE, acts |-> 0]

FinderSpend(n) == fnd.acts + n <= MaxFinderActs
FinderSpent(n) == fnd' = [fnd EXCEPT !.acts = @ + n]

----------------------------------------------------------------------------
\* The number of results asked for is capped by what the key can still pay;
\* with nothing left the search is refused.
Search ==
  /\ search.st = "none"
  /\ search' = [search EXCEPT !.st = "running"]
  /\ UNCHANGED <<vjob, poll, leads, fnd>>

\* The service (external).
SearchEnds ==
  /\ search.st = "running"
  /\ \/ \E R \in SUBSET Rows_ : search' = [st |-> "ended", rows |-> R]
     \/ search' = [search EXCEPT !.st = "failed"]
  /\ UNCHANGED <<vjob, poll, leads, fnd>>

IdlePoll == CHOOSE p \in Polls : poll[p] = NoPoll

\* mutant
HasJobNever == FALSE
\* The job is found by the search's tag in its storage path.
HasJob == vjob.n > 0

\* The status of a search that has ended: the dataset is read and cut to what
\* the key can pay now; without addresses there is nothing to verify.
Status ==
  /\ search.st = "ended" /\ ~HasJob
  /\ \E p \in Polls : poll[p] = NoPoll
  /\ FinderSpend(1) /\ FinderSpent(1)
  /\ \E R \in SUBSET search.rows :
       /\ R # {}
       /\ poll' = [poll EXCEPT ![IdlePoll] = [pc |-> "create", rows |-> R]]
  /\ UNCHANGED <<search, vjob, leads>>

\* The file is in storage; the job gets a random id, so a second one for the
\* same search is not refused.
CreateVerifyJob(p) ==
  /\ poll[p].pc = "create"
  /\ vjob' = IF vjob.n = 0 THEN [vjob EXCEPT !.n = 1, !.st = "pending"] ELSE [vjob EXCEPT !.n = 2]
  /\ poll' = [poll EXCEPT ![p].pc = IF vjob.n = 0 THEN "enqueue" ELSE "enqueueOther"]
  /\ fnd' = [fnd EXCEPT !.raced = @ \/ \E q \in Polls \ {p} : poll[q].pc = "create"]
  /\ UNCHANGED <<search, leads>>

Enqueue(p) ==
  /\ poll[p].pc \in {"enqueue", "enqueueOther"}
  /\ vjob' = IF poll[p].pc = "enqueue" THEN [vjob EXCEPT !.queued = TRUE, !.good = poll[p].rows] ELSE vjob
  /\ poll' = [poll EXCEPT ![p] = NoPoll]
  /\ UNCHANGED <<search, leads, fnd>>

\* Storage, database or queue fail, or the process ends.  The caller is told
\* that the search succeeded, without a job; or, when only the queue failed,
\* that the job is pending.
PollFails(p) ==
  /\ poll[p].pc # "idle" /\ FinderSpend(1) /\ FinderSpent(1)
  /\ poll' = [poll EXCEPT ![p] = NoPoll]
  /\ UNCHANGED <<search, vjob, leads>>

\* The bulk worker (BulkVerify) verifies what is queued.
JobRuns ==
  /\ vjob.st = "pending" /\ vjob.queued
  /\ \/ \E G \in SUBSET vjob.good : vjob' = [vjob EXCEPT !.st = "completed", !.good = G]
     \/ vjob' = [vjob EXCEPT !.st = "failed"]
  /\ UNCHANGED <<search, poll, leads, fnd>>

\* Rows the import keeps: those asked for that the completed job found good; all
\* of them when no job is completed.
Importable(R) == IF vjob.st = "completed" THEN R \cap vjob.good ELSE R

\* One lead after the other, with its enrolment in the same transaction; those
\* that exist are left as they are.
ImportRows(R, enrol) ==
  /\ search.st = "ended" /\ R # {} /\ FinderSpend(1) /\ FinderSpent(1)
  /\ \E done \in SUBSET Importable(R \cap search.rows) :
       leads' = [kept |-> leads.kept \cup done,
                 enrolled |-> IF enrol THEN leads.enrolled \cup done ELSE leads.enrolled,
                 unverified |-> leads.unverified \/ (vjob.st # "completed" /\ done # {})]
  /\ UNCHANGED <<search, vjob, poll>>

\* A verification on demand: a job of its own, which the tag does not find.
Verify ==
  /\ search.st = "ended" /\ search.rows # {} /\ vjob.asked = 0 /\ FinderSpend(1) /\ FinderSpent(1)
  /\ vjob' = [vjob EXCEPT !.asked = 1]
  /\ UNCHANGED <<search, poll, leads>>

FinderNext ==
  \/ Search \/ SearchEnds \/ Status \/ JobRuns \/ Verify
  \/ \E p \in Polls : CreateVerifyJob(p) \/ Enqueue(p) \/ PollFails(p)
  \/ \E R \in SUBSET Rows_, enrol \in BOOLEAN : ImportRows(R, enrol)

FinderSpec == FinderInit /\ [][FinderNext]_finderVars

----------------------------------------------------------------------------
\* The addresses of one search are verified, and paid for, by one job however
\* often its status is asked: unless two requests had both found none before
\* either made one.
VerifiedByOneJob == vjob.n > 1 => fnd.raced

\* The comment at the job's creation: of concurrent creates, the second fails on
\* the job's id.
OneJobPerSearch == vjob.n <= 1

\* The comment at the import's filter: rows must be verified by us.
ImportedIsVerified == ~leads.unverified
=============================================================================
