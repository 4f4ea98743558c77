------------------------ MODULE SendPipeline_proofs ------------------------
(***************************************************************************)
(* A message, and whatever is sent under one idempotency key, is mailed    *)
(* once, and the tables tell the truth about it, for any number of         *)
(* messages, requests and workers.                                         *)
(*                                                                         *)
(* Neither is inductive.  The parts of the invariant are: types; what an   *)
(* actor may hold at each of its calls (HandInv); who may hold a message   *)
(* of which status (RoleInv); a message has one job, or one request that   *)
(* will enqueue it (TokenInv); while no lock is lost one worker has it     *)
(* (LockInv); where the one mail of a message is (OnceInv); what its key   *)
(* knows of it (KeyInv); and the mails nobody has counted yet (CountInv).  *)
(***************************************************************************)
EXTENDS SendPipeline, FiniteSetTheorems, TLAPS

------------------------------------------------------------------------------
(* The inductive invariant. *)

\* Types: the tables, the queue, what each actor holds, what was delivered.
IsQueue(q)    == DOMAIN q \subseteq Messages /\ q \in [DOMAIN q -> SendJobType]
HistoryType   == [marred : [Messages \cup Keys -> SUBSET SendMarks], requests : Nat, trouble : Nat]
DeliveredType == [of : [Messages -> Nat], under : [Keys -> Nat], all : Nat, unrecorded : Nat]
TypeInv ==
    /\ message \in [Messages -> MessageType] /\ IsQueue(sendQueue) /\ act \in [Actors -> ActType]
    /\ usage \in Nat /\ delivered \in DeliveredType /\ history \in HistoryType

\* The routes and the job at each of their calls, and what they hold there.
Transporting == {"ses", "fallback", "save"}
Kinds(pc) ==
    {k \in {"none", "now", "later", "batch", "job", "patch", "cancel"} :
        \/ pc = "idle" /\ k = "none"
        \/ pc = "create" /\ k \in {"now", "later", "batch"}
        \/ pc = "next" /\ k = "batch"
        \/ pc = "enqueue" /\ k = "later"
        \/ pc \in {"ses", "save"} /\ k \in {"now", "batch", "job"}
        \/ pc = "fallback" /\ k \in {"now", "job"}
        \/ pc \in {"read", "end"} /\ k = "job"
        \/ pc = "remove" /\ k \in {"patch", "cancel"}
        \/ pc = "requeue" /\ k = "patch"
        \/ pc = "cancelled" /\ k = "cancel"}
Hand(x) ==
    /\ x.kind \in Kinds(x.pc)
    /\ IF x.pc \in {"idle", "next", "create"} THEN x.msg = NoMsg
       ELSE x.msg \in Messages \/ (x.msg = NoMsg /\ x.kind = "now" /\ x.pc \in Transporting)
    /\ x.pc \in {"idle", "next"} => x.key = NoKey
    /\ x.ok => x.pc \in {"save", "end"}
    /\ x.kind = "batch" /\ x.pc = "save" => x.ok
    /\ x.kind # "batch" => x.sent = 0
Own(p, x) == x.pc # "idle" => (x.kind = "job" <=> p \in SendWorkers)
HandInv == \A p \in Actors : Hand(act[p]) /\ Own(p, act[p])

\* Who may hold a message of which status: a queued one is its request's
\* alone, one that was scheduled is the workers' and the later requests'.
Launched(m) == message[m].status \in {"scheduled", "sent", "failed", "cancelled"}
Role(p, m) ==
    act[p].msg = m =>
        /\ IF act[p].kind \in {"now", "batch"} THEN message[m].status = "queued" ELSE Launched(m)
        /\ act[p].key = IF act[p].kind \in {"patch", "cancel"} THEN NoKey ELSE message[m].key
        /\ act[p].kind \in {"now", "batch"} => \A q \in Actors : act[q].msg = m => q = p
RoleInv ==
    \A m \in Messages :
        /\ \A p \in Actors : Role(p, m)
        /\ Has(sendQueue, m) => Launched(m)
        /\ message[m].status = "none" =>
              delivered.of[m] = 0 /\ message[m].key = NoKey /\ SparedOf(m, {"unsure", "overlap"})

\* A message has a job, or one request is about to enqueue it.
Brings(p, m) == act[p].msg = m /\ act[p].pc \in {"enqueue", "requeue"}
TokenInv ==
    \A m \in Messages : \A p \in Actors :
        Brings(p, m) => ~Has(sendQueue, m) /\ \A q \in Actors : Brings(q, m) => q = p

\* As long as no lock was lost, the worker that has a message has its lock.
LockInv ==
    \A m \in Messages : SparedOf(m, {"overlap"}) =>
        \A w \in SendWorkers : act[w].msg = m => Active(sendQueue, m) /\ sendQueue[m].holder = w

\* Where the mail of m is: whoever is sending it has not sent it before, and
\* once it is sent the row does not say "scheduled" any more, or is about to be
\* written.  What was cancelled in time has no job, and gets none.
Moves(p, m)  == act[p].msg = m /\ act[p].pc \in Transporting
Cancels(p, m) == act[p].msg = m /\ act[p].pc = "cancelled"
Gone(m) == ~Has(sendQueue, m) /\ delivered.of[m] = 0 /\ \A p \in Actors : ~Brings(p, m)
Once(m) ==
    /\ delivered.of[m] <= 1
    /\ \A p \in Actors : Moves(p, m) =>
          /\ message[m].status \in {"scheduled", "queued", "cancelled"}
          /\ ~act[p].ok => delivered.of[m] = 0
    /\ message[m].status = "scheduled" /\ delivered.of[m] > 0 => \E p \in Actors : Moves(p, m) /\ act[p].ok
    /\ message[m].status = "failed" => delivered.of[m] = 0
    /\ SparedOf(m, {"late"}) /\ (message[m].status = "cancelled" \/ \E p \in Actors : Cancels(p, m)) => Gone(m)
\* A mail that was taken was sent, always.
Sent(m) ==
    /\ message[m].status = "sent" => delivered.of[m] > 0
    /\ \A p \in Actors : act[p].msg = m /\ act[p].ok => delivered.of[m] > 0
OnceInv == \A m \in Messages : Sent(m) /\ (SparedOf(m, {"unsure", "overlap"}) => Once(m))

\* A key has one row, which it shares its misfortunes with, and mails go out
\* under it for this row only.
Tied(m, k) ==
    /\ \A n \in Messages : message[n].key = k => n = m
    /\ history.marred[m] \cap {"unsure", "overlap"} \subseteq history.marred[k]
    /\ SparedOf(k, {"rowless"}) => delivered.under[k] = delivered.of[m]
Rows(k) ==
    /\ \A p \in Actors : act[p].key = k /\ act[p].pc \in Transporting => act[p].msg # NoMsg
    /\ (\A m \in Messages : message[m].key # k) => delivered.under[k] = 0
KeyInv ==
    \A k \in Keys : /\ \A m \in Messages : message[m].key = k => Tied(m, k)
                    /\ SparedOf(k, {"rowless"}) => Rows(k)

\* The mails that were taken and not counted yet.
Owes(x) == x.sent + IF x.ok THEN 1 ELSE 0
Owed(a) == {z \in Actors \X (Nat \ {0}) : z[2] <= Owes(a[z[1]])}
CountInv ==
    /\ IsFiniteSet(Owed(act)) /\ usage + Cardinality(Owed(act)) <= delivered.all
    /\ history.trouble = 0 => usage + Cardinality(Owed(act)) = delivered.all

IInv == TypeInv /\ HandInv /\ RoleInv /\ TokenInv /\ LockInv /\ OnceInv /\ KeyInv /\ CountInv

------------------------------------------------------------------------------
(* Actors, queue and ghosts. *)

\* What an actor holds, written out.
Slot(pc, kind, msg, key, tracked, ok, sent) ==
    [pc |-> pc, kind |-> kind, msg |-> msg, key |-> key, tracked |-> tracked, ok |-> ok, sent |-> sent]
\* Every actor holds such a thing, and an idle one nothing.
LEMMA Slots ==
    ASSUME NEW x \in ActType
    PROVE  /\ x = Slot(x.pc, x.kind, x.msg, x.key, x.tracked, x.ok, x.sent)
           /\ NoAct = Slot("idle", "none", NoMsg, NoKey, FALSE, FALSE, 0) /\ NoAct \in ActType
BY DEF ActType, Slot, NoAct

\* Changes of one field or two.
LEMMA Puts ==
    ASSUME NEW x \in ActType, NEW pc, NEW key, NEW msg, NEW t
    PROVE  /\ [x EXCEPT !.pc = pc] = Slot(pc, x.kind, x.msg, x.key, x.tracked, x.ok, x.sent)
           /\ [x EXCEPT !.pc = pc, !.ok = t] = Slot(pc, x.kind, x.msg, x.key, x.tracked, t, x.sent)
           /\ [x EXCEPT !.msg = msg, !.pc = pc] = Slot(pc, x.kind, msg, x.key, x.tracked, x.ok, x.sent)
           /\ [x EXCEPT !.pc = pc, !.key = key, !.tracked = t] = Slot(pc, x.kind, x.msg, key, t, x.ok, x.sent)
<1>1. PICK y : y = [x EXCEPT !.pc = pc] OBVIOUS
<1>2. y = Slot(pc, x.kind, x.msg, x.key, x.tracked, x.ok, x.sent) BY <1>1 DEF ActType, Slot
<1>3. [y EXCEPT !.ok = t] = Slot(pc, x.kind, x.msg, x.key, x.tracked, t, x.sent) BY <1>2 DEF Slot
<1>4. PICK z : z = [y EXCEPT !.key = key] OBVIOUS
<1>5. z = Slot(pc, x.kind, x.msg, key, x.tracked, x.ok, x.sent) BY <1>2, <1>4 DEF Slot
<1>6. [z EXCEPT !.tracked = t] = Slot(pc, x.kind, x.msg, key, t, x.ok, x.sent) BY <1>5 DEF Slot
<1>7. PICK u : u = [x EXCEPT !.msg = msg] OBVIOUS
<1>8. u = Slot(x.pc, x.kind, msg, x.key, x.tracked, x.ok, x.sent) BY <1>7 DEF ActType, Slot
<1>9. [u EXCEPT !.pc = pc] = Slot(pc, x.kind, msg, x.key, x.tracked, x.ok, x.sent) BY <1>8 DEF Slot
<1> QED  BY <1>1, <1>2, <1>3, <1>4, <1>6, <1>7, <1>9

\* Only actor p moves, and is at pc with this in its hands.
Only(p) == act' \in [Actors -> ActType] /\ \A q \in Actors \ {p} : act'[q] = act[q]
Turns(p, pc, kind, msg, key, ok, sent) ==
    /\ Only(p) /\ act'[p].pc = pc /\ act'[p].kind = kind /\ act'[p].msg = msg /\ act'[p].key = key
    /\ act'[p].ok = ok /\ act'[p].sent = sent
\* The EXCEPT of an actor's record, read field by field.
LEMMA Turning ==
    ASSUME act \in [Actors -> ActType], NEW p \in Actors, NEW y \in ActType, act' = [act EXCEPT ![p] = y]
    PROVE  Turns(p, y.pc, y.kind, y.msg, y.key, y.ok, y.sent) /\ act'[p] = y
BY DEF Turns, Only

\* A place in the handler.
Places == {"idle", "next", "create", "enqueue", "read", "ses", "fallback",
           "save", "end", "remove", "requeue", "cancelled"}

\* A handler goes on to its next call, or ends.
LEMMA Going ==
    ASSUME act \in [Actors -> ActType], NEW p \in Actors, NEW pc \in Places
    PROVE  /\ Goto(p, pc) => Turns(p, pc, act[p].kind, act[p].msg, act[p].key, act[p].ok, act[p].sent)
           /\ Return(p) => Turns(p, "idle", "none", NoMsg, NoKey, FALSE, 0)
           /\ act' = [act EXCEPT ![p].pc = pc, ![p].ok = TRUE] =>
                 Turns(p, pc, act[p].kind, act[p].msg, act[p].key, TRUE, act[p].sent)
<1>1. PICK x \in ActType : x = act[p] OBVIOUS
<1>2. ASSUME Goto(p, pc) PROVE Turns(p, pc, x.kind, x.msg, x.key, x.ok, x.sent)
    <2>1. PICK y : y = Slot(pc, x.kind, x.msg, x.key, x.tracked, x.ok, x.sent) OBVIOUS
    <2>2. y \in ActType BY <2>1 DEF Slot, ActType, Places
    <2>3. act' = [act EXCEPT ![p] = y] BY <1>1, <1>2, <2>1, Puts DEF Goto
    <2> QED  BY <2>1, <2>2, <2>3, Turning DEF Slot
<1>3. ASSUME Return(p) PROVE Turns(p, "idle", "none", NoMsg, NoKey, FALSE, 0)
    <2>1. PICK y : y = NoAct OBVIOUS
    <2>2. y \in ActType /\ y = Slot("idle", "none", NoMsg, NoKey, FALSE, FALSE, 0) BY <1>1, <2>1, Slots
    <2>3. act' = [act EXCEPT ![p] = y] BY <1>3, <2>1 DEF Return
    <2> QED  BY <2>2, <2>3, Turning DEF Slot
<1>4. ASSUME act' = [act EXCEPT ![p].pc = pc, ![p].ok = TRUE]
      PROVE  Turns(p, pc, x.kind, x.msg, x.key, TRUE, x.sent)
    <2>t. PICK t \in BOOLEAN : t = TRUE OBVIOUS
    <2>1. PICK y : y = Slot(pc, x.kind, x.msg, x.key, x.tracked, t, x.sent) OBVIOUS
    <2>2. y \in ActType BY <2>1 DEF Slot, ActType, Places
    <2>3. act' = [act EXCEPT ![p] = y]
        <3>a. act' = [act EXCEPT ![p].pc = pc, ![p].ok = t] BY <1>4, <2>t, Zenon
        <3>1. PICK v : v = [x EXCEPT !.pc = pc] OBVIOUS
        <3>2. v = Slot(pc, x.kind, x.msg, x.key, x.tracked, x.ok, x.sent) BY <3>1, Puts
        <3>3. [v EXCEPT !.ok = t] = y BY <2>1, <3>2 DEF Slot
        <3>4. [act EXCEPT ![p].pc = pc] = [act EXCEPT ![p] = v] BY <1>1, <3>1
        <3> QED  BY <1>1, <3>a, <3>3, <3>4
    <2>4. Turns(p, pc, x.kind, x.msg, x.key, t, x.sent) BY <2>1, <2>2, <2>3, Turning DEF Slot
    <2> QED  BY <2>t, <2>4, Zenon
<1> QED  BY <1>1, <1>2, <1>3, <1>4

\* An item of a batch is over, or a request.
LEMMA Passing ==
    ASSUME act \in [Actors -> ActType], NEW p \in Actors, NEW n \in Nat
    PROVE  /\ act' = [act EXCEPT ![p] = [NoAct EXCEPT !.pc = "next", !.kind = "batch", !.sent = n]] =>
                 Turns(p, "next", "batch", NoMsg, NoKey, FALSE, n)
           /\ ItemOver(p) => IF act[p].kind = "batch" THEN Turns(p, "next", "batch", NoMsg, NoKey, FALSE, act[p].sent)
                             ELSE Turns(p, "idle", "none", NoMsg, NoKey, FALSE, 0)
<1>1. PICK x \in ActType : x = act[p] OBVIOUS
<1>2. ASSUME NEW k \in Nat, act' = [act EXCEPT ![p] = [NoAct EXCEPT !.pc = "next", !.kind = "batch", !.sent = k]]
      PROVE  Turns(p, "next", "batch", NoMsg, NoKey, FALSE, k)
    <2>1. PICK y : y = Slot("next", "batch", NoMsg, NoKey, FALSE, FALSE, k) OBVIOUS
    <2>2. y \in ActType BY <2>1 DEF Slot, ActType
    <2>3. [NoAct EXCEPT !.pc = "next", !.kind = "batch", !.sent = k] = y
        <3>1. PICK f \in BOOLEAN : f = FALSE OBVIOUS
        <3>2. NoAct = Slot("idle", "none", NoMsg, NoKey, f, f, 0) /\ y = Slot("next", "batch", NoMsg, NoKey, f, f, k)
            BY <2>1, <3>1, Slots, Zenon
        <3>3. PICK u : u = [NoAct EXCEPT !.pc = "next"] OBVIOUS
        <3>4. u = Slot("next", "none", NoMsg, NoKey, f, f, 0) BY <3>2, <3>3 DEF Slot
        <3>5. PICK v : v = [u EXCEPT !.kind = "batch"] OBVIOUS
        <3>6. v = Slot("next", "batch", NoMsg, NoKey, f, f, 0) BY <3>4, <3>5 DEF Slot
        <3>7. [v EXCEPT !.sent = k] = y BY <3>2, <3>6 DEF Slot
        <3> QED  BY <3>3, <3>5, <3>7
    <2>4. act' = [act EXCEPT ![p] = y] BY <1>2, <2>3
    <2> QED  BY <2>1, <2>2, <2>4, Turning DEF Slot
<1>3. x.sent \in Nat BY DEF ActType
<1>4. ASSUME ItemOver(p), act[p].kind = "batch" PROVE Turns(p, "next", "batch", NoMsg, NoKey, FALSE, act[p].sent)
  BY <1>4, <1>1, <1>2, <1>3 DEF ItemOver, Kind
<1>5. ASSUME ItemOver(p), act[p].kind # "batch" PROVE Turns(p, "idle", "none", NoMsg, NoKey, FALSE, 0)
  BY <1>5, Going DEF ItemOver, Kind, Return, Places
<1> QED  BY <1>2, <1>4, <1>5

\* What messages and keys are marked with.
Told(X, M) ==
    /\ history' \in HistoryType /\ history.trouble <= history'.trouble
    /\ \A x \in Messages \cup Keys :
          history'.marred[x] = IF x \in X THEN history.marred[x] \cup M ELSE history.marred[x]
\* Each way the model writes the history marks X with M, or nothing at all.
LEMMA Marking ==
    ASSUME history \in HistoryType, NEW X, NEW M \in SUBSET SendMarks
    PROVE  /\ history' = history \/ NewRequest => Told(X, {})
           /\ history' = Marred(X, M) => Told(X, M)
           /\ SendTrouble(X, M) => Told(X, M) /\ history'.trouble > 0
<1>1. PICK g \in [Messages \cup Keys -> SUBSET SendMarks] : g = history.marred BY DEF HistoryType
<1>2. PICK n \in Nat : n = history.trouble BY DEF HistoryType
<1>3. PICK r \in Nat : r = history.requests BY DEF HistoryType
<1>h. history = [marred |-> g, requests |-> r, trouble |-> n] BY <1>1, <1>2, <1>3 DEF HistoryType
<1>4. PICK f : f = [x \in Messages \cup Keys |-> IF x \in X THEN g[x] \cup M ELSE g[x]] OBVIOUS
<1>5. f \in [Messages \cup Keys -> SUBSET SendMarks] BY <1>4
<1>6. PICK u : u = [marred |-> f, requests |-> r, trouble |-> n] OBVIOUS
<1>7. Marred(X, M) = u
    <2>1. [x \in DOMAIN history.marred |-> IF x \in X THEN history.marred[x] \cup M ELSE history.marred[x]] = f
        BY <1>1, <1>4
    <2>2. Marred(X, M) = [history EXCEPT !.marred = f] BY <2>1 DEF Marred
    <2> QED  BY <2>2, <1>h, <1>6
<1>8. \A x \in Messages \cup Keys :
         f[x] = IF x \in X THEN history.marred[x] \cup M ELSE history.marred[x]
    BY <1>1, <1>4
<1>9. history' = history => Told(X, {}) BY <1>1, <1>2 DEF Told
<1>10. ASSUME NewRequest PROVE Told(X, {}) BY <1>3, <1>10, <1>h, <1>1, <1>2 DEF NewRequest, HistoryType, Told
<1>11. ASSUME history' = Marred(X, M) PROVE Told(X, M)
  BY <1>7, <1>11, <1>5, <1>6, <1>2, <1>8 DEF HistoryType, Told
<1>12. ASSUME SendTrouble(X, M) PROVE Told(X, M) /\ history'.trouble > 0
    <2>1. history' = [u EXCEPT !.trouble = n + 1] BY <1>6, <1>7, <1>12 DEF SendTrouble
    <2>2. PICK k \in Nat : k = n + 1 OBVIOUS
    <2>3. history' = [marred |-> f, requests |-> r, trouble |-> k] BY <1>6, <2>1, <2>2
    <2>4. history' \in HistoryType /\ history'.marred = f /\ history'.trouble = k BY <1>5, <2>3 DEF HistoryType
    <2>5. n <= k /\ k > 0 BY <2>2
    <2> QED  BY <1>2, <1>8, <2>4, <2>5 DEF Told
<1> QED  BY <1>9, <1>10, <1>11, <1>12

\* A provider takes the mail of p.
Posts(p) ==
    /\ delivered' \in DeliveredType /\ delivered'.all = delivered.all + 1
    /\ \A m \in Messages : delivered'.of[m] = IF act[p].msg = m THEN delivered.of[m] + 1 ELSE delivered.of[m]
    /\ \A k \in Keys : delivered'.under[k] = IF act[p].key = k THEN delivered.under[k] + 1 ELSE delivered.under[k]
\* Delivered counts one mail more for the message, its key and the total.
LEMMA Posting ==
    ASSUME delivered \in DeliveredType, NEW p, delivered' = Delivered(p) PROVE Posts(p)
  BY DEF DeliveredType, Delivered, Posts

\* The row of m has status s.
Writes(m, s) ==
    /\ message' \in [Messages -> MessageType] /\ \A n \in Messages \ {m} : message'[n] = message[n]
    /\ message'[m].status = s /\ message'[m].key = message[m].key
\* The two writes of a message's status, as what they leave in the row.
LEMMA Writing ==
    ASSUME message \in [Messages -> MessageType], NEW m \in Messages, NEW p \in Actors
    PROVE  /\ message' = [message EXCEPT ![m] = Outcome(p, @)] => Writes(m, IF act[p].ok THEN "sent" ELSE "failed")
           /\ message' = [message EXCEPT ![m].status = "cancelled"] => Writes(m, "cancelled")
<1>1. PICK r \in MessageType : r = message[m] OBVIOUS
<1>2. ASSUME NEW s \in {"sent", "failed", "cancelled"}, NEW t \in {"null", "pending", "id"},
             message' = [message EXCEPT ![m] = [status |-> s, key |-> r.key, token |-> t]]
      PROVE  Writes(m, s)
  BY <1>2, <1>1 DEF MessageType, Writes
<1>3. ASSUME message' = [message EXCEPT ![m] = Outcome(p, @)]
      PROVE  Writes(m, IF act[p].ok THEN "sent" ELSE "failed")
    <2>1. PICK s \in {"sent", "failed", "cancelled"} : s = IF act[p].ok THEN "sent" ELSE "failed" OBVIOUS
    <2>2. PICK t \in {"null", "pending", "id"} : t = IF act[p].tracked THEN "id" ELSE r.token BY DEF MessageType
    <2>3. PICK v : v = [r EXCEPT !.status = s] OBVIOUS
    <2>4. v = [status |-> s, key |-> r.key, token |-> r.token] BY <2>3 DEF MessageType
    <2>5. [v EXCEPT !.token = t] = [status |-> s, key |-> r.key, token |-> t] BY <2>4
    <2>6. Outcome(p, r) = [v EXCEPT !.token = t] BY <2>1, <2>2, <2>3, <2>4 DEF Outcome
    <2>7. message' = [message EXCEPT ![m] = [status |-> s, key |-> r.key, token |-> t]]
        BY <1>1, <1>3, <2>5, <2>6
    <2> QED  BY <1>2, <2>1, <2>7
<1>4. ASSUME message' = [message EXCEPT ![m].status = "cancelled"] PROVE Writes(m, "cancelled")
    <2>1. [r EXCEPT !.status = "cancelled"] = [status |-> "cancelled", key |-> r.key, token |-> r.token]
        BY DEF MessageType
    <2>2. r.token \in {"null", "pending", "id"} BY DEF MessageType
    <2>3. message' = [message EXCEPT ![m] = [status |-> "cancelled", key |-> r.key, token |-> r.token]]
        BY <1>1, <1>4, <2>1
    <2> QED  BY <1>2, <2>2, <2>3
<1> QED  BY <1>3, <1>4

\* The queue: a message that has a job goes on having it, with what it says.
Others(q, r, m) == IsQueue(r) /\ \A n \in Messages \ {m} : (Has(r, n) <=> Has(q, n)) /\ (Has(q, n) => r[n] = q[n])
\* Adding a job under its message's id: an existing one is left alone.
LEMMA Adding ==
    ASSUME NEW q, IsQueue(q), NEW m \in Messages, NEW r, r = Add(q, m, [attempts |-> 0])
    PROVE  Others(q, r, m) /\ Has(r, m) /\ (Has(q, m) => r = q)
  BY DEF Add, Has, Others, IsQueue, SendJobType

\* A job is replaced by another record.
Sets(q, r, m, j) == Others(q, r, m) /\ Has(r, m) /\ r[m] = j
\* Replacing a job that is there touches no other.
LEMMA Setting ==
    ASSUME NEW q, IsQueue(q), NEW m \in Messages, Has(q, m), NEW j \in SendJobType, NEW r, r = [q EXCEPT ![m] = j]
    PROVE  Sets(q, r, m, j)
BY DEF Sets, Others, IsQueue, Has

\* A worker takes the job.
LEMMA Taking ==
    ASSUME NEW q, IsQueue(q), NEW m \in Messages, Has(q, m), NEW w \in SendWorkers, NEW r, r = Take(q, m, w)
    PROVE  Others(q, r, m) /\ Active(r, m) /\ r[m].holder = w
<1>1. q[m] \in SendJobType /\ m \in DOMAIN q BY DEF IsQueue, Has
<1>2. PICK x \in SendJobType : x = q[m] BY <1>1
<1>3. PICK y : y = [x EXCEPT !.state = "active"] OBVIOUS
<1>4. y = [state |-> "active", stalls |-> x.stalls, holder |-> x.holder, data |-> x.data]
    BY <1>3 DEF SendJobType
<1>5. PICK z : z = [y EXCEPT !.holder = w] OBVIOUS
<1>6. z = [state |-> "active", stalls |-> x.stalls, holder |-> w, data |-> x.data] BY <1>4, <1>5
<1>7. z \in SendJobType /\ z.state = "active" /\ z.holder = w BY <1>6 DEF SendJobType
<1>8. r = [q EXCEPT ![m] = z] BY <1>1, <1>2, <1>3, <1>5 DEF IsQueue, Take
<1>9. Sets(q, r, m, z) BY <1>7, <1>8, Setting
<1> QED  BY <1>7, <1>9 DEF Sets, Active

\* A handler that returns or throws touches its own job at most.
LEMMA Finishing ==
    ASSUME NEW q, IsQueue(q), NEW m \in Messages, NEW w \in SendWorkers, NEW how \in {"completed", "failed"},
           NEW r, r = Finish(q, m, w, how)
    PROVE  Others(q, r, m) /\ (Has(r, m) <=> Has(q, m))
<1>1. CASE Active(q, m) /\ q[m].holder = w
    <2>1. q[m] \in SendJobType /\ m \in DOMAIN q /\ Has(q, m) BY <1>1 DEF IsQueue, Has, Active
    <2>2. PICK x \in SendJobType : x = q[m] BY <2>1
    <2>3. PICK y : y = [x EXCEPT !.state = how] OBVIOUS
    <2>4. y = [state |-> how, stalls |-> x.stalls, holder |-> x.holder, data |-> x.data] BY <2>3 DEF SendJobType
    <2>5. PICK z : z = [y EXCEPT !.holder = "nobody"] OBVIOUS
    <2>6. z = [state |-> how, stalls |-> x.stalls, holder |-> "nobody", data |-> x.data] BY <2>4, <2>5
    <2>7. z \in SendJobType BY <2>6 DEF SendJobType
    <2>8. r = [q EXCEPT ![m] = z] BY <2>1, <2>2, <2>3, <1>1, <2>5 DEF IsQueue, Finish
    <2> QED  BY <2>1, <2>7, <2>8, Setting DEF Sets
<1>2. CASE ~(Active(q, m) /\ q[m].holder = w) BY <1>2 DEF Finish, Others
<1> QED  BY <1>1, <1>2

\* A retry puts the job back to wait; the job of another worker stays as it is.
LEMMA Retrying ==
    ASSUME NEW q, IsQueue(q), NEW m \in Messages, NEW w \in SendWorkers, NEW r, r = Retry(q, m, w)
    PROVE  Others(q, r, m) /\ (Has(r, m) <=> Has(q, m))
<1>1. CASE Active(q, m) /\ q[m].holder = w
    <2>1. q[m] \in SendJobType /\ m \in DOMAIN q /\ Has(q, m) BY <1>1 DEF IsQueue, Has, Active
    <2>2. PICK x \in SendJobType : x = q[m] BY <2>1
    <2>3. PICK y : y = [x EXCEPT !.state = "waiting"] OBVIOUS
    <2>4. y = [state |-> "waiting", stalls |-> x.stalls, holder |-> x.holder, data |-> x.data]
        BY <2>3 DEF SendJobType
    <2>5. PICK z : z = [y EXCEPT !.holder = "nobody"] OBVIOUS
    <2>6. z = [state |-> "waiting", stalls |-> x.stalls, holder |-> "nobody", data |-> x.data] BY <2>4, <2>5
    <2>7. PICK d \in [attempts : Nat] : d = x.data BY DEF SendJobType
    <2>8. PICK n \in Nat : n = d.attempts OBVIOUS
    <2>9. PICK k \in Nat : k = n + 1 OBVIOUS
    <2>a. PICK e : e = [d EXCEPT !.attempts = k] OBVIOUS
    <2>b. e \in [attempts : Nat] BY <2>a
    <2>c. PICK v : v = [z EXCEPT !.data = e] OBVIOUS
    <2>d. v = [state |-> "waiting", stalls |-> x.stalls, holder |-> "nobody", data |-> e] BY <2>6, <2>c
    <2>e. v \in SendJobType BY <2>b, <2>d DEF SendJobType
    <2>f. r = [q EXCEPT ![m] = v]
    BY <2>1, <2>2, <2>3, <2>5, <2>6, <2>7, <2>8, <2>9, <2>a, <2>c, <1>1 DEF IsQueue, Retry
    <2> QED  BY <2>1, <2>e, <2>f, Setting DEF Sets
<1>2. CASE ~(Active(q, m) /\ q[m].holder = w) BY <1>2 DEF Retry, Others
<1> QED  BY <1>1, <1>2

\* A job is removed.
LEMMA Discarding ==
    ASSUME NEW q, IsQueue(q), NEW m \in Messages, NEW r, r = IF Has(q, m) THEN Discard(q, m) ELSE q
    PROVE  Others(q, r, m) /\ ~Has(r, m)
  BY DEF Discard, Others, Has, IsQueue

\* A lock lapses.
LEMMA Stalling ==
    ASSUME NEW q, IsQueue(q), NEW m \in Messages, Active(q, m), NEW r, r = Stall(q, m, SendStalls)
    PROVE  Others(q, r, m) /\ Has(r, m)
<1>1. q[m] \in SendJobType /\ m \in DOMAIN q /\ Has(q, m) BY DEF IsQueue, Has, Active
<1>2. PICK x \in SendJobType : x = q[m] BY <1>1
<1>3. PICK s \in {"waiting", "failed"} : s = IF x.state = "active" /\ x.stalls < SendStalls THEN "waiting" ELSE "failed"
    OBVIOUS
<1>4. PICK y : y = [x EXCEPT !.state = s] OBVIOUS
<1>5. y = [state |-> s, stalls |-> x.stalls, holder |-> x.holder, data |-> x.data] BY <1>4 DEF SendJobType
<1>6. PICK n \in Nat : n = x.stalls BY DEF SendJobType
<1>7. PICK k \in Nat : k = n + 1 OBVIOUS
<1>8. PICK z : z = [y EXCEPT !.stalls = k] OBVIOUS
<1>9. z = [state |-> s, stalls |-> k, holder |-> x.holder, data |-> x.data] BY <1>5, <1>8
<1>a. PICK v : v = [z EXCEPT !.holder = "nobody"] OBVIOUS
<1>b. v = [state |-> s, stalls |-> k, holder |-> "nobody", data |-> x.data] BY <1>9, <1>a
<1>c. v \in SendJobType BY <1>b DEF SendJobType
<1>d. r = [q EXCEPT ![m] = v] BY <1>1, <1>2, <1>4, <1>8, <1>5, <1>6, <1>7, <1>a, <1>3 DEF IsQueue, Stall
<1> QED  BY <1>1, <1>c, <1>d, Setting DEF Sets

------------------------------------------------------------------------------
(* The kinds of step. *)

\* What is counted, what is owed and what was delivered stay in balance.
Pays(p) ==
    /\ usage' \in Nat /\ usage' + Owes(act'[p]) + delivered.all <= delivered'.all + usage + Owes(act[p])
    /\ history'.trouble = 0 => usage' + Owes(act'[p]) + delivered.all = delivered'.all + usage + Owes(act[p])
\* Actor p made a step.
Moved(p) ==
    /\ Only(p) /\ Hand(act'[p]) /\ Own(p, act'[p]) /\ Pays(p)
    /\ message' \in [Messages -> MessageType] /\ IsQueue(sendQueue') /\ delivered' \in DeliveredType
Keeps(p) == act'[p].msg = act[p].msg /\ act'[p].kind = act[p].kind /\ act'[p].key = act[p].key
\* A worker's job may be over, or wait again.
Lets(p) ==
    /\ IsQueue(sendQueue') /\ \A n \in Messages : Has(sendQueue', n) <=> Has(sendQueue, n)
    /\ \A n \in Messages : (n # act[p].msg \/ p \notin SendWorkers) /\ Has(sendQueue, n)
                            => sendQueue'[n] = sendQueue[n]

\* Only who was sending, or tried to write down what it sent, may be unsure.
Blames(p, M) == /\ M \cap {"unsure", "overlap"} # {} => act[p].pc \in Transporting
                /\ act[p].ok /\ act[p].pc = "save" /\ act[p].msg \in Messages => "unsure" \in M
\* It has no message afterwards.
Frees(p, M) ==
    /\ Moved(p) /\ act'[p].pc \in {"idle", "next", "create"} /\ UNCHANGED <<message, delivered>> /\ Lets(p)
    /\ M \subseteq SendMarks /\ Told(With(p), M) /\ Blames(p, M)
\* It makes a row...
Makes(p, m) ==
    /\ Moved(p) /\ act[p].pc = "create" /\ message[m].status = "none" /\ ~Taken(act[p].key)
    /\ act'[p].pc \in {"enqueue", "ses"} /\ act'[p].msg = m
    /\ act'[p].kind = act[p].kind /\ act'[p].key = act[p].key
    /\ \A n \in Messages \ {m} : message'[n] = message[n]
    /\ message'[m].status = IF act[p].kind = "later" THEN "scheduled" ELSE "queued"
    /\ message'[m].key = act[p].key /\ UNCHANGED <<sendQueue, delivered>> /\ Told({}, {})
\* ...or goes on without.
Blind(p, M) ==
    /\ Moved(p) /\ act[p].pc = "create" /\ act'[p].pc = "ses" /\ Keeps(p)
    /\ UNCHANGED <<message, sendQueue, delivered>>
    /\ M \subseteq SendMarks /\ "rowless" \in M /\ Told(With(p), M)
\* It enqueues its message.
Enqueues(p) ==
    /\ Moved(p) /\ act[p].pc \in {"enqueue", "requeue"} /\ act'[p].pc = "idle"
    /\ Others(sendQueue, sendQueue', act[p].msg) /\ Has(sendQueue', act[p].msg)
    /\ Has(sendQueue, act[p].msg) => sendQueue' = sendQueue
    /\ UNCHANGED <<message, delivered>> /\ Told({}, {})
\* Its mail is taken, or not, or taken without an answer.
Accepts(p) ==
    /\ Moved(p) /\ act[p].pc \in {"ses", "fallback"} /\ act'[p].pc = "save" /\ act'[p].ok /\ Keeps(p)
    /\ Posts(p) /\ UNCHANGED <<message, sendQueue>> /\ Told({}, {})
Goes(p) ==
    /\ Moved(p) /\ act'[p].pc \in Transporting /\ ~act'[p].ok /\ Keeps(p)
    /\ \/ act[p].pc \in {"ses", "fallback"}
       \/ act[p].pc = "read" /\ act[p].msg \in Messages /\ message[act[p].msg].status = "scheduled"
    /\ UNCHANGED <<message, sendQueue, delivered>> /\ Told({}, {})
Loses(p, M) ==
    /\ Moved(p) /\ act[p].pc \in {"ses", "fallback"} /\ ~act'[p].ok
    /\ act'[p].pc \in {"idle", "next"} \/ (act'[p].pc \in {"fallback", "save"} /\ Keeps(p))
    /\ Posts(p) /\ UNCHANGED <<message, sendQueue>>
    /\ M \subseteq SendMarks /\ "unsure" \in M /\ Told(With(p), M)
\* It writes what became of the mail.
Saves(p) ==
    /\ Moved(p) /\ act[p].pc = "save" /\ act[p].msg \in Messages
    /\ Writes(act[p].msg, IF act[p].ok THEN "sent" ELSE "failed")
    /\ act'[p].pc \in {"idle", "next"} \/ (act'[p].pc = "end" /\ Keeps(p) /\ act'[p].ok = act[p].ok)
    /\ UNCHANGED <<sendQueue, delivered>> /\ Told({}, {})
\* A worker takes a message, a request one that is scheduled.
Picks(w, m) ==
    /\ Moved(w) /\ act[w].pc = "idle" /\ Waiting(sendQueue, m)
    /\ act'[w].pc = "read" /\ act'[w].msg = m /\ act'[w].key = message[m].key
    /\ Others(sendQueue, sendQueue', m) /\ Active(sendQueue', m) /\ sendQueue'[m].holder = w
    /\ UNCHANGED <<message, delivered>> /\ Told({}, {})
Opens(p, m) ==
    /\ Moved(p) /\ act[p].pc = "idle" /\ message[m].status = "scheduled"
    /\ act'[p].pc = "remove" /\ act'[p].msg = m /\ act'[p].key = NoKey
    /\ UNCHANGED <<message, sendQueue, delivered>> /\ Told({}, {})
\* A request removes the job.
Removes(p, M) ==
    /\ Moved(p) /\ act[p].pc = "remove" /\ act[p].msg \in Messages /\ ~Locked(act[p].msg) /\ Keeps(p)
    /\ Others(sendQueue, sendQueue', act[p].msg) /\ ~Has(sendQueue', act[p].msg)
    /\ act'[p].pc = "cancelled" \/ (act'[p].pc = "requeue" /\ Has(sendQueue, act[p].msg))
    /\ act'[p].pc = "cancelled" /\ "late" \notin M =>
          Waiting(sendQueue, act[p].msg) /\ message[act[p].msg].status = "scheduled"
    /\ UNCHANGED <<message, delivered>> /\ M \subseteq {"late"} /\ Told({act[p].msg}, M)
Cancelling(p) ==
    /\ Moved(p) /\ act[p].pc = "cancelled" /\ act'[p].pc = "idle"
    /\ act[p].msg \in Messages /\ Writes(act[p].msg, "cancelled")
    /\ UNCHANGED <<sendQueue, delivered>> /\ Told({}, {})
\* A lock lapses.
Lapses(m, M) ==
    /\ Active(sendQueue, m) /\ Others(sendQueue, sendQueue', m) /\ Has(sendQueue', m)
    /\ UNCHANGED <<message, act, usage, delivered>>
    /\ M \subseteq SendMarks /\ (Locked(m) => "overlap" \in M)
    /\ Told({m, message[m].key} \cap (Messages \cup Keys), M)

\* The hand of an actor.
LEMMA Hands ==
    ASSUME TypeInv, HandInv, NEW p \in Actors PROVE act[p] \in ActType /\ Hand(act[p]) /\ Own(p, act[p])
BY DEF TypeInv, HandInv

\* Marks that are none may be put on anything.
LEMMA NoMarks == ASSUME NEW X, NEW Y, Told(X, {}) PROVE Told(Y, {})
BY DEF Told

\* Who does not touch the queue lets it be.
LEMMA LetBe == ASSUME TypeInv, NEW p, sendQueue' = sendQueue PROVE Lets(p)
BY DEF Lets, TypeInv

\* Nor does a worker that finishes its job or throws touch any other.
LEMMA LetGo ==
    ASSUME NEW w \in SendWorkers, Others(sendQueue, sendQueue', act[w].msg),
           Has(sendQueue', act[w].msg) <=> Has(sendQueue, act[w].msg)
    PROVE  Lets(w)
BY DEF Lets, Others

\* Nothing is delivered and nothing counted.
LEMMA Even ==
    ASSUME TypeInv, NEW p \in Actors, UNCHANGED <<usage, delivered>>, act'[p] \in ActType,
           history' \in HistoryType,
           \/ Owes(act'[p]) = Owes(act[p])
           \/ Owes(act'[p]) <= Owes(act[p]) /\ history'.trouble > 0
    PROVE  Pays(p)
  BY DEF TypeInv, ActType, Owes, DeliveredType, HistoryType, Pays


\* What an idle actor begins with: a request, a job and a change.
LEMMA NewRequests ==
    ASSUME NEW pc, NEW kind, NEW key, NEW t
    PROVE  [NoAct EXCEPT !.pc = pc, !.kind = kind, !.key = key, !.tracked = t] =
              Slot(pc, kind, NoMsg, key, t, FALSE, 0)
<1>1. PICK f \in BOOLEAN : f = FALSE OBVIOUS
<1>2. NoAct = Slot("idle", "none", NoMsg, NoKey, f, f, 0) BY <1>1, Zenon DEF NoAct, Slot
<1>3. PICK u : u = [NoAct EXCEPT !.pc = pc] OBVIOUS
<1>4. u = Slot(pc, "none", NoMsg, NoKey, f, f, 0) BY <1>2, <1>3 DEF Slot
<1>5. PICK v : v = [u EXCEPT !.kind = kind] OBVIOUS
<1>6. v = Slot(pc, kind, NoMsg, NoKey, f, f, 0) BY <1>4, <1>5 DEF Slot
<1>7. PICK w : w = [v EXCEPT !.key = key] OBVIOUS
<1>8. w = Slot(pc, kind, NoMsg, key, f, f, 0) BY <1>6, <1>7 DEF Slot
<1>9. PICK y : y = [w EXCEPT !.tracked = t] OBVIOUS
<1>10. y = Slot(pc, kind, NoMsg, key, t, f, 0) BY <1>8, <1>9 DEF Slot
<1> QED  BY <1>1, <1>3, <1>5, <1>7, <1>9, <1>10, Zenon
\* The record of an actor that starts on a message with its key.
LEMMA NewJobs ==
    ASSUME NEW pc, NEW kind, NEW msg, NEW key
    PROVE  [NoAct EXCEPT !.pc = pc, !.kind = kind, !.msg = msg, !.key = key] =
              Slot(pc, kind, msg, key, FALSE, FALSE, 0)
<1>1. PICK f \in BOOLEAN : f = FALSE OBVIOUS
<1>2. NoAct = Slot("idle", "none", NoMsg, NoKey, f, f, 0) BY <1>1, Zenon DEF NoAct, Slot
<1>3. PICK u : u = [NoAct EXCEPT !.pc = pc] OBVIOUS
<1>4. u = Slot(pc, "none", NoMsg, NoKey, f, f, 0) BY <1>2, <1>3 DEF Slot
<1>5. PICK v : v = [u EXCEPT !.kind = kind] OBVIOUS
<1>6. v = Slot(pc, kind, NoMsg, NoKey, f, f, 0) BY <1>4, <1>5 DEF Slot
<1>7. PICK w : w = [v EXCEPT !.msg = msg] OBVIOUS
<1>8. w = Slot(pc, kind, msg, NoKey, f, f, 0) BY <1>6, <1>7 DEF Slot
<1>9. PICK y : y = [w EXCEPT !.key = key] OBVIOUS
<1>10. y = Slot(pc, kind, msg, key, f, f, 0) BY <1>8, <1>9 DEF Slot
<1> QED  BY <1>1, <1>3, <1>5, <1>7, <1>9, <1>10, Zenon
\* The record of an actor that starts to change a message.
LEMMA NewChanges ==
    ASSUME NEW pc, NEW kind, NEW msg
    PROVE  [NoAct EXCEPT !.pc = pc, !.kind = kind, !.msg = msg] =
              Slot(pc, kind, msg, NoKey, FALSE, FALSE, 0)
<1>1. PICK f \in BOOLEAN : f = FALSE OBVIOUS
<1>2. NoAct = Slot("idle", "none", NoMsg, NoKey, f, f, 0) BY <1>1, Zenon DEF NoAct, Slot
<1>3. PICK u : u = [NoAct EXCEPT !.pc = pc] OBVIOUS
<1>4. u = Slot(pc, "none", NoMsg, NoKey, f, f, 0) BY <1>2, <1>3 DEF Slot
<1>5. PICK v : v = [u EXCEPT !.kind = kind] OBVIOUS
<1>6. v = Slot(pc, kind, NoMsg, NoKey, f, f, 0) BY <1>4, <1>5 DEF Slot
<1>7. PICK w : w = [v EXCEPT !.msg = msg] OBVIOUS
<1>8. w = Slot(pc, kind, msg, NoKey, f, f, 0) BY <1>6, <1>7 DEF Slot
<1> QED  BY <1>1, <1>3, <1>5, <1>7, <1>8, Zenon

\* A request, a change and a job begin with these.
LEMMA Fresh ==
    ASSUME act \in [Actors -> ActType], NEW p \in Actors, NEW pc \in Places,
           NEW kind \in {"now", "later", "batch", "job", "patch", "cancel"},
           NEW msg \in Messages \cup {NoMsg}, NEW key \in Keys \cup {NoKey}, NEW t \in BOOLEAN
    PROVE  /\ act' = [act EXCEPT ![p] = [NoAct EXCEPT !.pc = pc, !.kind = kind, !.key = key, !.tracked = t]] =>
                 Turns(p, pc, kind, NoMsg, key, FALSE, 0)
           /\ act' = [act EXCEPT ![p] = [NoAct EXCEPT !.pc = pc, !.kind = kind, !.msg = msg, !.key = key]] =>
                 Turns(p, pc, kind, msg, key, FALSE, 0)
           /\ act' = [act EXCEPT ![p] = [NoAct EXCEPT !.pc = pc, !.kind = kind, !.msg = msg]] =>
                 Turns(p, pc, kind, msg, NoKey, FALSE, 0)
<1>1. ASSUME NEW h \in Messages \cup {NoMsg}, NEW k \in Keys \cup {NoKey}, NEW b \in BOOLEAN,
             act' = [act EXCEPT ![p] = Slot(pc, kind, h, k, b, FALSE, 0)]
      PROVE  Turns(p, pc, kind, h, k, FALSE, 0)
    <2>1. PICK y : y = Slot(pc, kind, h, k, b, FALSE, 0) OBVIOUS
    <2>2. y \in ActType BY <2>1 DEF Slot, ActType, Places
    <2>3. act' = [act EXCEPT ![p] = y] BY <1>1, <2>1, Zenon
    <2>4. Turns(p, y.pc, y.kind, y.msg, y.key, y.ok, y.sent) BY <2>2, <2>3, Turning
    <2>5. y.pc = pc /\ y.kind = kind /\ y.msg = h /\ y.key = k /\ y.ok = FALSE /\ y.sent = 0 BY <2>1 DEF Slot
    <2> QED  BY <2>4, <2>5, Zenon
<1>2. PICK f \in BOOLEAN : f = FALSE OBVIOUS
<1>3. ASSUME act' = [act EXCEPT ![p] = [NoAct EXCEPT !.pc = pc, !.kind = kind, !.key = key, !.tracked = t]]
      PROVE  Turns(p, pc, kind, NoMsg, key, FALSE, 0)
    <2>1. [NoAct EXCEPT !.pc = pc, !.kind = kind, !.key = key, !.tracked = t] = Slot(pc, kind, NoMsg, key, t, FALSE, 0)
        BY NewRequests, Zenon
    <2>2. act' = [act EXCEPT ![p] = Slot(pc, kind, NoMsg, key, t, FALSE, 0)] BY <1>3, <2>1, Zenon
    <2>3. NoMsg \in Messages \cup {NoMsg} OBVIOUS
    <2> QED  BY <1>1, <2>2, <2>3, Zenon
<1>4. ASSUME act' = [act EXCEPT ![p] = [NoAct EXCEPT !.pc = pc, !.kind = kind, !.msg = msg, !.key = key]]
      PROVE  Turns(p, pc, kind, msg, key, FALSE, 0)
  BY NewJobs, Zenon, <1>4, <1>2, <1>1
<1>5. ASSUME act' = [act EXCEPT ![p] = [NoAct EXCEPT !.pc = pc, !.kind = kind, !.msg = msg]]
      PROVE  Turns(p, pc, kind, msg, NoKey, FALSE, 0)
  BY NewChanges, Zenon, <1>5, <1>2, <1>1
<1> QED  BY <1>3, <1>4, <1>5, Zenon

\* No mark is put where none is named.
LEMMA Unmarked ==
    ASSUME TypeInv, NEW X, history' = history \/ NewRequest PROVE Told(X, {}) /\ history' \in HistoryType
  BY Marking DEF TypeInv, Told

\* A handler that ends, or goes on with the next item of its batch.
LEMMA Ending ==
    ASSUME TypeInv, HandInv, NEW p \in Actors, NEW M \in SUBSET SendMarks, Return(p) \/ ItemOver(p),
           UNCHANGED <<message, delivered>>, Lets(p), Told(With(p), M), Blames(p, M),
           \/ usage' = usage + Owes(act[p]) /\ Return(p)
           \/ usage' = usage /\ \/ history'.trouble > 0
                                \/ ~act[p].ok /\ (act[p].kind = "batch" => ItemOver(p))
    PROVE  Frees(p, M)
<1>1. PICK x \in ActType : x = act[p] /\ Hand(x) /\ Own(p, x) BY Hands
<1>2. act \in [Actors -> ActType] BY DEF TypeInv
<1>3. \/ Turns(p, "idle", "none", NoMsg, NoKey, FALSE, 0)
      \/ ItemOver(p) /\ x.kind = "batch" /\ Turns(p, "next", "batch", NoMsg, NoKey, FALSE, x.sent)
  BY <1>2, Going, <1>1, Passing DEF Places
<1>4. act'[p] \in ActType /\ Hand(act'[p]) /\ Own(p, act'[p]) /\ Only(p)
  BY <1>1, <1>3 DEF Turns, Only, Hand, Kinds, Own
<1>5. PICK n \in Nat : n = Owes(x) BY DEF ActType, Owes
<1>6. PICK k \in Nat : k = x.sent /\ n = k + IF x.ok THEN 1 ELSE 0 BY <1>5 DEF ActType, Owes
<1>7. \/ Owes(act'[p]) = 0
      \/ x.kind = "batch" /\ ItemOver(p) /\ Owes(act'[p]) = k
    BY <1>3, <1>6 DEF Turns, Owes
<1>8. history' \in HistoryType BY DEF Told
<1>9. Pays(p)
    <2>1. CASE usage' = usage + n /\ Return(p)
        <3>1. Owes(act'[p]) = 0
            <4>1. Turns(p, "idle", "none", NoMsg, NoKey, FALSE, 0) BY <1>2, <2>1, Going DEF Places
            <4> QED  BY <4>1 DEF Turns, Owes
        <3>2. PICK u \in Nat : u = usage BY DEF TypeInv
        <3>3. PICK d \in Nat : d = delivered.all BY DEF TypeInv, DeliveredType
        <3>4. usage' \in Nat /\ usage' = u + n BY <2>1, <3>2
        <3> QED  BY <1>1, <1>5, <3>1, <3>2, <3>3, <3>4 DEF Pays
    <2>2. CASE usage' = usage /\ history'.trouble > 0 BY <1>6, <1>7, <1>1, <1>4, <1>5, <1>8, <2>2, Even
    <2>3. CASE usage' = usage /\ ~x.ok /\ (x.kind = "batch" => ItemOver(p))
        <3>1. Owes(act'[p]) = n
            <4>1. CASE x.kind = "batch" BY <2>3, <4>1, <1>1, <1>2, <1>6, Passing DEF Turns, Owes
            <4>2. CASE x.kind # "batch" BY <1>1, <1>6, <4>2, <1>7, <2>3 DEF Hand
            <4> QED  BY <4>1, <4>2
        <3> QED  BY <1>1, <1>4, <1>5, <1>8, <2>3, <3>1, Even
    <2> QED  BY <1>1, <1>5, <2>1, <2>2, <2>3
<1>10. Moved(p) BY <1>4, <1>9 DEF Moved, TypeInv, Lets
<1>11. act'[p].pc \in {"idle", "next", "create"} BY <1>3 DEF Turns
<1> QED  BY <1>10, <1>11 DEF Frees

\* Nobody is to blame where nothing went wrong.
LEMMA Blameless ==
    ASSUME NEW p, ~(act[p].ok /\ act[p].pc = "save" /\ act[p].msg \in Messages), NEW M, M \cap {"unsure", "overlap"} = {}
    PROVE  Blames(p, M)
BY DEF Blames

------------------------------------------------------------------------------
(* Every action is a step of one of these kinds. *)

\* A request that looks for its key has no message yet.
LEMMA Starting ==
    ASSUME TypeInv, HandInv, NEW c \in Senders, NEW k \in Keys \cup {NoKey}, NEW kind \in {"now", "later"},
           NEW t \in BOOLEAN, BeginSend(c, kind, k, t) \/ BeginBatch(c, k) \/ NextItem(c, k)
    PROVE  Frees(c, {})
<1>1. PICK x \in ActType : x = act[c] /\ Hand(x) /\ Own(c, x) BY Hands DEF Actors
<1>2. c \in Actors /\ c \notin SendWorkers BY SendAssumption DEF Actors
<1>3. UNCHANGED <<message, sendQueue, usage, delivered>> /\ NewRequest BY DEF BeginSend, BeginBatch, NextItem
<1>4. Told(With(c), {}) /\ history' \in HistoryType BY <1>3, Unmarked
<1>5. x.pc \in {"idle", "next"} BY <1>1 DEF BeginSend, BeginBatch, NextItem, ActAt
<1>6. x.msg = NoMsg /\ ~x.ok /\ (x.kind # "batch" => x.sent = 0) /\ x.sent \in Nat
    BY <1>1, <1>5 DEF Hand, ActType
<1>7. \E j \in {"now", "later", "batch"} :
         /\ j = "batch" \/ x.sent = 0
         /\ Turns(c, "create", j, NoMsg, k, FALSE, x.sent)
    <2>0. act \in [Actors -> ActType] BY DEF TypeInv
    <2>a. "create" \in Places /\ NoMsg \in Messages \cup {NoMsg} BY DEF Places
    <2>1. CASE BeginSend(c, kind, k, t)
        <3>1. x.kind = "none" BY <1>1, <2>1 DEF BeginSend, ActAt, Hand, Kinds
        <3>2. act' = [act EXCEPT ![c] = [NoAct EXCEPT !.pc = "create", !.kind = kind, !.key = k, !.tracked = t]]
            BY <2>1 DEF BeginSend
        <3>3. Turns(c, "create", kind, NoMsg, k, FALSE, 0) BY <1>2, <2>0, <2>a, <3>2, Fresh
        <3> QED  BY <1>6, <3>1, <3>3
    <2>2. CASE BeginBatch(c, k)
        <3>t. PICK b \in BOOLEAN : b = TRUE OBVIOUS
        <3>1. x.kind = "none" BY <1>1, <2>2 DEF BeginBatch, ActAt, Hand, Kinds
        <3>2. act' = [act EXCEPT ![c] = [NoAct EXCEPT !.pc = "create", !.kind = "batch", !.key = k, !.tracked = b]]
            BY <2>2, <3>t, Zenon DEF BeginBatch
        <3>3. Turns(c, "create", "batch", NoMsg, k, FALSE, 0) BY <1>2, <2>0, <2>a, <3>2, Fresh
        <3> QED  BY <1>6, <3>1, <3>3
    <2>3. CASE NextItem(c, k)
        <3>t. PICK b \in BOOLEAN : b = TRUE OBVIOUS
        <3>1. PICK y : y = Slot("create", x.kind, x.msg, k, b, x.ok, x.sent) OBVIOUS
        <3>2. y \in ActType BY <3>1 DEF Slot, ActType
        <3>3. act' = [act EXCEPT ![c] = y]
            <4>1. act' = [act EXCEPT ![c].pc = "create", ![c].key = k, ![c].tracked = b]
                BY <2>3, <3>t, Zenon DEF NextItem
            <4>2. PICK u : u = [x EXCEPT !.pc = "create"] OBVIOUS
            <4>3. u = Slot("create", x.kind, x.msg, x.key, x.tracked, x.ok, x.sent) BY <4>2, Puts
            <4>4. PICK v : v = [u EXCEPT !.key = k] OBVIOUS
            <4>5. v = Slot("create", x.kind, x.msg, k, x.tracked, x.ok, x.sent) BY <4>3, <4>4 DEF Slot
            <4>6. [v EXCEPT !.tracked = b] = y BY <3>1, <4>5 DEF Slot
            <4>7. [act EXCEPT ![c].pc = "create"] = [act EXCEPT ![c] = u] BY <1>1, <1>2, <4>2
            <4>8. [act EXCEPT ![c].pc = "create", ![c].key = k] = [act EXCEPT ![c] = v]
                BY <1>2, <2>0, <4>4, <4>7
            <4> QED  BY <1>2, <2>0, <4>1, <4>6, <4>8
        <3>4. Turns(c, "create", x.kind, x.msg, k, x.ok, x.sent)
            BY <1>2, <2>0, <3>1, <3>2, <3>3, Turning DEF Slot
        <3>5. x.kind = "batch" /\ x.ok = FALSE BY <1>1, <1>6, <2>3 DEF NextItem, ActAt, Hand, Kinds, ActType
        <3> QED  BY <1>6, <3>4, <3>5, Zenon
    <2> QED  BY <2>1, <2>2, <2>3
<1>8. PICK j \in {"now", "later", "batch"} :
         /\ j = "batch" \/ x.sent = 0
         /\ Turns(c, "create", j, NoMsg, k, FALSE, x.sent)
    BY <1>7
<1>9. act'[c] \in ActType /\ Hand(act'[c]) /\ Own(c, act'[c]) BY <1>2, <1>8 DEF Turns, Only, Hand, Kinds, Own
<1>10. Owes(act'[c]) = Owes(act[c]) BY <1>1, <1>6, <1>8 DEF Turns, Owes
<1>11. Pays(c) BY <1>2, <1>3, <1>4, <1>9, <1>10, Even
<1>12. Lets(c) /\ Blames(c, {}) BY <1>1, <1>3, <1>6, LetBe DEF Blames
<1>13. Moved(c) BY <1>3, <1>8, <1>9, <1>11, <1>12 DEF Moved, Turns, TypeInv, Lets
<1> QED  BY <1>3, <1>4, <1>8, <1>12, <1>13 DEF Frees, Turns

\* What is put down where nothing, or something, went wrong.
LEMMA Noted ==
    ASSUME TypeInv, NEW X, NEW M \in SUBSET SendMarks
    PROVE  /\ history' = history => Told(X, {})
           /\ history' = Marred(X, M) => Told(X, M)
           /\ SendTrouble(X, M) => Told(X, M) /\ history'.trouble > 0
  BY Marking DEF TypeInv

\* The requests that end, or give up, where nothing was sent.
LEMMA Closing ==
    ASSUME TypeInv, HandInv, NEW c \in Senders,
           \/ EndBatch(c) \/ Forbidden(c) \/ RemoveThrows(c)
           \/ NoRowMade(c) /\ act[c].kind # "now"
           \/ RemoveJob(c) /\ act[c].kind = "patch" /\ ~Has(sendQueue, act[c].msg)
    PROVE  Frees(c, {})
<1>1. PICK x \in ActType : x = act[c] /\ Hand(x) BY Hands DEF Actors
<1>2. c \in Actors /\ {} \in SUBSET SendMarks /\ {} \cap {"unsure", "overlap"} = {} BY DEF Actors
<1>3. UNCHANGED <<message, sendQueue, delivered>>
    BY DEF EndBatch, Forbidden, RemoveThrows, NoRowMade, RemoveJob, ItemOver
<1>4. Lets(c) BY <1>3, LetBe
<1>5. x.pc \in {"next", "create", "remove"} /\ ~x.ok
    BY <1>1 DEF EndBatch, Forbidden, RemoveThrows, NoRowMade, RemoveJob, ActAt, Hand
<1>6. Blames(c, {}) BY <1>1, <1>2, <1>5, Blameless
<1>7. Told(With(c), {})
  BY <1>2, Noted, <1>1, NoMarks DEF NoRowMade, Kind, RemoveJob, EndBatch, Forbidden, RemoveThrows
<1>8. \/ Return(c) /\ usage' = usage + Owes(x)
      \/ usage' = usage /\ (Return(c) \/ ItemOver(c)) /\ (x.kind = "batch" => ItemOver(c))
    <2>1. CASE EndBatch(c) BY <1>5, <1>1, <2>1 DEF ActType, Owes, EndBatch
    <2>2. CASE Forbidden(c) \/ (NoRowMade(c) /\ x.kind # "now") BY <1>1, <2>2 DEF Forbidden, NoRowMade, Kind
    <2>3. CASE RemoveThrows(c) BY <1>1, <2>3 DEF RemoveThrows, ActAt, Hand, Kinds
    <2>4. CASE RemoveJob(c) /\ x.kind = "patch" /\ ~Has(sendQueue, x.msg) BY <1>1, <2>4 DEF RemoveJob, Kind
    <2> QED  BY <1>1, <2>1, <2>2, <2>3, <2>4
<1> QED  BY <1>1, <1>2, <1>3, <1>4, <1>5, <1>6, <1>7, <1>8, Ending

\* A batch leaves a message that SES refused.
LEMMA Leaving ==
    ASSUME TypeInv, HandInv, NEW p \in Actors, SesRefuses(p), act[p].kind = "batch" PROVE Frees(p, {"left"})
  BY Hands, LetBe, Blameless, Noted, Ending DEF SendMarks, SesRefuses, Refused, Kind, ActAt, Hand

\* A request or a worker dies.
LEMMA Dying ==
    ASSUME TypeInv, HandInv, NEW p \in Actors, CallerDies(p) \/ SendWorkerCrash(p)
    PROVE  \E M \in SUBSET SendMarks : Frees(p, M)
  BY Hands, Noted, LetBe, Ending DEF CallerDies, SendWorkerCrash, Harm, SendMarks, ActAt, Blames, Transporting

\* A worker that throws, or is done, ends with its own job only.
LEMMA Throwing ==
    ASSUME TypeInv, HandInv, NEW w \in SendWorkers, act[w].msg \in Messages,
           \/ ThrowSend(w)
           \/ Return(w) /\ sendQueue' = Finish(sendQueue, act[w].msg, w, "completed")
    PROVE  Lets(w) /\ Return(w)
  BY Retrying, Finishing, LetGo DEF TypeInv, ThrowSend

\* A job that is over, or could not begin.
LEMMA Handling ==
    ASSUME TypeInv, HandInv, NEW w \in SendWorkers,
           \/ EndJob(w) \/ ReadFails(w)
           \/ ReadMessage(w) /\ ~StillScheduled(act[w].msg)
    PROVE  \E M \in SUBSET SendMarks : Frees(w, M)
  BY Hands, Throwing, Noted, Blameless, Ending DEF Actors, EndJob, ReadFails, ReadMessage, ActAt, Hand, Kinds,
     Transporting, Owes, Charge, SendMarks

\* The update of the row fails.
LEMMA Unsaved ==
    ASSUME TypeInv, HandInv, NEW p \in Actors, SaveFails(p) PROVE \E M \in SUBSET SendMarks : Frees(p, M)
<1>1. PICK x \in ActType : x = act[p] /\ Hand(x) /\ Own(p, x) BY Hands
<1>2. {} \in SUBSET SendMarks OBVIOUS
<1>3. x.pc = "save" /\ UNCHANGED <<message, delivered>> /\ x.kind \in {"now", "batch", "job"}
    BY <1>1 DEF SaveFails, ActAt, Hand, Kinds
<1>4. PICK M \in SUBSET SendMarks :
         /\ IF x.msg = NoMsg THEN M = {} /\ history' = history ELSE SendTrouble(With(p), M)
         /\ x.msg \in Messages => "overlap" \notin M /\ ("unsure" \in M <=> x.ok)
    <2>1. CASE x.msg = NoMsg BY <1>1, <2>1, <1>2, SendAssumption DEF SaveFails
    <2>2. CASE x.msg # NoMsg BY <1>1, <2>2 DEF SendMarks, SaveFails
    <2> QED  BY <2>1, <2>2
<1>5. Told(With(p), M) /\ (x.msg # NoMsg => history'.trouble > 0) BY <1>2, <1>4, Noted
<1>6. Blames(p, M) BY <1>1, <1>3, <1>4, SendAssumption DEF Blames, Transporting
<1>7. CASE x.kind = "now"
  BY <1>1, <1>7, LetBe, <1>3, <1>5, <1>6, Ending DEF SaveFails, Kind, AfterSave, Hand, Owes, Charge
<1>8. CASE x.kind = "batch"
  BY <1>1, <1>8, LetBe, <1>3, SendAssumption, <1>5, <1>6, Ending DEF SaveFails, Kind, Hand
<1>9. CASE x.kind = "job"
  BY <1>1, <1>9, <1>3, Throwing, SendAssumption, <1>5, <1>6, Ending DEF SaveFails, Kind, Own, Hand
<1> QED  BY <1>3, <1>7, <1>8, <1>9

\* A step that sends and counts nothing.
LEMMA Moving ==
    ASSUME TypeInv, NEW p \in Actors, Only(p), Hand(act'[p]), Own(p, act'[p]), UNCHANGED <<usage, delivered>>,
           message' \in [Messages -> MessageType], IsQueue(sendQueue'), history' \in HistoryType,
           Owes(act'[p]) = Owes(act[p])
    PROVE  Moved(p)
  BY Even DEF Only, TypeInv, Moved

\* The row is made.
LEMMA Creating ==
    ASSUME TypeInv, HandInv, NEW c \in Senders, NEW m \in Messages, CreateRow(c, m) PROVE Makes(c, m)
<1>1. PICK x \in ActType : x = act[c] /\ Hand(x) /\ Own(c, x) BY Hands DEF Actors
<1>2. c \in Actors /\ c \notin SendWorkers /\ act \in [Actors -> ActType] /\ message \in [Messages -> MessageType]
    BY SendAssumption DEF Actors, TypeInv
<1>3. x.pc = "create" /\ x.kind \in {"now", "later", "batch"} /\ ~x.ok BY <1>1 DEF CreateRow, ActAt, Hand, Kinds
<1>4. PICK pc \in Places : pc = IF x.kind = "later" THEN "enqueue" ELSE "ses" BY DEF Places
<1>5. Turns(c, pc, x.kind, m, x.key, x.ok, x.sent)
    <2>1. PICK u : u = [x EXCEPT !.msg = m] OBVIOUS
    <2>2. u = Slot(x.pc, x.kind, m, x.key, x.tracked, x.ok, x.sent) BY <2>1 DEF Slot, ActType
    <2>3. PICK y : y = [u EXCEPT !.pc = pc] OBVIOUS
    <2>4. y = Slot(pc, x.kind, m, x.key, x.tracked, x.ok, x.sent) BY <2>2, <2>3 DEF Slot
    <2>5. y \in ActType BY <2>4 DEF Slot, ActType, Places
    <2>6. act' = [act EXCEPT ![c].msg = m, ![c].pc = pc] BY <1>1, <1>4 DEF CreateRow, Kind
    <2>7. [act EXCEPT ![c].msg = m] = [act EXCEPT ![c] = u] BY <1>1, <1>2, <2>1
    <2>8. act' = [act EXCEPT ![c] = y] BY <1>2, <2>3, <2>6, <2>7
    <2> QED  BY <1>2, <2>4, <2>5, <2>8, Turning DEF Slot
<1>6. /\ \A n \in Messages \ {m} : message'[n] = message[n]
      /\ message'[m].status = IF x.kind = "later" THEN "scheduled" ELSE "queued"
      /\ message'[m].key = x.key /\ message' \in [Messages -> MessageType]
  BY <1>1, <1>2 DEF MessageType, ActType, Token, CreateRow, Kind
<1>7. Told({}, {}) /\ history' \in HistoryType BY Unmarked DEF CreateRow
<1>8. Only(c) /\ Hand(act'[c]) /\ Own(c, act'[c]) BY <1>1, <1>2, <1>3, <1>4, <1>5 DEF Turns, Hand, Kinds, Own
<1>9. Owes(act'[c]) = Owes(act[c]) BY <1>1, <1>5 DEF Turns, Owes
<1>10. UNCHANGED <<sendQueue, usage, delivered>> /\ ~Taken(act[c].key) /\ message[m].status = "none"
    BY DEF CreateRow, Conflict
<1>11. Moved(c) BY <1>2, <1>6, <1>7, <1>8, <1>9, <1>10, Moving DEF TypeInv
<1>12. act[c].pc = "create" /\ act'[c].pc \in {"enqueue", "ses"} /\ act'[c].msg = m
    BY <1>1, <1>3, <1>4, <1>5 DEF Turns
<1>13. act'[c].kind = act[c].kind /\ act'[c].key = act[c].key BY <1>1, <1>5 DEF Turns
<1> QED  BY <1>1, <1>6, <1>7, <1>10, <1>11, <1>12, <1>13 DEF Makes

\* POST /send goes on without a row.
LEMMA Losing ==
    ASSUME TypeInv, HandInv, NEW c \in Senders, NoRowMade(c), act[c].kind = "now" PROVE Blind(c, {"rowless"})
<1>1. PICK x \in ActType : x = act[c] /\ Hand(x) /\ Own(c, x) BY Hands DEF Actors
<1>2. c \in Actors /\ c \notin SendWorkers /\ act \in [Actors -> ActType] BY SendAssumption DEF Actors, TypeInv
<1>3. x.pc = "create" /\ x.kind = "now" /\ ~x.ok /\ x.msg = NoMsg BY <1>1 DEF NoRowMade, ActAt, Hand
<1>4. Goto(c, "ses") /\ UNCHANGED <<message, sendQueue, usage, delivered>> BY <1>1, <1>3 DEF NoRowMade, Kind
<1>5. Turns(c, "ses", x.kind, x.msg, x.key, x.ok, x.sent) BY <1>1, <1>2, <1>4, Going DEF Places
<1>6. {"rowless"} \in SUBSET SendMarks BY DEF SendMarks
<1>7. Told(With(c), {"rowless"}) BY <1>1, <1>3, <1>6, Noted DEF NoRowMade, Kind
<1>8. Only(c) /\ Hand(act'[c]) /\ Own(c, act'[c])
    BY <1>1, <1>2, <1>3, <1>5 DEF Turns, Hand, Kinds, Own, Transporting
<1>9. Owes(act'[c]) = Owes(act[c]) BY <1>1, <1>5 DEF Turns, Owes
<1>10. Moved(c) BY <1>2, <1>4, <1>7, <1>8, <1>9, Moving DEF TypeInv, Told
<1>11. Keeps(c) /\ act[c].pc = "create" /\ act'[c].pc = "ses" BY <1>1, <1>3, <1>5 DEF Turns, Keeps
<1> QED  BY <1>4, <1>6, <1>7, <1>10, <1>11 DEF Blind

\* The message is enqueued.
LEMMA Enqueuing ==
    ASSUME TypeInv, HandInv, NEW c \in Senders, EnqueueSend(c) \/ Requeue(c) PROVE Enqueues(c)
<1>1. PICK x \in ActType : x = act[c] /\ Hand(x) /\ Own(c, x) BY Hands DEF Actors
<1>2. c \in Actors /\ act \in [Actors -> ActType] /\ IsQueue(sendQueue) BY DEF Actors, TypeInv
<1>3. x.pc \in {"enqueue", "requeue"} /\ x.kind \in {"later", "patch"} /\ ~x.ok /\ x.msg \in Messages /\ x.sent = 0
    BY <1>1 DEF EnqueueSend, Requeue, ActAt, Hand, Kinds
<1>4. /\ Return(c) /\ UNCHANGED <<message, usage, delivered, history>>
      /\ sendQueue' = Add(sendQueue, x.msg, [attempts |-> 0])
    BY <1>1 DEF EnqueueSend, Requeue
<1>5. Turns(c, "idle", "none", NoMsg, NoKey, FALSE, 0) BY <1>2, <1>4, Going DEF Places
<1>6. Others(sendQueue, sendQueue', x.msg) /\ Has(sendQueue', x.msg) /\ (Has(sendQueue, x.msg) => sendQueue' = sendQueue)
    BY <1>2, <1>3, <1>4, Adding
<1>7. Told({}, {}) /\ history' \in HistoryType BY <1>4, Unmarked
<1>8. Only(c) /\ Hand(act'[c]) /\ Own(c, act'[c]) BY <1>5 DEF Turns, Hand, Kinds, Own
<1>9. Owes(act'[c]) = Owes(act[c]) BY <1>1, <1>3, <1>5 DEF Turns, Owes
<1>10. IsQueue(sendQueue') BY <1>6 DEF Others
<1>11. Moved(c) BY <1>2, <1>4, <1>7, <1>8, <1>9, <1>10, Moving DEF TypeInv
<1>12. act[c].pc \in {"enqueue", "requeue"} /\ act'[c].pc = "idle" BY <1>1, <1>3, <1>5 DEF Turns
<1> QED  BY <1>1, <1>4, <1>6, <1>7, <1>11, <1>12 DEF Enqueues

\* A provider takes the mail.
LEMMA Accepting ==
    ASSUME TypeInv, HandInv, NEW p \in Actors, SesAccepts(p) \/ FallbackAccepts(p) PROVE Accepts(p)
<1>1. PICK x \in ActType : x = act[p] /\ Hand(x) /\ Own(p, x) BY Hands
<1>2. act \in [Actors -> ActType] /\ delivered \in DeliveredType BY DEF TypeInv
<1>3. x.pc \in {"ses", "fallback"} /\ ~x.ok /\ x.kind \in {"now", "batch", "job"}
    BY <1>1 DEF SesAccepts, FallbackAccepts, Takes, ActAt, Hand, Kinds
<1>4. UNCHANGED <<message, sendQueue, usage, history>> /\ delivered' = Delivered(p)
    BY DEF SesAccepts, FallbackAccepts, Takes
<1>5. act' = [act EXCEPT ![p].pc = "save", ![p].ok = TRUE] BY Zenon DEF SesAccepts, FallbackAccepts, Takes
<1>6. Turns(p, "save", x.kind, x.msg, x.key, TRUE, x.sent) BY <1>1, <1>2, <1>5, Going, Zenon DEF Places
<1>7. Posts(p) BY <1>2, <1>4, Posting
<1>8. Told({}, {}) /\ history' \in HistoryType BY <1>4, Unmarked
<1>9. Only(p) /\ Hand(act'[p]) /\ Own(p, act'[p]) BY <1>1, <1>3, <1>6 DEF Turns, Hand, Kinds, Own, Transporting
<1>10. PICK n \in Nat : n = x.sent BY DEF ActType
<1>11. Owes(act[p]) = n /\ Owes(act'[p]) = n + 1 BY <1>1, <1>3, <1>6, <1>10 DEF Turns, Owes
<1>12. Pays(p) BY <1>4, <1>2, <1>7, <1>10, <1>11 DEF TypeInv, DeliveredType, Posts, Pays
<1>13. Moved(p) BY <1>4, <1>7, <1>9, <1>12 DEF Moved, TypeInv, Posts
<1>14. act[p].pc \in {"ses", "fallback"} /\ act'[p].pc = "save" /\ act'[p].ok /\ Keeps(p)
    BY <1>1, <1>3, <1>6 DEF Turns, Keeps
<1> QED  BY <1>4, <1>7, <1>8, <1>13, <1>14 DEF Accepts

\* A provider does not take it, or a job begins.
LEMMA Trying ==
    ASSUME TypeInv, HandInv, NEW p \in Actors,
           \/ SesRefuses(p) /\ act[p].kind # "batch"
           \/ FallbackRefuses(p)
           \/ p \in SendWorkers /\ ReadMessage(p) /\ StillScheduled(act[p].msg)
    PROVE  Goes(p)
<1>1. PICK x \in ActType : x = act[p] /\ Hand(x) /\ Own(p, x) BY Hands
<1>2. act \in [Actors -> ActType] BY DEF TypeInv
<1>3. x.pc \in {"ses", "fallback", "read"} /\ ~x.ok /\ x.kind \in {"now", "job"}
    BY <1>1 DEF SesRefuses, FallbackRefuses, Refused, ReadMessage, ActAt, Hand, Kinds
<1>4. UNCHANGED <<message, sendQueue, usage, delivered>> BY DEF SesRefuses, FallbackRefuses, ReadMessage
<1>5. PICK pc \in Transporting : Goto(p, pc)
  BY DEF SesRefuses, Refused, Kind, Goto, Transporting, FallbackRefuses, ReadMessage
<1>6. Turns(p, pc, x.kind, x.msg, x.key, x.ok, x.sent) BY <1>1, <1>2, <1>5, Going DEF Places, Transporting
<1>7. Told({}, {}) /\ history' \in HistoryType
  BY Unmarked, Noted, NoMarks DEF SesRefuses, Kind, Told, FallbackRefuses, ReadMessage
<1>8. pc = "ses" => x.pc = "read"
  BY <1>1, <1>2, Going, <1>6 DEF ReadMessage, ActAt, SesRefuses, Refused, FallbackRefuses, Kind, Goto, Places,
     TypeInv, Turns
<1>9. Only(p) /\ Hand(act'[p]) /\ Own(p, act'[p])
    BY <1>1, <1>3, <1>6, <1>8 DEF Turns, Hand, Kinds, Own, Transporting
<1>10. Owes(act'[p]) = Owes(act[p]) BY <1>1, <1>6 DEF Turns, Owes
<1>11. Moved(p) BY <1>4, <1>7, <1>9, <1>10, Moving DEF TypeInv
<1>12. act'[p].pc \in Transporting /\ ~act'[p].ok /\ Keeps(p) BY <1>1, <1>3, <1>6 DEF Turns, Keeps
<1>13. \/ act[p].pc \in {"ses", "fallback"}
       \/ act[p].pc = "read" /\ act[p].msg \in Messages /\ message[act[p].msg].status = "scheduled"
  BY <1>1, <1>3 DEF SesRefuses, Refused, FallbackRefuses, ActAt, Hand, Kinds, Transporting, StillScheduled
<1> QED  BY <1>4, <1>7, <1>11, <1>12, <1>13 DEF Goes

\* It takes it, and nobody hears of it.
LEMMA TimingOut ==
    ASSUME TypeInv, HandInv, NEW p \in Actors, SesTimesOut(p) \/ FallbackTimesOut(p)
    PROVE  \E M \in SUBSET SendMarks : Loses(p, M)
<1>1. PICK x \in ActType : x = act[p] /\ Hand(x) /\ Own(p, x) BY Hands
<1>2. act \in [Actors -> ActType] /\ delivered \in DeliveredType BY DEF TypeInv
<1>3. x.pc \in {"ses", "fallback"} /\ ~x.ok /\ x.kind \in {"now", "batch", "job"}
    BY <1>1 DEF SesTimesOut, Refused, FallbackTimesOut, ActAt, Hand, Kinds
<1>4. UNCHANGED <<message, sendQueue, usage>> /\ delivered' = Delivered(p) BY DEF SesTimesOut, FallbackTimesOut
<1>5. \/ x.kind = "batch" /\ ItemOver(p)
      \/ x.kind # "batch" /\ \E pc \in {"fallback", "save"} : Goto(p, pc)
    BY <1>1, <1>3 DEF SesTimesOut, Refused, FallbackTimesOut, Kind, Goto, ActAt, Hand, Kinds
<1>6. PICK M \in SUBSET SendMarks : "unsure" \in M /\ SendTrouble(With(p), M)
  BY DEF SendMarks, SesTimesOut, FallbackTimesOut
<1>7. Told(With(p), M) /\ history'.trouble > 0 BY <1>6, Noted
<1>8. PICK n \in Nat : n = x.sent BY DEF ActType
<1>9. \/ x.kind = "batch" /\ Turns(p, "next", "batch", NoMsg, NoKey, FALSE, n)
      \/ x.kind # "batch" /\ \E pc \in {"fallback", "save"} : Turns(p, pc, x.kind, x.msg, x.key, x.ok, n)
  BY <1>1, <1>2, <1>5, <1>8, Passing, Going DEF Places
<1>10. Only(p) /\ Hand(act'[p]) /\ Own(p, act'[p]) /\ ~act'[p].ok
  BY <1>1, <1>3, <1>9, <1>8 DEF Own, Turns, Hand, Kinds, Transporting
<1>11. Owes(act[p]) = n /\ Owes(act'[p]) = n BY <1>1, <1>3, <1>8, <1>9, <1>10 DEF Turns, Owes
<1>12. Posts(p) BY <1>2, <1>4, Posting
<1>13. Pays(p)
  BY <1>4, <1>2, <1>12, <1>7, <1>8, <1>11 DEF TypeInv, DeliveredType, Posts, Told, HistoryType, Pays
<1>14. Moved(p) BY <1>4, <1>10, <1>12, <1>13 DEF Moved, TypeInv, Posts
<1>15. act'[p].pc \in {"idle", "next"} \/ (act'[p].pc \in {"fallback", "save"} /\ Keeps(p))
    BY <1>1, <1>9 DEF Turns, Keeps
<1> QED  BY <1>1, <1>3, <1>4, <1>6, <1>7, <1>10, <1>12, <1>14, <1>15 DEF Loses

\* The outcome is written.
LEMMA Saving ==
    ASSUME TypeInv, HandInv, NEW p \in Actors, Save(p) PROVE Saves(p)
<1>1. PICK x \in ActType : x = act[p] /\ Hand(x) /\ Own(p, x) BY Hands
<1>2. act \in [Actors -> ActType] /\ message \in [Messages -> MessageType] BY DEF TypeInv
<1>3. x.pc = "save" /\ x.kind \in {"now", "batch", "job"} /\ x.msg \in Messages /\ (x.kind = "batch" => x.ok)
    BY <1>1 DEF Save, ActAt, Hand, Kinds, Transporting
<1>4. UNCHANGED <<sendQueue, delivered, history>> /\ message' = [message EXCEPT ![x.msg] = Outcome(p, @)] /\ AfterSave(p)
    BY <1>1 DEF Save
<1>5. Writes(x.msg, IF x.ok THEN "sent" ELSE "failed") BY <1>1, <1>2, <1>3, <1>4, Writing
<1>6. Told({}, {}) /\ history' \in HistoryType BY <1>4, Unmarked
<1>7. PICK n \in Nat : n = x.sent BY DEF ActType
<1>8. PICK k \in Nat : k = IF x.ok THEN 1 ELSE 0 OBVIOUS
<1>9. Owes(x) = n + k /\ Charge(p) = k BY <1>1, <1>7, <1>8 DEF Owes, Charge
<1>10. PICK u \in Nat : u = usage BY DEF TypeInv
<1>11. PICK d \in Nat : d = delivered.all /\ delivered'.all = d BY <1>4 DEF TypeInv, DeliveredType
<1>12. CASE x.kind = "now"
    <2>1. Return(p) /\ usage' = u + k BY <1>1, <1>9, <1>10, <1>12, <1>4 DEF AfterSave, Kind
    <2>2. Turns(p, "idle", "none", NoMsg, NoKey, FALSE, 0) BY <1>2, <2>1, Going DEF Places
    <2>3. Only(p) /\ Hand(act'[p]) /\ Own(p, act'[p]) BY <2>2 DEF Turns, Hand, Kinds, Own
    <2>4. Owes(act'[p]) = 0 /\ n = 0 BY <1>1, <1>7, <1>12, <2>2 DEF Turns, Owes, Hand
    <2>5. Pays(p) BY <1>1, <1>8, <1>9, <1>10, <1>11, <2>1, <2>4 DEF Pays
    <2>6. Moved(p) BY <1>4, <1>5, <2>3, <2>5 DEF Moved, TypeInv, Writes
    <2>7. act'[p].pc = "idle" BY <2>2 DEF Turns
    <2> QED  BY <1>1, <1>3, <1>4, <1>5, <1>6, <2>6, <2>7 DEF Saves
<1>13. CASE x.kind = "batch"
    <2>1. PICK j \in Nat : j = n + 1 OBVIOUS
    <2>2. act' = [act EXCEPT ![p] = [NoAct EXCEPT !.pc = "next", !.kind = "batch", !.sent = j]] /\ usage' = u
        BY <1>1, <1>4, <1>7, <1>10, <1>13, <2>1 DEF AfterSave, Kind
    <2>3. Turns(p, "next", "batch", NoMsg, NoKey, FALSE, j) BY <1>2, <2>2, Passing
    <2>4. p \notin SendWorkers BY <1>1, <1>3, <1>13 DEF Own
    <2>5. Only(p) /\ Hand(act'[p]) /\ Own(p, act'[p]) BY <2>3, <2>4 DEF Turns, Hand, Kinds, Own
    <2>6. Owes(act'[p]) = j /\ k = 1 BY <1>3, <1>8, <1>13, <2>3 DEF Turns, Owes
    <2>7. Pays(p) BY <1>1, <1>8, <1>9, <1>10, <1>11, <2>1, <2>2, <2>6 DEF Pays
    <2>8. Moved(p) BY <1>4, <1>5, <2>5, <2>7 DEF Moved, TypeInv, Writes
    <2>9. act'[p].pc = "next" BY <2>3 DEF Turns
    <2> QED  BY <1>1, <1>3, <1>4, <1>5, <1>6, <2>8, <2>9 DEF Saves
<1>14. CASE x.kind = "job"
    <2>1. Goto(p, "end") /\ usage' = usage BY <1>1, <1>4, <1>14 DEF AfterSave, Kind
    <2>2. Turns(p, "end", x.kind, x.msg, x.key, x.ok, x.sent) BY <1>1, <1>2, <2>1, Going DEF Places
    <2>3. Only(p) /\ Hand(act'[p]) /\ Own(p, act'[p]) BY <1>1, <1>3, <1>14, <2>2 DEF Turns, Hand, Kinds, Own
    <2>4. Owes(act'[p]) = Owes(act[p]) BY <1>1, <2>2 DEF Turns, Owes
    <2>5. Moved(p) BY <1>4, <1>5, <1>6, <2>1, <2>3, <2>4, Moving DEF TypeInv, Writes
    <2>6. act'[p].pc = "end" /\ Keeps(p) /\ act'[p].ok = act[p].ok BY <1>1, <2>2 DEF Turns, Keeps
    <2> QED  BY <1>1, <1>3, <1>4, <1>5, <1>6, <2>5, <2>6 DEF Saves
<1> QED  BY <1>3, <1>12, <1>13, <1>14

\* A worker takes a job.
LEMMA Picking ==
    ASSUME TypeInv, HandInv, NEW w \in SendWorkers, StartSend(w) PROVE \E m \in Messages : Picks(w, m)
<1>1. PICK x \in ActType : x = act[w] /\ Hand(x) BY Hands DEF Actors
<1>2. w \in Actors /\ act \in [Actors -> ActType] /\ message \in [Messages -> MessageType] /\ IsQueue(sendQueue)
    BY DEF Actors, TypeInv
<1>3. PICK m \in Messages :
         /\ Waiting(sendQueue, m) /\ sendQueue' = Take(sendQueue, m, w)
         /\ act' = [act EXCEPT ![w] = [NoAct EXCEPT !.pc = "read", !.kind = "job", !.msg = m, !.key = message[m].key]]
    BY DEF StartSend
<1>4. PICK k \in Keys \cup {NoKey} : k = message[m].key BY <1>2 DEF MessageType
<1>5. Turns(w, "read", "job", m, k, FALSE, 0) BY <1>3, <1>4, <1>2, Fresh DEF Places
<1>6. x.pc = "idle" /\ x.sent = 0 /\ ~x.ok /\ UNCHANGED <<message, usage, delivered, history>>
    BY <1>1 DEF StartSend, ActAt, Hand, Kinds
<1>7. Others(sendQueue, sendQueue', m) /\ Active(sendQueue', m) /\ sendQueue'[m].holder = w
  BY <1>3, <1>2, Taking DEF Waiting
<1>8. Told({}, {}) /\ history' \in HistoryType BY <1>6, Unmarked
<1>9. Only(w) /\ Hand(act'[w]) /\ Own(w, act'[w]) BY <1>5 DEF Turns, Hand, Kinds, Own
<1>10. Owes(act'[w]) = Owes(act[w]) BY <1>1, <1>5, <1>6 DEF Turns, Owes
<1>11. Moved(w) BY <1>2, <1>6, <1>7, <1>8, <1>9, <1>10, Moving DEF Others
<1>12. act[w].pc = "idle" /\ act'[w].pc = "read" /\ act'[w].msg = m /\ act'[w].key = message[m].key
    BY <1>1, <1>4, <1>5, <1>6 DEF Turns
<1> QED  BY <1>3, <1>6, <1>7, <1>8, <1>11, <1>12 DEF Picks

\* A PATCH or a cancellation begins.
LEMMA Opening ==
    ASSUME TypeInv, HandInv, NEW c \in Senders, NEW m \in Messages, NEW kind \in {"patch", "cancel"},
           BeginChange(c, kind, m)
    PROVE  Opens(c, m)
<1>1. PICK x \in ActType : x = act[c] /\ Hand(x) BY Hands DEF Actors
<1>2. c \in Actors /\ c \notin SendWorkers /\ act \in [Actors -> ActType] BY SendAssumption DEF Actors, TypeInv
<1>3. x.pc = "idle" /\ x.sent = 0 /\ ~x.ok /\ UNCHANGED <<message, sendQueue, usage, delivered>> /\ NewRequest
    BY <1>1 DEF BeginChange, ActAt, Hand, Kinds
<1>4. Turns(c, "remove", kind, m, NoKey, FALSE, 0) BY <1>2, Fresh DEF Places, BeginChange
<1>5. Told({}, {}) /\ history' \in HistoryType BY <1>3, Unmarked
<1>6. Only(c) /\ Hand(act'[c]) /\ Own(c, act'[c]) BY <1>2, <1>4 DEF Turns, Hand, Kinds, Own
<1>7. Owes(act'[c]) = Owes(act[c]) BY <1>1, <1>3, <1>4 DEF Turns, Owes
<1>8. Moved(c) BY <1>2, <1>3, <1>5, <1>6, <1>7, Moving DEF TypeInv
<1>9. act[c].pc = "idle" /\ act'[c].pc = "remove" /\ act'[c].msg = m /\ act'[c].key = NoKey
    BY <1>1, <1>3, <1>4 DEF Turns
<1> QED  BY <1>3, <1>5, <1>8, <1>9 DEF Opens, BeginChange

\* The old job is removed.
LEMMA Removing ==
    ASSUME TypeInv, HandInv, NEW c \in Senders, RemoveJob(c), act[c].kind = "cancel" \/ Has(sendQueue, act[c].msg)
    PROVE  \E M \in SUBSET SendMarks : Removes(c, M)
<1>1. PICK x \in ActType : x = act[c] /\ Hand(x) /\ Own(c, x) BY Hands DEF Actors
<1>2. c \in Actors /\ c \notin SendWorkers /\ act \in [Actors -> ActType] /\ IsQueue(sendQueue)
    BY SendAssumption DEF Actors, TypeInv
<1>3. x.pc = "remove" /\ x.kind \in {"patch", "cancel"} /\ ~x.ok /\ x.msg \in Messages
    BY <1>1 DEF RemoveJob, ActAt, Hand, Kinds, Transporting
<1>4. /\ ~Locked(x.msg) /\ UNCHANGED <<message, usage, delivered>>
      /\ sendQueue' = IF Has(sendQueue, x.msg) THEN Discard(sendQueue, x.msg) ELSE sendQueue
    BY <1>1 DEF RemoveJob
<1>5. PICK pc \in {"cancelled", "requeue"} :
         /\ Goto(c, pc)
         /\ IF x.kind = "cancel" THEN pc = "cancelled" ELSE pc = "requeue" /\ Has(sendQueue, x.msg)
  BY <1>1, <1>3 DEF RemoveJob, Kind
<1>6. Turns(c, pc, x.kind, x.msg, x.key, x.ok, x.sent) BY <1>1, <1>2, <1>5, Going DEF Places
<1>7. Others(sendQueue, sendQueue', x.msg) /\ ~Has(sendQueue', x.msg) BY <1>2, <1>3, <1>4, Discarding
<1>8. PICK M \in SUBSET {"late"} :
         /\ history' = Marred({x.msg}, M)
         /\ x.kind = "cancel" /\ "late" \notin M => Waiting(sendQueue, x.msg) /\ StillScheduled(x.msg)
  BY <1>1 DEF RemoveJob, Kind
<1>9. M \in SUBSET SendMarks BY DEF SendMarks
<1>10. Told({x.msg}, M) /\ history' \in HistoryType
    <2>1. Told({x.msg}, M) BY <1>1, <1>8, <1>9, Noted
    <2> QED  BY <2>1 DEF Told
<1>11. Only(c) /\ Hand(act'[c]) /\ Own(c, act'[c]) BY <1>1, <1>2, <1>3, <1>5, <1>6 DEF Turns, Hand, Kinds, Own
<1>12. Owes(act'[c]) = Owes(act[c]) BY <1>1, <1>6 DEF Turns, Owes
<1>13. Moved(c) BY <1>2, <1>4, <1>7, <1>10, <1>11, <1>12, Moving DEF TypeInv, Others
<1>14. act[c].pc = "remove" /\ Keeps(c) /\ act'[c].pc = pc BY <1>1, <1>3, <1>6 DEF Turns, Keeps
<1>15. act'[c].pc = "cancelled" \/ (act'[c].pc = "requeue" /\ Has(sendQueue, act[c].msg)) BY <1>1, <1>5, <1>14
<1>16. act'[c].pc = "cancelled" /\ "late" \notin M =>
          Waiting(sendQueue, act[c].msg) /\ message[act[c].msg].status = "scheduled"
    BY <1>1, <1>5, <1>8, <1>14 DEF StillScheduled
<1> QED  BY <1>1, <1>3, <1>4, <1>7, <1>9, <1>10, <1>13, <1>14, <1>15, <1>16 DEF Removes

\* The message is marked as cancelled.
LEMMA Marks ==
    ASSUME TypeInv, HandInv, NEW c \in Senders, MarkCancelled(c) PROVE Cancelling(c)
<1>1. PICK x \in ActType : x = act[c] /\ Hand(x) BY Hands DEF Actors
<1>2. c \in Actors /\ act \in [Actors -> ActType] /\ message \in [Messages -> MessageType]
    BY DEF Actors, TypeInv
<1>3. x.pc = "cancelled" /\ x.kind = "cancel" /\ x.sent = 0 /\ ~x.ok /\ x.msg \in Messages
    BY <1>1 DEF MarkCancelled, ActAt, Hand, Kinds, Transporting
<1>4. Return(c) /\ UNCHANGED <<sendQueue, usage, delivered, history>> BY DEF MarkCancelled
<1>5. Writes(x.msg, "cancelled") BY <1>1, <1>2, <1>3, Writing DEF MarkCancelled
<1>6. Turns(c, "idle", "none", NoMsg, NoKey, FALSE, 0) BY <1>2, <1>4, Going DEF Places
<1>7. Told({}, {}) /\ history' \in HistoryType BY <1>4, Unmarked
<1>8. Only(c) /\ Hand(act'[c]) /\ Own(c, act'[c]) BY <1>6 DEF Turns, Hand, Kinds, Own
<1>9. Owes(act'[c]) = Owes(act[c]) BY <1>1, <1>3, <1>6 DEF Turns, Owes
<1>10. Moved(c) BY <1>2, <1>4, <1>5, <1>7, <1>8, <1>9, Moving DEF TypeInv, Writes
<1>11. act'[c].pc = "idle" BY <1>6 DEF Turns
<1> QED  BY <1>1, <1>3, <1>4, <1>5, <1>7, <1>10, <1>11 DEF Cancelling

\* A lock lapses.
LEMMA Lapsing ==
    ASSUME TypeInv, NEW m \in Messages, SendStalled(m) PROVE \E M \in SUBSET SendMarks : Lapses(m, M)
  BY Stalling, Noted DEF SendStalled, TypeInv, SendMarks, Lapses

------------------------------------------------------------------------------
\* A step of SendNext.
Kinded ==
    \/ \E p \in Actors, M \in SUBSET SendMarks : Frees(p, M) \/ Loses(p, M) \/ Removes(p, M) \/ Blind(p, M)
    \/ \E p \in Actors, m \in Messages : Makes(p, m) \/ Opens(p, m)
    \/ \E p \in Actors : Enqueues(p) \/ Accepts(p) \/ Goes(p) \/ Saves(p) \/ Cancelling(p)
    \/ \E w \in SendWorkers, m \in Messages : Picks(w, m)
    \/ \E m \in Messages, M \in SUBSET SendMarks : Lapses(m, M)
\* Every step of the pipeline is one of the kinds above.
LEMMA Steps ==
    ASSUME TypeInv, HandInv, SendNext PROVE Kinded
<1>0. Senders \subseteq Actors /\ SendWorkers \subseteq Actors /\ {} \in SUBSET SendMarks /\ {"rowless"} \in SUBSET SendMarks
      /\ {"left"} \in SUBSET SendMarks
    BY DEF Actors, SendMarks
<1>1. CASE \E c \in Senders, k \in Keys \cup {NoKey} :
              \/ BeginSend(c, "later", k, FALSE) \/ BeginBatch(c, k) \/ NextItem(c, k)
              \/ \E tracked \in BOOLEAN : BeginSend(c, "now", k, tracked)
  BY <1>1, Zenon, Starting, <1>0 DEF Kinded
<1>2. CASE \E c \in Senders, m \in Messages, kind \in {"patch", "cancel"} : BeginChange(c, kind, m)
  BY <1>2, Opening, <1>0 DEF Kinded
<1>3. ASSUME NEW c \in Senders, CallerProceeds(c) \/ CallerDies(c) PROVE Kinded
  BY <1>0, Closing, Losing, Enqueuing, Creating, Hands, Removing, Marks, Dying, <1>3 DEF Kinded, RemoveJob,
     ActAt, Hand, Kinds, Transporting, CallerProceeds
<1>4. ASSUME NEW p \in Actors, Transport(p) \/ SesTimesOut(p) \/ FallbackTimesOut(p) \/ SaveFails(p) PROVE Kinded
  BY Accepting, <1>0, Trying, Leaving, Saving, TimingOut, Unsaved, <1>4 DEF Kinded, Transport
<1>5. ASSUME NEW w \in SendWorkers, WorkerProceeds(w) \/ ReadFails(w) \/ SendWorkerCrash(w) PROVE Kinded
  BY Picking, <1>0, Trying, Handling, Dying, <1>5 DEF Kinded, WorkerProceeds
<1>6. CASE \E m \in Messages : SendStalled(m) BY <1>6, Lapsing DEF Kinded
<1> QED  BY <1>1, <1>2, <1>3, <1>4, <1>5, <1>6 DEF SendNext

\* What was marred stays so.
Worse == /\ history' \in HistoryType /\ history.trouble <= history'.trouble
         /\ \A x \in Messages \cup Keys : history.marred[x] \subseteq history'.marred[x]
\* What is told of a message stays told: marks are never taken back.
LEMMA Worsens == ASSUME NEW X, NEW M, Told(X, M) PROVE Worse
BY DEF Told, Worse
\* What is spared now was spared before.
LEMMA Spares ==
    ASSUME Worse, NEW x \in Messages \cup Keys, NEW S, SparedOf(x, S)' PROVE SparedOf(x, S)
BY DEF Worse, SparedOf

\* One actor moves, or a lock lapses.
LEMMA Anyhow ==
    ASSUME Kinded
    PROVE  Worse /\ \/ \E p \in Actors : Moved(p)
                    \/ \E m \in Messages, M \in SUBSET SendMarks : Lapses(m, M)
<1>1. SendWorkers \subseteq Actors BY DEF Actors
<1>2. ASSUME NEW p \in Actors, NEW M \in SUBSET SendMarks, Frees(p, M) \/ Loses(p, M) \/ Removes(p, M) \/ Blind(p, M)
      PROVE  Worse /\ Moved(p)
    BY <1>2, Worsens DEF Frees, Loses, Removes, Blind
<1>3. ASSUME NEW p \in Actors, NEW m \in Messages, Makes(p, m) \/ Opens(p, m) \/ Picks(p, m)
      PROVE  Worse /\ Moved(p)
    BY <1>3, Worsens DEF Makes, Opens, Picks
<1>4. ASSUME NEW p \in Actors, Enqueues(p) \/ Accepts(p) \/ Goes(p) \/ Saves(p) \/ Cancelling(p)
      PROVE  Worse /\ Moved(p)
    BY <1>4, Worsens DEF Enqueues, Accepts, Goes, Saves, Cancelling
<1>5. ASSUME NEW m \in Messages, NEW M \in SUBSET SendMarks, Lapses(m, M) PROVE Worse
    BY <1>5, Worsens DEF Lapses
<1> QED  BY <1>1, <1>2, <1>3, <1>4, <1>5 DEF Kinded

\* Types, and what an actor holds.
LEMMA TypeStep ==
    ASSUME TypeInv, HandInv, Kinded PROVE TypeInv' /\ HandInv'
<1>1. ASSUME NEW p \in Actors, Moved(p), Worse PROVE TypeInv' /\ HandInv'
    <2>1. TypeInv' BY <1>1 DEF TypeInv, Moved, Only, Pays, Worse
    <2>2. ASSUME NEW q \in Actors PROVE (Hand(act[q]) /\ Own(q, act[q]))' BY <1>1, Hands DEF Moved, Only
    <2>3. HandInv' BY <2>2 DEF HandInv
    <2> QED  BY <2>1, <2>3
<1>2. ASSUME NEW m \in Messages, NEW M \in SUBSET SendMarks, Lapses(m, M), Worse PROVE TypeInv' /\ HandInv'
  BY <1>2 DEF TypeInv, Lapses, Others, Worse, HandInv, Hand, Own
<1> QED  BY <1>1, <1>2, Anyhow

\* Nobody gets hold of m who did not hold it before, and its row is left alone.
Same(q) == act'[q].msg = act[q].msg /\ act'[q].kind = act[q].kind /\ act'[q].key = act[q].key
NoneNew(m) == message'[m] = message[m] /\ \A q \in Actors : act'[q].msg = m => Same(q)
\* The roles on a message no step writes or newly takes up are unchanged.
LEMMA RoleKept ==
    ASSUME RoleInv, NEW m \in Messages, NoneNew(m) PROVE \A q \in Actors : Role(q, m)'
<1>1. SUFFICES ASSUME NEW q \in Actors, act'[q].msg = m PROVE Role(q, m)' BY DEF Role
<1>2. Same(q) /\ Role(q, m) BY <1>1 DEF NoneNew, RoleInv
<1>3. ASSUME NEW r \in Actors, act'[r].msg = m, act[q].kind \in {"now", "batch"} PROVE r = q
  BY <1>1, <1>2, <1>3 DEF NoneNew, Same, Role
<1> QED  BY <1>1, <1>2, <1>3 DEF NoneNew, Same, Role, Launched

\* The steps after which nobody holds a message who did not hold it before.
LEMMA NobodyNew ==
    ASSUME TypeInv, HandInv, TypeInv', HandInv', NEW m \in Messages, NEW p \in Actors, NEW M,
           \/ Frees(p, M) \/ Blind(p, M) \/ Enqueues(p) \/ Accepts(p) \/ Goes(p) \/ Loses(p, M) \/ Removes(p, M)
    PROVE  NoneNew(m)
  BY SendAssumption DEF Frees, Blind, Enqueues, Accepts, Goes, Loses, Removes, Moved, Only, Hand, Keeps, Same,
     NoneNew

\* A message without a row has no jobs, marks, or mails.
Nothing(m) == delivered.of[m] = 0 /\ message[m].key = NoKey /\ SparedOf(m, {"unsure", "overlap"})
\* Who may hold a message of which status.
LEMMA RoleStep ==
    ASSUME TypeInv, HandInv, RoleInv, TypeInv', HandInv', Kinded PROVE RoleInv'
<1>1. ASSUME NEW m \in Messages PROVE (\A p \in Actors : Role(p, m)) /\ (Has(sendQueue, m) => Launched(m))
                                      /\ (message[m].status = "none" => Nothing(m))
    BY DEF RoleInv, Nothing
<1>2. ASSUME \A m \in Messages : /\ \A p \in Actors : Role(p, m)'
                                 /\ Has(sendQueue', m) => Launched(m)'
                                 /\ message'[m].status = "none" => Nothing(m)'
      PROVE  RoleInv'
    BY <1>2 DEF RoleInv, Nothing
<1>3. SendWorkers \subseteq Actors /\ NoMsg \notin Messages /\ Messages \cap Keys = {} /\ NoKey \notin Keys \cup Messages
    BY SendAssumption DEF Actors
<1>4. ASSUME NEW X, NEW M, Told(X, M), NEW m \in Messages, m \notin X \/ M \cap {"unsure", "overlap"} = {}, delivered'.of[m] = 0,
             message'[m] = message[m], Nothing(m)
      PROVE  Nothing(m)'
    BY <1>4 DEF Told, Nothing, SparedOf
\* the steps that leave all rows alone
<1>5. ASSUME NEW p \in Actors, NEW M \in SUBSET SendMarks,
             \/ Frees(p, M) \/ Blind(p, M) \/ Enqueues(p) \/ Accepts(p) \/ Goes(p) \/ Loses(p, M) \/ Removes(p, M),
             NEW m \in Messages
      PROVE  /\ \A q \in Actors : Role(q, m)'
             /\ Has(sendQueue', m) => Launched(m)'
             /\ message'[m].status = "none" => Nothing(m)'
    <2>1. NoneNew(m) /\ message'[m] = message[m] BY <1>5, NobodyNew DEF NoneNew
    <2>2. \A q \in Actors : Role(q, m)' BY <2>1, RoleKept
    <2>3. Hand(act[p]) BY Hands
    <2>4. Has(sendQueue', m) => Launched(m)
    BY <1>1, <2>3, <1>5 DEF Enqueues, Role, Hand, Kinds, Others, Frees, Lets, Blind, Accepts, Goes, Loses,
       Removes
    <2>5. Launched(m) => Launched(m)' BY <2>1 DEF Launched
    <2>6. ASSUME message'[m].status = "none" PROVE Nothing(m)'
    BY <1>1, <2>1, <2>6, <1>3, <1>5, <1>4 DEF Role, Launched, With, TypeInv, ActType, Frees, Blind, Enqueues,
       Accepts, Goes, Loses, Removes, Posts, Nothing
    <2> QED  BY <2>2, <2>4, <2>5, <2>6
\* a row is made
<1>6. ASSUME NEW p \in Actors, NEW n \in Messages, Makes(p, n), NEW m \in Messages
      PROVE  /\ \A q \in Actors : Role(q, m)'
             /\ Has(sendQueue', m) => Launched(m)'
             /\ message'[m].status = "none" => Nothing(m)'
  BY <1>1, <1>6, Hands, RoleKept, <1>4 DEF Makes, Role, Launched, Moved, Only, Hand, Kinds, NoneNew, Same,
     Nothing
\* a message that was scheduled is taken up
<1>7. ASSUME NEW p \in Actors, NEW n \in Messages, Opens(p, n) \/ (p \in SendWorkers /\ Picks(p, n)), NEW m \in Messages
      PROVE  /\ \A q \in Actors : Role(q, m)'
             /\ Has(sendQueue', m) => Launched(m)'
             /\ message'[m].status = "none" => Nothing(m)'
    <2>1. Hand(act'[p]) /\ (\A q \in Actors \ {p} : act'[q] = act[q]) /\ message' = message /\ Told({}, {})
          /\ delivered' = delivered /\ act'[p].msg = n /\ act'[p].pc \in {"remove", "read"}
        BY <1>7 DEF Opens, Picks, Moved, Only
    <2>2. Launched(n) BY <1>1, <1>7 DEF Opens, Picks, Launched, Waiting
    <2>3. Has(sendQueue', m) => Has(sendQueue, m) BY <1>7 DEF Opens, Picks, Others, Waiting
    <2>4. message'[m].status = "none" => Nothing(m)' BY <1>1, <1>4, <2>1 DEF Nothing
    <2>5. Has(sendQueue', m) => Launched(m)' BY <1>1, <2>1, <2>3 DEF Launched
    <2>6. \A q \in Actors : Role(q, m)'
        <3>1. CASE m # n BY <2>1, <3>1, RoleKept DEF NoneNew, Same
        <3>2. CASE m = n
            <4>1. act'[p].kind \in {"job", "patch", "cancel"} BY <2>1 DEF Hand, Kinds
            <4>2. act'[p].key = IF act'[p].kind \in {"patch", "cancel"} THEN NoKey ELSE message'[m].key
                BY <1>7, <2>1, <3>2, <4>1 DEF Opens, Picks, Hand, Kinds
            <4>3. Role(p, m)' BY <2>1, <2>2, <3>2, <4>1, <4>2 DEF Role, Launched
            <4>4. ASSUME NEW q \in Actors \ {p} PROVE Role(q, m)'
        BY <1>1, <2>1, <4>4, <2>2, <3>2 DEF Role, Launched
            <4> QED  BY <4>3, <4>4
        <3> QED  BY <3>1, <3>2
    <2> QED  BY <2>4, <2>5, <2>6
\* a row is written
<1>8. ASSUME NEW p \in Actors, Saves(p) \/ Cancelling(p), NEW m \in Messages
      PROVE  /\ \A q \in Actors : Role(q, m)'
             /\ Has(sendQueue', m) => Launched(m)'
             /\ message'[m].status = "none" => Nothing(m)'
    <2>1. PICK n \in Messages, s \in {"sent", "failed", "cancelled"} : n = act[p].msg /\ Writes(n, s)
        BY <1>8 DEF Saves, Cancelling
    <2>2. /\ Hand(act[p]) /\ Hand(act'[p]) /\ (\A q \in Actors \ {p} : act'[q] = act[q]) /\ Told({}, {})
          /\ delivered' = delivered /\ sendQueue' = sendQueue
        BY <1>8, Hands DEF Saves, Cancelling, Moved, Only
    <2>3. CASE m # n
    BY <2>1, <2>3, <1>3, <1>8, <2>2, <1>1, <1>4, RoleKept DEF Writes, NoneNew, Same, Saves, Cancelling, Keeps,
       Hand, Nothing, Launched
    <2>4. CASE m = n
        <3>1. Launched(m)' /\ message'[m].status # "none" /\ message'[m].key = message[m].key
            BY <2>1, <2>4 DEF Writes, Launched
        <3>2. ASSUME NEW q \in Actors, act'[q].msg = m PROVE Same(q) /\ act[q].kind \notin {"now", "batch"}
      BY <1>3, <1>8, <2>2, <3>2, <1>1, <2>1, <2>4 DEF Saves, Cancelling, Hand, Kinds, Keeps, Same, Role
        <3>3. ASSUME NEW q \in Actors, act'[q].msg = m PROVE Role(q, m)'
      BY <1>1, <3>2, <3>3, <3>1 DEF Same, Role
        <3> QED  BY <3>1, <3>3 DEF Role
    <2> QED  BY <2>3, <2>4
\* a lock lapses
<1>9. ASSUME NEW n \in Messages, NEW M \in SUBSET SendMarks, Lapses(n, M), NEW m \in Messages
      PROVE  /\ \A q \in Actors : Role(q, m)'
             /\ Has(sendQueue', m) => Launched(m)'
             /\ message'[m].status = "none" => Nothing(m)'
    <2>1. NoneNew(m) /\ message'[m] = message[m] /\ delivered' = delivered BY <1>9 DEF Lapses, NoneNew, Same
    <2>2. \A q \in Actors : Role(q, m)' BY <2>1, RoleKept
    <2>3. Has(sendQueue', m) => Has(sendQueue, m) BY <1>9 DEF Lapses, Others, Active
    <2>4. ASSUME message[m].status = "none" PROVE Nothing(m)'
    BY <1>1, <1>9, <2>4, <1>3, <1>4, <2>1 DEF Lapses, Active, Launched, TypeInv, MessageType, Nothing
    <2> QED  BY <1>1, <2>1, <2>2, <2>3, <2>4 DEF Launched
<1>a. \A m \in Messages : /\ \A p \in Actors : Role(p, m)'
                          /\ Has(sendQueue', m) => Launched(m)'
                          /\ message'[m].status = "none" => Nothing(m)'
    BY <1>3, <1>5, <1>6, <1>7, <1>8, <1>9 DEF Kinded
<1> QED  BY <1>2, <1>a

\* A message has a job, or one request is about to enqueue it.
LEMMA TokenStep ==
    ASSUME TypeInv, HandInv, RoleInv, TokenInv, TypeInv', HandInv', Kinded PROVE TokenInv'
<1>1. ASSUME NEW m \in Messages, NEW q \in Actors, Brings(q, m)
      PROVE  ~Has(sendQueue, m) /\ \A r \in Actors : Brings(r, m) => r = q
    BY <1>1 DEF TokenInv
<1>2. ASSUME NEW m \in Messages, NEW q \in Actors PROVE Role(q, m) /\ (Has(sendQueue, m) => Launched(m))
    BY DEF RoleInv
<1>3. SendWorkers \subseteq Actors /\ NoMsg \notin Messages BY SendAssumption DEF Actors
\* a step after which p does not bring anything it did not bring before
<1>4. ASSUME NEW p \in Actors, NEW M \in SUBSET SendMarks,
             \/ Frees(p, M) \/ Blind(p, M) \/ Accepts(p) \/ Goes(p) \/ Loses(p, M) \/ Saves(p) \/ Cancelling(p)
             \/ Enqueues(p) \/ \E n \in Messages : Opens(p, n) \/ (p \in SendWorkers /\ Picks(p, n))
      PROVE  TokenInv'
    <2>1. \A q \in Actors \ {p} : act'[q] = act[q]
        BY <1>4 DEF Frees, Blind, Accepts, Goes, Loses, Saves, Cancelling, Opens, Picks, Enqueues, Moved, Only
    <2>2. act'[p].pc \notin {"enqueue", "requeue"}
        BY <1>4 DEF Frees, Blind, Accepts, Goes, Loses, Saves, Cancelling, Opens, Picks, Enqueues, Transporting
    <2>3. ASSUME NEW m \in Messages, NEW q \in Actors, Brings(q, m)' PROVE Brings(q, m) /\ q # p
        BY <2>1, <2>2, <2>3 DEF Brings
    <2>4. ASSUME NEW m \in Messages, NEW q \in Actors, Brings(q, m)' PROVE ~Has(sendQueue', m)
    BY <1>1, <2>3, <2>4, <1>4 DEF Enqueues, Brings, Others, Frees, Lets, Blind, Accepts, Goes, Loses, Saves,
       Cancelling, Opens, Picks, Waiting
    <2> QED  BY <1>1, <2>3, <2>4 DEF TokenInv
\* a row is made
<1>5. ASSUME NEW p \in Actors, NEW n \in Messages, Makes(p, n) PROVE TokenInv'
    <2>1. (\A q \in Actors \ {p} : act'[q] = act[q]) /\ sendQueue' = sendQueue /\ act'[p].msg = n
        BY <1>5 DEF Makes, Moved, Only
    <2>2. \A q \in Actors : act[q].msg # n BY <1>2, <1>5 DEF Makes, Role, Launched
    <2>3. ~Has(sendQueue, n) BY <1>2, <1>5 DEF Makes, Launched
    <2>4. ASSUME NEW m \in Messages, NEW q \in Actors, Brings(q, m)'
          PROVE  ~Has(sendQueue', m) /\ \A r \in Actors : Brings(r, m)' => r = q
    BY <2>1, <2>2, <2>3, <2>4, <1>1 DEF Brings
    <2> QED  BY <2>4 DEF TokenInv
\* a job is removed
<1>6. ASSUME NEW p \in Actors, NEW M \in SUBSET SendMarks, Removes(p, M) PROVE TokenInv'
    <2>1. PICK n \in Messages : n = act[p].msg BY <1>6 DEF Removes
    <2>2. (\A q \in Actors \ {p} : act'[q] = act[q]) /\ act'[p].msg = n /\ Others(sendQueue, sendQueue', n) /\ ~Has(sendQueue', n)
        BY <1>6, <2>1 DEF Removes, Moved, Only, Keeps
    <2>3. ASSUME NEW m \in Messages, NEW q \in Actors, Brings(q, m)'
          PROVE  ~Has(sendQueue', m) /\ \A r \in Actors : Brings(r, m)' => r = q
    BY <1>1, <2>2, <2>3, <1>6, <2>1 DEF Brings, Removes, Others
    <2> QED  BY <2>3 DEF TokenInv
\* a lock lapses
<1>7. ASSUME NEW n \in Messages, NEW M \in SUBSET SendMarks, Lapses(n, M) PROVE TokenInv'
    BY <1>7 DEF Lapses, TokenInv, Brings, Others, Active
<1>8. ASSUME NEW p \in Actors,
             \/ Enqueues(p) \/ Accepts(p) \/ Goes(p) \/ Saves(p) \/ Cancelling(p)
             \/ \E n \in Messages : Opens(p, n) \/ (p \in SendWorkers /\ Picks(p, n))
      PROVE  TokenInv'
  BY <1>4, <1>8
<1> QED  BY <1>3, <1>4, <1>5, <1>6, <1>7, <1>8 DEF Kinded

\* As long as no lock was lost, the worker that has a message has its lock.
LEMMA LockStep ==
    ASSUME TypeInv, HandInv, RoleInv, LockInv, TypeInv', HandInv', Worse, Kinded PROVE LockInv'
<1>1. ASSUME NEW m \in Messages, SparedOf(m, {"overlap"}), NEW w \in SendWorkers, act[w].msg = m
      PROVE  Active(sendQueue, m) /\ sendQueue[m].holder = w
    BY <1>1 DEF LockInv
<1>2. SendWorkers \subseteq Actors /\ NoMsg \notin Messages BY SendAssumption DEF Actors
<1>3. SUFFICES ASSUME NEW m \in Messages, SparedOf(m, {"overlap"})', NEW w \in SendWorkers, act'[w].msg = m
               PROVE  Active(sendQueue', m) /\ sendQueue'[m].holder = w
    BY DEF LockInv
<1>4. SparedOf(m, {"overlap"}) BY <1>3, Spares
<1>5. ASSUME act[w].msg = m, Has(sendQueue', m), sendQueue'[m] = sendQueue[m] PROVE Active(sendQueue', m) /\ sendQueue'[m].holder = w
    BY <1>1, <1>4, <1>5 DEF Active
<1>6. act[w].msg = m => Has(sendQueue, m) BY <1>1, <1>4 DEF Active
\* the queue is left alone
<1>7. ASSUME NEW p \in Actors, NEW M \in SUBSET SendMarks, NEW n \in Messages,
             \/ Blind(p, M) \/ Accepts(p) \/ Goes(p) \/ Loses(p, M) \/ Saves(p) \/ Cancelling(p)
             \/ Opens(p, n) \/ Makes(p, n)
      PROVE  Active(sendQueue', m) /\ sendQueue'[m].holder = w
  BY <1>7, Hands, <1>2, <1>3, <1>5, <1>6 DEF Blind, Accepts, Goes, Loses, Saves, Cancelling, Opens, Makes,
     Moved, Only, Keeps, Hand, Kinds, Own
\* a handler ends
<1>8. ASSUME NEW p \in Actors, NEW M \in SUBSET SendMarks, Frees(p, M)
      PROVE  Active(sendQueue', m) /\ sendQueue'[m].holder = w
  BY <1>8, <1>2, <1>3, <1>1, <1>4, <1>5, <1>6 DEF Frees, Moved, Only, Hand, Lets
\* a message is enqueued
<1>9. ASSUME NEW p \in Actors, Enqueues(p) PROVE Active(sendQueue', m) /\ sendQueue'[m].holder = w
  BY <1>9, <1>2, <1>3, <1>5, <1>6 DEF Enqueues, Moved, Only, Hand, Others
\* a worker takes a job
<1>10. ASSUME NEW v \in SendWorkers, NEW n \in Messages, Picks(v, n) PROVE Active(sendQueue', m) /\ sendQueue'[m].holder = w
  BY <1>10, <1>3, <1>2, <1>1, <1>4, <1>5, <1>6 DEF Picks, Moved, Only, Active, Waiting, Others
\* a job is removed
<1>11. ASSUME NEW p \in Actors, NEW M \in SUBSET SendMarks, Removes(p, M) PROVE Active(sendQueue', m) /\ sendQueue'[m].holder = w
  BY <1>11, <1>2, <1>3, <1>1, <1>4, <1>5, <1>6 DEF Removes, Moved, Only, Keeps, Locked, Others
\* a lock lapses
<1>12. ASSUME NEW n \in Messages, NEW M \in SUBSET SendMarks, Lapses(n, M) PROVE Active(sendQueue', m) /\ sendQueue'[m].holder = w
    <2>1. act[w].msg = m BY <1>3, <1>12 DEF Lapses
    <2>2. m # n
        <3>1. SUFFICES ASSUME m = n PROVE FALSE OBVIOUS
        <3>2. Locked(m) BY <1>1, <1>4, <2>1 DEF Locked
        <3>3. "overlap" \in history'.marred[m] BY <1>12, <3>1, <3>2 DEF Lapses, Told
        <3> QED  BY <1>3, <3>3 DEF SparedOf
    <2> QED  BY <1>5, <1>6, <1>12, <2>1, <2>2 DEF Lapses, Others
<1> QED  BY <1>2, <1>7, <1>8, <1>9, <1>10, <1>11, <1>12 DEF Kinded

\* While no lock was lost, one actor at most is about to send a message.
Holds(p, m) == act[p].msg = m /\ act[p].kind \in {"now", "batch", "job"}
\* While no lock of it is lost, a message is held by one worker.
LEMMA Alone ==
    ASSUME TypeInv, HandInv, RoleInv, LockInv, NEW m \in Messages, SparedOf(m, {"unsure", "overlap"}),
           NEW p \in Actors, NEW q \in Actors, Holds(p, m), Holds(q, m)
    PROVE  p = q
  BY Hands DEF RoleInv, Holds, Role, Own, Hand, Kinds, SparedOf, LockInv

\* Nothing happened to m, nor to whoever holds it.
Untouched(m) ==
    /\ message'[m] = message[m] /\ delivered'.of[m] = delivered.of[m] /\ (Has(sendQueue', m) <=> Has(sendQueue, m))
    /\ \A q \in Actors : /\ act'[q].msg = m <=> act[q].msg = m
                         /\ act[q].msg = m => act'[q].pc = act[q].pc /\ act'[q].ok = act[q].ok
\* A message the step does not touch stays mailed once.
LEMMA OnceKept ==
    ASSUME Worse, OnceInv, NEW m \in Messages, Untouched(m)
    PROVE  (Sent(m) /\ (SparedOf(m, {"unsure", "overlap"}) => Once(m)))'
<1>1. Sent(m) /\ (SparedOf(m, {"unsure", "overlap"}) => Once(m)) BY DEF OnceInv
<1>2. Sent(m)' BY <1>1 DEF Sent, Untouched
<1>3. ASSUME SparedOf(m, {"unsure", "overlap"})' PROVE Once(m)'
  BY <1>1, <1>3, Spares DEF Untouched, Moves, Brings, Cancels, Gone, Once
<1> QED  BY <1>2, <1>3

\* The rest of what is assumed of a step of p that has, or gets, m.
OnceFrame(p, m) ==
    /\ TypeInv /\ HandInv /\ RoleInv /\ TokenInv /\ LockInv /\ OnceInv /\ TypeInv' /\ HandInv' /\ Worse
    /\ p \in Actors /\ m \in Messages
\* What a step of one actor leaves as it was, for the message it holds.
LEMMA Framed ==
    ASSUME NEW p, NEW m, OnceFrame(p, m), Moved(p)
    PROVE  /\ SparedOf(m, {"unsure", "overlap"})' => SparedOf(m, {"unsure", "overlap"}) /\ Once(m)
           /\ SparedOf(m, {"late"})' => SparedOf(m, {"late"})
           /\ Sent(m) /\ Hand(act[p]) /\ Hand(act'[p]) /\ Own(p, act[p])
           /\ \A q \in Actors \ {p} : /\ act'[q] = act[q]
                                      /\ Moves(q, m)' <=> Moves(q, m)
                                      /\ Brings(q, m)' <=> Brings(q, m)
                                      /\ Cancels(q, m)' <=> Cancels(q, m)
           /\ delivered.of[m] \in Nat /\ NoMsg \notin Messages
  BY Spares, Hands, SendAssumption DEF OnceFrame, OnceInv, Moved, Only, TypeInv, DeliveredType, Moves, Brings,
     Cancels

\* The part of the invariant about one message.
OnceAt(m) == Sent(m) /\ (SparedOf(m, {"unsure", "overlap"}) => Once(m))

\* A handler ends: if it had sent, that is not known.
LEMMA OnceFrees ==
    ASSUME NEW p, NEW m, OnceFrame(p, m), act[p].msg = m, NEW M, Frees(p, M) PROVE OnceAt(m)'
<1>0. p \in Actors /\ m \in Messages /\ Moved(p) BY DEF OnceFrame, Frees
<1>1. /\ SparedOf(m, {"unsure", "overlap"})' => SparedOf(m, {"unsure", "overlap"}) /\ Once(m)
      /\ SparedOf(m, {"late"})' => SparedOf(m, {"late"})
      /\ Sent(m) /\ Hand(act[p]) /\ Hand(act'[p])
      /\ \A q \in Actors \ {p} : /\ act'[q] = act[q]
                                 /\ Moves(q, m)' <=> Moves(q, m)
                                 /\ Brings(q, m)' <=> Brings(q, m)
                                 /\ Cancels(q, m)' <=> Cancels(q, m)
      /\ NoMsg \notin Messages
    BY <1>0, Framed
<1>2. message' = message /\ delivered' = delivered /\ (Has(sendQueue', m) <=> Has(sendQueue, m)) /\ act'[p].msg # m
    BY <1>0, <1>1 DEF Frees, Lets, Hand
<1>3. ~Moves(p, m)' /\ ~Brings(p, m)' /\ ~Cancels(p, m)' BY <1>2 DEF Moves, Brings, Cancels
<1>4. Sent(m)' BY <1>1, <1>2 DEF Sent
<1>5. ASSUME SparedOf(m, {"unsure", "overlap"})' PROVE Once(m)'
    <2>1. Once(m) BY <1>1, <1>5
    <2>2. ~(Moves(p, m) /\ act[p].ok)
        <3>1. SUFFICES ASSUME Moves(p, m), act[p].ok PROVE FALSE OBVIOUS
        <3>2. act[p].pc = "save" BY <1>1, <3>1 DEF Hand, Moves, Transporting
        <3>3. "unsure" \in M /\ m \in With(p) BY <1>0, <3>1, <3>2 DEF Frees, Blames, With
        <3>4. "unsure" \in history'.marred[m] BY <1>0, <3>3 DEF Frees, Told
        <3> QED  BY <1>5, <3>4 DEF SparedOf
    <2>3. \A q \in Actors : Moves(q, m)' => /\ message'[m].status \in {"scheduled", "queued", "cancelled"}
                                            /\ ~act'[q].ok => delivered'.of[m] = 0
        BY <1>1, <1>2, <1>3, <2>1 DEF Once
    <2>4. message'[m].status = "scheduled" /\ delivered'.of[m] > 0 => \E q \in Actors : Moves(q, m)' /\ act'[q].ok
        BY <1>1, <1>2, <1>3, <2>1, <2>2 DEF Once
    <2>5. Gone(m) => Gone(m)' BY <1>1, <1>2, <1>3 DEF Gone
    <2>6. SparedOf(m, {"late"})' /\ (message'[m].status = "cancelled" \/ \E q \in Actors : Cancels(q, m)') => Gone(m)'
        BY <1>1, <1>2, <1>3, <2>1, <2>5 DEF Once
    <2> QED  BY <1>2, <2>1, <2>3, <2>4, <2>6 DEF Once
<1> QED  BY <1>4, <1>5 DEF OnceAt

\* A row is made: nobody had it.
LEMMA OnceMakes ==
    ASSUME NEW p, NEW m, OnceFrame(p, m), Makes(p, m) PROVE OnceAt(m)'
  BY Framed DEF OnceFrame, Makes, RoleInv, Role, Launched, Hand, Cancels, Sent, Once, OnceAt

\* A message is enqueued: it was not gone, and is not sent by this.
LEMMA OnceEnqueues ==
    ASSUME NEW p, NEW m, OnceFrame(p, m), act[p].msg = m, Enqueues(p) PROVE OnceAt(m)'
<1>0. p \in Actors /\ m \in Messages /\ Moved(p) BY DEF OnceFrame, Enqueues
<1>1. /\ SparedOf(m, {"unsure", "overlap"})' => SparedOf(m, {"unsure", "overlap"}) /\ Once(m)
      /\ SparedOf(m, {"late"})' => SparedOf(m, {"late"})
      /\ Sent(m) /\ Hand(act[p]) /\ Hand(act'[p])
      /\ \A q \in Actors \ {p} : /\ act'[q] = act[q]
                                 /\ Moves(q, m)' <=> Moves(q, m)
                                 /\ Cancels(q, m)' <=> Cancels(q, m)
      /\ NoMsg \notin Messages
    BY <1>0, Framed
<1>2. message' = message /\ delivered' = delivered /\ act'[p].msg # m /\ Brings(p, m)
    BY <1>0, <1>1 DEF Enqueues, Hand, Brings
<1>3. ~Moves(p, m)' /\ ~Cancels(p, m)' /\ ~Moves(p, m) BY <1>2 DEF Moves, Cancels, Brings, Transporting
<1>4. Sent(m)' BY <1>1, <1>2 DEF Sent
<1>5. ASSUME SparedOf(m, {"unsure", "overlap"})' PROVE Once(m)' BY <1>0, <1>1, <1>2, <1>5, <1>3 DEF Gone, Once
<1> QED  BY <1>4, <1>5 DEF OnceAt

\* The mail is taken: it was not sent before, and nobody else is sending it.
LEMMA OnceAccepts ==
    ASSUME NEW p, NEW m, OnceFrame(p, m), act[p].msg = m, Accepts(p) PROVE OnceAt(m)'
<1>0. p \in Actors /\ m \in Messages /\ Moved(p) /\ TypeInv /\ HandInv /\ RoleInv /\ LockInv
    BY DEF OnceFrame, Accepts
<1>1. /\ SparedOf(m, {"unsure", "overlap"})' => SparedOf(m, {"unsure", "overlap"}) /\ Once(m)
      /\ SparedOf(m, {"late"})' => SparedOf(m, {"late"})
      /\ Sent(m) /\ Hand(act[p]) /\ Hand(act'[p]) /\ Own(p, act[p])
      /\ \A q \in Actors \ {p} : /\ act'[q] = act[q]
                                 /\ Moves(q, m)' <=> Moves(q, m)
                                 /\ Brings(q, m)' <=> Brings(q, m)
                                 /\ Cancels(q, m)' <=> Cancels(q, m)
      /\ delivered.of[m] \in Nat
    BY <1>0, Framed
<1>2. message' = message /\ sendQueue' = sendQueue /\ delivered'.of[m] = delivered.of[m] + 1
    BY <1>0 DEF Accepts, Posts
<1>3. act'[p].msg = m /\ act'[p].pc = "save" /\ act'[p].ok /\ Moves(p, m) /\ ~act[p].ok
    BY <1>1 DEF Accepts, Keeps, Moves, Transporting, Hand
<1>4. Holds(p, m) /\ \A q \in Actors : Moves(q, m) => Holds(q, m)
    BY <1>0, <1>3, Hands DEF Moves, Holds, Hand, Kinds, Transporting
<1>5. Moves(p, m)' /\ ~Cancels(p, m)' BY <1>3 DEF Moves, Cancels, Transporting
<1>6. Sent(m)' BY <1>1, <1>2 DEF Sent
<1>7. ASSUME SparedOf(m, {"unsure", "overlap"})' PROVE Once(m)'
    <2>1. Once(m) /\ SparedOf(m, {"unsure", "overlap"}) BY <1>1, <1>7
    <2>2. \A q \in Actors : Moves(q, m) => q = p BY <1>0, <1>4, <2>1, Alone
    <2>3. delivered.of[m] = 0 /\ delivered'.of[m] = 1 BY <1>0, <1>2, <1>3, <2>1 DEF Once
    <2>4. message[m].status \in {"scheduled", "queued", "cancelled"} BY <1>0, <1>3, <2>1 DEF Once
    <2>5. \A q \in Actors : Moves(q, m)' => /\ message'[m].status \in {"scheduled", "queued", "cancelled"}
                                            /\ ~act'[q].ok => delivered'.of[m] = 0
        BY <1>1, <1>2, <1>3, <2>2, <2>4
    <2>6. message'[m].status = "scheduled" /\ delivered'.of[m] > 0 => \E q \in Actors : Moves(q, m)' /\ act'[q].ok
        BY <1>0, <1>3, <1>5
    <2>7. ~(SparedOf(m, {"late"}) /\ (message[m].status = "cancelled" \/ \E q \in Actors : Cancels(q, m)))
        <3>1. SUFFICES ASSUME SparedOf(m, {"late"}) /\ (message[m].status = "cancelled" \/ \E q \in Actors : Cancels(q, m))
                       PROVE  FALSE
            OBVIOUS
        <3>2. ~Has(sendQueue, m) BY <2>1, <3>1 DEF Once, Gone
        <3>3. act[p].kind # "job"
            <4>1. SUFFICES ASSUME act[p].kind = "job" PROVE FALSE OBVIOUS
            <4>2. p \in SendWorkers /\ SparedOf(m, {"overlap"})
                BY <1>1, <1>3, <2>1, <4>1 DEF Own, Hand, Kinds, SparedOf
            <4> QED  BY <1>0, <3>2, <4>2 DEF LockInv, Active
        <3>4. message[m].status = "queued" /\ \A q \in Actors : act[q].msg = m => q = p
            BY <1>0, <1>4, <3>3 DEF RoleInv, Role, Holds
        <3>5. ~Cancels(p, m) BY DEF Cancels, Accepts
        <3> QED  BY <3>1, <3>4, <3>5 DEF Cancels
    <2>8. ~(SparedOf(m, {"late"})' /\ (message'[m].status = "cancelled" \/ \E q \in Actors : Cancels(q, m)'))
        BY <1>1, <1>2, <1>5, <2>7
    <2> QED  BY <2>3, <2>4, <1>2, <2>5, <2>6, <2>8 DEF Once
<1> QED  BY <1>6, <1>7 DEF OnceAt

\* The mail is not taken, or a job begins: it was not sent before.
LEMMA OnceGoes ==
    ASSUME NEW p, NEW m, OnceFrame(p, m), act[p].msg = m, Goes(p) PROVE OnceAt(m)'
<1>0. p \in Actors /\ m \in Messages /\ Moved(p) /\ TypeInv /\ HandInv /\ RoleInv /\ TokenInv /\ LockInv
    BY DEF OnceFrame, Goes
<1>1. /\ SparedOf(m, {"unsure", "overlap"})' => SparedOf(m, {"unsure", "overlap"}) /\ Once(m)
      /\ SparedOf(m, {"late"})' => SparedOf(m, {"late"})
      /\ Sent(m) /\ Hand(act[p]) /\ Hand(act'[p]) /\ Own(p, act[p])
      /\ \A q \in Actors \ {p} : /\ act'[q] = act[q]
                                 /\ Moves(q, m)' <=> Moves(q, m)
                                 /\ Brings(q, m)' <=> Brings(q, m)
                                 /\ Cancels(q, m)' <=> Cancels(q, m)
      /\ delivered.of[m] \in Nat /\ NoMsg \notin Messages
    BY <1>0, Framed
<1>2. message' = message /\ sendQueue' = sendQueue /\ delivered' = delivered BY DEF Goes
<1>3. act'[p].msg = m /\ act'[p].pc \in Transporting /\ ~act'[p].ok /\ ~act[p].ok BY <1>1 DEF Goes, Keeps, Hand
<1>4. Moves(p, m)' /\ ~Cancels(p, m)' /\ ~Brings(p, m)' BY <1>3 DEF Moves, Cancels, Brings, Transporting
<1>5. Sent(m)' BY <1>1, <1>2, <1>3 DEF Sent
<1>6. ASSUME SparedOf(m, {"unsure", "overlap"})' PROVE Once(m)'
    <2>1. Once(m) /\ SparedOf(m, {"unsure", "overlap"}) BY <1>1, <1>6
    <2>2. message[m].status \in {"scheduled", "queued", "cancelled"} /\ delivered.of[m] = 0
        <3>1. CASE act[p].pc \in {"ses", "fallback"} BY <3>1, <1>0, <1>3, <2>1 DEF Moves, Transporting, Once
        <3>2. CASE act[p].pc = "read" /\ message[m].status = "scheduled"
            <4>1. Holds(p, m) BY <1>1, <3>2 DEF Holds, Hand, Kinds, Transporting
            <4>2. ASSUME NEW q \in Actors, Moves(q, m), act[q].ok PROVE FALSE
        BY <1>0, <4>2, Hands, <2>1, <4>1, Alone, <1>3 DEF Moves, Holds, Hand, Kinds, Transporting
            <4> QED  BY <1>1, <2>1, <3>2, <4>2 DEF Once
        <3> QED  BY <3>1, <3>2 DEF Goes
    <2>3. \A q \in Actors : Moves(q, m)' => /\ message'[m].status \in {"scheduled", "queued", "cancelled"}
                                            /\ ~act'[q].ok => delivered'.of[m] = 0
        BY <1>1, <1>2, <2>1, <2>2 DEF Once
    <2>4. message'[m].status = "scheduled" /\ delivered'.of[m] > 0 => \E q \in Actors : Moves(q, m)' /\ act'[q].ok
        BY <1>2, <2>2
    <2>5. Gone(m) => Gone(m)' BY <1>1, <1>2, <1>4 DEF Gone
    <2>6. SparedOf(m, {"late"})' /\ (message'[m].status = "cancelled" \/ \E q \in Actors : Cancels(q, m)') => Gone(m)'
        BY <1>1, <1>2, <1>4, <2>1, <2>5 DEF Once
    <2> QED  BY <1>2, <2>1, <2>3, <2>4, <2>6 DEF Once
<1> QED  BY <1>5, <1>6 DEF OnceAt

\* The mail is taken, and that is not known: nothing is said of m any more.
LEMMA OnceLoses ==
    ASSUME NEW p, NEW m, OnceFrame(p, m), act[p].msg = m, NEW M, Loses(p, M) PROVE OnceAt(m)'
<1>0. p \in Actors /\ m \in Messages /\ Moved(p) /\ TypeInv /\ HandInv /\ RoleInv /\ TokenInv /\ LockInv
    BY DEF OnceFrame, Loses
<1>1. /\ SparedOf(m, {"unsure", "overlap"})' => SparedOf(m, {"unsure", "overlap"}) /\ Once(m)
      /\ SparedOf(m, {"late"})' => SparedOf(m, {"late"})
      /\ Sent(m) /\ Hand(act[p]) /\ Hand(act'[p]) /\ Own(p, act[p])
      /\ \A q \in Actors \ {p} : /\ act'[q] = act[q]
                                 /\ Moves(q, m)' <=> Moves(q, m)
                                 /\ Brings(q, m)' <=> Brings(q, m)
                                 /\ Cancels(q, m)' <=> Cancels(q, m)
      /\ delivered.of[m] \in Nat /\ NoMsg \notin Messages
    BY <1>0, Framed
<1>2. "unsure" \in history'.marred[m] BY <1>0 DEF Loses, Told, With
<1>3. message' = message /\ delivered'.of[m] = delivered.of[m] + 1 BY <1>0 DEF Loses, Posts
<1>4. Sent(m)' BY <1>1, <1>3 DEF Sent
<1> QED  BY <1>2, <1>4 DEF OnceAt, SparedOf

\* The outcome is written: it is true, and nobody is sending m any more.
LEMMA OnceSaves ==
    ASSUME NEW p, NEW m, OnceFrame(p, m), act[p].msg = m, Saves(p) PROVE OnceAt(m)'
<1>0. p \in Actors /\ m \in Messages /\ Moved(p) /\ TypeInv /\ HandInv /\ RoleInv /\ TokenInv /\ LockInv
    BY DEF OnceFrame, Saves
<1>1. /\ SparedOf(m, {"unsure", "overlap"})' => SparedOf(m, {"unsure", "overlap"}) /\ Once(m)
      /\ SparedOf(m, {"late"})' => SparedOf(m, {"late"})
      /\ Sent(m) /\ Hand(act[p]) /\ Hand(act'[p]) /\ Own(p, act[p])
      /\ \A q \in Actors \ {p} : /\ act'[q] = act[q]
                                 /\ Moves(q, m)' <=> Moves(q, m)
                                 /\ Brings(q, m)' <=> Brings(q, m)
                                 /\ Cancels(q, m)' <=> Cancels(q, m)
      /\ delivered.of[m] \in Nat /\ NoMsg \notin Messages
    BY <1>0, Framed
<1>2. sendQueue' = sendQueue /\ delivered' = delivered /\ message'[m].status = IF act[p].ok THEN "sent" ELSE "failed"
    BY <1>0 DEF Saves, Writes
<1>3. Moves(p, m) /\ act'[p].pc \in {"idle", "next", "end"} /\ (act'[p].ok => act[p].ok)
    BY <1>1 DEF Saves, Moves, Transporting, Hand
<1>4. ~Moves(p, m)' /\ ~Cancels(p, m)' /\ ~Brings(p, m)' /\ ~Cancels(p, m)
    BY <1>3 DEF Moves, Cancels, Brings, Transporting
<1>5. Sent(m)' BY <1>0, <1>1, <1>2, <1>3 DEF Sent
<1>6. ASSUME SparedOf(m, {"unsure", "overlap"})' PROVE Once(m)'
  BY <1>1, <1>6, <1>0, Hands, <1>3, Alone, <1>4, <1>2 DEF Moves, Holds, Hand, Kinds, Transporting, Once, Gone
<1> QED  BY <1>5, <1>6 DEF OnceAt

\* A message is taken up, by a worker or by a change.
LEMMA OnceTakenUp ==
    ASSUME NEW p, NEW m, OnceFrame(p, m), Opens(p, m) \/ Picks(p, m) PROVE OnceAt(m)'
<1>0. p \in Actors /\ m \in Messages /\ Moved(p) /\ TypeInv /\ HandInv /\ RoleInv /\ TokenInv /\ LockInv
    BY DEF OnceFrame, Opens, Picks
<1>1. /\ SparedOf(m, {"unsure", "overlap"})' => SparedOf(m, {"unsure", "overlap"}) /\ Once(m)
      /\ SparedOf(m, {"late"})' => SparedOf(m, {"late"})
      /\ Sent(m) /\ Hand(act[p]) /\ Hand(act'[p]) /\ Own(p, act[p])
      /\ \A q \in Actors \ {p} : /\ act'[q] = act[q]
                                 /\ Moves(q, m)' <=> Moves(q, m)
                                 /\ Brings(q, m)' <=> Brings(q, m)
                                 /\ Cancels(q, m)' <=> Cancels(q, m)
      /\ delivered.of[m] \in Nat /\ NoMsg \notin Messages
    BY <1>0, Framed
<1>2. message' = message /\ delivered' = delivered /\ (Has(sendQueue', m) <=> Has(sendQueue, m))
      /\ act'[p].pc \in {"remove", "read"} /\ act[p].pc = "idle"
    BY DEF Opens, Picks, Waiting, Active
<1>3. ~Moves(p, m)' /\ ~Cancels(p, m)' /\ ~Brings(p, m)' /\ ~Moves(p, m) /\ ~act'[p].ok
    BY <1>1, <1>2 DEF Moves, Cancels, Brings, Transporting, Hand
<1>4. Sent(m)' BY <1>1, <1>2, <1>3 DEF Sent
<1>5. ASSUME SparedOf(m, {"unsure", "overlap"})' PROVE Once(m)' BY <1>1, <1>5, <1>2, <1>3 DEF Once, Gone
<1> QED  BY <1>4, <1>5 DEF OnceAt

\* The job is removed: in time, and then nothing was sent, or late.
LEMMA OnceRemoves ==
    ASSUME NEW p, NEW m, OnceFrame(p, m), act[p].msg = m, NEW M, Removes(p, M) PROVE OnceAt(m)'
<1>0. p \in Actors /\ m \in Messages /\ Moved(p) /\ TypeInv /\ HandInv /\ RoleInv /\ TokenInv /\ LockInv
    BY DEF OnceFrame, Removes
<1>1. /\ SparedOf(m, {"unsure", "overlap"})' => SparedOf(m, {"unsure", "overlap"}) /\ Once(m)
      /\ SparedOf(m, {"late"})' => SparedOf(m, {"late"})
      /\ Sent(m) /\ Hand(act[p]) /\ Hand(act'[p]) /\ Own(p, act[p])
      /\ \A q \in Actors \ {p} : /\ act'[q] = act[q]
                                 /\ Moves(q, m)' <=> Moves(q, m)
                                 /\ Brings(q, m)' <=> Brings(q, m)
                                 /\ Cancels(q, m)' <=> Cancels(q, m)
      /\ delivered.of[m] \in Nat /\ NoMsg \notin Messages
    BY <1>0, Framed
<1>2. message' = message /\ delivered' = delivered /\ ~Has(sendQueue', m) /\ act'[p].msg = m
      /\ act'[p].pc \in {"cancelled", "requeue"} /\ act[p].pc = "remove"
    BY DEF Removes, Keeps
<1>3. ~Moves(p, m)' /\ ~Moves(p, m) /\ ~act'[p].ok BY <1>1, <1>2 DEF Moves, Transporting, Hand
<1>4. Sent(m)' BY <1>1, <1>2, <1>3 DEF Sent
<1>5. ASSUME SparedOf(m, {"unsure", "overlap"})' PROVE Once(m)'
    <2>1. Once(m) /\ SparedOf(m, {"unsure", "overlap"}) BY <1>1, <1>5
    <2>2. \A q \in Actors : Moves(q, m)' => /\ message'[m].status \in {"scheduled", "queued", "cancelled"}
                                            /\ ~act'[q].ok => delivered'.of[m] = 0
        BY <1>1, <1>2, <1>3, <2>1 DEF Once
    <2>3. message'[m].status = "scheduled" /\ delivered'.of[m] > 0 => \E q \in Actors : Moves(q, m)' /\ act'[q].ok
        BY <1>1, <1>2, <1>3, <2>1 DEF Once
    <2>4. SparedOf(m, {"late"})' /\ (message'[m].status = "cancelled" \/ \E q \in Actors : Cancels(q, m)') => Gone(m)'
        <3>1. CASE act'[p].pc = "requeue" BY <1>2, <3>1, <1>1, <2>1 DEF Removes, Gone, Cancels, Once
        <3>2. CASE act'[p].pc = "cancelled" /\ SparedOf(m, {"late"})'
            <4>1. "late" \notin M BY <1>0, <3>2 DEF Removes, Told, SparedOf
            <4>2. Waiting(sendQueue, m) /\ message[m].status = "scheduled" BY <3>2, <4>1 DEF Removes
            <4>3. ASSUME NEW q \in Actors, Moves(q, m) PROVE FALSE
        BY <1>0, Hands, <4>2, <4>3, <2>1 DEF RoleInv, Role, Moves, Hand, Kinds, Transporting, Own, SparedOf,
           LockInv, Active, Waiting
            <4>4. delivered.of[m] = 0 BY <1>1, <2>1, <4>2, <4>3 DEF Once
            <4>5. \A q \in Actors : ~Brings(q, m) BY <1>0, <4>2 DEF TokenInv, Waiting
            <4>6. Gone(m)' BY <1>1, <1>2, <3>2, <4>4, <4>5 DEF Gone, Brings
            <4> QED  BY <4>6
        <3> QED  BY <1>2, <3>1, <3>2
    <2> QED  BY <1>2, <2>1, <2>2, <2>3, <2>4 DEF Once
<1> QED  BY <1>4, <1>5 DEF OnceAt

\* It is marked as cancelled: in time, if it was cancelled in time.
LEMMA OnceCancels ==
    ASSUME NEW p, NEW m, OnceFrame(p, m), act[p].msg = m, Cancelling(p) PROVE OnceAt(m)'
<1>0. p \in Actors /\ m \in Messages /\ Moved(p) /\ TypeInv /\ HandInv /\ RoleInv /\ TokenInv /\ LockInv
    BY DEF OnceFrame, Cancelling
<1>1. /\ SparedOf(m, {"unsure", "overlap"})' => SparedOf(m, {"unsure", "overlap"}) /\ Once(m)
      /\ SparedOf(m, {"late"})' => SparedOf(m, {"late"})
      /\ Sent(m) /\ Hand(act[p]) /\ Hand(act'[p]) /\ Own(p, act[p])
      /\ \A q \in Actors \ {p} : /\ act'[q] = act[q]
                                 /\ Moves(q, m)' <=> Moves(q, m)
                                 /\ Brings(q, m)' <=> Brings(q, m)
                                 /\ Cancels(q, m)' <=> Cancels(q, m)
      /\ delivered.of[m] \in Nat /\ NoMsg \notin Messages
    BY <1>0, Framed
<1>2. sendQueue' = sendQueue /\ delivered' = delivered /\ message'[m].status = "cancelled"
      /\ Cancels(p, m) /\ act'[p].pc = "idle" /\ act[p].pc = "cancelled"
    BY DEF Cancelling, Writes, Cancels
<1>3. ~Moves(p, m)' /\ ~Cancels(p, m)' /\ ~Brings(p, m)' /\ ~act'[p].ok
    BY <1>1, <1>2 DEF Moves, Cancels, Brings, Transporting, Hand
<1>4. Sent(m)' BY <1>1, <1>2, <1>3 DEF Sent
<1>5. ASSUME SparedOf(m, {"unsure", "overlap"})' PROVE Once(m)' BY <1>1, <1>5, <1>2, <1>3, <1>0 DEF Once, Gone
<1> QED  BY <1>4, <1>5 DEF OnceAt

\* Where the mail of a message is.
LEMMA OnceStep ==
    ASSUME TypeInv, HandInv, RoleInv, TokenInv, LockInv, OnceInv, TypeInv', HandInv', Worse, Kinded
    PROVE  OnceInv'
<1>1. SUFFICES ASSUME NEW m \in Messages PROVE OnceAt(m)' BY DEF OnceInv, OnceAt
<1>2. SendWorkers \subseteq Actors /\ NoMsg \notin Messages BY SendAssumption DEF Actors
<1>3. \A p \in Actors : OnceFrame(p, m) BY DEF OnceFrame
<1>4. Untouched(m) => OnceAt(m)' BY OnceKept DEF OnceAt
\* a step of an actor that has nothing to do with m
<1>5. ASSUME NEW p \in Actors, Moved(p), act[p].msg # m, act'[p].msg # m,
             message'[m] = message[m], delivered'.of[m] = delivered.of[m], Has(sendQueue', m) <=> Has(sendQueue, m)
      PROVE  OnceAt(m)'
  BY <1>5, <1>4 DEF Moved, Only, Untouched
<1>6. ASSUME NEW p \in Actors, NEW M \in SUBSET SendMarks, Frees(p, M) PROVE OnceAt(m)'
  BY <1>3, <1>6, OnceFrees, <1>2, <1>5 DEF Frees, Lets, Moved, Hand
<1>7. ASSUME NEW p \in Actors, NEW M \in SUBSET SendMarks, Blind(p, M) PROVE OnceAt(m)'
  BY <1>2, <1>7, Hands, <1>5 DEF Blind, Hand, Keeps
<1>8. ASSUME NEW p \in Actors, NEW n \in Messages, Makes(p, n) PROVE OnceAt(m)'
  BY <1>3, <1>8, OnceMakes, <1>2, Hands, <1>5 DEF Makes, Hand
<1>9. ASSUME NEW p \in Actors, Enqueues(p) PROVE OnceAt(m)'
  BY <1>3, <1>9, OnceEnqueues, <1>2, <1>5 DEF Enqueues, Others, Moved, Hand
<1>10. ASSUME NEW p \in Actors, Accepts(p) PROVE OnceAt(m)'
  BY <1>3, <1>10, OnceAccepts, <1>5 DEF Accepts, Posts, Keeps
<1>11. ASSUME NEW p \in Actors, Goes(p) PROVE OnceAt(m)' BY <1>3, <1>11, OnceGoes, <1>5 DEF Goes, Keeps
<1>12. ASSUME NEW p \in Actors, NEW M \in SUBSET SendMarks, Loses(p, M) PROVE OnceAt(m)'
  BY <1>3, <1>12, OnceLoses, <1>2, <1>5 DEF Loses, Keeps, Moved, Hand, Posts
<1>13. ASSUME NEW p \in Actors, Saves(p) PROVE OnceAt(m)'
  BY <1>3, <1>13, OnceSaves, <1>2, <1>5 DEF Saves, Keeps, Moved, Hand, Writes
<1>14. ASSUME NEW p \in Actors, NEW n \in Messages, Opens(p, n) \/ Picks(p, n) PROVE OnceAt(m)'
  BY <1>3, <1>14, OnceTakenUp, <1>2, Hands, <1>5 DEF Opens, Picks, Hand, Others
<1>15. ASSUME NEW p \in Actors, NEW M \in SUBSET SendMarks, Removes(p, M) PROVE OnceAt(m)'
  BY <1>3, <1>15, OnceRemoves, <1>5 DEF Removes, Others, Keeps
<1>16. ASSUME NEW p \in Actors, Cancelling(p) PROVE OnceAt(m)'
  BY <1>3, <1>16, OnceCancels, <1>2, <1>5 DEF Cancelling, Moved, Hand, Writes
<1>17. ASSUME NEW n \in Messages, NEW M \in SUBSET SendMarks, Lapses(n, M) PROVE OnceAt(m)'
  BY <1>17, <1>4 DEF Lapses, Untouched, Others, Active
<1> QED  BY <1>2, <1>6, <1>7, <1>8, <1>9, <1>10, <1>11, <1>12, <1>13, <1>14, <1>15, <1>16, <1>17 DEF Kinded

------------------------------------------------------------------------------
(* Keys. *)

\* Rows keep their keys, marks are put on a message and its key alike, and
\* nothing is sent: what a key knows of its message stays true.
KeyAt(k) == /\ \A m \in Messages : message[m].key = k => Tied(m, k)
            /\ SparedOf(k, {"rowless"}) => Rows(k)
\* Marks that say something of m are put on its key as well.
Alike(X, M) == M \cap {"unsure", "overlap"} = {} \/ \A m \in Messages : m \in X => {message[m].key} \cap Keys \subseteq X
\* What a key knows is kept by a step that mails nothing under it.
LEMMA KeyKept ==
    ASSUME TypeInv, NEW k \in Keys, KeyAt(k), \A m \in Messages : message'[m].key = message[m].key,
           NEW X, NEW M, Told(X, M), Alike(X, M), delivered' = delivered,
           \A p \in Actors : act'[p].key = k /\ act'[p].pc \in Transporting /\ act'[p].msg = NoMsg =>
              \/ act[p].key = k /\ act[p].pc \in Transporting /\ act[p].msg = NoMsg
              \/ ~SparedOf(k, {"rowless"})'
    PROVE  KeyAt(k)'
<1>1. Worse BY Worsens
<1>2. SparedOf(k, {"rowless"})' => SparedOf(k, {"rowless"}) BY <1>1, Spares
<1>3. ASSUME NEW m \in Messages, message[m].key = k PROVE Tied(m, k)'
    <2>1. Tied(m, k) BY <1>3 DEF KeyAt
    <2>2. history'.marred[m] \cap {"unsure", "overlap"} \subseteq history'.marred[k]
    BY <1>3, <2>1 DEF Told, Alike, Tied
    <2> QED  BY <1>2, <2>1, <2>2 DEF Tied
<1>4. SparedOf(k, {"rowless"})' => Rows(k)' BY <1>2 DEF KeyAt, Rows
<1> QED  BY <1>3, <1>4 DEF KeyAt

\* A mail is posted under the key of its message.
LEMMA KeyPosts ==
    ASSUME TypeInv, HandInv, RoleInv, NEW k \in Keys, KeyAt(k), NEW p \in Actors, Posts(p), act[p].pc \in {"ses", "fallback"},
           message' = message, NEW X, NEW M, Told(X, M), Alike(X, M),
           \A q \in Actors : act'[q].key = k /\ act'[q].pc \in Transporting /\ act'[q].msg = NoMsg =>
              act[q].key = k /\ act[q].pc \in Transporting /\ act[q].msg = NoMsg
    PROVE  KeyAt(k)'
<1>1. Worse BY Worsens
<1>2. SparedOf(k, {"rowless"})' => SparedOf(k, {"rowless"}) BY <1>1, Spares
<1>3. act[p].pc \in Transporting /\ Hand(act[p]) /\ \A m \in Messages : Role(p, m)
    BY Hands DEF Transporting, RoleInv
<1>4. act[p].kind \in {"now", "batch", "job"} /\ (act[p].msg \in Messages \/ act[p].msg = NoMsg)
    BY <1>3 DEF Hand, Kinds, Transporting
<1>5. \A m \in Messages : act[p].msg = m => act[p].key = message[m].key BY <1>3, <1>4 DEF Role
<1>6. ASSUME NEW m \in Messages, message[m].key = k PROVE Tied(m, k)'
    <2>1. Tied(m, k) BY <1>6 DEF KeyAt
    <2>2. history'.marred[m] \cap {"unsure", "overlap"} \subseteq history'.marred[k]
    BY <1>6, <2>1 DEF Told, Alike, Tied
    <2>3. SparedOf(k, {"rowless"})' => delivered'.under[k] = delivered'.of[m]
        <3>1. SUFFICES ASSUME SparedOf(k, {"rowless"})' PROVE delivered'.under[k] = delivered'.of[m] OBVIOUS
        <3>2. delivered.under[k] = delivered.of[m] /\ Rows(k) BY <1>2, <2>1, <3>1 DEF Tied, KeyAt
        <3>3. act[p].key = k => act[p].msg = m BY <1>3, <1>4, <1>5, <2>1, <3>2 DEF Rows, Tied
        <3>4. act[p].msg = m => act[p].key = k BY <1>5, <1>6
        <3> QED  BY <3>2, <3>3, <3>4 DEF Posts
    <2> QED  BY <2>1, <2>2, <2>3 DEF Tied
<1>7. SparedOf(k, {"rowless"})' => Rows(k)'
    <2>1. SUFFICES ASSUME SparedOf(k, {"rowless"})' PROVE Rows(k)' OBVIOUS
    <2>2. Rows(k) BY <1>2, <2>1 DEF KeyAt
    <2>3. ASSUME \A m \in Messages : message[m].key # k PROVE delivered'.under[k] = 0
    BY <1>3, <1>4, <1>5, <2>2, <2>3 DEF Rows, Posts
    <2>4. \A q \in Actors : act'[q].key = k /\ act'[q].pc \in Transporting => act'[q].msg # NoMsg
        BY <2>2 DEF Rows
    <2> QED  BY <2>3, <2>4 DEF Rows
<1> QED  BY <1>6, <1>7 DEF KeyAt

\* A row is made under a key that has none.
LEMMA KeyMakes ==
    ASSUME TypeInv, HandInv, RoleInv, NEW k \in Keys, KeyAt(k), NEW p \in Actors, NEW n \in Messages, Makes(p, n)
    PROVE  KeyAt(k)'
<1>1. delivered' = delivered /\ Told({}, {}) /\ (\A m \in Messages \ {n} : message'[m] = message[m]) /\ message'[n].key = act[p].key
    BY DEF Makes
<1>2. history'.marred[k] = history.marred[k] /\ \A m \in Messages : history'.marred[m] = history.marred[m]
    BY <1>1 DEF Told
<1>3. /\ \A q \in Actors \ {p} : act'[q] = act[q]
      /\ act'[p].msg = n /\ n # NoMsg /\ NoKey \notin Keys
    BY SendAssumption DEF Makes, Moved, Only
<1>4. delivered.of[n] = 0 /\ message[n].key = NoKey /\ SparedOf(n, {"unsure", "overlap"}) BY DEF Makes, RoleInv
<1>5. act[p].key = k => \A m \in Messages : message[m].key # k BY <1>3 DEF Makes, Taken
<1>6. ASSUME NEW m \in Messages, message'[m].key = k PROVE Tied(m, k)'
  BY <1>1, <1>5, <1>6, <1>2, <1>4 DEF KeyAt, Rows, SparedOf, Tied
<1>7. SparedOf(k, {"rowless"})' => Rows(k)'
    <2>1. SUFFICES ASSUME SparedOf(k, {"rowless"})' PROVE Rows(k)' OBVIOUS
    <2>2. Rows(k) BY <1>2, <2>1 DEF KeyAt, SparedOf
    <2>3. \A q \in Actors : act'[q].key = k /\ act'[q].pc \in Transporting => act'[q].msg # NoMsg
        BY <1>3, <2>2 DEF Rows
    <2>4. (\A m \in Messages : message'[m].key # k) => \A m \in Messages : message[m].key # k
        BY <1>1, <1>3, <1>4
    <2> QED  BY <1>1, <2>2, <2>3, <2>4 DEF Rows
<1> QED  BY <1>6, <1>7 DEF KeyAt

\* What the keys know.
LEMMA KeyStep ==
    ASSUME TypeInv, HandInv, RoleInv, KeyInv, TypeInv', HandInv', Kinded PROVE KeyInv'
<1>1. SUFFICES ASSUME NEW k \in Keys PROVE KeyAt(k)' BY DEF KeyInv, KeyAt
<1>2. KeyAt(k) BY DEF KeyInv, KeyAt
<1>3. SendWorkers \subseteq Actors /\ NoMsg \notin Messages /\ NoKey \notin Keys \cup Messages /\ Messages \cap Keys = {}
    BY SendAssumption DEF Actors
<1>4. Alike({}, {}) /\ \A X, M : M \subseteq {"late"} => Alike(X, M) BY DEF Alike
\* what an actor holds, and its message's key
<1>5. ASSUME NEW p \in Actors, NEW M, M \cap {"unsure", "overlap"} # {} => act[p].pc \in Transporting
      PROVE  Alike(With(p), M)
    <2>1. SUFFICES ASSUME act[p].pc \in Transporting, NEW m \in Messages, m \in With(p)
                   PROVE  {message[m].key} \cap Keys \subseteq With(p)
        BY <1>5 DEF Alike
    <2>2. act[p].msg = m BY <1>3, <2>1 DEF With, TypeInv, ActType
    <2>3. act[p].kind \in {"now", "batch", "job"} /\ Role(p, m)
        BY <2>1, Hands DEF Hand, Kinds, Transporting, RoleInv
    <2> QED  BY <2>2, <2>3 DEF Role, With
<1>6. ASSUME NEW p \in Actors, Moved(p) PROVE (\A q \in Actors \ {p} : act'[q] = act[q]) /\ Hand(act'[p]) /\ Hand(act[p])
    BY <1>6, Hands DEF Moved, Only
<1>7. ASSUME NEW p \in Actors, Moved(p),
             \/ act'[p].pc \notin Transporting
             \/ act'[p].msg # NoMsg
             \/ act'[p].key # k
             \/ act[p].key = k /\ act[p].pc \in Transporting /\ act[p].msg = NoMsg
      PROVE  \A q \in Actors : act'[q].key = k /\ act'[q].pc \in Transporting /\ act'[q].msg = NoMsg =>
                act[q].key = k /\ act[q].pc \in Transporting /\ act[q].msg = NoMsg
    BY <1>6, <1>7
<1>8. ASSUME NEW p \in Actors, NEW M \in SUBSET SendMarks, Frees(p, M) PROVE KeyAt(k)'
  BY <1>5, <1>8, <1>2, <1>7, KeyKept DEF Frees, Blames, Transporting
<1>9. ASSUME NEW p \in Actors, NEW M \in SUBSET SendMarks, Blind(p, M) PROVE KeyAt(k)'
    <2>1. Moved(p) /\ act[p].msg = NoMsg BY <1>6, <1>9 DEF Blind, Hand
    <2>2. Alike(With(p), M) BY <1>3, <2>1 DEF Alike, With, TypeInv, ActType
    <2>3. act'[p].key = k => ~SparedOf(k, {"rowless"})' BY <1>9 DEF Blind, Keeps, With, Told, SparedOf
    <2>4. \A q \in Actors : act'[q].key = k /\ act'[q].pc \in Transporting /\ act'[q].msg = NoMsg =>
              \/ act[q].key = k /\ act[q].pc \in Transporting /\ act[q].msg = NoMsg
              \/ ~SparedOf(k, {"rowless"})'
        BY <1>6, <2>1, <2>3
    <2> QED  BY <1>2, <1>9, <2>2, <2>4, KeyKept DEF Blind
<1>10. ASSUME NEW p \in Actors, Enqueues(p) \/ Goes(p) PROVE KeyAt(k)'
  BY <1>10, <1>3, <1>2, <1>4, <1>7, KeyKept DEF Enqueues, Goes, Keeps, Transporting
<1>11. ASSUME NEW p \in Actors, Saves(p) \/ Cancelling(p) PROVE KeyAt(k)'
  BY <1>11, <1>2, <1>4, <1>7, KeyKept DEF Saves, Cancelling, Writes, Transporting
<1>12. ASSUME NEW p \in Actors, NEW n \in Messages, Opens(p, n) \/ Picks(p, n) PROVE KeyAt(k)'
  BY <1>12, <1>2, <1>4, <1>7, KeyKept DEF Opens, Picks, Transporting
<1>13. ASSUME NEW p \in Actors, NEW M \in SUBSET SendMarks, Removes(p, M) PROVE KeyAt(k)'
  BY <1>13, <1>4, <1>2, <1>7, KeyKept DEF Removes, Transporting
<1>14. ASSUME NEW n \in Messages, NEW M \in SUBSET SendMarks, Lapses(n, M) PROVE KeyAt(k)'
  BY <1>3, <1>14, <1>2, KeyKept DEF Alike, TypeInv, MessageType, Lapses
<1>15. ASSUME NEW p \in Actors, Accepts(p) PROVE KeyAt(k)'
  BY <1>15, <1>6, <1>2, <1>4, KeyPosts DEF Accepts, Keeps, Transporting
<1>16. ASSUME NEW p \in Actors, NEW M \in SUBSET SendMarks, Loses(p, M) PROVE KeyAt(k)'
  BY <1>16, <1>6, <1>5, <1>2, KeyPosts DEF Loses, Keeps, Transporting
<1>17. ASSUME NEW p \in Actors, NEW n \in Messages, Makes(p, n) PROVE KeyAt(k)' BY <1>2, <1>17, KeyMakes
<1> QED  BY <1>3, <1>8, <1>9, <1>10, <1>11, <1>12, <1>13, <1>14, <1>15, <1>16, <1>17 DEF Kinded

------------------------------------------------------------------------------
(* What is owed. *)

\* What p owes, as pairs.
Share(p, n) == {p} \X (1..n)
\* The mails one actor owes are as many as their numbers.
LEMMA Shares ==
    ASSUME NEW p, NEW n \in Nat PROVE IsFiniteSet(Share(p, n)) /\ Cardinality(Share(p, n)) = n
<1>1. IsFiniteSet({p}) /\ Cardinality({p}) = 1 BY FS_Singleton
<1>2. IsFiniteSet(1..n) /\ Cardinality(1..n) = n BY FS_Interval
<1>3. IsFiniteSet(Share(p, n)) /\ Cardinality(Share(p, n)) = Cardinality({p}) * Cardinality(1..n)
    BY <1>1, <1>2, FS_Product DEF Share
<1> QED  BY <1>1, <1>2, <1>3

\* What everybody owes is what p owes and what the others owe.
LEMMA Parts ==
    ASSUME NEW a, NEW p \in Actors, NEW n \in Nat, n = Owes(a[p]), NEW R, IsFiniteSet(R),
           R = {z \in Actors \X (Nat \ {0}) : z[1] # p /\ z[2] <= Owes(a[z[1]])}
    PROVE  IsFiniteSet(Owed(a)) /\ Cardinality(Owed(a)) = Cardinality(R) + n
<1>1. Owed(a) = R \cup Share(p, n)
    <2>1. ASSUME NEW z \in Owed(a), z \notin R PROVE z \in Share(p, n) BY <2>1 DEF Owed, Share
    <2>2. R \subseteq Owed(a) BY DEF Owed
    <2>3. ASSUME NEW z \in Share(p, n) PROVE z \in Owed(a) BY DEF Share, Owed
    <2> QED  BY <2>1, <2>2, <2>3
<1>2. R \cap Share(p, n) = {} BY DEF Share
<1>3. IsFiniteSet(Share(p, n)) /\ Cardinality(Share(p, n)) = n BY Shares
<1>4. IsFiniteSet(R \cup Share(p, n)) /\ Cardinality(R \cup Share(p, n)) = Cardinality(R) + Cardinality(Share(p, n)) - Cardinality(R \cap Share(p, n))
    BY <1>3, FS_Union
<1>5. Cardinality({}) = 0 /\ Cardinality(R) \in Nat BY FS_EmptySet, FS_CardinalityType
<1>6. PICK r \in Nat : r = Cardinality(R) BY <1>5
<1>7. Cardinality(R \cap Share(p, n)) = 0 BY <1>2, <1>5
<1>8. Cardinality(R \cup Share(p, n)) = r + n BY <1>3, <1>4, <1>6, <1>7
<1> QED  BY <1>1, <1>4, <1>6, <1>8

\* What is counted and what is owed never exceed what was delivered.
LEMMA CountStep ==
    ASSUME TypeInv, HandInv, CountInv, TypeInv', HandInv', Worse, Kinded PROVE CountInv'
<1>1. ASSUME NEW p \in Actors, Moved(p) PROVE CountInv'
    <2>1. PICK n \in Nat : n = Owes(act[p]) BY DEF TypeInv, ActType, Owes
    <2>2. PICK i \in Nat : i = Owes(act'[p]) BY DEF TypeInv, ActType, Owes
    <2>3. PICK R : R = {z \in Actors \X (Nat \ {0}) : z[1] # p /\ z[2] <= Owes(act[z[1]])} OBVIOUS
    <2>4. R \subseteq Owed(act) BY <2>3 DEF Owed
    <2>5. IsFiniteSet(R) BY <2>4, FS_Subset DEF CountInv
    <2>6. Cardinality(Owed(act)) = Cardinality(R) + n BY <2>1, <2>3, <2>5, Parts
    <2>7. R = {z \in Actors \X (Nat \ {0}) : z[1] # p /\ z[2] <= Owes(act'[z[1]])} BY <1>1, <2>3 DEF Moved, Only
    <2>8. IsFiniteSet(Owed(act')) /\ Cardinality(Owed(act')) = Cardinality(R) + i BY <2>2, <2>5, <2>7, Parts
    <2>9. PICK r \in Nat : r = Cardinality(R) BY <2>5, FS_CardinalityType
    <2>10. PICK u \in Nat, v \in Nat : u = usage /\ v = usage' BY <1>1 DEF TypeInv, Moved, Pays
    <2>11. PICK d \in Nat, e \in Nat : d = delivered.all /\ e = delivered'.all BY DEF TypeInv, DeliveredType
    <2>12. PICK t \in Nat, s \in Nat : t = history.trouble /\ s = history'.trouble /\ t <= s
        BY DEF TypeInv, HistoryType, Worse
    <2>13. u + (r + n) <= d /\ (t = 0 => u + (r + n) = d) BY <2>6, <2>9, <2>10, <2>11, <2>12 DEF CountInv
    <2>14. v + i + d <= e + u + n /\ (s = 0 => v + i + d = e + u + n)
        BY <1>1, <2>1, <2>2, <2>10, <2>11, <2>12 DEF Moved, Pays
    <2>15. v + (r + i) <= e /\ (s = 0 => v + (r + i) = e) BY <2>12, <2>13, <2>14
    <2> QED  BY <2>8, <2>9, <2>10, <2>11, <2>12, <2>15 DEF CountInv
<1>2. ASSUME NEW m \in Messages, NEW M \in SUBSET SendMarks, Lapses(m, M) PROVE CountInv'
  BY <1>2 DEF Lapses, TypeInv, HistoryType, Worse, CountInv, Owed
<1> QED  BY <1>1, <1>2, Anyhow

------------------------------------------------------------------------------
(* The theorems. *)

\* At first nothing has happened.
LEMMA Initially == SendInit => IInv
<1> SUFFICES ASSUME SendInit PROVE IInv OBVIOUS
<1>0. Messages \cap Keys = {} /\ NoMsg \notin Messages /\ NoKey \notin Keys BY SendAssumption
<1>1. \A m \in Messages : message[m].status = "none" /\ message[m].key = NoKey BY DEF SendInit, NoRow
<1>2. \A p \in Actors : act[p] = Slot("idle", "none", NoMsg, NoKey, FALSE, FALSE, 0) /\ act[p] \in ActType
  BY Zenon DEF NoAct, Slot, ActType, SendInit
<1>3. \A p \in Actors : /\ act[p].pc = "idle" /\ act[p].kind = "none" /\ act[p].msg = NoMsg /\ act[p].key = NoKey
                        /\ ~act[p].ok /\ act[p].sent = 0
    BY <1>2 DEF Slot
<1>4. \A m : ~Has(sendQueue, m) BY DEF SendInit, EmptyQueue, Has
<1>5. (\A m \in Messages : delivered.of[m] = 0) /\ (\A k \in Keys : delivered.under[k] = 0) /\ delivered.all = 0
      /\ delivered \in DeliveredType
    BY DEF SendInit, DeliveredType
<1>6. (\A x \in Messages \cup Keys : history.marred[x] = {}) /\ history.trouble = 0 /\ history \in HistoryType
    BY DEF SendInit, HistoryType
<1>7. TypeInv
  BY Slots, <1>5, <1>6 DEF SendInit, NoRow, MessageType, EmptyQueue, IsQueue, NoAct, ActType, TypeInv
<1>8. HandInv BY <1>3 DEF HandInv, Hand, Own, Kinds
<1>9. RoleInv BY <1>0, <1>1, <1>3, <1>4, <1>5, <1>6 DEF RoleInv, Role, SparedOf
<1>10. TokenInv /\ LockInv BY <1>0, <1>3 DEF TokenInv, LockInv, Brings, Actors
<1>11. OnceInv BY <1>0, <1>1, <1>3, <1>4, <1>5 DEF OnceInv, Sent, Once, Moves, Cancels, Gone
<1>12. KeyInv BY <1>0, <1>1, <1>3, <1>5 DEF KeyInv, Tied, Rows, Transporting
<1>13. CountInv
    <2>1. Owed(act) = {} BY <1>3 DEF Owed, Owes
    <2> QED  BY <1>5, <2>1, FS_EmptySet DEF CountInv, SendInit
<1> QED  BY <1>7, <1>8, <1>9, <1>10, <1>11, <1>12, <1>13 DEF IInv

\* Every step keeps the invariant.
LEMMA Stepwise == IInv /\ [SendNext]_sendVars => IInv'
<1> SUFFICES ASSUME IInv, [SendNext]_sendVars PROVE IInv' OBVIOUS
<1>1. TypeInv /\ HandInv /\ RoleInv /\ TokenInv /\ LockInv /\ OnceInv /\ KeyInv /\ CountInv BY DEF IInv
<1>2. CASE SendNext
    <2>1. Kinded BY <1>1, <1>2, Steps
    <2>2. TypeInv' /\ HandInv' /\ Worse BY <1>1, <2>1, TypeStep, Anyhow
    <2>3. RoleInv' BY <1>1, <2>1, <2>2, RoleStep
    <2>4. TokenInv' BY <1>1, <2>1, <2>2, TokenStep
    <2>5. LockInv' BY <1>1, <2>1, <2>2, LockStep
    <2>6. OnceInv' BY <1>1, <2>1, <2>2, OnceStep
    <2>7. KeyInv' BY <1>1, <2>1, <2>2, KeyStep
    <2>8. CountInv' BY <1>1, <2>1, <2>2, CountStep
    <2> QED  BY <2>2, <2>3, <2>4, <2>5, <2>6, <2>7, <2>8 DEF IInv
<1>3. CASE UNCHANGED sendVars
  BY <1>1, <1>3, OnceKept DEF sendVars, TypeInv, HandInv, Hand, Own, RoleInv, Role, Launched, TokenInv, Brings,
     LockInv, SparedOf, Worse, Untouched, HistoryType, OnceInv, KeyInv, Tied, Rows, CountInv, IInv
<1> QED  BY <1>2, <1>3

\* The invariant holds always.
LEMMA Holding == SendSpec => []IInv
  BY Initially, Stepwise, PTL DEF SendSpec

\* A message, and whatever is sent under one idempotency key, is mailed once,
\* through retries, PATCHes and cancellations that race its job, and requests
\* that look for the key at the same time.
THEOREM SentOnceAlways == SendSpec => []NotSentTwice
<1>1. IInv => NotSentTwice
    <2>1. SUFFICES ASSUME IInv PROVE SentOnce /\ KeySentOnce BY DEF NotSentTwice
    <2>2. OnceInv /\ KeyInv BY <2>1 DEF IInv
    <2>3. SentOnce BY <2>2 DEF OnceInv, Once, SentOnce
    <2>4. ASSUME NEW k \in Keys, SparedOf(k, {"unsure", "overlap", "rowless"}) PROVE delivered.under[k] <= 1
    BY <2>4, <2>2, <2>3 DEF SparedOf, KeyInv, Rows, Tied, SentOnce
    <2> QED  BY <2>3, <2>4 DEF KeySentOnce
<1> QED  BY <1>1, Holding, PTL

\* What the tables tell is true: a sent message was mailed, a failed or
\* cancelled one was not, and no more is counted than was taken; all of it,
\* if nothing went wrong and everybody is done.
THEOREM AccountsAlwaysTrue == SendSpec => []AccountsAreTrue
<1>1. IInv => AccountsAreTrue
    <2>1. SUFFICES ASSUME IInv PROVE AccountsAreTrue OBVIOUS
    <2>2. TypeInv /\ HandInv /\ OnceInv /\ CountInv BY <2>1 DEF IInv
    <2>3. SendTypeOK BY <2>2 DEF TypeInv, IsQueue, SendTypeOK
    <2>4. StatusIsTrue
        <3>1. SUFFICES ASSUME NEW m \in Messages
                       PROVE  /\ message[m].status = "sent" => delivered.of[m] >= 1
                              /\ message[m].status \in {"failed", "cancelled"} /\ SparedOf(m, {"unsure", "overlap", "late"})
                                    => delivered.of[m] = 0
            BY DEF StatusIsTrue
        <3>2. PICK n \in Nat : n = delivered.of[m] BY <2>2 DEF TypeInv, DeliveredType
        <3>3. message[m].status = "sent" => n > 0 BY <2>2, <3>2 DEF OnceInv, Sent
        <3>4. SparedOf(m, {"unsure", "overlap", "late"}) => SparedOf(m, {"unsure", "overlap"}) /\ SparedOf(m, {"late"})
            BY DEF SparedOf
        <3>5. message[m].status \in {"failed", "cancelled"} /\ SparedOf(m, {"unsure", "overlap", "late"}) => n = 0
            BY <2>2, <3>2, <3>4 DEF OnceInv, Once, Gone
        <3> QED  BY <3>2, <3>3, <3>5
    <2>5. CountedAsSent
        <3>1. PICK u \in Nat, d \in Nat : u = usage /\ d = delivered.all BY <2>2 DEF TypeInv, DeliveredType
        <3>2. PICK c \in Nat : c = Cardinality(Owed(act)) BY <2>2, FS_CardinalityType DEF CountInv
        <3>3. u + c <= d /\ (history.trouble = 0 => u + c = d) BY <2>2, <3>1, <3>2 DEF CountInv
        <3>4. ASSUME \A p \in Actors : ActAt(p, "idle") PROVE c = 0
            <4>1. \A p \in Actors : act[p].sent = 0 /\ ~act[p].ok BY <2>2, <3>4, Hands DEF ActAt, Hand, Kinds
            <4>2. Owed(act) = {} BY <4>1 DEF Owed, Owes
            <4> QED  BY <3>2, <4>2, FS_EmptySet
        <3> QED  BY <3>1, <3>3, <3>4 DEF CountedAsSent
    <2> QED  BY <2>3, <2>4, <2>5 DEF AccountsAreTrue
<1> QED  BY <1>1, Holding, PTL

=============================================================================
