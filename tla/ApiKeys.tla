------------------------------- MODULE ApiKeys -------------------------------
(***************************************************************************)
(* The API keys of one person: a request is let in by a copy of the key's  *)
(* row that a server keeps for a minute (src/src/plugins/auth.ts); a       *)
(* request that is in may create, change, rotate or revoke keys            *)
(* (src/src/routes/api-keys/index.ts); a sign-in makes the first key, and  *)
(* the person, an admin of the organisation or its directory take them all *)
(* away (src/src/routes/auth/index.ts, src/src/routes/org/index.ts,        *)
(* src/src/routes/webhooks/workos.ts).                                     *)
(***************************************************************************)
EXTENDS Integers, FiniteSets

CONSTANTS
  MaxKeys,    \* keys are numbered in the order of their creation
  Callers,   \* requests at work in one server, sign-ins included
  TTL,        \* KEY_CACHE_TTL_MS, in ticks
  MaxKeyActs

\* Somebody starts with a key, and a copy is kept for some time.
ASSUME KeyAssumption == MaxKeys \in Nat \ {0} /\ TTL \in Nat \ {0}

KeyIds == 1 .. MaxKeys

VARIABLES
  keyRow,   \* api_keys: [st, exp]
  keyCopy,  \* keyCache: ticks left, ticks since the first change the copy lacks, and whether the lookup lacked it already
  ask,      \* the requests
  served      \* the worst copy served, who took keys away, and the steps spent (MaxKeyActs)

keyVars == <<keyRow, keyCopy, ask, served>>

Absent == [st |-> "absent", exp |-> "never"]
NoCopy == [left |-> 0, stale |-> 0, late |-> FALSE]
NoAsk == [pc |-> "idle", key |-> 0, target |-> 0, stale |-> 0]

ApiKeysInit ==
  /\ keyRow = [k \in KeyIds |-> IF k = 1 THEN [st |-> "live", exp |-> "never"] ELSE Absent]
  /\ keyCopy = [k \in KeyIds |-> NoCopy]
  /\ ask = [c \in Callers |-> NoAsk]
  /\ served = [overdue |-> FALSE, out |-> FALSE, dead |-> FALSE, acts |-> 0]

KeySpend(n) == served.acts + n <= MaxKeyActs

Usable(k) == keyRow[k].st = "live" /\ keyRow[k].exp # "past"

\* Copies and lookups of a key that lack a change begin to be stale with it.
Outdated(S) ==
  /\ keyCopy' = [k \in KeyIds |-> IF k \in S /\ keyCopy[k].left > 0 /\ keyCopy[k].stale = 0
                                  THEN [keyCopy[k] EXCEPT !.stale = 1] ELSE keyCopy[k]]

OutdatedAsk(S) == [c \in Callers |->
  IF ask[c].pc = "found" /\ ask[c].key \in S /\ ask[c].stale = 0 THEN [ask[c] EXCEPT !.stale = 1] ELSE ask[c]]

----------------------------------------------------------------------------
(* Letting a request in *)

FirstIdle == CHOOSE c \in Callers : ask[c] = NoAsk

\* One more request while another is at work is an event.
BeginAsk(pc, k) ==
  /\ \E c \in Callers : ask[c] = NoAsk
  /\ IF \E c \in Callers : ask[c] # NoAsk
     THEN KeySpend(1) /\ served' = [served EXCEPT !.acts = @ + 1]
     ELSE UNCHANGED served
  /\ ask' = [ask EXCEPT ![FirstIdle] = [NoAsk EXCEPT !.pc = pc, !.key = k]]

\* mutant
LeftAfterHitSliding(k) == TTL
\* What remains of a copy's time after it has been served: a hit does not
\* prolong it.
LeftAfterHit(k) == keyCopy[k].left

\* A copy whose time has not passed is enough; the row is not read.
CachedKey(k) ==
  /\ keyCopy[k].left > 0
  /\ \E c \in Callers : ask[c] = NoAsk
  /\ KeySpend(1)
  /\ ask' = [ask EXCEPT ![FirstIdle] = [NoAsk EXCEPT !.pc = "in", !.key = k]]
  /\ keyCopy' = [keyCopy EXCEPT ![k].left = LeftAfterHit(k)]
  /\ served' = [served EXCEPT !.acts = @ + 1,
                          !.overdue = @ \/ (keyCopy[k].stale > TTL /\ ~keyCopy[k].late)]
  /\ UNCHANGED keyRow

\* findUnique: a row that is revoked or past its expiry lets nobody in.
LookUpKey(k) ==
  /\ keyCopy[k].left = 0 /\ Usable(k)
  /\ BeginAsk("found", k)
  /\ UNCHANGED <<keyRow, keyCopy>>

\* The row has come back; it is copied as it was read.
SetCachedKey(c) ==
  LET k == ask[c].key IN
  /\ ask[c].pc = "found"
  /\ keyCopy' = [keyCopy EXCEPT ![k] = [left |-> TTL, stale |-> ask[c].stale, late |-> ask[c].stale > 0]]
  /\ ask' = [ask EXCEPT ![c].pc = "in", ![c].stale = 0]
  /\ UNCHANGED <<keyRow, served>>

----------------------------------------------------------------------------
(* What a request that is in may do *)

NextKey == CHOOSE k \in KeyIds : keyRow[k] = Absent /\ \A j \in KeyIds : j < k => keyRow[j] # Absent
Room == \E k \in KeyIds : keyRow[k] = Absent
NewKey == keyRow' = [keyRow EXCEPT ![NextKey] = [st |-> "live", exp |-> "never"]]

AskDone(c) == ask' = [ask EXCEPT ![c] = NoAsk]

\* Anything else that the key is good for.
UseKey(c) ==
  /\ ask[c].pc = "in" /\ AskDone(c)
  /\ UNCHANGED <<keyRow, keyCopy, served>>

CreateKey(c) ==
  /\ ask[c].pc = "in" /\ Room /\ KeySpend(1)
  /\ NewKey /\ AskDone(c)
  /\ served' = [served EXCEPT !.acts = @ + 1]
  /\ UNCHANGED keyCopy

\* Quota, rate limit, allowed addresses, alerts and fallback of a key.
PatchKey(c, t) ==
  /\ ask[c].pc = "in" /\ keyRow[t] # Absent /\ KeySpend(1)
  /\ Outdated({t})
  /\ ask' = [OutdatedAsk({t}) EXCEPT ![c] = NoAsk]
  /\ served' = [served EXCEPT !.acts = @ + 1]
  /\ UNCHANGED keyRow

\* An expiry in the future, or none.
SetExpiry(c, t, e) ==
  /\ ask[c].pc = "in" /\ keyRow[t] # Absent /\ keyRow[t].exp # e /\ KeySpend(1)
  /\ keyRow' = [keyRow EXCEPT ![t].exp = e]
  /\ Outdated({t})
  /\ ask' = [OutdatedAsk({t}) EXCEPT ![c] = NoAsk]
  /\ served' = [served EXCEPT !.acts = @ + 1]

\* mutant
MayRevokeOwn(c, t) == TRUE
\* A request cannot revoke the key that let it in.
MayRevoke(c, t) == t # ask[c].key

\* dead: the key that let the request in, or the replacement of a rotation,
\* has itself been revoked meanwhile.
RevokedBy(c, t) ==
  /\ KeySpend(1)
  /\ keyRow' = [keyRow EXCEPT ![t].st = "revoked"]
  /\ Outdated({t})
  /\ ask' = [OutdatedAsk({t}) EXCEPT ![c] = NoAsk]
  /\ served' = [served EXCEPT !.acts = @ + 1, !.dead = @ \/ (t # ask[c].key /\ keyRow[ask[c].key].st # "live")]

RevokeKey(c, t) ==
  /\ ask[c].pc = "in" /\ keyRow[t].st = "live"
  /\ MayRevoke(c, t)
  /\ RevokedBy(c, t)

\* A rotation reads the key, which must not be revoked; creates the
\* replacement; and revokes, in a transaction of its own.
RotateKey(c, t) ==
  /\ ask[c].pc = "in" /\ keyRow[t].st = "live" /\ KeySpend(1)
  /\ ask' = [ask EXCEPT ![c].pc = "replace", ![c].target = t]
  /\ served' = [served EXCEPT !.acts = @ + 1]
  /\ UNCHANGED <<keyRow, keyCopy>>

ReplaceKey(c) ==
  /\ ask[c].pc = "replace" /\ Room
  /\ NewKey
  /\ ask' = [ask EXCEPT ![c].pc = "retire", ![c].key = NextKey]
  /\ UNCHANGED <<keyCopy, served>>

RetireKey(c) ==
  /\ ask[c].pc = "retire"
  /\ RevokedBy(c, ask[c].target)

\* An error or the end of the process, at any point.
RequestEnds(c) ==
  /\ ask[c].pc \notin {"idle", "in"} /\ KeySpend(1)
  /\ AskDone(c)
  /\ served' = [served EXCEPT !.acts = @ + 1]
  /\ UNCHANGED <<keyRow, keyCopy>>

----------------------------------------------------------------------------
(* Sign-in, organisation and directory *)

\* The oldest live key of the person serves the session; without one a key is
\* created, by another transaction.
SignIn ==
  /\ ~ \E k \in KeyIds : keyRow[k].st = "live"
  /\ KeySpend(1) /\ \E c \in Callers : ask[c] = NoAsk
  /\ ask' = [ask EXCEPT ![FirstIdle] = [NoAsk EXCEPT !.pc = "first"]]
  /\ served' = [served EXCEPT !.acts = @ + 1]
  /\ UNCHANGED <<keyRow, keyCopy>>

FirstKey(c) ==
  /\ ask[c].pc = "first" /\ Room
  /\ NewKey /\ AskDone(c)
  /\ UNCHANGED <<keyCopy, served>>

\* dsync.user.created: looked up and created in one transaction.
DirectoryAdds ==
  /\ ~ \E k \in KeyIds : keyRow[k].st = "live"
  /\ Room /\ KeySpend(1) /\ NewKey
  /\ served' = [served EXCEPT !.acts = @ + 1]
  /\ UNCHANGED <<keyCopy, ask>>

TakenAway(S) ==
  /\ KeySpend(1)
  /\ keyRow' = [k \in KeyIds |-> IF k \in S THEN [keyRow[k] EXCEPT !.st = "revoked"] ELSE keyRow[k]]
  /\ Outdated(S)
  /\ ask' = OutdatedAsk(S)
  /\ served' = [served EXCEPT !.acts = @ + 1, !.out = TRUE]

Live == {k \in KeyIds : keyRow[k].st = "live"}

\* An admin of the key's organisation.
OrgRevokesKey(k) == k \in Live /\ TakenAway({k})
\* dsync.user.deleted
DirectoryRemoves == Live # {} /\ TakenAway(Live)
\* DELETE /auth/account; the person and the rows' owner are gone.
DeleteAccount == Live # {} /\ TakenAway(Live)

\* A minute is TTL ticks.
KeyTick ==
  /\ KeySpend(1)
  /\ \E S \in SUBSET {k \in KeyIds : keyRow[k].exp = "set"} :
       /\ keyRow' = [k \in KeyIds |-> IF k \in S THEN [keyRow[k] EXCEPT !.exp = "past"] ELSE keyRow[k]]
       /\ keyCopy' = [k \in KeyIds |->
            LET e == keyCopy[k] IN
            IF e.left <= 1 THEN NoCopy
            ELSE [e EXCEPT !.left = @ - 1,
                           !.stale = IF @ \in 1 .. TTL \/ (@ = 0 /\ k \in S) THEN @ + 1 ELSE @]]
  /\ served' = [served EXCEPT !.acts = @ + 1]
  /\ UNCHANGED ask

ApiKeysNext ==
  \/ \E k \in KeyIds : CachedKey(k) \/ LookUpKey(k) \/ OrgRevokesKey(k)
  \/ \E c \in Callers :
       \/ SetCachedKey(c) \/ UseKey(c) \/ CreateKey(c) \/ ReplaceKey(c) \/ RetireKey(c)
       \/ RequestEnds(c) \/ FirstKey(c)
       \/ \E t \in KeyIds : \/ PatchKey(c, t) \/ RevokeKey(c, t) \/ RotateKey(c, t)
                            \/ \E e \in {"never", "set"} : SetExpiry(c, t, e)
  \/ SignIn \/ DirectoryAdds \/ DirectoryRemoves \/ DeleteAccount
  \/ KeyTick

ApiKeysSpec == ApiKeysInit /\ [][ApiKeysNext]_keyVars

----------------------------------------------------------------------------
\* A key that was revoked, or whose settings were changed, is served as it was
\* for a minute and no longer, however busy it is: only a lookup that was under
\* way at the change may copy the old row after it.
RevokedIsRefused == ~served.overdue

\* Whoever manages the keys with them is never left without one, whatever the
\* requests' order and wherever a rotation breaks off: unless somebody else
\* took the keys away, or a request went on with a key that another had
\* revoked, or the replacement was revoked before the rotation was over.
NeverLockedOut == Live # {} \/ served.out \/ served.dead

\* Both: no key too many, and none too few.
KeysHold == RevokedIsRefused /\ NeverLockedOut
=============================================================================
