-------------------------------- MODULE Engine --------------------------------
(***************************************************************************)
(* The verification of an address (src/src/engine/index.ts): what is known *)
(* of its domain; what the domain's mail servers answer to a probe, made   *)
(* here or through a relay (src/src/engine/smtp.ts); what is remembered of *)
(* earlier verifications, and what a paid provider says when the own probe *)
(* learns nothing (src/src/engine/smtpCache.ts); and the verdict the       *)
(* signals add up to (src/src/engine/scorer.ts).  A bounce of a real mail  *)
(* forgets what was remembered (correctOnGroundTruth in                    *)
(* src/src/lib/bounceHandling.ts).                                         *)
(*                                                                         *)
(* All verifications are of one address; the cache's row is shared by all  *)
(* customers and all server processes.                                     *)
(***************************************************************************)
EXTENDS Integers, FiniteSets

CONSTANTS
  Verifiers,
  FlagSets,     \* what the address may be: sets of flags
  MxHosts,      \* MAX_MX_ATTEMPTS
  Attempts,     \* SMTP_MAX_ATTEMPTS
  MaxVerActs

VARIABLES
  flags,      \* the address: "bad_syntax", "no_mx", "disposable", "role", "free", "blacklisted", "toxic", "abuse", "lookalike"
  verCache,   \* smtp_cache: the address's row
  domCatch,   \* domain_catch_all_cache: "none", "yes", "no"
  relay,      \* "unused"; or "up" and "down": smtp:relay_down
  zeroBounce, \* whether the first provider is configured
  ver,        \* verifications at work
  verGhost    \* the steps spent (MaxVerActs), and what the properties look for

engineVars == <<flags, verCache, domCatch, relay, zeroBounce, ver, verGhost>>

\* What the SMTP part knows: its own answer, a row of the cache, a provider's.
\* why: what a rejection rests on.  old: whether it was found out before the
\* last bounce and kept, or, excused, by a check that went on over the bounce.
SmtpUnknown == [checked |-> FALSE, reach |-> "null", catch |-> FALSE, grey |-> FALSE, why |-> "none", old |-> "no"]
SmtpChecked(reach, catch) == [SmtpUnknown EXCEPT !.checked = TRUE, !.reach = reach, !.catch = catch]

NoRow == [left |-> 0, smtp |-> SmtpUnknown]
NoVerdict == [status |-> "none", reason |-> "none"]
IdleVer == [pc |-> "idle", smtp |-> SmtpUnknown, host |-> 1, by |-> 1, try |-> 1, raced |-> FALSE, over |-> FALSE, out |-> NoVerdict]

EngineInit ==
  /\ flags \in FlagSets
  /\ verCache = NoRow
  /\ domCatch = "none"
  /\ relay \in {"unused", "up"}
  /\ zeroBounce \in BOOLEAN
  /\ ver = [v \in Verifiers |-> IdleVer]
  /\ verGhost = [acts |-> 0, again |-> FALSE, stale |-> FALSE]

VerSpend(n) == verGhost.acts + n <= MaxVerActs
VerSpent(n) == verGhost' = [verGhost EXCEPT !.acts = @ + n]

----------------------------------------------------------------------------
(* The verdict *)

Verdict(status, reason) == [status |-> status, reason |-> reason]

\* The rules, of which the first that applies wins.
Rules(f, s) == <<
    <<"bad_syntax" \in f,  Verdict("invalid", "syntax_invalid")>>,
    <<"no_mx" \in f,       Verdict("invalid", "no_mx_records")>>,
    <<"blacklisted" \in f, Verdict("risky", "blacklisted_domain")>>,
    <<"toxic" \in f,       Verdict("risky", "toxic_domain")>>,
    <<"abuse" \in f,       Verdict("risky", "abuse_tld")>>,
    <<"lookalike" \in f,   Verdict("invalid", "lookalike_domain")>>,
    <<s.checked /\ s.reach = "no" /\ ~s.grey,
      Verdict("invalid", IF "disposable" \in f THEN "disposable_smtp_rejected" ELSE "smtp_rejected")>>,
    <<s.grey /\ {"disposable", "role"} \cap f = {}, Verdict("unknown", "smtp_greylisted")>>,
    <<"disposable" \in f,  Verdict("risky", "disposable_domain")>>,
    <<s.grey,              Verdict("risky", "role_account")>>,
    <<s.catch, Verdict("risky", IF "role" \in f THEN "catch_all_role_account" ELSE "catch_all")>>,
    <<"role" \in f,        Verdict("risky", "role_account")>>,
    <<s.checked /\ s.reach = "yes", Verdict("valid", "none")>>,
    <<TRUE,                Verdict("unknown", "smtp_not_checked")>> >>
ScoreOf(f, s) ==
  LET r == Rules(f, s)
  IN  r[CHOOSE i \in DOMAIN r : r[i][1] /\ \A j \in 1..i - 1 : ~r[j][1]][2]

\* The record that is kept and returned is scored once more, without what was
\* looked up about the domain's reputation; only the reason of the first
\* scoring is taken over, when it had one.
Reputation == {"blacklisted", "toxic", "abuse", "lookalike"}
Persisted(f, s) ==
  LET full == ScoreOf(f, s)
      kept == ScoreOf(f \ Reputation, s)
  IN Verdict(kept.status, IF full.reason # "none" THEN full.reason ELSE kept.reason)

----------------------------------------------------------------------------
(* The cache *)

CacheRow == verCache.left > 0
\* A row counts as an answer even if the server had only put the probe off.
FromRow == [verCache.smtp EXCEPT !.checked = TRUE, !.grey = FALSE]

\* mutant
CorrectedNot(s) == s
\* The one place where every verdict enters the cache: a free provider's domain
\* is never remembered as accepting everything.
CorrectedCatchAll(s) == IF "free" \in flags THEN [s EXCEPT !.catch = FALSE] ELSE s

\* 30 days, 7 days and 1 day
Lifetime(s) == CASE s.reach = "yes" -> 3 [] s.reach = "no" -> 2 [] OTHER -> 1

StoredRow(s) == [left |-> Lifetime(s), smtp |-> CorrectedCatchAll(s)]

\* Another verification that has looked already goes on without the new row.
Overlooked(v) == [w \in Verifiers |->
  IF w # v /\ ver[w].pc \in {"ask", "asked"} THEN [ver[w] EXCEPT !.over = TRUE] ELSE ver[w]]

\* The upsert; it may fail, and the verification goes on.
StoreCache(v) ==
  /\ ver[v].pc \in {"keepProbe", "keepPaid"}
  /\ verCache' = StoredRow([ver[v].smtp EXCEPT !.old = IF ver[v].raced THEN "excused" ELSE "no"])
  /\ ver' = [Overlooked(v) EXCEPT ![v].pc = "score"]
  /\ UNCHANGED <<flags, domCatch, relay, zeroBounce, verGhost>>

StoreFails(v) ==
  /\ ver[v].pc \in {"keepProbe", "keepPaid"} /\ VerSpend(1) /\ VerSpent(1)
  /\ ver' = [ver EXCEPT ![v].pc = "score"]
  /\ UNCHANGED <<flags, verCache, domCatch, relay, zeroBounce>>

\* A row whose time is over is deleted by whoever finds it; by then it may have
\* been renewed.
DeleteExpired(v) ==
  /\ ver[v].pc \in {"expired", "expiredAgain"}
  /\ verCache' = NoRow
  /\ ver' = [ver EXCEPT ![v].pc = IF @ = "expired" THEN "probe" ELSE "ask"]
  /\ UNCHANGED <<flags, domCatch, relay, zeroBounce, verGhost>>

----------------------------------------------------------------------------
(* The verification *)

FirstIdleVer == CHOOSE v \in Verifiers : ver[v].pc = "idle"

\* One more verification while another is at work is two steps of the bound.
\* A bad address is judged at once; a disposable one is not probed, for the
\* score does not ask.
Probes == flags \cap {"bad_syntax", "no_mx", "disposable"} = {}

VerifyEmail ==
  /\ \E v \in Verifiers : ver[v].pc = "idle"
  /\ LET n == IF \A v \in Verifiers : ver[v].pc = "idle" THEN 1 ELSE 2 IN VerSpend(n) /\ VerSpent(n)
  /\ ver' = [ver EXCEPT ![FirstIdleVer] = [IdleVer EXCEPT !.pc = IF Probes THEN "cache" ELSE "score"]]
  /\ UNCHANGED <<flags, verCache, domCatch, relay, zeroBounce>>

\* First look.
GetSmtpCache(v) ==
  /\ ver[v].pc = "cache"
  /\ ver' = [ver EXCEPT ![v].pc = CASE CacheRow -> "score" [] verCache = NoRow -> "probe" [] OTHER -> "expired",
                        ![v].smtp = IF CacheRow THEN FromRow ELSE @]
  /\ UNCHANGED <<flags, verCache, domCatch, relay, zeroBounce, verGhost>>

\* The conversation with one mail server up to its answer to RCPT TO.  A server
\* that greets with an error, or refuses the sender, for now ("busy") or for
\* good, counts as connected and as not accepting the address.
Conversation == {"unreachable", "busy", "unwelcome", "rejected", "deferred", "accepted"}

\* What the probe here makes of it; the domain's own answer to an address that
\* cannot exist is asked for at the same time unless it is remembered.
LocalAnswer(c, all) ==
  CASE c \in {"busy", "unwelcome", "rejected"} -> [SmtpChecked("no", FALSE) EXCEPT !.why = c]
    [] c = "deferred"    -> [SmtpChecked("null", FALSE) EXCEPT !.grey = TRUE]
    [] c = "accepted"    -> SmtpChecked("yes", all)
    [] c = "unreachable" -> SmtpUnknown

\* Neither probe says of a free provider's domain that it accepts everything.
ProbeAnswer(s) == IF s.checked /\ "free" \in flags THEN [s EXCEPT !.catch = FALSE] ELSE s

\* The next server only when nothing was learnt; after the last one, the
\* provider.
AfterProbe(v, s) ==
  /\ ver' = [ver EXCEPT ![v].smtp = ProbeAnswer(s),
                        ![v].pc = CASE s.checked -> "keepProbe"
                                  [] ~s.checked /\ ver[v].host < MxHosts -> "probe"
                                  [] OTHER -> "second",
                        ![v].host = IF ~s.checked /\ @ < MxHosts THEN @ + 1 ELSE @]
  /\ UNCHANGED <<flags, verCache, zeroBounce, verGhost>>

LocalProbe(v) ==
  /\ ver[v].pc = "probe" /\ relay # "up"
  /\ \E c \in Conversation, all \in IF domCatch = "none" THEN BOOLEAN ELSE {domCatch = "yes"} :
       /\ AfterProbe(v, LocalAnswer(c, all))
       /\ domCatch' = IF c = "accepted" /\ domCatch = "none" THEN (IF all THEN "yes" ELSE "no") ELSE domCatch
  /\ UNCHANGED relay

\* The relay's answer is taken as it is; an error of the relay is no answer.
RemoteProbe(v) ==
  /\ ver[v].pc = "probe" /\ relay = "up"
  /\ \E s \in {SmtpUnknown, [SmtpChecked("null", FALSE) EXCEPT !.grey = TRUE], SmtpChecked("yes", TRUE), SmtpChecked("yes", FALSE),
               [SmtpChecked("no", FALSE) EXCEPT !.why = "rejected"]} : AfterProbe(v, s)
  /\ UNCHANGED <<domCatch, relay>>

\* The relay cannot be reached at all: no other server is tried, and for a
\* minute the relay is left alone.
RelayUnreachable(v) ==
  /\ ver[v].pc = "probe" /\ relay = "up" /\ VerSpend(1) /\ VerSpent(1)
  /\ relay' = "down"
  /\ ver' = [ver EXCEPT ![v].pc = "second"]
  /\ UNCHANGED <<flags, verCache, domCatch, zeroBounce>>

\* mutant
SecondLookNot(v) == "ask"
\* Second look, by smtpVerifyWithCache: another verification may have stored a
\* verdict while this one probed.
SecondLook(v) == CASE CacheRow -> "score" [] verCache = NoRow -> "ask" [] OTHER -> "expiredAgain"

SmtpVerifyWithCache(v) ==
  /\ ver[v].pc = "second"
  /\ ver' = [ver EXCEPT ![v].pc = SecondLook(v), ![v].smtp = IF SecondLook(v) = "score" THEN FromRow ELSE @]
  /\ UNCHANGED <<flags, verCache, domCatch, relay, zeroBounce, verGhost>>

\* A provider is asked: a credit is spent.  The first one when it is
\* configured.
AskProvider(v) ==
  /\ ver[v].pc = "ask"
  /\ ver' = [ver EXCEPT ![v].pc = "asked", ![v].by = IF @ = 1 /\ ~zeroBounce THEN 2 ELSE @]
  /\ verGhost' = [verGhost EXCEPT !.again = @ \/ (CacheRow /\ ~ver[v].over)]
  /\ UNCHANGED <<flags, verCache, domCatch, relay, zeroBounce>>

\* What a provider may say that is definite, with both providers' codes brought
\* to the same three.
Definite == {SmtpChecked("yes", TRUE), SmtpChecked("yes", FALSE), [SmtpChecked("no", FALSE) EXCEPT !.why = "rejected"]}

Bought(v, s) == ver' = [ver EXCEPT ![v].smtp = s, ![v].pc = "keepPaid"]
\* 429, 5xx, time out: asked again, up to the limit.
AskAgain(v) == ver[v].try < Attempts /\ ver' = [ver EXCEPT ![v].try = @ + 1, ![v].pc = "ask"]

\* Whatever is not definite, or refused too often, sends the verification to the
\* other provider.
CallZeroBounce(v) ==
  /\ ver[v].pc = "asked" /\ ver[v].by = 1
  /\ \/ \E s \in Definite : Bought(v, s)
     \/ AskAgain(v)
     \/ ver' = [ver EXCEPT ![v].pc = "ask", ![v].by = 2, ![v].try = 1]
  /\ UNCHANGED <<flags, verCache, domCatch, relay, zeroBounce, verGhost>>

\* And from there to a verdict without SMTP.
CallMillionVerifier(v) ==
  /\ ver[v].pc = "asked" /\ ver[v].by = 2
  /\ \/ \E s \in Definite : Bought(v, s)
     \/ AskAgain(v)
     \/ ver' = [ver EXCEPT ![v].pc = "score"]
  /\ UNCHANGED <<flags, verCache, domCatch, relay, zeroBounce, verGhost>>

\* The verdict is stored under an id, or, when that fails, only returned.
PersistAndReturn(v) ==
  /\ ver[v].pc = "score"
  /\ ver' = [ver EXCEPT ![v].pc = "answered", ![v].smtp = CorrectedCatchAll(@),
                        ![v].out = Persisted(flags, CorrectedCatchAll(ver[v].smtp))]
  /\ verGhost' = [verGhost EXCEPT !.stale = @ \/ (ver[v].smtp.old = "kept" /\ ~ver[v].raced)]
  /\ UNCHANGED <<flags, verCache, domCatch, relay, zeroBounce>>

VerAnswer(v) ==
  /\ ver[v].pc = "answered"
  /\ ver' = [ver EXCEPT ![v] = IdleVer]
  /\ UNCHANGED <<flags, verCache, domCatch, relay, zeroBounce, verGhost>>

----------------------------------------------------------------------------
(* Bounces and time *)

\* mutant
InvalidatedNot == verCache
Invalidated == NoRow

\* A mail to the address bounced for good: the row is dropped.  Checks that are
\* under way (raced) go on, and may store what they learnt before.
Bounced(row, mark) ==
  /\ verCache' = IF row = NoRow THEN row ELSE [row EXCEPT !.smtp.old = mark]
  /\ ver' = [v \in Verifiers |-> IF ver[v].pc # "idle" THEN [ver[v] EXCEPT !.raced = TRUE] ELSE ver[v]]
  /\ UNCHANGED <<flags, domCatch, relay, zeroBounce>>

CorrectOnGroundTruth == VerSpend(1) /\ VerSpent(1) /\ Bounced(Invalidated, "kept")

\* The delete fails, and nobody is told.
InvalidateFails == VerSpend(2) /\ VerSpent(2) /\ CacheRow /\ Bounced(verCache, "excused")

\* A row expires when its time is 0; the relay's mark goes long before.
EngineTick ==
  /\ VerSpend(1) /\ VerSpent(1)
  /\ verCache' = IF CacheRow THEN [verCache EXCEPT !.left = @ - 1] ELSE verCache
  /\ relay' = IF relay = "down" THEN "up" ELSE relay
  /\ \E d \in {domCatch, "none"} : domCatch' = d
  /\ UNCHANGED <<flags, zeroBounce, ver>>

EngineNext ==
  \/ VerifyEmail \/ CorrectOnGroundTruth \/ InvalidateFails \/ EngineTick
  \/ \E v \in Verifiers :
       \/ GetSmtpCache(v) \/ DeleteExpired(v) \/ LocalProbe(v) \/ RemoteProbe(v) \/ RelayUnreachable(v)
       \/ SmtpVerifyWithCache(v) \/ AskProvider(v) \/ CallZeroBounce(v) \/ CallMillionVerifier(v)
       \/ StoreCache(v) \/ StoreFails(v) \/ PersistAndReturn(v) \/ VerAnswer(v)

EngineSpec == EngineInit /\ [][EngineNext]_engineVars

----------------------------------------------------------------------------
\* What a bounce has disproved is not said again: a verification that begins
\* after it never answers with what was known before, unless a check that was
\* under way at the bounce had stored it since, or the row could not be deleted.
BounceForgets == ~verGhost.stale

\* Nobody pays twice for one address while the verdict that was paid for, or
\* probed, is still good: except those that had looked before it was stored.
BoughtOnce == ~verGhost.again

\* An address at a provider of free mailboxes is never called risky, nor
\* remembered so, because its servers accept every address for the moment,
\* whichever of the four sources said it.
FreeNeverCatchAll ==
  "free" \in flags =>
    /\ CacheRow => ~verCache.smtp.catch
    /\ \A v \in Verifiers : ver[v].out.reason \notin {"catch_all", "catch_all_role_account"}

\* The three together: what smtpCache.ts may hold and say.
VerdictsHold == BounceForgets /\ BoughtOnce /\ FreeNeverCatchAll

\* README.md: valid is said of a deliverable address with no red flags.
ValidHasNoFlags == \A v \in Verifiers : ver[v].out.status = "valid" => flags \cap Reputation = {}

\* README.md: smtp_rejected is said when the server returned a permanent error;
\* a server that limits its callers leaves the address unchecked.
RejectedForGood ==
  \A v \in Verifiers : ver[v].out.reason = "smtp_rejected" => ver[v].smtp.why # "busy"
=============================================================================
