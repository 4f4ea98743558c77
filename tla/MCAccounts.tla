----------------------------- MODULE MCAccounts -----------------------------
(***************************************************************************)
(* What an account may do, what it is charged for and whom it may mail,    *)
(* with small sets for TLC.  These parts keep no state that one changes    *)
(* for another, so one run checks all, one per behaviour: the initial      *)
(* state says which.                                                       *)
(***************************************************************************)
EXTENDS UsageMeter, ApiKeys, Teams, Engine, Finder, Audience, Tracking, Connectors, DailyChecks, LifecycleMails, RateLimit, AccountDeletion, SmtpRelay, Templates

VARIABLE focus
all == <<meterVars, keyVars, teamVars, engineVars, finderVars, audVars, trackVars, connectorVars, dailyVars, lifecycleVars, rateVars, deletionVars, relayVars, templateVars, focus>>

Use_(A) == focus = "usage" /\ A /\ UNCHANGED <<keyVars, teamVars, engineVars, finderVars, audVars, trackVars, connectorVars, dailyVars, lifecycleVars, rateVars, deletionVars, relayVars, templateVars, focus>>
Key_(A) == focus = "keys" /\ A /\ UNCHANGED <<meterVars, teamVars, engineVars, finderVars, audVars, trackVars, connectorVars, dailyVars, lifecycleVars, rateVars, deletionVars, relayVars, templateVars, focus>>
Team_(A) == focus = "teams" /\ A /\ UNCHANGED <<meterVars, keyVars, engineVars, finderVars, audVars, trackVars, connectorVars, dailyVars, lifecycleVars, rateVars, deletionVars, relayVars, templateVars, focus>>
Eng_(A) == focus = "engine" /\ A /\ UNCHANGED <<meterVars, keyVars, teamVars, finderVars, audVars, trackVars, connectorVars, dailyVars, lifecycleVars, rateVars, deletionVars, relayVars, templateVars, focus>>
Fin_(A) == focus = "finder" /\ A /\ UNCHANGED <<meterVars, keyVars, teamVars, engineVars, audVars, trackVars, connectorVars, dailyVars, lifecycleVars, rateVars, deletionVars, relayVars, templateVars, focus>>
Aud_(A) == focus = "audience" /\ A /\ UNCHANGED <<meterVars, keyVars, teamVars, engineVars, finderVars, trackVars, connectorVars, dailyVars, lifecycleVars, rateVars, deletionVars, relayVars, templateVars, focus>>
Trk_(A) == focus = "tracking" /\ A /\ UNCHANGED <<meterVars, keyVars, teamVars, engineVars, finderVars, audVars, connectorVars, dailyVars, lifecycleVars, rateVars, deletionVars, relayVars, templateVars, focus>>
Con_(A) == focus = "connectors" /\ A /\ UNCHANGED <<meterVars, keyVars, teamVars, engineVars, finderVars, audVars, trackVars, dailyVars, lifecycleVars, rateVars, deletionVars, relayVars, templateVars, focus>>
Daily_(A) == focus = "daily" /\ A /\ UNCHANGED <<meterVars, keyVars, teamVars, engineVars, finderVars, audVars, trackVars, connectorVars, lifecycleVars, rateVars, deletionVars, relayVars, templateVars, focus>>
Mail_(A) == focus = "mails" /\ A /\ UNCHANGED <<meterVars, keyVars, teamVars, engineVars, finderVars, audVars, trackVars, connectorVars, dailyVars, rateVars, deletionVars, relayVars, templateVars, focus>>
Rate_(A) == focus = "rate" /\ A /\ UNCHANGED <<meterVars, keyVars, teamVars, engineVars, finderVars, audVars, trackVars, connectorVars, dailyVars, lifecycleVars, deletionVars, relayVars, templateVars, focus>>
Del_(A) == focus = "deletion" /\ A /\ UNCHANGED <<meterVars, keyVars, teamVars, engineVars, finderVars, audVars, trackVars, connectorVars, dailyVars, lifecycleVars, rateVars, relayVars, templateVars, focus>>
Rel_(A) == focus = "relay" /\ A /\ UNCHANGED <<meterVars, keyVars, teamVars, engineVars, finderVars, audVars, trackVars, connectorVars, dailyVars, lifecycleVars, rateVars, deletionVars, templateVars, focus>>
Tpl_(A) == focus = "templates" /\ A /\ UNCHANGED <<meterVars, keyVars, teamVars, engineVars, finderVars, audVars, trackVars, connectorVars, dailyVars, lifecycleVars, rateVars, deletionVars, relayVars, focus>>

MCInit ==
    /\ MeterInit
    /\ ApiKeysInit
    /\ TeamsInit
    /\ EngineInit
    /\ FinderInit
    /\ AudienceInit
    /\ TrackInit
    /\ ConnectorInit
    /\ DailyInit
    /\ LifecycleInit
    /\ RateInit
    /\ DeletionInit
    /\ RelayInit
    /\ TemplatesInit
    /\ focus \in {"usage", "keys", "teams", "engine", "finder", "audience", "tracking", "connectors", "daily", "mails", "rate", "deletion", "relay", "templates"}
    /\ focus # "engine" => flags = (CHOOSE f \in FlagSets : TRUE) /\ relay = "unused" /\ ~zeroBounce
    /\ focus # "audience" => member = [l \in AudLists |-> "none"]
    /\ focus # "connectors" => rule = "none"
    /\ focus # "daily" => expiry.aligned
MCNext == Use_(MeterNext) \/ Key_(ApiKeysNext) \/ Team_(TeamsNext) \/ Eng_(EngineNext) \/ Fin_(FinderNext) \/ Aud_(AudienceNext) \/ Trk_(TrackNext) \/ Con_(ConnectorNext) \/ Daily_(DailyNext) \/ Mail_(LifecycleNext) \/ Rate_(RateNext) \/ Del_(DeletionNext) \/ Rel_(RelayNext) \/ Tpl_(TemplatesNext)
MCSpec ==
    /\ MCInit /\ [][MCNext]_all

----------------------------------------------------------------------------
\* The counters that ration the service: the usage of a month (UsageMeter) and
\* the requests of a minute (RateLimit).
LimitsHold == CountersHold /\ WindowHolds

\* A key is usable as long as it is somebody's, and no longer (ApiKeys); an
\* account goes as a whole (AccountDeletion).
AccountsHold == KeysHold /\ DeletionHolds

\* What is counted, sent or told comes once: an open taken for a person's
\* (Tracking), an enrollment and a journal entry (Connectors), a lifecycle mail
\* (LifecycleMails), a warning and a verdict of the daily checks (DailyChecks), a
\* letter (SmtpRelay); and what was accepted or replaced is not lost (SmtpRelay,
\* Templates).
OnceAndNotLost == ScannersDontCount /\ RepeatsAreHarmless /\ WrittenOnce /\ WarnedOnce /\ RelayHolds /\ HistoryKeepsAll
=============================================================================
