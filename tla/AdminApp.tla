------------------------------ MODULE AdminApp ------------------------------
(***************************************************************************)
(* The admin UI (App.tsx): its panels, as one specification. Each panel     *)
(* keeps its own state (useState) and the tabs that are not shown stay      *)
(* mounted; panels meet in the server only, which every panel's module lets *)
(* change by itself. What the app does to a panel is therefore a behaviour  *)
(* of that panel alone, with stuttering steps: one panel is followed,       *)
(* chosen at the start. A route that is left unmounts its panels: their     *)
(* requests end like those of anybody else, and they begin anew.            *)
(***************************************************************************)
EXTENDS Naturals, Sequences, FiniteSets

CONSTANTS
    Archive, Key, Value, Text, Level, File, Password, Good,
    Channel, Configured, Load, Poll, QuickAction, Button, Plane, Planes, Container,
    MaxRequests, MaxTimers, MaxReads, MaxUploads, MaxWorld, MaxQueries, Batch,
    MaxSize, MaxLines, MaxWire, MaxRuns, MaxChanges

ASSUME AdminAssumption ==
    /\ MaxSize \in Nat /\ Planes \in Seq(Plane) /\ Level # {}
    /\ Key # {} /\ Value # {} /\ "loading" \notin Value
    /\ "" \notin Text \cup Password /\ Good \subseteq Password
    /\ "no file" \notin File /\ "no target" \notin Archive
    /\ "no channel" \notin Channel /\ Configured \subseteq Channel
    /\ "no poll" \notin Poll /\ "no container" \notin Container
    /\ Load # {} /\ QuickAction \cap Button = {} /\ Batch \in 1..MaxSize /\ MaxLines > 0

VARIABLES
    panel, \* the panel that is followed
    backups, listFailed, loading, create, createTimers, dialogs, handlers,
    env, config, configErr, expanded, rows, saves,
    bannerEnv, bannerForm, bannerSave, put, sent, written,
    fileValue, fileName, reading, formExpanded, uploadDialog, uploadState, uploads,
    current, form, passwordDialog, formState, change,
    world, served, up, polls, active, shown, quick, button, timers, acting,
    queries, feedActive, feedStatus, stream, events, feedPaused, snapshot,
    containerName, logStatus, source, wire, lines, logPaused, frozen,
    running, last, request, lost, run, preview, failed, poll,
    facts, changes, found, looked, met, verdict,
    enabled, channels, alertsFailed, alertsLoading, pending, toggles, test, testing, testTimers,
    rankings, loads, data, loadErr,
    webMode, webShown, webDialog, webState, activations, reached

backupsVars == <<backups, listFailed, loading, create, createTimers, dialogs, handlers>>
parametersVars == <<env, config, configErr, expanded, rows, saves>>
bannerVars == <<bannerEnv, bannerForm, bannerSave, put, sent, written>>
certificateVars == <<fileValue, fileName, reading, formExpanded, uploadDialog, uploadState, uploads>>
passwordVars == <<current, form, passwordDialog, formState, change>>
liveVars == <<world, served, up, polls, active, shown, quick, button, timers, acting>>
feedVars == <<queries, feedActive, feedStatus, stream, events, feedPaused, snapshot>>
logsVars == <<containerName, logStatus, source, wire, lines, logPaused, frozen>>
validationVars == <<running, last, request, lost, run, preview, failed, poll>>
overviewVars == <<facts, changes, found, looked, met, verdict>>
alertsVars == <<enabled, channels, alertsFailed, alertsLoading, pending, toggles, test, testing, testTimers>>
insightsVars == <<rankings, loads, data, loadErr>>
webAccessVars == <<webMode, webShown, webDialog, webState, activations, reached>>

Backups == INSTANCE AdminBackups
Parameters == INSTANCE AdminParameters
Banner == INSTANCE AdminBanner
Certificate == INSTANCE AdminCertificate
Secret == INSTANCE AdminPassword
Live == INSTANCE AdminLive
Feed == INSTANCE AdminFeed
Logs == INSTANCE AdminLogs
Validation == INSTANCE AdminValidation
Overview == INSTANCE AdminVerdict
Alerts == INSTANCE AdminAlerts
Insights == INSTANCE AdminInsights
WebAccess == INSTANCE AdminWebAccess

Panels == {"backups", "parameters", "banner", "certificate", "password",
           "live", "feed", "logs", "validation", "overview",
           "alerts", "insights", "webAccess"}

vars == <<panel, backupsVars, parametersVars, bannerVars, certificateVars, passwordVars,
          liveVars, feedVars, logsVars, validationVars, overviewVars, alertsVars, insightsVars, webAccessVars>>

Init ==
    /\ panel \in Panels
    /\ Backups!Init /\ Parameters!Init /\ Banner!Init /\ Certificate!Init /\ Secret!Init
    /\ Live!Init /\ Feed!Init /\ Logs!Init /\ Validation!Init /\ Overview!Init
    /\ Alerts!Init /\ Insights!Init /\ WebAccess!Init

\* The panels that are not followed.
Others(p) ==
    /\ panel = p /\ UNCHANGED panel
    /\ IF p = "backups" THEN TRUE ELSE UNCHANGED backupsVars
    /\ IF p = "parameters" THEN TRUE ELSE UNCHANGED parametersVars
    /\ IF p = "banner" THEN TRUE ELSE UNCHANGED bannerVars
    /\ IF p = "certificate" THEN TRUE ELSE UNCHANGED certificateVars
    /\ IF p = "password" THEN TRUE ELSE UNCHANGED passwordVars
    /\ IF p = "live" THEN TRUE ELSE UNCHANGED liveVars
    /\ IF p = "feed" THEN TRUE ELSE UNCHANGED feedVars
    /\ IF p = "logs" THEN TRUE ELSE UNCHANGED logsVars
    /\ IF p = "validation" THEN TRUE ELSE UNCHANGED validationVars
    /\ IF p = "overview" THEN TRUE ELSE UNCHANGED overviewVars
    /\ IF p = "alerts" THEN TRUE ELSE UNCHANGED alertsVars
    /\ IF p = "insights" THEN TRUE ELSE UNCHANGED insightsVars
    /\ IF p = "webAccess" THEN TRUE ELSE UNCHANGED webAccessVars

OfBackups == Others("backups") /\ Backups!Next
OfParameters == Others("parameters") /\ Parameters!Next
OfBanner == Others("banner") /\ Banner!Next
OfCertificate == Others("certificate") /\ Certificate!Next
OfPassword == Others("password") /\ Secret!Next
OfLive == Others("live") /\ Live!Next
OfFeed == Others("feed") /\ Feed!Next
OfLogs == Others("logs") /\ Logs!Next
OfValidation == Others("validation") /\ Validation!Next
OfOverview == Others("overview") /\ Overview!Next
OfAlerts == Others("alerts") /\ Alerts!Next
OfInsights == Others("insights") /\ Insights!Next
OfWebAccess == Others("webAccess") /\ WebAccess!Next

Next ==
    \/ OfBackups \/ OfParameters \/ OfBanner \/ OfCertificate \/ OfPassword
    \/ OfLive \/ OfFeed \/ OfLogs \/ OfValidation \/ OfOverview
    \/ OfAlerts \/ OfInsights \/ OfWebAccess

Spec == Init /\ [][Next]_vars

-----------------------------------------------------------------------------
Tick == Others("live") /\ Live!Tick
Deadline == Others("live") /\ Live!Deadline

\* The interval and the deadline of useSnapshot come; nothing else is owed.
FairSpec == Spec /\ WF_vars(Tick) /\ WF_vars(Deadline)
-----------------------------------------------------------------------------
(* Properties *)

\* Nothing irreversible is asked for without a word typed since the dialog opened;
\* an upload has no file but those whose names the form has at that moment (the key
\* may be missing); and a password that the server writes stands twice in the form.
ConfirmedIsDone ==
    /\ Backups!ConfirmedByWord
    /\ Certificate!UploadIsWhatIsShown
    /\ Secret!PasswordIsTypedTwice

\* "Banner saved" is said of two writes that were both made, of what the form shows;
\* "HTTPS is activating" of a mode that the server had after the confirmation.
SuccessIsSaved ==
    /\ Banner!BannerSuccessIsSaved /\ Banner!FormIsSent
    /\ WebAccess!ActivatingIsWritten

\* What says that it works (a button, a row, a dialog, a list) has a request under way
\* that will end it: no answer, error, timer or later use of the same state leaves it
\* working for ever. Only two places go on to say "loading" without one, and only after
\* a load that failed, of which the page also shows the error: the section of the
\* parameters and the header of the alert channels.
WorkIsUnderWay ==
    /\ Backups!WorkIsUnderWay /\ Parameters!WorkIsUnderWay /\ Banner!WorkIsUnderWay
    /\ Certificate!WorkIsUnderWay /\ Secret!WorkIsUnderWay /\ Live!WorkIsUnderWay
    /\ Validation!WorkIsUnderWay /\ Alerts!WorkIsUnderWay /\ Insights!WorkIsUnderWay
    /\ WebAccess!WorkIsUnderWay

\* What is typed into a parameter is not changed by the answers to other saves.
DraftSurvives == Parameters!DraftSurvives

\* A button is one action: the quick actions started since the overview was opened
\* never overlap, and the result of a validation is that of the run this page asked for.
OneActionPerButton == Live!OneQuickAction /\ Validation!RunIsFresh

\* The page never shows an older snapshot than before, whatever answers come late.
ShownNeverGoesBack == Live!ShownNeverGoesBack

\* A server that stays silent is seen to be silent.
SilenceIsShown == Live!SilenceIsShown

\* The feed shows a query once, and the log pane the lines of its container only,
\* unless it was paused before its container was switched.
StreamsShowTheirSource == Feed!FeedHasNoDuplicates /\ Logs!LogIsOfContainer

\* "DNS routed through Tor" was seen piece by piece, and no tile that bears the
\* evidence says otherwise.
VerdictIsEvidenced == Overview!VerdictIsEvidenced
=============================================================================
