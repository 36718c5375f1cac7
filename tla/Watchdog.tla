------------------------------ MODULE Watchdog ------------------------------
(***************************************************************************)
(* ops/scripts/18-prometheus-watchdog.sh: the host's own alarm for a        *)
(* Prometheus that is down.  A systemd timer starts the script every minute,*)
(* one run at a time.  The script keeps three files between its runs: one   *)
(* for the outage, and one for each channel that has been told of it.       *)
(*                                                                         *)
(* A delivery that curl reports as failed is tried again by the next run,   *)
(* although the message may have arrived (a timeout after the last byte).   *)
(***************************************************************************)
EXTENDS Naturals

CONSTANTS
    Channel,      \* Telegram and e-mail
    None,
    AllowKill     \* whether the host may stop in the middle of a run

ASSUME WatchdogAssumption == None \notin Channel /\ AllowKill \in BOOLEAN

VARIABLES
    down,         \* Prometheus does not answer
    paused,       \* run/watchdog.pause exists: a restore is replacing the stack
    enabled,      \* the channels configured in .env
    outage,       \* the file prometheus-down exists
    sent,         \* the channels with a prometheus-down.*-sent file
    phase,        \* what the run is doing
    accepted,     \* the channel whose message curl has just delivered
    todo,         \* the channels this run still has to look at
    conf,         \* the channels configured when this run read .env
    told,         \* history: the last message that arrived on each channel
    doubt,        \* history: channels whose file and last message may differ
    repeated      \* history: channels told the same thing twice, and not in doubt

runVars == <<phase, accepted, todo, conf>>
world   == <<down, paused, enabled>>
files   == <<outage, sent>>
history == <<told, doubt, repeated>>
vars == <<world, files, runVars, history>>

TypeOK ==
    /\ down \in BOOLEAN /\ paused \in BOOLEAN /\ outage \in BOOLEAN
    /\ enabled \subseteq Channel /\ sent \subseteq Channel
    /\ todo \subseteq Channel /\ conf \subseteq Channel
    /\ phase \in {"idle", "firing", "resolving"}
    /\ accepted \in Channel \cup {None}
    /\ told \in [Channel -> {"nothing", "firing", "resolved"}]
    /\ doubt \subseteq Channel /\ repeated \subseteq Channel

Init ==
    /\ down = FALSE /\ paused = FALSE
    /\ enabled \in SUBSET Channel
    /\ outage = FALSE /\ sent = {}
    /\ phase = "idle" /\ accepted = None /\ todo = {} /\ conf = {}
    /\ told = [c \in Channel |-> "nothing"]
    /\ doubt = {} /\ repeated = {}

-----------------------------------------------------------------------------
(* One run *)

\* The message arrives.
Arrives(c, message) ==
    /\ told' = [told EXCEPT ![c] = message]
    /\ repeated' = repeated \cup {d \in {c} \ doubt : told[d] = message}

\* Mutant: only the run that finds a new outage tells the channels.
ProbeTellsOnce ==
    /\ phase = "idle"
    /\ ~paused
    /\ down \/ outage
    /\ conf' = enabled
    /\ phase' = IF down THEN "firing" ELSE "resolving"
    /\ outage' = TRUE
    /\ todo' = IF ~down THEN sent ELSE IF outage THEN {} ELSE enabled
    /\ UNCHANGED <<world, sent, accepted, history>>

\* A paused run ends at once; so does one that finds Prometheus up and no outage.
Probe ==
    /\ phase = "idle"
    /\ ~paused
    /\ down \/ outage
    /\ conf' = enabled
    /\ phase' = IF down THEN "firing" ELSE "resolving"
    /\ outage' = TRUE
    /\ todo' = IF down THEN enabled \ sent ELSE sent
    /\ UNCHANGED <<world, sent, accepted, history>>

\* The run takes up the next channel.
Takes(c) ==
    /\ accepted = None
    /\ c \in todo
    /\ todo' = todo \ {c}

\* curl -fsS reports success, or a failure whether the message arrived or not.
Sends(c, message) ==
    \/ accepted' = c /\ Arrives(c, message) /\ UNCHANGED doubt
    \/ UNCHANGED <<accepted, history>>
    \/ UNCHANGED accepted /\ Arrives(c, message) /\ doubt' = doubt \cup {c}

TellFiring(c) ==
    /\ phase = "firing"
    /\ Takes(c)
    /\ Sends(c, "firing")
    /\ UNCHANGED <<world, files, phase, conf>>

\* Mutant: the files of the channels are left to the end of the outage.
MarkSentNot(c) ==
    /\ phase = "firing"
    /\ accepted = c
    /\ accepted' = None
    /\ UNCHANGED <<world, files, phase, todo, conf, history>>

\* The file follows the message, and a doubt of before is over.
MarkSent(c) ==
    /\ phase = "firing"
    /\ accepted = c
    /\ sent' = sent \cup {c} /\ doubt' = doubt \ {c}
    /\ accepted' = None
    /\ UNCHANGED <<world, outage, phase, todo, conf, told, repeated>>

\* Mutant: every configured channel is told, whether it has a file or not.
TellResolvedToAll(c) ==
    /\ phase = "resolving"
    /\ accepted = None
    /\ c \in conf
    /\ todo' = todo \ {c}
    /\ Sends(c, "resolved")
    /\ UNCHANGED <<world, files, phase, conf>>

TellResolved(c) ==
    /\ phase = "resolving"
    /\ c \in conf
    /\ Takes(c)
    /\ Sends(c, "resolved")
    /\ UNCHANGED <<world, files, phase, conf>>

\* A channel that is no longer configured loses its file without a message.
SkipResolved(c) ==
    /\ phase = "resolving"
    /\ c \notin conf
    /\ Takes(c)
    /\ accepted' = c
    /\ doubt' = doubt \cup {c}
    /\ UNCHANGED <<world, files, phase, conf, told, repeated>>

\* Mutant: the file is kept although the recovery was delivered.
UnmarkNot(c) ==
    /\ phase = "resolving"
    /\ accepted = c
    /\ accepted' = None
    /\ UNCHANGED <<world, files, phase, todo, conf, history>>

\* So does its removal, unless it was removed without a message.
Unmark(c) ==
    /\ phase = "resolving"
    /\ accepted = c
    /\ sent' = sent \ {c}
    /\ doubt' = doubt \ {d \in {c} : told[d] = "resolved"}
    /\ accepted' = None
    /\ UNCHANGED <<world, outage, phase, todo, conf, told, repeated>>

\* Mutant: the outage is over although a channel has not been told.
EndForgetsOutage ==
    /\ phase # "idle" /\ accepted = None /\ todo = {}
    /\ outage' = (phase = "firing")
    /\ phase' = "idle" /\ conf' = {}
    /\ UNCHANGED <<world, sent, accepted, todo, history>>

\* Mutant: the file of the outage is never removed.
EndKeepsOutage ==
    /\ phase # "idle" /\ accepted = None /\ todo = {}
    /\ phase' = "idle" /\ conf' = {}
    /\ UNCHANGED <<world, files, accepted, todo, history>>

\* The outage is over when no channel has a file left.
End ==
    /\ phase # "idle" /\ accepted = None /\ todo = {}
    /\ outage' = (phase = "firing" \/ sent # {})
    /\ phase' = "idle" /\ conf' = {}
    /\ UNCHANGED <<world, sent, accepted, todo, history>>

-----------------------------------------------------------------------------
(* The rest of the system *)

PrometheusStops == ~down /\ down' = TRUE  /\ UNCHANGED <<paused, enabled, files, runVars, history>>
PrometheusStarts == down /\ down' = FALSE /\ UNCHANGED <<paused, enabled, files, runVars, history>>

\* 60-restore.sh before it stops the stack, and its EXIT trap.
Pause  == ~paused /\ paused' = TRUE  /\ UNCHANGED <<down, enabled, files, runVars, history>>
Resume == paused  /\ paused' = FALSE /\ UNCHANGED <<down, enabled, files, runVars, history>>

\* A channel is switched on or off in .env; the run has its own copy.
Reconfigure(c) ==
    /\ enabled' = IF c \in enabled THEN enabled \ {c} ELSE enabled \cup {c}
    /\ UNCHANGED <<down, paused, files, runVars, history>>

\* The host stops: the files stay, a message may be out without its file.
Kill ==
    /\ AllowKill
    /\ phase # "idle"
    /\ phase' = "idle" /\ accepted' = None /\ todo' = {} /\ conf' = {}
    /\ doubt' = doubt \cup ({accepted} \cap Channel)
    /\ UNCHANGED <<world, files, told, repeated>>

-----------------------------------------------------------------------------
Tell(c) == TellFiring(c) \/ MarkSent(c) \/ TellResolved(c) \/ SkipResolved(c) \/ Unmark(c)
Run     == Probe \/ End \/ \E c \in Channel : Tell(c)
World   == PrometheusStops \/ PrometheusStarts \/ Pause \/ Resume
           \/ \E c \in Channel : Reconfigure(c)

Next == Run \/ World \/ Kill

Spec == Init /\ [][Next]_vars

Delivers(c) == Tell(c) /\ accepted' = c

\* The timer starts a run every minute, and a run ends: curl has --max-time, and
\* the host does not stop in every run.  A channel that is tried again and again
\* takes a message some time.
FairSpec == /\ Spec
            /\ WF_vars(Run) /\ SF_vars(End)
            /\ \A c \in Channel : SF_vars(Delivers(c)) /\ SF_vars(MarkSent(c) \/ Unmark(c))

-----------------------------------------------------------------------------
(* Properties *)

\* As long as a channel has a file the outage is on record, whatever is killed:
\* a file never outlives its outage to silence the next one.
MarksBelongToOutage == sent # {} => outage

\* Between two runs a channel has a file exactly when the alarm is the last thing
\* it was told, unless the acknowledgement or the run of its last message was lost,
\* or it lost its file while it was disabled.
MarksAreTruthful ==
    phase = "idle" =>
        \A c \in Channel \ doubt : c \in sent <=> told[c] = "firing"

\* A channel is not told the same thing twice, with the same exceptions.
NoRepetition == repeated = {}

\* A recovery is only announced where an alarm has arrived before.
RecoveryFollowsAlarm ==
    [][\A c \in Channel : told[c] = "nothing" => told'[c] # "resolved"]_vars

\* When Prometheus stays down, every configured channel is told of this outage in the
\* end, also one that failed at first or was configured later: it has its file, which
\* no earlier outage leaves behind, and the alarm is the last thing that reached it.
\* The exception: the recovery of before reached it and its acknowledgement did not,
\* so that the file stands for an alarm that has been withdrawn.
AlarmArrives ==
    \A c \in Channel :
        <>[](down /\ ~paused /\ c \in enabled)
            => <>[](c \in sent /\ (told[c] = "firing" \/ c \in doubt))

\* When it stays up, every alarm that was acknowledged is withdrawn and the outage
\* closed. The channels stay configured: a disabled one loses its file with no message.
OutageEnds ==
    <>[](~down /\ ~paused /\ enabled = Channel)
        => <>[](~outage /\ \A c \in Channel : told[c] # "firing" \/ c \in doubt)
=============================================================================
