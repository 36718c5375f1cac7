---------------------------- MODULE WatchdogProofs ----------------------------
(***************************************************************************)
(* Proofs about Watchdog, for any set of channels: what its files say is    *)
(* what the channels were told, wherever a run was cut off.                 *)
(***************************************************************************)
EXTENDS Watchdog, TLAPS

\* A run has an outage on record, and between runs none is left behind.
RunsAreOnRecord ==
    /\ phase # "idle" \/ sent # {} => outage
    /\ phase = "idle" => accepted = None /\ todo = {}

\* An alarm is for channels without a file, a recovery for those with one, and a
\* channel is taken up once in a run.
TakesWhatIsDue ==
    /\ accepted \notin todo
    /\ phase = "firing" => (todo \cup {accepted}) \cap sent = {}
    /\ phase = "resolving" => (todo \cup {accepted}) \ {None} \subseteq sent

Message == IF phase = "firing" THEN "firing" ELSE "resolved"

\* A file stands for an alarm that arrived.  The channel whose file is about to
\* follow its message is the one that may differ.
FilesFollowMessages ==
    /\ \A c \in Channel \ doubt :
         IF c = accepted THEN told[c] = Message ELSE c \in sent <=> told[c] = "firing"
    /\ \A c \in Channel : c \in sent \/ c = accepted => told[c] # "nothing"
    /\ phase = "firing" /\ accepted \in Channel => told[accepted] = "firing"

IInv == TypeOK /\ RunsAreOnRecord /\ TakesWhatIsDue /\ FilesFollowMessages /\ NoRepetition

-----------------------------------------------------------------------------
LEMMA InitIInv == Init => IInv
<1>. SUFFICES ASSUME Init PROVE IInv
  OBVIOUS
<1>1. TypeOK /\ RunsAreOnRecord /\ NoRepetition
  BY DEF Init, TypeOK, RunsAreOnRecord, NoRepetition
<1>2. TakesWhatIsDue /\ FilesFollowMessages
  BY WatchdogAssumption DEF Init, TakesWhatIsDue, FilesFollowMessages
<1>. QED  BY <1>1, <1>2 DEF IInv

\* A step that leaves run and files alone, as those of the world do.
LEMMA QuietStep ==
  ASSUME IInv, TypeOK', UNCHANGED <<files, runVars, history>>
  PROVE  IInv'
  BY DEF IInv, files, runVars, history, RunsAreOnRecord, TakesWhatIsDue,
         FilesFollowMessages, Message, NoRepetition

LEMMA WorldStep ==
  ASSUME IInv, World
  PROVE  IInv'
<1>1. TypeOK'
  BY DEF IInv, World, TypeOK, PrometheusStops, PrometheusStarts, Pause, Resume,
         Reconfigure, files, runVars, history
<1>2. UNCHANGED <<files, runVars, history>>
  BY DEF World, PrometheusStops, PrometheusStarts, Pause, Resume, Reconfigure
<1>. QED  BY <1>1, <1>2, QuietStep

LEMMA ProbeStep ==
  ASSUME IInv, Probe
  PROVE  IInv'
<1>1. TypeOK' /\ RunsAreOnRecord' /\ NoRepetition'
  BY DEF IInv, Probe, TypeOK, RunsAreOnRecord, NoRepetition, world, history
<1>2. TakesWhatIsDue'
  BY WatchdogAssumption
  DEF IInv, TypeOK, Probe, RunsAreOnRecord, TakesWhatIsDue, world, history
<1>3. FilesFollowMessages'
  BY WatchdogAssumption
  DEF IInv, Probe, RunsAreOnRecord, FilesFollowMessages, Message, history
<1>. QED  BY <1>1, <1>2, <1>3 DEF IInv

\* A message to a channel that was last told another one, or about which the
\* script has been in doubt before.
LEMMA ArrivesStep ==
  ASSUME IInv, NEW c \in Channel, NEW m \in {"firing", "resolved"}, Arrives(c, m),
         told[c] # m \/ c \in doubt
  PROVE  /\ told' \in [Channel -> {"nothing", "firing", "resolved"}]
         /\ repeated' \subseteq Channel
         /\ told'[c] = m /\ \A d \in Channel \ {c} : told'[d] = told[d]
         /\ NoRepetition'
  BY DEF IInv, TypeOK, Arrives, NoRepetition

\* curl delivers, fails, or does the one and reports the other.
LEMMA SendsStep ==
  ASSUME IInv, NEW c \in Channel, Takes(c), phase # "idle", Sends(c, Message),
         UNCHANGED <<world, files, phase, conf>>
  PROVE  IInv'
<1>. USE WatchdogAssumption
<1>1. Message \in {"firing", "resolved"} /\ Message' = Message
  BY DEF Message
<1>2. told[c] # Message \/ c \in doubt
  BY DEF IInv, TypeOK, Takes, TakesWhatIsDue, FilesFollowMessages, Message
<1>3. RunsAreOnRecord'
  BY DEF IInv, RunsAreOnRecord, files
<1>4. CASE UNCHANGED <<accepted, history>>
  <2>1. TypeOK' /\ TakesWhatIsDue' /\ FilesFollowMessages' /\ NoRepetition'
    BY <1>4, <1>1
    DEF IInv, TypeOK, Takes, TakesWhatIsDue, FilesFollowMessages, NoRepetition, Message,
        world, files, history
  <2>. QED  BY <2>1, <1>3 DEF IInv
<1>5. ASSUME Arrives(c, Message), doubt \subseteq doubt', doubt' \subseteq doubt \cup {c},
             \/ accepted' = c /\ UNCHANGED doubt
             \/ accepted' = None /\ c \in doubt'
      PROVE  IInv'
  <2>1. /\ told' \in [Channel -> {"nothing", "firing", "resolved"}]
        /\ repeated' \subseteq Channel
        /\ told'[c] = Message /\ \A d \in Channel \ {c} : told'[d] = told[d]
        /\ NoRepetition'
    BY <1>1, <1>2, <1>5, ArrivesStep DEF IInv, TypeOK
  <2>2. TypeOK'
    BY <1>5, <2>1 DEF IInv, TypeOK, Takes, world, files
  <2>3. TakesWhatIsDue'
    BY <1>5 DEF IInv, TypeOK, Takes, TakesWhatIsDue, files
  <2>4. FilesFollowMessages'
    <3>1. phase' = "firing" /\ accepted' \in Channel => told'[accepted'] = "firing"
      BY <1>5, <2>1 DEF Message
    <3>. QED  BY <1>1, <1>5, <2>1, <3>1 DEF IInv, Takes, FilesFollowMessages, files
  <2>. QED  BY <1>3, <2>1, <2>2, <2>3, <2>4 DEF IInv
<1>. QED  BY <1>4, <1>5 DEF Sends, Takes, IInv, TypeOK

\* A channel loses its file without a message, and is in doubt before it does.
LEMMA SkipStep ==
  ASSUME IInv, NEW c \in Channel, SkipResolved(c)
  PROVE  IInv'
<1>. USE WatchdogAssumption
<1>1. TypeOK' /\ RunsAreOnRecord' /\ NoRepetition'
  BY DEF IInv, SkipResolved, Takes, TypeOK, RunsAreOnRecord, NoRepetition, world, files
<1>2. TakesWhatIsDue'
  BY DEF IInv, TypeOK, SkipResolved, Takes, TakesWhatIsDue, files
<1>3. FilesFollowMessages'
  BY DEF IInv, TypeOK, SkipResolved, Takes, TakesWhatIsDue, FilesFollowMessages, Message, files
<1>. QED  BY <1>1, <1>2, <1>3 DEF IInv

\* The file follows the message, which settles what was in doubt.
LEMMA MarkStep ==
  ASSUME IInv, NEW c \in Channel, MarkSent(c) \/ Unmark(c)
  PROVE  IInv'
<1>. USE WatchdogAssumption
<1>1. TypeOK' /\ RunsAreOnRecord' /\ NoRepetition'
  BY DEF IInv, MarkSent, Unmark, TypeOK, RunsAreOnRecord, NoRepetition, world, history
<1>2. TakesWhatIsDue'
  BY DEF IInv, TypeOK, MarkSent, Unmark, TakesWhatIsDue
<1>3. FilesFollowMessages'
  BY DEF IInv, TypeOK, MarkSent, Unmark, FilesFollowMessages, Message, history
<1>. QED  BY <1>1, <1>2, <1>3 DEF IInv

LEMMA EndStep ==
  ASSUME IInv, End
  PROVE  IInv'
<1>1. TypeOK' /\ RunsAreOnRecord' /\ NoRepetition'
  BY DEF IInv, End, TypeOK, RunsAreOnRecord, NoRepetition, world, history
<1>2. TakesWhatIsDue' /\ FilesFollowMessages'
  BY WatchdogAssumption
  DEF IInv, End, TakesWhatIsDue, FilesFollowMessages, Message, history
<1>. QED  BY <1>1, <1>2 DEF IInv

\* The message that went out before the host stopped leaves its channel in doubt.
LEMMA KillStep ==
  ASSUME IInv, Kill
  PROVE  IInv'
<1>. USE WatchdogAssumption
<1>1. TypeOK' /\ RunsAreOnRecord' /\ NoRepetition'
  BY DEF IInv, Kill, TypeOK, RunsAreOnRecord, NoRepetition, world, files
<1>2. TakesWhatIsDue'
  BY DEF IInv, Kill, TakesWhatIsDue
<1>3. FilesFollowMessages'
  BY DEF IInv, TypeOK, Kill, FilesFollowMessages, Message, files
<1>. QED  BY <1>1, <1>2, <1>3 DEF IInv

LEMMA TellStep ==
  ASSUME IInv, NEW c \in Channel, Tell(c)
  PROVE  IInv'
<1>1. CASE TellFiring(c)
  BY <1>1, SendsStep DEF TellFiring, Message
<1>2. CASE TellResolved(c)
  BY <1>2, SendsStep DEF TellResolved, Message
<1>3. CASE SkipResolved(c)
  BY <1>3, SkipStep
<1>4. CASE MarkSent(c) \/ Unmark(c)
  BY <1>4, MarkStep
<1>. QED  BY <1>1, <1>2, <1>3, <1>4 DEF Tell

LEMMA NextIInv == IInv /\ [Next]_vars => IInv'
<1>. SUFFICES ASSUME IInv, [Next]_vars PROVE IInv'
  OBVIOUS
<1>1. CASE Probe
  BY <1>1, ProbeStep
<1>2. CASE End
  BY <1>2, EndStep
<1>3. ASSUME NEW c \in Channel, Tell(c) PROVE IInv'
  BY <1>3, TellStep
<1>4. CASE World
  BY <1>4, WorldStep
<1>5. CASE Kill
  BY <1>5, KillStep
<1>6. CASE UNCHANGED vars
  <2>1. TypeOK'
    BY <1>6 DEF IInv, TypeOK, vars, world, files, runVars, history
  <2>. QED  BY <1>6, <2>1, QuietStep DEF vars
<1>. QED  BY <1>1, <1>2, <1>3, <1>4, <1>5, <1>6 DEF Next, Run

\* Files, messages and the place of the run agree in every state of the script
\* (18-prometheus-watchdog.sh), killed or not.
THEOREM Invariant == Spec => []IInv
<1>. QED  BY InitIInv, NextIInv, PTL DEF Spec

-----------------------------------------------------------------------------
\* A -sent file is written after prometheus-down and removed before it.
THEOREM MarksAlwaysBelong == Spec => []MarksBelongToOutage
<1>1. IInv => MarksBelongToOutage
  BY DEF IInv, RunsAreOnRecord, MarksBelongToOutage
<1>. QED  BY <1>1, Invariant, PTL

\* Between two runs of the script its files are what the channels were last told.
THEOREM MarksTellTheTruth == Spec => []MarksAreTruthful
<1>1. IInv => MarksAreTruthful
  BY WatchdogAssumption
  DEF IInv, RunsAreOnRecord, FilesFollowMessages, MarksAreTruthful
<1>. QED  BY <1>1, Invariant, PTL

\* A message is only repeated on a channel whose acknowledgement or run was lost.
THEOREM NothingIsRepeated == Spec => []NoRepetition
<1>1. IInv => NoRepetition
  BY DEF IInv
<1>. QED  BY <1>1, Invariant, PTL

\* The recovery message goes to channels with a -sent file, also to those in doubt.
THEOREM RecoveryIsAnnouncedAfter == Spec => RecoveryFollowsAlarm
<1>1. ASSUME IInv, [Next]_vars, NEW c \in Channel, told[c] = "nothing"
      PROVE  told'[c] # "resolved"
  <2>1. ASSUME NEW d \in Channel, Tell(d) PROVE told'[c] # "resolved"
    <3>1. CASE TellFiring(d)
      BY <1>1, <3>1 DEF TellFiring, Sends, Arrives, IInv, TypeOK, history
    <3>2. CASE TellResolved(d)
      <4>1. d # c
        BY <1>1, <3>2, WatchdogAssumption
        DEF TellResolved, Takes, IInv, TakesWhatIsDue, FilesFollowMessages
      <4>. QED  BY <1>1, <3>2, <4>1 DEF TellResolved, Sends, Arrives, IInv, TypeOK, history
    <3>3. CASE SkipResolved(d) \/ MarkSent(d) \/ Unmark(d)
      BY <1>1, <3>3 DEF SkipResolved, MarkSent, Unmark, history
    <3>. QED  BY <2>1, <3>1, <3>2, <3>3 DEF Tell
  <2>2. CASE Probe \/ End \/ World \/ Kill \/ UNCHANGED vars
    BY <1>1, <2>2
    DEF Probe, End, World, Kill, PrometheusStops, PrometheusStarts, Pause, Resume,
        Reconfigure, vars, history
  <2>. QED  BY <1>1, <2>1, <2>2 DEF Next, Run
<1>2. IInv /\ [Next]_vars
        => [\A c \in Channel : told[c] = "nothing" => told'[c] # "resolved"]_vars
  BY <1>1
<1>. QED  BY <1>2, Invariant, PTL DEF Spec, RecoveryFollowsAlarm
=============================================================================
