------------------------------ MODULE SetupPage ------------------------------
(***************************************************************************)
(* The guided installation as the browser shows it: screens/Setup.tsx with *)
(* bootstrap set, its calls of lib/snapshot.ts, and the answers of the     *)
(* temporary setup service (bootstrap/server.py).  What happens behind the *)
(* service, from the request file to the deployer, is module HostInstall;  *)
(* here an installation runs and ends one way or the other.                *)
(*                                                                         *)
(* A call in flight is a record: the service answers it in one step and    *)
(* the page hears the answer in a later one, in any order.  Leaving the    *)
(* last step unmounts it: React then ignores what its calls set, but the   *)
(* service still answers them.  Setup.tsx without bootstrap is not modelled:*)
(* App.tsx redirects /setup to /configure, so it is never mounted.         *)
(***************************************************************************)
EXTENDS Naturals, SequencesExt

CONSTANTS Call,         \* calls of the page that may be in flight together
          MaxInstalls   \* installations the service accepts, in all

ASSUME SetupAssumption == MaxInstalls \in Nat

VARIABLES
    config,     \* the answer of /api/config: pending or settled, by an answer or a failure
    step,       \* the step of the wizard
    form,       \* the edition, and how far the Advanced choices are
    install,    \* install of the last step: status, edition and who said so
    busy,       \* which of starting, finishing and recovering are set
    calls,      \* the calls in flight
    left,       \* the browser has been sent to the installed Torhole
    wizard,     \* _status of the service: status and edition
    files,      \* the editions whose env file exists on the host
    unverified, \* the editions whose last installation here has not passed its checks
    accepted,   \* installations accepted so far
    closed      \* the setup container: open, closing or removed

page == <<config, step, form, install, busy, left>>
service == <<wizard, files, unverified, accepted, closed>>
vars == <<page, calls, service>>

Edition == {"home", "advanced"}

\* What the page holds for Advanced: fields of the planes left blank, an own
\* certificate chosen whose two files were not, or everything.
Filled == {"incomplete", "nofiles", "complete"}

\* The steps that change nothing below are left out: welcome, blocklists, tor, test.
ADVANCED_STEP_ORDER == <<"edition", "topology", "network", "admin", "access", "alerts", "done">>
HOME_STEP_ORDER == <<"edition", "network", "done">>

stepOrder == IF form.edition = "advanced" THEN ADVANCED_STEP_ORDER ELSE HOME_STEP_ORDER

\* stepOrder.indexOf(step), from 1; 0 when the step is not in the order.
idx == IF \E i \in DOMAIN stepOrder : stepOrder[i] = step
         THEN CHOOSE i \in DOMAIN stepOrder : stepOrder[i] = step ELSE 0

Free == [kind |-> "free"]
ReadyToInstall == [status |-> "idle", edition |-> "none", by |-> "page"]
Fails == [status |-> "error", edition |-> "none", by |-> "page"]
Said(status, e, by) == [status |-> status, edition |-> e, by |-> by]
NotYet == Said("none", "none", "none")

Status == {"idle", "running", "success", "error"}
NamedEdition == Edition \cup {"none"}
Answers == [status : Status, edition : NamedEdition, by : {"page", "status", "receipt"}]

\* The calls of a kind that are on their way to the service, and those on their way back.
Kinds == {"start", "poll", "recover", "finish"}
Asking(kind) == [kind : {kind}, mounted : BOOLEAN, answer : {NotYet},
                 body : IF kind = "start" THEN Edition \cup {"invalid"} ELSE {"none"}]
Answered(kind) == [kind : {kind}, mounted : BOOLEAN, answer : Answers, body : {"none"}]
Calls == {Free} \cup UNION {Asking(kind) \cup Answered(kind) : kind \in Kinds}

TypeOK ==
    /\ config \in {"pending", "settled"}
    /\ step \in Range(ADVANCED_STEP_ORDER)
    /\ form \in [edition : Edition, advanced : Filled]
    /\ install \in Answers
    /\ busy \subseteq {"starting", "finishing", "recovering"}
    /\ calls \in [Call -> Calls]
    /\ left \in BOOLEAN
    /\ wizard \in [status : Status, edition : NamedEdition]
    /\ files \subseteq Edition /\ unverified \subseteq Edition
    /\ accepted \in 0 .. MaxInstalls
    /\ closed \in {"open", "closing", "removed"}

\* The host may hold what an earlier installation left, finished or not.  That of a
\* Home installation is what one that failed here leaves.
Init ==
    /\ config = "pending" /\ step = "edition"
    /\ form = [edition |-> "home", advanced |-> "incomplete"]
    /\ install = ReadyToInstall /\ busy = {} /\ left = FALSE
    /\ calls = [c \in Call |-> Free]
    /\ wizard = [status |-> "idle", edition |-> "none"]
    /\ files \in {{}, {"advanced"}} /\ unverified = {}
    /\ accepted = 0 /\ closed = "open"

-----------------------------------------------------------------------------
(* The steps of the wizard.                                                 *)

\* Leaving the last step: its state is gone, and answers find nobody.
Unmounted(s) ==
    IF step = "done" /\ s # "done"
      THEN /\ install' = ReadyToInstall /\ busy' = {}
           /\ calls' = [c \in Call |->
                          IF calls[c].kind = "poll" THEN Free
                          ELSE IF calls[c].kind = "free" THEN Free
                          ELSE [calls[c] EXCEPT !.mounted = FALSE]]
      ELSE UNCHANGED <<install, busy, calls>>

Show(s) == step' = s /\ Unmounted(s)

Open == ~left /\ UNCHANGED <<left, service>>

\* chooseEdition
ChooseEdition(e) ==
    /\ Open /\ step = "edition"
    /\ form' = [form EXCEPT !.edition = e]
    /\ UNCHANGED <<config, step, install, busy, calls>>

\* A step whose fields decide whether the service takes the body of an Advanced
\* installation.
Fill(s) ==
    /\ Open /\ step = s /\ form.edition = "advanced"
    /\ form.advanced # "nofiles"
    /\ \E c \in {"incomplete", "complete"} : form' = [form EXCEPT !.advanced = c]
    /\ UNCHANGED <<config, step, install, busy, calls>>

ChooseTopology == Fill("topology")
EditNetwork == Fill("network")
EditAdmin == Fill("admin")
EditAlerts == Fill("alerts")

\* The mode and the two files.  What the planes lack shows when the files are there.
ChooseAccess ==
    /\ Open /\ step = "access"
    /\ \E c \in {form.advanced, "nofiles"} \cup
            (IF form.advanced = "nofiles" THEN Filled ELSE {}) :
         form' = [form EXCEPT !.advanced = c]
    /\ UNCHANGED <<config, step, install, busy, calls>>

\* goNext and goBack; both disabled at their end of the order.
GoNext ==
    /\ Open /\ idx < Len(stepOrder)
    /\ Show(stepOrder[idx + 1])
    /\ UNCHANGED <<config, form>>

GoBack ==
    /\ Open /\ idx > 1
    /\ Show(stepOrder[idx - 1])
    /\ UNCHANGED <<config, form>>

\* The stepper: every step of the order can be opened, visited or not.
JumpTo(s) ==
    /\ Open /\ s \in Range(stepOrder) \ {step}
    /\ Show(s)
    /\ UNCHANGED <<config, form>>

\* Mutant: without the effect.
StayInStep(e, s) == s

\* The effect on [edition, step]: a Home wizard leaves the Advanced steps it
\* names; the admin step is not one of them.
LeaveAdvancedStep(e, s) ==
    IF e = "home" /\ s \in {"topology", "access", "alerts"} THEN "edition" ELSE s

\* What /api/config answers: the Advanced .env first, then Home's, then defaults.
Configured ==
    IF "advanced" \in files
      THEN {[edition |-> "advanced", advanced |-> c] : c \in {"nofiles", "complete"}}
      ELSE {[edition |-> "home", advanced |-> form.advanced]}

\* The answer of /api/config, whenever it comes: it replaces what was chosen.
ConfigAnswers ==
    /\ Open /\ closed # "removed" /\ config = "pending"
    /\ config' = "settled"
    /\ \E a \in Configured :
         /\ form' = a
         /\ Show(LeaveAdvancedStep(a.edition, step))

ConfigFails ==
    /\ Open /\ config = "pending"
    /\ config' = "settled"
    /\ UNCHANGED <<step, form, install, busy, calls>>

-----------------------------------------------------------------------------
(* The last step.                                                           *)

OnDone == Open /\ step = "done" /\ UNCHANGED <<config, step, form>>

\* The edition, when validated_advanced_config and validated_web_access would let
\* the body pass.
Body ==
    IF form.edition = "advanced" /\ form.advanced # "complete" THEN "invalid"
    ELSE form.edition

Send(kind) ==
    LET free == {c \in Call : calls[c] = Free}
        call == CHOOSE c \in free : TRUE IN
        /\ free # {}
        /\ calls' = [calls EXCEPT ![call] = [kind |-> kind, mounted |-> TRUE, answer |-> NotYet,
                          body |-> IF kind = "start" THEN Body ELSE "none"]]

\* The button is missing in the receipt of a success.
CanInstall ==
    /\ install.status \in {"idle", "error"} /\ "starting" \notin busy
    /\ ~(form.edition = "advanced" /\ form.advanced = "nofiles")

\* begin
Begin ==
    /\ OnDone /\ CanInstall
    /\ busy' = busy \cup {"starting"}
    /\ Send("start")
    /\ UNCHANGED install

\* recoverReceipt
RecoverReceipt ==
    /\ OnDone /\ install.status \in {"idle", "error"}
    /\ {"starting", "recovering"} \cap busy = {}
    /\ busy' = busy \cup {"recovering"}
    /\ Send("recover")
    /\ UNCHANGED install

\* The button of either receipt.
CanFinish == install.status = "success" /\ "finishing" \notin busy

\* finish
Finish ==
    /\ OnDone /\ CanFinish
    /\ busy' = busy \cup {"finishing"}
    /\ Send("finish")
    /\ UNCHANGED install

\* The interval while the status is running; it does not wait for the last answer.
Poll ==
    /\ OnDone /\ install.status = "running"
    /\ Send("poll")
    /\ UNCHANGED <<install, busy>>

Answer(c, a) == calls' = [calls EXCEPT ![c].answer = a, ![c].body = "none"]

Ends(kind) == CASE kind = "start" -> {"starting"} [] kind = "recover" -> {"recovering"}
                [] kind = "finish" -> {"finishing"} [] kind = "poll" -> {}

\* What the page does with an answer: a poll that fails keeps the edition.
Hears(c, said) ==
    /\ calls' = [calls EXCEPT ![c] = Free]
    /\ IF calls[c].mounted
         THEN install' = said /\ busy' = busy \ Ends(calls[c].kind)
         ELSE UNCHANGED <<install, busy>>

Deliver(c) ==
    /\ ~left /\ calls[c].kind \in {"start", "poll", "recover"}
    /\ calls[c].answer # NotYet
    /\ Hears(c, calls[c].answer)
    /\ UNCHANGED <<config, step, form, left, service>>

\* The destination opens also when the step has been left meanwhile.
DeliverFinish(c) ==
    /\ ~left /\ calls[c].kind = "finish" /\ calls[c].answer # NotYet
    /\ calls' = [calls EXCEPT ![c] = Free]
    /\ IF calls[c].answer.status = "success"
         THEN left' = TRUE /\ UNCHANGED <<install, busy>>
         ELSE /\ UNCHANGED left
              /\ IF calls[c].mounted
                   THEN /\ install' = Fails
                        /\ busy' = busy \ {"finishing"}
                   ELSE UNCHANGED <<install, busy>>
    /\ UNCHANGED <<config, step, form, service>>

\* Mutant: a poll that fails leaves the status at running.
CallFailsQuietly(c) ==
    /\ ~left /\ calls[c].kind # "free"
    /\ calls' = [calls EXCEPT ![c] = Free]
    /\ IF calls[c].mounted /\ calls[c].kind # "poll"
         THEN install' = Fails /\ busy' = busy \ Ends(calls[c].kind)
         ELSE UNCHANGED <<install, busy>>
    /\ UNCHANGED <<config, step, form, left, service>>

\* The connection fails, before or after the service has done its part.
CallFails(c) ==
    /\ ~left /\ calls[c].kind # "free"
    /\ calls' = [calls EXCEPT ![c] = Free]
    /\ IF calls[c].mounted
         THEN install' = Fails /\ busy' = busy \ Ends(calls[c].kind)
         ELSE UNCHANGED <<install, busy>>
    /\ UNCHANGED <<config, step, form, left, service>>

-----------------------------------------------------------------------------
(* The service.                                                             *)

Asked(c, kind) ==
    /\ ~left /\ closed # "removed"
    /\ calls[c].kind = kind /\ calls[c].answer = NotYet

\* POST /api/bootstrap/install of a valid body when nothing runs.  Advanced has
\* its env file before the host hears of the request.
Accept(c) ==
    /\ Asked(c, "start") /\ wizard.status # "running" /\ calls[c].body # "invalid"
    /\ accepted < MaxInstalls
    /\ accepted' = accepted + 1
    /\ LET e == calls[c].body IN
         /\ wizard' = [status |-> "running", edition |-> e]
         /\ unverified' = unverified \cup {e}
         /\ files' = IF e = "advanced" THEN files \cup {e} ELSE files
         /\ Answer(c, Said("running", "none", "page"))
    /\ UNCHANGED <<page, closed>>

\* 400 for a body, 409 while one runs, 500 when the queue cannot be written: the
\* page throws.
Refuse(c) ==
    /\ Asked(c, "start")
    /\ \/ calls[c].body = "invalid"
       \/ wizard.status = "running"
       \/ accepted = MaxInstalls
    /\ Answer(c, Fails)
    /\ UNCHANGED <<page, service>>

\* Mutant: the file of a Home installation counts as its success.
AnswerPollEarly(c) ==
    /\ Asked(c, "poll")
    /\ Answer(c, CASE wizard.status = "error" -> Fails
                   [] wizard.edition \in files -> Said("success", wizard.edition, "status")
                   [] OTHER -> Said(wizard.status, "none", "page"))
    /\ UNCHANGED <<page, service>>

\* GET /api/bootstrap/status
AnswerPoll(c) ==
    /\ Asked(c, "poll")
    /\ Answer(c, CASE wizard.status = "error" -> Fails
                   [] wizard.status = "success" -> Said("success", wizard.edition, "status")
                   [] OTHER -> Said(wizard.status, "none", "page"))
    /\ UNCHANGED <<page, service>>

\* GET /api/bootstrap/receipt: the env files are all it looks at.
AnswerReceipt(c) ==
    /\ Asked(c, "recover")
    /\ Answer(c, IF "advanced" \in files THEN Said("success", "advanced", "receipt")
                 ELSE IF "home" \in files THEN Said("success", "home", "receipt")
                 ELSE Fails)
    /\ UNCHANGED <<page, service>>

\* POST /api/bootstrap/finish: only after a success of this service.
AnswerFinish(c) ==
    /\ Asked(c, "finish")
    /\ IF wizard.status = "success"
         THEN /\ closed' = "closing"
              /\ Answer(c, Said("success", "none", "status"))
         ELSE /\ UNCHANGED closed
              /\ Answer(c, Fails)
    /\ UNCHANGED <<page, wizard, files, unverified, accepted>>

\* stop_bootstrap_container, a second after the answer; its threads end with it.
StopContainer ==
    /\ closed = "closing"
    /\ closed' = "removed"
    /\ UNCHANGED <<page, calls, wizard, files, unverified, accepted>>

\* Home's installer writes its env file before anything is checked.
WriteHomeEnv ==
    /\ closed # "removed" /\ wizard.status = "running" /\ wizard.edition = "home"
    /\ "home" \notin files
    /\ files' = files \cup {"home"}
    /\ UNCHANGED <<page, calls, wizard, unverified, accepted, closed>>

InstallEnds(ok) ==
    /\ closed # "removed" /\ wizard.status = "running"
    /\ ok => wizard.edition \in files
    /\ wizard' = IF ok THEN [wizard EXCEPT !.status = "success"]
                     ELSE [status |-> "error", edition |-> "none"]
    /\ unverified' = IF ok THEN unverified \ {wizard.edition} ELSE unverified
    /\ UNCHANGED <<page, calls, files, accepted, closed>>

-----------------------------------------------------------------------------
Wizard ==
    \/ \E e \in Edition : ChooseEdition(e)
    \/ ChooseTopology \/ EditNetwork \/ EditAdmin \/ EditAlerts
    \/ ChooseAccess
    \/ GoNext \/ GoBack \/ (\E s \in Range(ADVANCED_STEP_ORDER) : JumpTo(s))
    \/ ConfigAnswers \/ ConfigFails

Done == Begin \/ RecoverReceipt \/ Finish \/ Poll

Service(c) == Accept(c) \/ Refuse(c) \/ AnswerPoll(c) \/ AnswerReceipt(c) \/ AnswerFinish(c)
Host == WriteHomeEnv \/ (\E ok \in BOOLEAN : InstallEnds(ok))
Arrives(c) == Deliver(c) \/ DeliverFinish(c)

Next ==
    \/ Wizard \/ Done \/ Host \/ StopContainer
    \/ \E c \in Call : Service(c) \/ Arrives(c) \/ CallFails(c)

Spec == Init /\ [][Next]_vars

\* The interval fires, the service answers, answers arrive, installations end
\* (HostInstall's DeploymentIsAnswered).  The operator owes nothing.
Fairness ==
    /\ WF_vars(Poll) /\ WF_vars(Host)
    /\ \A c \in Call : WF_vars(Service(c)) /\ WF_vars(Arrives(c) \/ CallFails(c))

FairSpec == Spec /\ Fairness

-----------------------------------------------------------------------------
(* Properties *)

\* The wizard never shows a step that is not in the order of its edition, but for
\* one: a late answer of /api/config that puts Home back while the admin step is
\* open, which the effect of Setup.tsx:309 forgets.
OnlyAdminIsStranded ==
    step \in Range(stepOrder) \/ (step = "admin" /\ form.edition = "home" /\ config = "settled")

\* The first installation: a page that says "ready" on the word of
\* /api/bootstrap/status says so of an edition that passed its checks, however the
\* polls overtake each other and whether the step was left meanwhile.  After a
\* second one this fails: an answer to a poll of the first can come that late.
FirstSuccessIsVerified ==
    install.status = "success" /\ install.by = "status" /\ accepted <= 1
        => install.edition \notin unverified

\* A page that follows an installation does not follow it for ever: the outcome,
\* or a failed call, ends the polling.
FollowingEnds == (install.status = "running") ~> (install.status # "running" \/ left)

\* Setup.tsx:1592, "Torhole will report success only after these three independent
\* checks pass": a page at rest, with nothing installing, does not say "ready" of an
\* edition whose installation did not pass.
ReadyIsVerified ==
    install.status = "success" /\ wizard.status # "running" /\ (\A c \in Call : calls[c] = Free)
        => install.edition \notin unverified
=============================================================================
