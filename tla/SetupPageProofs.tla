--------------------------- MODULE SetupPageProofs ----------------------------
(***************************************************************************)
(* Proofs about SetupPage, for any number of calls under way at once and   *)
(* any number of installations.                                            *)
(***************************************************************************)
EXTENDS SetupPage, TLAPS

\* An answer of /api/bootstrap/status, or what the page made of it, that tells of a
\* success.
Tells(a) == a.status = "success" /\ a.by = "status"

\* The page or a call has heard of a success of this service.
SuccessIsTold == Tells(install) \/ \E c \in Call : calls[c] # Free /\ Tells(calls[c].answer)

SuccessIsKnown == wizard.status = "success" \/ SuccessIsTold

\* Before the first installation nothing is told and nothing is unverified.
NothingBefore ==
    accepted = 0 => unverified = {} /\ wizard.status = "idle" /\ ~SuccessIsTold

\* While the first one runs, nothing but it is unverified.
OnlyTheFirst ==
    accepted <= 1 /\ wizard.status = "running" => unverified \subseteq {wizard.edition}

\* The first success anybody knows of left nothing unverified.
KnownIsVerified == accepted <= 1 /\ SuccessIsKnown => unverified = {}

IInv ==
    /\ TypeOK /\ OnlyAdminIsStranded
    /\ NothingBefore /\ OnlyTheFirst /\ KnownIsVerified

-----------------------------------------------------------------------------
(* The steps of the two editions *)

Names == {"edition", "topology", "network", "admin", "access", "alerts", "done"}

LEMMA Orders ==
  /\ Range(ADVANCED_STEP_ORDER) = Names
  /\ Range(HOME_STEP_ORDER) = {"edition", "network", "done"}
<1>1. /\ DOMAIN ADVANCED_STEP_ORDER = 1 .. 7 /\ DOMAIN HOME_STEP_ORDER = 1 .. 3
  BY DEF ADVANCED_STEP_ORDER, HOME_STEP_ORDER
<1>2. Range(HOME_STEP_ORDER) = {"edition", "network", "done"}
  <2>1. \A i \in 1 .. 3 : i = 1 \/ i = 2 \/ i = 3
    OBVIOUS
  <2>. QED  BY <1>1, <2>1 DEF Range, HOME_STEP_ORDER
<1>3. Range(ADVANCED_STEP_ORDER) = Names
  <2>1. \A i \in 1 .. 7 : i = 1 \/ i = 2 \/ i = 3 \/ i = 4 \/ i = 5 \/ i = 6 \/ i = 7
    OBVIOUS
  <2>. QED  BY <1>1, <2>1 DEF Range, ADVANCED_STEP_ORDER, Names
<1>. QED  BY <1>2, <1>3

LEMMA StepOrder ==
  ASSUME TypeOK
  PROVE  /\ Range(stepOrder) \subseteq Names
         /\ \A i \in 1 .. Len(stepOrder) : stepOrder[i] \in Range(stepOrder)
         /\ idx \in 0 .. Len(stepOrder) /\ Len(stepOrder) \in Nat
<1>1. \/ stepOrder = ADVANCED_STEP_ORDER
      \/ stepOrder = HOME_STEP_ORDER
  BY DEF stepOrder
<1>2. /\ DOMAIN stepOrder = 1 .. Len(stepOrder) /\ Len(stepOrder) \in Nat
  BY <1>1 DEF ADVANCED_STEP_ORDER, HOME_STEP_ORDER
<1>3. idx \in 0 .. Len(stepOrder)
  <2>1. CASE \E i \in DOMAIN stepOrder : stepOrder[i] = step
    <3>1. idx \in DOMAIN stepOrder
      BY <2>1 DEF idx
    <3>. QED  BY <3>1, <1>2
  <2>2. CASE ~\E i \in DOMAIN stepOrder : stepOrder[i] = step
    BY <2>2, <1>2 DEF idx
  <2>. QED  BY <2>1, <2>2
<1>4. \A i \in 1 .. Len(stepOrder) : stepOrder[i] \in Range(stepOrder)
  BY <1>2 DEF Range
<1>. QED  BY <1>1, <1>2, <1>3, <1>4, Orders DEF Names

-----------------------------------------------------------------------------
(* What a step may do to the calls *)

LEMMA CallShapes ==
  /\ Free \in Calls
  /\ \A kind \in Kinds : Asking(kind) \subseteq Calls /\ Answered(kind) \subseteq Calls
  /\ \A r \in Calls : r # Free => r.kind \in Kinds /\ r \in Asking(r.kind) \cup Answered(r.kind)
  BY DEF Calls, Asking, Answered

\* A call whose step is gone is still that call.
LEMMA ForgottenCall ==
  ASSUME NEW r \in Calls, r.kind # "free"
  PROVE  /\ r # Free /\ [r EXCEPT !.mounted = FALSE] \in Calls
         /\ [r EXCEPT !.mounted = FALSE].answer = r.answer
<1>1. r # Free
  BY DEF Free
<1>2. CASE r \in Asking(r.kind)
  <2>1. [r EXCEPT !.mounted = FALSE] \in Asking(r.kind) /\ [r EXCEPT !.mounted = FALSE].answer = r.answer
    BY <1>2 DEF Asking
  <2>. QED  BY <1>1, <2>1, CallShapes
<1>3. CASE r \in Answered(r.kind)
  <2>1. [r EXCEPT !.mounted = FALSE] \in Answered(r.kind) /\ [r EXCEPT !.mounted = FALSE].answer = r.answer
    BY <1>3 DEF Answered
  <2>. QED  BY <1>1, <2>1, CallShapes
<1>. QED  BY <1>1, <1>2, <1>3, CallShapes

\* Nobody learns of a success.
LEMMA Quiet ==
  ASSUME IInv, UNCHANGED <<wizard, unverified, accepted>>, TypeOK', OnlyAdminIsStranded',
         SuccessIsTold' => SuccessIsKnown
  PROVE  IInv'
  BY DEF IInv, NothingBefore, OnlyTheFirst, KnownIsVerified, SuccessIsKnown

\* One call changes, and tells no more than before.
LEMMA OneCall ==
  ASSUME TypeOK, NEW c \in Call, NEW r \in Calls, calls' = [calls EXCEPT ![c] = r],
         Tells(install') => SuccessIsKnown, r # Free /\ Tells(r.answer) => SuccessIsKnown
  PROVE  /\ calls' \in [Call -> Calls]
         /\ SuccessIsTold' => SuccessIsKnown
<1>1. /\ calls' \in [Call -> Calls] /\ calls'[c] = r
      /\ \A d \in Call \ {c} : calls'[d] = calls[d]
  BY DEF TypeOK
<1>2. SuccessIsTold' => SuccessIsKnown
  <2>1. SUFFICES ASSUME NEW d \in Call, calls'[d] # Free, Tells(calls'[d].answer)
                 PROVE  SuccessIsKnown
    BY DEF SuccessIsTold, Tells
  <2>2. CASE d = c
    BY <2>1, <2>2, <1>1
  <2>3. CASE d # c
    BY <2>1, <2>3, <1>1 DEF SuccessIsKnown, SuccessIsTold
  <2>. QED  BY <2>2, <2>3
<1>. QED  BY <1>1, <1>2

\* Leaving the last step: the page forgets, and the calls it leaves tell what they told.
LEMMA LeavingTellsNothing ==
  ASSUME TypeOK, NEW s \in Names, Unmounted(s)
  PROVE  /\ install' \in Answers /\ busy' \subseteq {"starting", "finishing", "recovering"}
         /\ calls' \in [Call -> Calls]
         /\ SuccessIsTold' => SuccessIsTold
<1>1. CASE ~(step = "done" /\ s # "done")
  BY <1>1 DEF Unmounted, TypeOK, SuccessIsTold
<1>2. CASE step = "done" /\ s # "done"
  <2>1. install' = ReadyToInstall /\ busy' = {}
    BY <1>2 DEF Unmounted
  <2>2. ASSUME NEW c \in Call
        PROVE  /\ calls'[c] \in Calls
               /\ calls'[c] # Free => calls[c] # Free /\ calls'[c].answer = calls[c].answer
    <3>1. \/ calls'[c] = Free
          \/ calls[c].kind # "free" /\ calls'[c] = [calls[c] EXCEPT !.mounted = FALSE]
      BY <1>2 DEF Unmounted, Free
    <3>2. calls[c] \in Calls
      BY DEF TypeOK
    <3>3. ASSUME calls[c].kind # "free"
          PROVE  [calls[c] EXCEPT !.mounted = FALSE] \in Calls /\ calls[c] # Free
                 /\ [calls[c] EXCEPT !.mounted = FALSE].answer = calls[c].answer
      BY <3>2, <3>3, ForgottenCall
    <3>4. Free \in Calls
      BY DEF Calls
    <3>. QED  BY <3>1, <3>3, <3>4
  <2>3. calls' \in [Call -> Calls]
    <3>1. calls' = [c \in Call |-> calls'[c]]
      BY <1>2 DEF Unmounted
    <3>. QED  BY <2>2, <3>1
  <2>4. install' \in Answers /\ ~Tells(install')
    BY <2>1 DEF ReadyToInstall, Answers, Status, NamedEdition, Tells
  <2>5. SuccessIsTold' => SuccessIsTold
    <3>1. SUFFICES ASSUME NEW c \in Call, calls'[c] # Free, Tells(calls'[c].answer)
                   PROVE  SuccessIsTold
      BY <2>4 DEF SuccessIsTold, Tells
    <3>. QED  BY <3>1, <2>2 DEF SuccessIsTold
  <2>. QED  BY <2>1, <2>3, <2>4, <2>5
<1>. QED  BY <1>1, <1>2

-----------------------------------------------------------------------------
(* The wizard *)

LEMMA InitIInv == Init => IInv
<1>. SUFFICES ASSUME Init PROVE IInv
  OBVIOUS
<1>1. step \in Range(ADVANCED_STEP_ORDER) /\ step \in Range(stepOrder)
  BY Orders DEF Init, Names, stepOrder
<1>2. TypeOK
  <2>1. calls \in [Call -> Calls]
    BY CallShapes DEF Init
  <2>2. install \in Answers /\ wizard \in [status : Status, edition : NamedEdition]
    BY DEF Init, ReadyToInstall, Answers, Status, NamedEdition
  <2>3. form \in [edition : Edition, advanced : Filled] /\ files \subseteq Edition
    BY DEF Init, Edition, Filled
  <2>4. accepted \in 0 .. MaxInstalls
    BY SetupAssumption DEF Init
  <2>. QED  BY <1>1, <2>1, <2>2, <2>3, <2>4 DEF Init, TypeOK
<1>3. ~SuccessIsKnown /\ ~SuccessIsTold
  BY DEF Init, SuccessIsKnown, SuccessIsTold, Tells, ReadyToInstall
<1>. QED
  BY <1>1, <1>2, <1>3
  DEF Init, IInv, OnlyAdminIsStranded, NothingBefore, OnlyTheFirst, KnownIsVerified

\* A choice of the operator, or a failure of /api/config, leaves the step alone.
LEMMA ChoiceStep ==
  ASSUME IInv,
         \/ \E e \in Edition : ChooseEdition(e)
         \/ ChooseTopology \/ EditNetwork \/ EditAdmin \/ EditAlerts \/ ChooseAccess
         \/ ConfigFails
  PROVE  IInv'
<1>1. UNCHANGED <<step, install, busy, calls, left, service>>
  BY DEF ChooseEdition, ChooseTopology, EditNetwork, EditAdmin, EditAlerts, Fill, ChooseAccess,
         ConfigFails, Open
<1>2. /\ form' \in [edition : Edition, advanced : Filled] /\ config' \in {config, "settled"}
      /\ form'.edition = form.edition \/ step = "edition"
  BY DEF ChooseEdition, ChooseTopology, EditNetwork, EditAdmin, EditAlerts, Fill, ChooseAccess,
         ConfigFails, IInv, TypeOK, Filled
<1>3. TypeOK'
  BY <1>1, <1>2 DEF IInv, TypeOK, service
<1>4. OnlyAdminIsStranded'
  <2>1. CASE step = "edition"
    BY <1>1, <2>1, Orders DEF OnlyAdminIsStranded, stepOrder, Names
  <2>2. CASE form'.edition = form.edition
    <3>1. Range(stepOrder)' = Range(stepOrder)
      BY <2>2 DEF stepOrder
    <3>. QED  BY <1>1, <1>2, <2>2, <3>1 DEF IInv, OnlyAdminIsStranded
  <2>. QED  BY <1>2, <2>1, <2>2
<1>. QED  BY <1>1, <1>3, <1>4, Quiet DEF SuccessIsKnown, SuccessIsTold, service

\* The step that is shown next is one of the order, or where the effect leaves Home.
LEMMA ShowStep ==
  ASSUME IInv, NEW s \in Names, Show(s), form' \in [edition : Edition, advanced : Filled],
         UNCHANGED <<left, service>>, config' \in {config, "settled"},
         \/ s \in Range(stepOrder)'
         \/ s = "admin" /\ form'.edition = "home" /\ config' = "settled"
  PROVE  IInv'
<1>1. step' = s /\ Unmounted(s)
  BY DEF Show
<1>2. TypeOK
  BY DEF IInv
<1>3. TypeOK'
  BY <1>1, <1>2, LeavingTellsNothing, Orders DEF TypeOK, service
<1>4. OnlyAdminIsStranded'
  BY <1>1 DEF OnlyAdminIsStranded
<1>. QED  BY <1>1, <1>2, <1>3, <1>4, Quiet, LeavingTellsNothing DEF service, SuccessIsKnown

LEMMA MoveStep ==
  ASSUME IInv, GoNext \/ GoBack \/ \E s \in Range(ADVANCED_STEP_ORDER) : JumpTo(s)
  PROVE  IInv'
<1>. DEFINE Shown(s) == s \in Range(stepOrder) /\ Show(s) /\ UNCHANGED <<config, form, left, service>>
<1>1. TypeOK
  BY DEF IInv
<1>2. ASSUME NEW s, Shown(s) PROVE IInv'
  <2>1. s \in Names /\ Range(stepOrder)' = Range(stepOrder)
    BY <1>1, <1>2, StepOrder DEF stepOrder
  <2>. QED  BY <1>1, <1>2, <2>1, ShowStep DEF TypeOK
<1>3. GoNext => Shown(stepOrder[idx + 1])
  <2>1. idx < Len(stepOrder) => idx + 1 \in 1 .. Len(stepOrder)
    BY <1>1, StepOrder
  <2>. QED  BY <1>1, <2>1, StepOrder DEF GoNext, Open
<1>4. GoBack => Shown(stepOrder[idx - 1])
  <2>1. idx > 1 => idx - 1 \in 1 .. Len(stepOrder)
    BY <1>1, StepOrder
  <2>. QED  BY <1>1, <2>1, StepOrder DEF GoBack, Open
<1>5. ASSUME NEW s \in Range(ADVANCED_STEP_ORDER), JumpTo(s) PROVE Shown(s)
  BY <1>5 DEF JumpTo, Open
<1>. QED  BY <1>2, <1>3, <1>4, <1>5

\* A late answer of /api/config: the effect takes Home out of every Advanced step but
\* the admin one.
LEMMA ConfigStep ==
  ASSUME IInv, ConfigAnswers
  PROVE  IInv'
<1>1. PICK a \in Configured : form' = a /\ Show(LeaveAdvancedStep(a.edition, step))
  BY DEF ConfigAnswers
<1>2. a \in [edition : Edition, advanced : Filled]
  BY DEF Configured, Edition, Filled, IInv, TypeOK
<1>3. step \in Names
  BY Orders DEF IInv, TypeOK
<1>4. CASE a.edition = "advanced"
  <2>1. LeaveAdvancedStep(a.edition, step) = step /\ Range(stepOrder)' = Names
    BY <1>1, <1>4, Orders DEF LeaveAdvancedStep, stepOrder
  <2>. QED  BY <1>1, <1>2, <1>3, <2>1, ShowStep DEF ConfigAnswers, Open
<1>5. CASE a.edition = "home"
  <2>. DEFINE s == LeaveAdvancedStep(a.edition, step)
  <2>1. s \in Names /\ (s \in {"edition", "network", "done"} \/ s = "admin")
    BY <1>3, <1>5 DEF LeaveAdvancedStep, Names
  <2>2. Range(stepOrder)' = {"edition", "network", "done"}
    BY <1>1, <1>5, Orders DEF stepOrder
  <2>. QED  BY <1>1, <1>2, <1>5, <2>1, <2>2, ShowStep DEF ConfigAnswers, Open
<1>. QED  BY <1>2, <1>4, <1>5 DEF Edition

-----------------------------------------------------------------------------
(* The last step and its calls *)

\* A step that leaves the wizard and the service's memory alone, and of the page and its
\* calls changes what OneCall allows.
LEMMA CallStep ==
  ASSUME IInv, NEW c \in Call, NEW r \in Calls, calls' = [calls EXCEPT ![c] = r],
         r # Free /\ Tells(r.answer) => SuccessIsKnown,
         install' \in Answers, Tells(install') => SuccessIsKnown,
         busy' \subseteq {"starting", "finishing", "recovering"}, left' \in BOOLEAN,
         closed' \in {"open", "closing", "removed"},
         UNCHANGED <<config, step, form, wizard, files, unverified, accepted>>
  PROVE  IInv'
<1>1. calls' \in [Call -> Calls] /\ (SuccessIsTold' => SuccessIsKnown)
  BY OneCall DEF IInv
<1>2. TypeOK'
  BY <1>1 DEF IInv, TypeOK
<1>3. OnlyAdminIsStranded'
  BY DEF IInv, OnlyAdminIsStranded, stepOrder
<1>. QED  BY <1>1, <1>2, <1>3, Quiet

LEMMA SendStep ==
  ASSUME IInv, Begin \/ RecoverReceipt \/ Finish \/ Poll
  PROVE  IInv'
<1>1. PICK kind \in Kinds : Send(kind)
  BY DEF Begin, RecoverReceipt, Finish, Poll, Kinds
<1>2. PICK c \in Call :
        calls' = [calls EXCEPT ![c] = [kind |-> kind, mounted |-> TRUE, answer |-> NotYet,
                                       body |-> IF kind = "start" THEN Body ELSE "none"]]
  BY <1>1 DEF Send
<1>. DEFINE r == [kind |-> kind, mounted |-> TRUE, answer |-> NotYet,
                  body |-> IF kind = "start" THEN Body ELSE "none"]
<1>3. r \in Calls
  <2>1. Body \in Edition \cup {"invalid"}
    BY DEF Body, IInv, TypeOK
  <2>2. r \in Asking(kind)
    BY <2>1 DEF Asking
  <2>. QED  BY <2>2, CallShapes
<1>4. ~Tells(r.answer)
  BY DEF Tells, NotYet, Said
<1>5. /\ UNCHANGED <<config, step, form, left, install, service>>
      /\ busy' \subseteq {"starting", "finishing", "recovering"}
  BY DEF Begin, RecoverReceipt, Finish, Poll, OnDone, Open, IInv, TypeOK
<1>6. Tells(install) => SuccessIsKnown
  BY DEF SuccessIsKnown, SuccessIsTold
<1>. QED
  BY <1>2, <1>3, <1>4, <1>5, <1>6, CallStep DEF IInv, TypeOK, service

\* What the page says next is what it said, a failure, or the answer that arrives.
LEMMA HeardStep ==
  ASSUME IInv, NEW c \in Call, Arrives(c) \/ CallFails(c)
  PROVE  IInv'
<1>1. calls' = [calls EXCEPT ![c] = Free] /\ Free \in Calls
  BY CallShapes DEF Arrives, Deliver, DeliverFinish, CallFails, Hears
<1>2. /\ UNCHANGED <<config, step, form, service>> /\ left' \in BOOLEAN
      /\ busy' \subseteq busy
  BY DEF Arrives, Deliver, DeliverFinish, CallFails, Hears, IInv, TypeOK
<1>3. \/ install' = install \/ install' = Fails
      \/ /\ install' = calls[c].answer /\ calls[c].kind # "free"
         /\ calls[c].answer # NotYet
  BY DEF Arrives, Deliver, DeliverFinish, CallFails, Hears
<1>4. install' \in Answers /\ (Tells(install') => SuccessIsKnown)
  <2>1. CASE install' = install
    BY <2>1 DEF IInv, TypeOK, SuccessIsKnown, SuccessIsTold
  <2>2. CASE install' = Fails
    BY <2>2 DEF Fails, Answers, Status, NamedEdition, Tells
  <2>3. CASE install' = calls[c].answer /\ calls[c].kind # "free" /\ calls[c].answer # NotYet
    <3>1. calls[c] \in Calls /\ calls[c] # Free
      BY <2>3 DEF IInv, TypeOK, Free
    <3>2. calls[c].answer \in Answers
      BY <2>3, <3>1, CallShapes DEF Asking, Answered
    <3>. QED  BY <2>3, <3>1, <3>2 DEF SuccessIsKnown, SuccessIsTold
  <2>. QED  BY <1>3, <2>1, <2>2, <2>3
<1>. QED  BY <1>1, <1>2, <1>4, CallStep DEF IInv, TypeOK, service

-----------------------------------------------------------------------------
(* The service and the host *)

LEMMA AnsweredCall ==
  ASSUME TypeOK, NEW c \in Call, NEW kind \in Kinds, Asked(c, kind), NEW a \in Answers, Answer(c, a)
  PROVE  \E r \in Calls : calls' = [calls EXCEPT ![c] = r] /\ r.answer = a
<1>. DEFINE r == [calls[c] EXCEPT !.answer = a, !.body = "none"]
<1>1. calls[c] \in Asking(kind)
  BY CallShapes DEF TypeOK, Asked, Free, Answered, Answers, NotYet, Said, Status, Kinds
<1>2. r \in Answered(kind) /\ r.answer = a
  BY <1>1 DEF Asking, Answered
<1>3. calls' = [calls EXCEPT ![c] = r]
  BY DEF Answer, TypeOK
<1>. QED  BY <1>2, <1>3, CallShapes

\* An answer that tells of a success tells of one the service knows.
LEMMA AnswerStep ==
  ASSUME IInv, NEW c \in Call, Refuse(c) \/ AnswerPoll(c) \/ AnswerReceipt(c) \/ AnswerFinish(c)
  PROVE  IInv'
<1>. DEFINE Untold == {Fails, Said("success", "advanced", "receipt"),
                       Said("success", "home", "receipt"), Said(wizard.status, "none", "page")}
            Success == {Said("success", wizard.edition, "status"), Said("success", "none", "status")}
<1>1. PICK kind \in Kinds, a \in Untold \cup Success :
        Asked(c, kind) /\ Answer(c, a) /\ (a \in Success => wizard.status = "success")
  BY DEF Refuse, AnswerPoll, AnswerReceipt, AnswerFinish, Kinds, Said, Fails
<1>2. a \in Answers /\ (Tells(a) => SuccessIsKnown)
  BY <1>1
  DEF Fails, Said, Answers, Status, NamedEdition, Edition, Tells, SuccessIsKnown, IInv, TypeOK
<1>3. PICK r \in Calls : calls' = [calls EXCEPT ![c] = r] /\ r.answer = a
  BY <1>1, <1>2, AnsweredCall DEF IInv
<1>4. UNCHANGED <<page, wizard, files, unverified, accepted>> /\ closed' \in {closed, "closing"}
  BY DEF Refuse, AnswerPoll, AnswerReceipt, AnswerFinish, service
<1>5. Tells(install) => SuccessIsKnown
  BY DEF SuccessIsKnown, SuccessIsTold
<1>. QED  BY <1>2, <1>3, <1>4, <1>5, CallStep DEF IInv, TypeOK, page

\* The first installation finds nothing known, and nothing else unverified.
LEMMA AcceptStep ==
  ASSUME IInv, NEW c \in Call, Accept(c)
  PROVE  IInv'
<1>. DEFINE e == calls[c].body
            a == Said("running", "none", "page")
<1>1. e \in Edition
  BY CallShapes DEF Accept, Asked, IInv, TypeOK, Free, Asking, Answered, Answers, NotYet, Said, Status
<1>2. a \in Answers /\ ~Tells(a)
  BY DEF Said, Answers, Status, NamedEdition, Tells
<1>3. PICK r \in Calls : calls' = [calls EXCEPT ![c] = r] /\ r.answer = a
  <2>1. Asked(c, "start") /\ Answer(c, a) /\ "start" \in Kinds
    BY DEF Accept, Kinds
  <2>. QED  BY <1>2, <2>1, AnsweredCall DEF IInv
<1>4. /\ UNCHANGED page /\ wizard' = [status |-> "running", edition |-> e]
      /\ unverified' = unverified \cup {e} /\ files' \in {files, files \cup {e}}
      /\ accepted' = accepted + 1 /\ accepted < MaxInstalls /\ UNCHANGED closed
  BY DEF Accept
<1>5. calls' \in [Call -> Calls] /\ (SuccessIsTold' => SuccessIsKnown)
  BY <1>2, <1>3, <1>4, OneCall DEF IInv, page, SuccessIsKnown, SuccessIsTold
<1>6. TypeOK'
  <2>1. accepted' \in 0 .. MaxInstalls
    BY <1>4, SetupAssumption DEF IInv, TypeOK
  <2>2. wizard' \in [status : Status, edition : NamedEdition]
    BY <1>1, <1>4 DEF Status, NamedEdition
  <2>3. files' \subseteq Edition /\ unverified' \subseteq Edition
    BY <1>1, <1>4 DEF IInv, TypeOK
  <2>. QED  BY <1>4, <1>5, <2>1, <2>2, <2>3 DEF IInv, TypeOK, page
<1>7. OnlyAdminIsStranded'
  BY <1>4 DEF IInv, OnlyAdminIsStranded, stepOrder, page
<1>8. CASE accepted = 0
  <2>1. ~SuccessIsKnown'
    BY <1>4, <1>5, <1>8 DEF IInv, NothingBefore, SuccessIsKnown
  <2>2. accepted' = 1 /\ unverified' = {wizard'.edition}
    BY <1>4, <1>8 DEF IInv, NothingBefore
  <2>. QED  BY <1>6, <1>7, <2>1, <2>2 DEF IInv, NothingBefore, OnlyTheFirst, KnownIsVerified
<1>9. CASE accepted # 0
  <2>1. accepted' > 1
    BY <1>4, <1>9 DEF IInv, TypeOK
  <2>. QED  BY <1>6, <1>7, <2>1 DEF IInv, TypeOK, NothingBefore, OnlyTheFirst, KnownIsVerified
<1>. QED  BY <1>8, <1>9

LEMMA HostStep ==
  ASSUME IInv, WriteHomeEnv \/ StopContainer \/ \E ok \in BOOLEAN : InstallEnds(ok)
  PROVE  IInv'
<1>1. UNCHANGED <<page, calls, accepted>>
  BY DEF WriteHomeEnv, StopContainer, InstallEnds
<1>2. OnlyAdminIsStranded' /\ SuccessIsTold' = SuccessIsTold
  BY <1>1 DEF IInv, OnlyAdminIsStranded, stepOrder, page, SuccessIsTold
<1>3. CASE WriteHomeEnv \/ StopContainer
  <2>1. UNCHANGED <<wizard, unverified>>
    BY <1>3 DEF WriteHomeEnv, StopContainer
  <2>2. TypeOK'
    BY <1>1, <1>3, <2>1 DEF WriteHomeEnv, StopContainer, IInv, TypeOK, page, Edition
  <2>. QED  BY <1>1, <1>2, <2>1, <2>2, Quiet DEF SuccessIsKnown
<1>4. ASSUME InstallEnds(TRUE) PROVE IInv'
  <2>1. /\ wizard.status = "running" /\ wizard' = [wizard EXCEPT !.status = "success"]
        /\ unverified' = unverified \ {wizard.edition} /\ UNCHANGED <<files, closed>>
    BY <1>4 DEF InstallEnds
  <2>2. TypeOK' /\ wizard'.status = "success"
    BY <1>1, <2>1 DEF IInv, TypeOK, page, Status
  <2>3. accepted # 0
    BY <2>1 DEF IInv, NothingBefore
  <2>4. accepted <= 1 => unverified' = {}
    BY <2>1 DEF IInv, OnlyTheFirst
  <2>. QED
    BY <1>1, <1>2, <2>2, <2>3, <2>4 DEF IInv, NothingBefore, OnlyTheFirst, KnownIsVerified
<1>5. ASSUME InstallEnds(FALSE) PROVE IInv'
  <2>1. /\ wizard.status = "running" /\ wizard' = [status |-> "error", edition |-> "none"]
        /\ UNCHANGED <<unverified, files, closed>>
    BY <1>5 DEF InstallEnds
  <2>2. TypeOK' /\ wizard'.status = "error"
    BY <1>1, <2>1 DEF IInv, TypeOK, page, Status, NamedEdition
  <2>3. SuccessIsKnown' => SuccessIsKnown
    BY <1>2, <2>2 DEF SuccessIsKnown
  <2>. QED
    BY <1>1, <1>2, <2>1, <2>2, <2>3 DEF IInv, NothingBefore, OnlyTheFirst, KnownIsVerified
<1>. QED  BY <1>3, <1>4, <1>5

-----------------------------------------------------------------------------
LEMMA NextIInv == IInv /\ [Next]_vars => IInv'
<1>. SUFFICES ASSUME IInv, [Next]_vars PROVE IInv'
  OBVIOUS
<1>1. CASE Wizard
  BY <1>1, ChoiceStep, MoveStep, ConfigStep DEF Wizard
<1>2. CASE Done
  BY <1>2, SendStep DEF Done
<1>3. CASE Host \/ StopContainer
  BY <1>3, HostStep DEF Host
<1>4. ASSUME NEW c \in Call, Service(c) \/ Arrives(c) \/ CallFails(c) PROVE IInv'
  BY <1>4, AcceptStep, AnswerStep, HeardStep DEF Service
<1>5. CASE UNCHANGED vars
  <2>1. UNCHANGED <<config, step, form, install, busy, left, calls, service>>
    BY <1>5 DEF vars, page
  <2>2. TypeOK' /\ OnlyAdminIsStranded'
    BY <2>1 DEF IInv, TypeOK, OnlyAdminIsStranded, stepOrder, service
  <2>. QED  BY <2>1, <2>2, Quiet DEF SuccessIsKnown, SuccessIsTold, service
<1>. QED  BY <1>1, <1>2, <1>3, <1>4, <1>5 DEF Next

\* The page and the service as IInv describes them, in every reachable state.
THEOREM Invariant == Spec => []IInv
  BY InitIInv, NextIInv, PTL DEF Spec

\* Whenever the answer of /api/config comes and wherever the operator stands, the wizard
\* shows a step of its edition's order, or the admin step Setup.tsx:309 forgets.
THEOREM OneStepIsStranded == Spec => []OnlyAdminIsStranded
<1>1. IInv => OnlyAdminIsStranded
  BY DEF IInv
<1>. QED  BY <1>1, Invariant, PTL

\* However many calls are under way, overtake each other or find their step gone: a page
\* that says "ready" of the first installation on the word of /api/bootstrap/status says
\* so of an edition that passed its checks.
THEOREM FirstSuccessIsTrue == Spec => []FirstSuccessIsVerified
<1>1. IInv => FirstSuccessIsVerified
  BY DEF IInv, KnownIsVerified, FirstSuccessIsVerified, SuccessIsKnown, SuccessIsTold, Tells
<1>. QED  BY <1>1, Invariant, PTL
=============================================================================
