---------------------------- MODULE AdminProofs -----------------------------
(***************************************************************************)
(* Proofs about AdminApp, for any archives, files, passwords, buttons,      *)
(* polls, queries, planes and bounds. A panel's invariant is inductive for  *)
(* its own Next, and what the app does leaves a panel alone or is a step of *)
(* it: the proofs go panel by panel, each theorem after its last lemma.     *)
(***************************************************************************)
EXTENDS AdminApp, TLAPS

-----------------------------------------------------------------------------
(* A step of the app is a stuttering step of every panel but one.           *)

LEMMA StepOfPanels ==
  ASSUME [Next]_vars
  PROVE  /\ [Backups!Next]_backupsVars /\ [Parameters!Next]_parametersVars
         /\ [Banner!Next]_bannerVars /\ [Certificate!Next]_certificateVars
         /\ [Secret!Next]_passwordVars /\ [Live!Next]_liveVars /\ [Feed!Next]_feedVars
         /\ [Logs!Next]_logsVars /\ [Validation!Next]_validationVars
         /\ [Overview!Next]_overviewVars /\ [Alerts!Next]_alertsVars
         /\ [Insights!Next]_insightsVars /\ [WebAccess!Next]_webAccessVars
<1>1. CASE UNCHANGED vars
  BY <1>1 DEF vars
<1>2. CASE Next
  BY <1>2 DEF Next, Others, OfBackups, OfParameters, OfBanner, OfCertificate, OfPassword,
     OfLive, OfFeed, OfLogs, OfValidation, OfOverview, OfAlerts, OfInsights, OfWebAccess
<1>. QED  BY <1>1, <1>2

-----------------------------------------------------------------------------
(* Backups: a dialog's word was typed since it opened.                      *)

Target == Archive \cup {"no target"}
Dialog(targets) == [target : targets, opened : targets, typed : targets, running : BOOLEAN]

\* A dialog has no word that was typed in an earlier use of it.
TypedForThis(d) == d.typed \in {"no target", d.opened}

Handler == [kind : {"load", "create", "delete", "restore"}, archive : Target, word : BOOLEAN,
            at : {"asked", "listing"}]

BackupsInv ==
    /\ dialogs \in [{"delete", "restore"} -> Dialog(Target)]
    /\ \A k \in {"delete", "restore"} : TypedForThis(dialogs[k])
    /\ handlers \in SUBSET Handler
    /\ Backups!ConfirmedByWord

LEMMA BackupsInit == Init => BackupsInv
<1>. SUFFICES ASSUME Backups!Init PROVE BackupsInv
  BY DEF Init
<1>. USE DEF Backups!Closed, Backups!NoTarget, Backups!First, Backups!Request
<1>1. Backups!Closed \in Dialog(Target) /\ TypedForThis(Backups!Closed)
  BY DEF Dialog, Target, TypedForThis
<1>2. dialogs = [k \in {"delete", "restore"} |-> Backups!Closed] /\ handlers = {Backups!First}
  BY DEF Backups!Init, Backups!Kind
<1>3. Backups!First \in Handler /\ Backups!First.kind = "load"
  BY DEF Handler, Target
<1>. QED  BY <1>1, <1>2, <1>3 DEF BackupsInv, Backups!ConfirmedByWord, Backups!Kind

\* Opening a dialog forgets its word, and every use of it keeps it.
LEMMA DialogOpens ==
  ASSUME NEW d, NEW a \in Archive
  PROVE  Backups!Open(d, a) \in Dialog(Target) /\ TypedForThis(Backups!Open(d, a))
  BY DEF Dialog, Target, TypedForThis, Backups!NoTarget, Backups!Closed, Backups!Open

LEMMA DialogUses ==
  ASSUME NEW d \in Dialog(Target), TypedForThis(d)
  PROVE  /\ Backups!TypeWord(d) \in Dialog(Target) /\ TypedForThis(Backups!TypeWord(d))
         /\ \A a \in Archive : /\ Backups!Retarget(d, a) \in Dialog(Target)
                               /\ TypedForThis(Backups!Retarget(d, a))
         /\ Backups!Close(d) \in Dialog(Target) /\ TypedForThis(Backups!Close(d))
         /\ Backups!Confirm(d) \in Dialog(Target) /\ TypedForThis(Backups!Confirm(d))
         /\ Backups!Finish(d) \in Dialog(Target) /\ TypedForThis(Backups!Finish(d))
<1>. USE DEF Dialog, Target, TypedForThis, Backups!NoTarget
<1>1. Backups!TypeWord(d) \in Dialog(Target) /\ TypedForThis(Backups!TypeWord(d))
  BY DEF Backups!TypeWord
<1>2. Backups!Close(d) \in Dialog(Target) /\ TypedForThis(Backups!Close(d))
  BY DEF Backups!Close
<1>3. Backups!Confirm(d) \in Dialog(Target) /\ TypedForThis(Backups!Confirm(d))
  BY DEF Backups!Confirm
<1>4. Backups!Finish(d) \in Dialog(Target) /\ TypedForThis(Backups!Finish(d))
  BY DEF Backups!Finish
<1>5. \A a \in Archive : /\ Backups!Retarget(d, a) \in Dialog(Target)
                          /\ TypedForThis(Backups!Retarget(d, a))
  BY DEF Backups!Retarget
<1>. QED  BY <1>1, <1>2, <1>3, <1>4, <1>5

LEMMA BackupsStep ==
  ASSUME BackupsInv, [Backups!Next]_backupsVars
  PROVE  BackupsInv'
<1>. USE DEF BackupsInv
<1>. DEFINE Kinds == {"delete", "restore"}
            ByWord(r) == r.kind \in Kinds => r.word
\* A dialog becomes one of its uses, and requests are added that were confirmed.
<1>1. ASSUME NEW k \in Kinds, NEW e \in Dialog(Target), TypedForThis(e),
             dialogs' = [dialogs EXCEPT ![k] = e], handlers' \in SUBSET Handler,
             \A r \in handlers' : ByWord(r)
      PROVE  BackupsInv'
  BY <1>1 DEF Backups!ConfirmedByWord, Backups!Kind
<1>2. ASSUME UNCHANGED dialogs, handlers' \in SUBSET Handler,
             \A r \in handlers' : ByWord(r)
      PROVE  BackupsInv'
  BY <1>2 DEF Backups!ConfirmedByWord, Backups!Kind
<1>3. ASSUME NEW r \in handlers
      PROVE  Backups!Listing(r) \in Handler /\ ByWord(Backups!Listing(r))
  <2>. r \in Handler /\ ByWord(r)
    BY DEF Backups!ConfirmedByWord, Backups!Kind
  <2>. QED  BY DEF Backups!Listing, Handler
<1>4. /\ Backups!Creation \in Handler /\ ByWord(Backups!Creation)
      /\ handlers \subseteq Handler /\ \A r \in handlers : ByWord(r)
  BY DEF Backups!Creation, Backups!Request, Backups!NoTarget, Handler, Target,
     Backups!ConfirmedByWord, Backups!Kind
<1>5. ASSUME NEW k \in Kinds PROVE dialogs[k] \in Dialog(Target) /\ TypedForThis(dialogs[k])
  BY <1>5
<1>. HIDE DEF BackupsInv
<1>6. ASSUME NEW k \in Kinds, NEW a \in Archive, Backups!OpenDialog(k, a) PROVE BackupsInv'
  BY <1>1, <1>4, <1>5, <1>6, DialogOpens, DialogUses DEF Backups!OpenDialog
<1>7. ASSUME NEW k \in Kinds, Backups!Type(k) \/ Backups!Cancel(k) PROVE BackupsInv'
  BY <1>1, <1>4, <1>5, <1>7, DialogUses DEF Backups!Type, Backups!Cancel
<1>8. ASSUME NEW k \in Kinds, Backups!Handle(k) PROVE BackupsInv'
  <2>. DEFINE r == Backups!Request(k, dialogs[k].target, Backups!TypedSince(dialogs[k]), "asked")
  <2>1. /\ dialogs' = [dialogs EXCEPT ![k] = Backups!Confirm(@)]
        /\ handlers' = handlers \cup {r}
        /\ dialogs[k].typed # "no target"
    BY <1>8 DEF Backups!Handle, Backups!MayConfirm, Backups!NoTarget
  <2>2. dialogs[k].target \in Target /\ Backups!TypedSince(dialogs[k]) = TRUE
    BY <1>5, <2>1 DEF Dialog, TypedForThis, Backups!TypedSince
  <2>3. r \in Handler /\ ByWord(r)
    BY <2>2 DEF Backups!Request, Handler
  <2>. HIDE DEF r
  <2>. QED  BY <1>1, <1>4, <1>5, <2>1, <2>3, DialogUses
<1>9. ASSUME NEW r \in handlers, Backups!Answered(r) \/ Backups!Refused(r) \/ Backups!Ends(r)
      PROVE  BackupsInv'
  <2>1. r.kind \in Kinds
    BY <1>9 DEF Backups!Answered, Backups!Refused, Backups!Ends, Backups!Kind
  <2>. QED  BY <1>1, <1>3, <1>4, <1>5, <1>9, <2>1, DialogUses
            DEF Backups!Answered, Backups!Refused, Backups!Ends
<1>10. CASE Backups!FirstLoaded \/ Backups!HandleCreate \/ Backups!CreateAnswered
            \/ Backups!CreateEnds \/ Backups!CreateFails \/ Backups!TimerFires
  BY <1>2, <1>3, <1>4, <1>10 DEF Backups!FirstLoaded, Backups!HandleCreate, Backups!CreateAnswered,
     Backups!CreateEnds, Backups!CreateFails, Backups!TimerFires
<1>11. CASE UNCHANGED backupsVars
  BY <1>2, <1>4, <1>11 DEF backupsVars
<1>. QED  BY <1>6, <1>7, <1>8, <1>9, <1>10, <1>11 DEF Backups!Next, Backups!Kind

-----------------------------------------------------------------------------
(* The certificate: a text is the one of the file that is named.            *)

FieldsOf(S) == [{"certificate", "privateKey"} -> S]

CertificateInv ==
    /\ fileValue \in FieldsOf(File \cup {"no file"}) /\ fileName \in FieldsOf(File \cup {"no file"})
    /\ \A f \in {"certificate", "privateKey"} : fileValue[f] \in {fileName[f], "no file"}
    /\ reading \in SUBSET [field : {"certificate", "privateKey"}, file : File]
    /\ Certificate!UploadIsWhatIsShown

LEMMA CertificateInit == Init => CertificateInv
  BY DEF Init, Certificate!Init, CertificateInv, FieldsOf, Certificate!Field, Certificate!NoFile,
     Certificate!UploadIsWhatIsShown

LEMMA CertificateStep ==
  ASSUME CertificateInv, [Certificate!Next]_certificateVars
  PROVE  CertificateInv'
<1>. USE DEF CertificateInv, FieldsOf, Certificate!Field, Certificate!NoFile,
             Certificate!UploadIsWhatIsShown
<1>1. ASSUME NEW field \in {"certificate", "privateKey"}, NEW file \in File,
             Certificate!Choose(field, file)
      PROVE  CertificateInv'
  <2>1. /\ reading' = reading \cup {[field |-> field, file |-> file]}
        /\ UNCHANGED <<fileValue, fileName, uploads>>
    BY <1>1 DEF Certificate!Choose, Certificate!Reading
  <2>2. [field |-> field, file |-> file] \in [field : {"certificate", "privateKey"}, file : File]
    BY <1>1
  <2>. QED  BY <2>1, <2>2
<1>2. ASSUME NEW r \in reading, Certificate!Read(r) PROVE CertificateInv'
  BY <1>2 DEF Certificate!Read
<1>3. CASE Certificate!Apply
  <2>. DEFINE new == [value |-> fileValue, name |-> fileName]
  <2>1. /\ uploads' = uploads \cup {new}
        /\ UNCHANGED <<fileValue, fileName, reading>>
    BY <1>3 DEF Certificate!Apply
  <2>2. new.value = fileValue /\ new.name = fileName
    OBVIOUS
  <2>. HIDE DEF new
  <2>. QED  BY <2>1, <2>2
<1>4. ASSUME NEW u \in uploads, Certificate!Accepted(u) PROVE CertificateInv'
  BY <1>4 DEF Certificate!Accepted
<1>5. ASSUME NEW u \in uploads, Certificate!Refused(u) PROVE CertificateInv'
  BY <1>5 DEF Certificate!Refused
<1>6. CASE Certificate!Reload
  BY <1>6 DEF Certificate!Reload
<1>7. CASE Certificate!Expand \/ Certificate!OpenDialog \/ Certificate!Type \/ Certificate!Cancel
  BY <1>7 DEF Certificate!Expand, Certificate!OpenDialog, Certificate!Type, Certificate!Cancel
<1>8. CASE UNCHANGED certificateVars
  BY <1>8 DEF certificateVars
<1>. QED  BY <1>1, <1>2, <1>3, <1>4, <1>5, <1>6, <1>7, <1>8 DEF Certificate!Next

-----------------------------------------------------------------------------
(* The password: the fields stay as they are while a request is under way.  *)

PasswordInv ==
    /\ passwordDialog \in Dialog({"no target", "update"})
    /\ change \in [at : {"none", "asked", "written", "refused"}, form : Secret!Form]
    /\ form \in Secret!Form
    /\ passwordDialog.running \/ formState = "running" => change.at # "none"
    /\ Secret!PasswordIsTypedTwice

LEMMA PasswordInit == Init => PasswordInv
<1>1. SUFFICES ASSUME Secret!Init PROVE PasswordInv
  BY DEF Init
<1>2. Secret!Empty \in Secret!Form
  BY DEF Secret!Empty, Secret!Form
<1>3. /\ change = Secret!NoRequest /\ form = Secret!Empty /\ passwordDialog = Secret!Closed
      /\ formState = "idle"
  BY <1>1 DEF Secret!Init
<1>. QED  BY <1>2, <1>3 DEF PasswordInv, Secret!PasswordIsTypedTwice, Dialog,
          Secret!NoRequest, Secret!Closed, Secret!NoTarget

LEMMA PasswordStep ==
  ASSUME PasswordInv, [Secret!Next]_passwordVars
  PROVE  PasswordInv'
<1>. USE DEF PasswordInv, Secret!PasswordIsTypedTwice, Dialog, Secret!NoTarget
<1>1. CASE Secret!OthersChange \/ UNCHANGED passwordVars
  BY <1>1 DEF Secret!OthersChange, passwordVars
<1>2. CASE Secret!Type
  BY <1>2 DEF Secret!Type, Secret!FormShown, Secret!IsOpen
<1>3. CASE Secret!OpenDialog
  BY <1>3 DEF Secret!OpenDialog, Secret!CanSubmit, Secret!Open, Secret!Closed
<1>4. CASE Secret!TypeUpdate
  BY <1>4 DEF Secret!TypeUpdate, Secret!TypeWord
<1>5. CASE Secret!Cancel
  BY <1>5 DEF Secret!Cancel, Secret!Attentive, Secret!Close
<1>6. CASE Secret!Submit
  BY <1>6 DEF Secret!Submit, Secret!MayConfirm, Secret!Attentive, Secret!IsOpen, Secret!Confirm
<1>7. CASE Secret!Writes
  <2>1. /\ UNCHANGED <<form, passwordDialog, formState>> /\ change.at = "asked"
        /\ \/ /\ change' = [change EXCEPT !.at = "written"]
              /\ change.form.confirm = change.form.new /\ change.form.new \in Good
           \/ change' = [change EXCEPT !.at = "refused"]
    BY <1>7 DEF Secret!Writes, Secret!Acceptable
  <2>2. change' \in [at : {"written", "refused"}, form : Secret!Form] /\ change'.form = change.form
    BY <2>1
  <2>. QED  BY <2>1, <2>2
<1>8. CASE Secret!Answered \/ Secret!NotAnswered
  <2>1. Secret!Empty \in Secret!Form
    BY DEF Secret!Empty, Secret!Form
  <2>2. /\ change' = [at |-> "none", form |-> Secret!Empty] /\ form' \in {form, Secret!Empty}
        /\ passwordDialog' = Secret!Finish(Secret!Close(passwordDialog))
        /\ formState' \in {"success", "error"}
    BY <1>8 DEF Secret!Answered, Secret!NotAnswered, Secret!NoRequest
  <2>3. /\ passwordDialog' \in Dialog({"no target", "update"})
        /\ passwordDialog'.target = "no target" /\ ~passwordDialog'.running
    BY <2>2 DEF Secret!Finish, Secret!Close
  <2>. QED  BY <2>1, <2>2, <2>3
<1>9. CASE Secret!Reload
  BY <1>9 DEF Secret!Reload, Secret!Closed, Secret!Empty, Secret!Form
<1>. QED  BY <1>1, <1>2, <1>3, <1>4, <1>5, <1>6, <1>7, <1>8, <1>9 DEF Secret!Next

\* Deleting, restoring, uploading and changing the password (Operate.tsx, Configure.tsx)
\* do what the operator confirmed.
THEOREM ConfirmedIsAlwaysDone == Spec => []ConfirmedIsDone
<1>. DEFINE Inv == BackupsInv /\ CertificateInv /\ PasswordInv
<1>1. Init => Inv
  BY BackupsInit, CertificateInit, PasswordInit
<1>2. Inv /\ [Next]_vars => Inv'
  BY StepOfPanels, BackupsStep, CertificateStep, PasswordStep
<1>3. Inv => ConfirmedIsDone
  BY DEF BackupsInv, CertificateInv, PasswordInv, ConfirmedIsDone
<1>. QED  BY <1>1, <1>2, <1>3, PTL DEF Spec

-----------------------------------------------------------------------------
(* The banner: a save writes its two keys one after the other.              *)

BannerKeys == [text : Text \cup {""}, level : Level]

BannerInv ==
    /\ bannerEnv \in BannerKeys /\ sent \in BannerKeys
    /\ bannerForm \in [text : Text \cup {""}, level : Level, seeded : BOOLEAN]
    /\ put \in [field : {"none", "text", "level"}, made : BOOLEAN]
    /\ put.field = "none" => ~put.made
    /\ put.field # "none" <=> bannerSave = "running"
    /\ bannerSave = "running" => bannerForm.seeded
    /\ put.field = "level" => "text" \in written
    /\ put.made => put.field \in written
    /\ written \subseteq {"text", "level"}
    /\ Banner!BannerSuccessIsSaved /\ Banner!FormIsSent

LEMMA BannerInit == Init => BannerInv
<1>. SUFFICES ASSUME Banner!Init PROVE BannerInv
  BY DEF Init
<1>1. (CHOOSE l \in Level : TRUE) \in Level
  BY AdminAssumption
<1>. DEFINE level == CHOOSE l \in Level : TRUE
<1>2. /\ bannerEnv = [text |-> "", level |-> level] /\ sent = bannerEnv
      /\ bannerForm = [text |-> "", level |-> bannerEnv.level, seeded |-> FALSE]
      /\ bannerSave = "idle" /\ put = [field |-> "none", made |-> FALSE] /\ written = {}
  BY DEF Banner!Init, Banner!NoPut
<1>. HIDE DEF level
<1>3. [text |-> "", level |-> level] \in BannerKeys
  BY <1>1 DEF level, BannerKeys
<1>4. bannerForm = [text |-> "", level |-> level, seeded |-> FALSE]
  BY <1>2
<1>5. bannerForm \in [text : Text \cup {""}, level : Level, seeded : BOOLEAN]
  BY <1>1, <1>4 DEF level
<1>6. put \in [field : {"none", "text", "level"}, made : BOOLEAN] /\ put.field = "none" /\ ~put.made
  BY <1>2
<1>. QED  BY <1>2, <1>3, <1>5, <1>6 DEF BannerInv, Banner!BannerSuccessIsSaved, Banner!FormIsSent

LEMMA BannerStep ==
  ASSUME BannerInv, [Banner!Next]_bannerVars
  PROVE  BannerInv'
<1>. USE DEF BannerInv, BannerKeys, Banner!BannerSuccessIsSaved, Banner!FormIsSent, Banner!Field
<1>1. CASE Banner!OthersWrite \/ UNCHANGED bannerVars
  BY <1>1 DEF Banner!OthersWrite, Banner!Env, bannerVars
<1>2. CASE Banner!Seed
  BY <1>2 DEF Banner!Seed
<1>3. CASE Banner!Change
  BY <1>3 DEF Banner!Change, Banner!Env
<1>4. ASSUME NEW text \in Text \cup {""}, Banner!Apply(text) PROVE BannerInv'
  BY <1>4 DEF Banner!Apply, Banner!Put
<1>5. CASE Banner!Writes
  BY <1>5 DEF Banner!Writes
<1>6. CASE Banner!Answered
  <2>1. put.made /\ UNCHANGED <<bannerEnv, bannerForm, sent, written>>
    BY <1>6 DEF Banner!Answered
  <2>2. CASE put.field = "text"
    <3>1. put' = [field |-> "level", made |-> FALSE] /\ UNCHANGED bannerSave
      BY <1>6, <2>2 DEF Banner!Answered, Banner!Put
    <3>2. bannerSave = "running" /\ "text" \in written
      BY <2>1, <2>2
    <3>. QED  BY <2>1, <3>1, <3>2
  <2>3. CASE put.field # "text"
    <3>1. put' = [field |-> "none", made |-> FALSE] /\ bannerSave' = "success"
      BY <1>6, <2>3 DEF Banner!Answered, Banner!NoPut
    <3>2. written = {"text", "level"}
      BY <2>1, <2>3
    <3>. QED  BY <2>1, <3>1, <3>2
  <2>. QED  BY <2>2, <2>3
<1>7. CASE Banner!NotAnswered
  BY <1>7 DEF Banner!NotAnswered, Banner!NoPut
<1>8. Banner!SaveBanner \/ Banner!ClearBanner => \E text \in Text \cup {""} : Banner!Apply(text)
  BY DEF Banner!SaveBanner, Banner!ClearBanner
<1>. QED  BY <1>1, <1>2, <1>3, <1>4, <1>5, <1>6, <1>7, <1>8 DEF Banner!Next

-----------------------------------------------------------------------------
(* Web access: the only request that is waited for was sent by this use.    *)

Mine == {r \in activations : r.mine}

WebAccessInv ==
    /\ activations \in SUBSET [mine : BOOLEAN, at : {"asked", "applied"}]
    /\ webDialog \in Dialog({"no target", "https-local"})
    /\ \A r, s \in Mine : r = s
    /\ Mine # {} <=> webState = "running"
    /\ Mine # {} => webDialog.target = "no target"
    /\ \A r \in Mine : r.at = "applied" => reached
    /\ reached \in BOOLEAN
    /\ WebAccess!ActivatingIsWritten

LEMMA WebAccessInit == Init => WebAccessInv
<1>. SUFFICES ASSUME WebAccess!Init PROVE WebAccessInv
  BY DEF Init
<1>. QED  BY DEF WebAccess!Init, WebAccess!Closed, WebAccess!NoTarget, WebAccessInv, Mine, Dialog,
          WebAccess!ActivatingIsWritten

LEMMA WebAccessStep ==
  ASSUME WebAccessInv, [WebAccess!Next]_webAccessVars
  PROVE  WebAccessInv'
<1>. USE DEF WebAccessInv, Mine, WebAccess!ActivatingIsWritten, WebAccess!NoTarget, Dialog
<1>1. CASE UNCHANGED webAccessVars
  BY <1>1 DEF webAccessVars
<1>2. CASE WebAccess!OthersConfigure
  BY <1>2 DEF WebAccess!OthersConfigure, WebAccess!Reaches
<1>3. CASE WebAccess!ConfigChanges
  <2>1. /\ activations' = {[r EXCEPT !.mine = FALSE] : r \in activations}
        /\ webDialog' = [target |-> "no target", opened |-> "no target", typed |-> "no target", running |-> FALSE]
        /\ webState' = "idle" /\ UNCHANGED reached
    BY <1>3 DEF WebAccess!ConfigChanges, WebAccess!Closed
  <2>2. \A r \in activations : /\ [r EXCEPT !.mine = FALSE] \in [mine : BOOLEAN, at : {"asked", "applied"}]
                               /\ ~[r EXCEPT !.mine = FALSE].mine
    OBVIOUS
  <2>3. activations' \in SUBSET [mine : BOOLEAN, at : {"asked", "applied"}] /\ Mine' = {}
    BY <2>1, <2>2
  <2>. QED  BY <2>1, <2>3
<1>4. CASE WebAccess!OpenDialog
  BY <1>4 DEF WebAccess!OpenDialog, WebAccess!Open, WebAccess!Closed
<1>5. CASE WebAccess!Type
  BY <1>5 DEF WebAccess!Type, WebAccess!TypeWord
<1>6. CASE WebAccess!Cancel
  BY <1>6 DEF WebAccess!Cancel, WebAccess!Close
<1>7. CASE WebAccess!Activate
  <2>. DEFINE new == [mine |-> TRUE, at |-> "asked"]
  <2>1. /\ activations' = activations \cup {new} /\ webState' = "running"
        /\ reached' = (webMode = "https-local") /\ webDialog.target # "no target"
    BY <1>7 DEF WebAccess!Activate, WebAccess!Activation, WebAccess!MayConfirm, WebAccess!Attentive,
       WebAccess!IsOpen
  <2>2. webDialog' \in Dialog({"no target", "https-local"}) /\ webDialog'.target = "no target"
    BY <1>7 DEF WebAccess!Activate, WebAccess!Finish, WebAccess!Close, WebAccess!Confirm
  <2>3. new \in [mine : BOOLEAN, at : {"asked", "applied"}] /\ new.mine /\ new.at = "asked"
    OBVIOUS
  <2>. HIDE DEF new
  <2>4. Mine = {} /\ Mine' = {new}
    BY <2>1, <2>3
  <2>5. /\ activations' \in SUBSET [mine : BOOLEAN, at : {"asked", "applied"}]
        /\ reached' \in BOOLEAN
    BY <2>1, <2>3
  <2>. QED  BY <2>1, <2>2, <2>3, <2>4, <2>5
<1>8. ASSUME NEW r \in activations, WebAccess!EnableLocalHttps(r) PROVE WebAccessInv'
  <2>. DEFINE t == [r EXCEPT !.at = "applied"]
  <2>1. /\ activations' = (activations \ {r}) \cup {t} /\ reached' = TRUE
        /\ UNCHANGED <<webDialog, webState>>
    BY <1>8 DEF WebAccess!EnableLocalHttps, WebAccess!Reaches
  <2>2. t \in [mine : BOOLEAN, at : {"asked", "applied"}] /\ t.mine = r.mine
    BY <1>8
  <2>. HIDE DEF t
  <2>3. r \notin Mine => Mine' = Mine
    BY <2>1, <2>2
  <2>4. r \in Mine => Mine = {r} /\ Mine' = {t}
    <3>1. r \in Mine => Mine = {r}
      BY <1>1
    <3>2. \A s \in activations' : s = t \/ s \in activations \ {r}
      BY <2>1
    <3>. QED  BY <2>1, <2>2, <3>1, <3>2
  <2>5. activations' \in SUBSET [mine : BOOLEAN, at : {"asked", "applied"}]
    BY <2>1, <2>2
  <2>. QED  BY <2>1, <2>3, <2>4, <2>5
<1>9. ASSUME NEW r \in activations, WebAccess!Answered(r) \/ WebAccess!NotAnswered(r)
      PROVE  WebAccessInv'
  <2>1. /\ activations' = activations \ {r} /\ UNCHANGED <<webDialog, reached>>
        /\ r.mine => webState' \in {"success", "error"}
        /\ ~r.mine => UNCHANGED webState
        /\ r.mine /\ webState' = "success" => r.at = "applied"
    BY <1>9 DEF WebAccess!Answered, WebAccess!NotAnswered, WebAccess!Says
  <2>2. CASE r.mine
    BY <1>9, <2>1, <2>2
  <2>3. CASE ~r.mine
    BY <1>9, <2>1, <2>3
  <2>. QED  BY <2>2, <2>3
<1>. QED  BY <1>1, <1>2, <1>3, <1>4, <1>5, <1>6, <1>7, <1>8, <1>9 DEF WebAccess!Next

\* "Banner saved" and "HTTPS is activating" (Configure.tsx) are said of what was written.
THEOREM SuccessIsAlwaysSaved == Spec => []SuccessIsSaved
<1>. DEFINE Inv == BannerInv /\ WebAccessInv
<1>1. Init => Inv
  BY BannerInit, WebAccessInit
<1>2. Inv /\ [Next]_vars => Inv'
  BY StepOfPanels, BannerStep, WebAccessStep
<1>3. Inv => SuccessIsSaved
  BY DEF BannerInv, WebAccessInv, SuccessIsSaved
<1>. QED  BY <1>1, <1>2, <1>3, PTL DEF Spec

-----------------------------------------------------------------------------
(* The quick actions: the one under way makes their state "running".        *)

QuickInv ==
    /\ acting \in [QuickAction \cup Button -> Nat]
    /\ \A a \in QuickAction : acting[a] > 0 => acting[a] = 1 /\ quick = "running"
    /\ Live!OneQuickAction

LEMMA QuickInit == Init => QuickInv
  BY DEF Init, Live!Init, QuickInv, Live!OneQuickAction

\* Counting one action up or down leaves the other ones alone.
LEMMA Counting ==
  ASSUME NEW S, NEW f \in [S -> Nat], NEW x \in S
  PROVE  /\ [f EXCEPT ![x] = @ + 1] \in [S -> Nat]
         /\ [f EXCEPT ![x] = @ + 1][x] = f[x] + 1
         /\ f[x] > 0 => [f EXCEPT ![x] = @ - 1] \in [S -> Nat]
         /\ [f EXCEPT ![x] = @ - 1][x] = f[x] - 1
         /\ \A y \in S \ {x} : /\ [f EXCEPT ![x] = @ + 1][y] = f[y]
                              /\ [f EXCEPT ![x] = @ - 1][y] = f[y]
  OBVIOUS

LEMMA QuickStep ==
  ASSUME QuickInv, [Live!Next]_liveVars
  PROVE  QuickInv'
<1>. DEFINE Action == QuickAction \cup Button
<1>a. QuickAction \subseteq Action /\ Button \subseteq Action /\ QuickAction \cap Button = {}
  BY AdminAssumption
<1>b. acting \in [Action -> Nat] /\ \A a \in Action : acting[a] \in Nat
  BY DEF QuickInv
<1>c. /\ \A a \in QuickAction : acting[a] > 0 => acting[a] = 1 /\ quick = "running"
      /\ \A a, b \in QuickAction : acting[a] > 0 /\ acting[b] > 0 => a = b
  BY DEF QuickInv, Live!OneQuickAction
<1>d. ASSUME acting' \in [Action -> Nat],
             \A a \in QuickAction : acting'[a] > 0 => acting'[a] = 1 /\ quick' = "running",
             \A a, b \in QuickAction : acting'[a] > 0 /\ acting'[b] > 0 => a = b
      PROVE  QuickInv'
  BY <1>d DEF QuickInv, Live!OneQuickAction
<1>. HIDE DEF Action
<1>1. ASSUME UNCHANGED <<quick, acting>> PROVE QuickInv'
  BY <1>1, <1>b, <1>c, <1>d
<1>2. ASSUME NEW a \in QuickAction, Live!Run(a) PROVE QuickInv'
  <2>1. /\ quick # "running" /\ quick' = "running"
        /\ acting' = [acting EXCEPT ![a] = @ + 1]
    BY <1>2 DEF Live!Run
  <2>2. \A q \in QuickAction : acting[q] = 0
    BY <1>a, <1>b, <1>c, <2>1
  <2>3. acting' \in [Action -> Nat] /\ \A q \in QuickAction : acting'[q] = IF q = a THEN 1 ELSE 0
    BY <1>a, <1>b, <2>1, <2>2, Counting
  <2>. QED  BY <1>d, <2>1, <2>3
<1>3. ASSUME NEW a \in QuickAction, Live!RunEnds(a) PROVE QuickInv'
  <2>1. acting[a] > 0 /\ acting' = [acting EXCEPT ![a] = @ - 1]
    BY <1>3 DEF Live!RunEnds
  <2>2. acting[a] = 1 /\ \A q \in QuickAction \ {a} : acting[q] = 0
    BY <1>a, <1>b, <1>c, <2>1
  <2>3. acting' \in [Action -> Nat] /\ \A q \in QuickAction : acting'[q] = 0
    BY <1>a, <1>b, <2>1, <2>2, Counting
  <2>. QED  BY <1>d, <2>3
<1>4. CASE Live!QuickTimer
  <2>1. quick = "over" /\ UNCHANGED acting
    BY <1>4 DEF Live!QuickTimer
  <2>2. \A q \in QuickAction : ~(acting[q] > 0)
    BY <1>c, <2>1
  <2>. QED  BY <1>b, <1>c, <1>d, <2>1, <2>2
<1>5. ASSUME NEW b \in Button, Live!Handle(b) PROVE QuickInv'
  <2>1. acting' = [acting EXCEPT ![b] = @ + 1] /\ UNCHANGED quick
    BY <1>5 DEF Live!Handle
  <2>2. acting' \in [Action -> Nat] /\ \A q \in QuickAction : acting'[q] = acting[q]
    BY <1>a, <1>b, <2>1, Counting
  <2>. QED  BY <1>c, <1>d, <2>1, <2>2
<1>6. ASSUME NEW b \in Button, Live!HandleEnds(b) PROVE QuickInv'
  <2>1. acting[b] > 0 /\ acting' = [acting EXCEPT ![b] = @ - 1] /\ UNCHANGED quick
    BY <1>6 DEF Live!HandleEnds
  <2>2. acting' \in [Action -> Nat] /\ \A q \in QuickAction : acting'[q] = acting[q]
    BY <1>a, <1>b, <2>1, Counting
  <2>. QED  BY <1>c, <1>d, <2>1, <2>2
<1>7. ASSUME NEW b \in Button, Live!Timer(b) PROVE QuickInv'
  BY <1>1, <1>7 DEF Live!Timer
<1>8. CASE Live!Changes \/ Live!GoesSilent \/ Live!Tick \/ Live!Deadline
  BY <1>1, <1>8 DEF Live!Changes, Live!GoesSilent, Live!Tick, Live!Deadline, Live!buttons
<1>9. ASSUME NEW p \in Poll, Live!Answers(p) \/ Live!Arrives(p) \/ Live!Fails(p) PROVE QuickInv'
  BY <1>1, <1>9 DEF Live!Answers, Live!Arrives, Live!Fails, Live!buttons
<1>10. CASE UNCHANGED liveVars
  BY <1>1, <1>10 DEF liveVars
<1>11. CASE Live!Remount
  <2>1. acting' = [a \in Action |-> 0]
    BY <1>11 DEF Live!Remount, Action
  <2>. QED  BY <1>a, <1>d, <2>1
<1>. QED  BY <1>2, <1>3, <1>4, <1>5, <1>6, <1>7, <1>8, <1>9, <1>10, <1>11 DEF Live!Next

-----------------------------------------------------------------------------
(* A validation: a request that is waited for has been running since then.  *)

Waited == request.at # "none" /\ ~lost

ValidationInv ==
    /\ last \in Nat /\ lost \in BOOLEAN
    /\ request \in [at : {"none", "asked", "running", "refused", "done"}, result : Nat]
    /\ run \in [kind : {"idle", "running", "done", "error"}, result : Nat, since : Nat]
    /\ running = "mine" => request.at = "running"
    /\ Waited <=> run.kind = "running"
    /\ Waited => run.since <= last
    /\ Waited /\ request.at = "done" => request.result > run.since
    /\ Validation!RunIsFresh

LEMMA ValidationInit == Init => ValidationInv
<1>. SUFFICES ASSUME Validation!Init PROVE ValidationInv
  BY DEF Init
<1>. QED  BY DEF Validation!Init, ValidationInv, Waited, Validation!NoRequest, Validation!NoRun,
          Validation!RunIsFresh

LEMMA ValidationStep ==
  ASSUME ValidationInv, [Validation!Next]_validationVars
  PROVE  ValidationInv'
<1>. USE DEF ValidationInv, Waited, Validation!RunIsFresh, Validation!NoRequest, Validation!NoRun
<1>1. ASSUME UNCHANGED <<last, lost, request, run>>, running' \in {running, "other"}
      PROVE  ValidationInv'
  BY <1>1
<1>2. CASE Validation!OthersRun \/ Validation!ReadPreview \/ Validation!Polled
            \/ Validation!NotPolled \/ UNCHANGED validationVars
  BY <1>1, <1>2 DEF Validation!OthersRun, Validation!ReadPreview, Validation!Polled,
     Validation!NotPolled, validationVars
<1>3. CASE Validation!OthersEnd
  BY <1>3 DEF Validation!OthersEnd
<1>4. CASE Validation!Begins
  BY <1>4 DEF Validation!Begins
<1>5. CASE Validation!Busy
  BY <1>5 DEF Validation!Busy
<1>6. CASE Validation!RunEnds
  <2>1. /\ request.at = "running" /\ request' = [at |-> "done", result |-> last + 1]
        /\ last' = last + 1 /\ running' = "nobody" /\ UNCHANGED <<lost, run>>
    BY <1>6 DEF Validation!RunEnds
  <2>. QED  BY <2>1
<1>7. CASE Validation!HandleRun
  <2>1. /\ request.at = "none" /\ request' = [at |-> "asked", result |-> 0] /\ lost' = FALSE
        /\ UNCHANGED <<last, running>>
    BY <1>7 DEF Validation!HandleRun
  <2>2. /\ run' = [[kind |-> "running", result |-> 0, since |-> 0] EXCEPT !.since = last]
    BY <1>7 DEF Validation!HandleRun
  <2>3. /\ run' \in [kind : {"idle", "running", "done", "error"}, result : Nat, since : Nat]
        /\ run'.kind = "running" /\ run'.since = last
    BY <2>2
  <2>4. /\ request' \in [at : {"none", "asked", "running", "refused", "done"}, result : Nat]
        /\ request'.at = "asked"
    BY <2>1
  <2>5. running' # "mine" /\ last' = last
    BY <2>1
  <2>6. Waited' /\ lost' \in BOOLEAN
    BY <2>1, <2>4
  <2>7. Validation!RunIsFresh'
    BY <2>3
  <2>. QED  BY <2>3, <2>4, <2>5, <2>6, <2>7
<1>8. CASE Validation!Answered
  BY <1>8 DEF Validation!Answered
<1>9. CASE Validation!NotAnswered
  BY <1>9 DEF Validation!NotAnswered
<1>10. CASE Validation!Forgotten
  BY <1>10 DEF Validation!Forgotten
<1>. QED  BY <1>2, <1>3, <1>4, <1>5, <1>6, <1>7, <1>8, <1>9, <1>10 DEF Validation!Next

\* One quick action at a time (App.tsx), and a validation's result is of the run that
\* was asked for (Operate.tsx).
THEOREM ButtonsAreOneAction == Spec => []OneActionPerButton
<1>. DEFINE Inv == QuickInv /\ ValidationInv
<1>1. Init => Inv
  BY QuickInit, ValidationInit
<1>2. Inv /\ [Next]_vars => Inv'
  BY StepOfPanels, QuickStep, ValidationStep
<1>3. Inv => OneActionPerButton
  BY DEF QuickInv, ValidationInv, OneActionPerButton
<1>. QED  BY <1>1, <1>2, <1>3, PTL DEF Spec

-----------------------------------------------------------------------------
(* The snapshot: the request that is waited for is not older than what is   *)
(* shown, because the server's answers never go back.                       *)

Request == [at : {"idle", "asked", "answered"}, version : Nat]

Page == [kind : {"loading", "ready", "error"}, version : Nat]

LiveInv ==
    /\ world \in Nat /\ served \in 0..world
    /\ polls \in [Poll -> Request]
    /\ shown \in Page /\ shown.version \in 0..served
    /\ \A p \in Poll : polls[p].at = "answered" => polls[p].version \in 0..served
    /\ \A p \in Poll : active = p /\ polls[p].at = "answered" => polls[p].version \in shown.version..served

LEMMA LiveInit == Init => LiveInv
<1>. SUFFICES ASSUME Live!Init PROVE LiveInv
  BY DEF Init
<1>1. Live!Idle \in Request /\ Live!Idle.at = "idle"
  BY DEF Live!Idle, Request
<1>2. /\ polls = [p \in Poll |-> Live!Idle] /\ shown = [kind |-> "loading", version |-> 0]
      /\ world = 0 /\ served = 0 /\ active = Live!NoPoll
  BY DEF Live!Init
<1>. QED  BY <1>1, <1>2 DEF LiveInv, Page

LEMMA LiveStep ==
  ASSUME LiveInv, [Live!Next]_liveVars
  PROVE  LiveInv' /\ shown'.version >= shown.version
<1>. DEFINE Goal == LiveInv' /\ shown'.version >= shown.version
<1>n. Live!NoPoll \notin Poll
  BY AdminAssumption DEF Live!NoPoll
<1>a. /\ Live!Idle \in Request /\ Live!Idle.at = "idle"
      /\ Live!Asked \in Request /\ Live!Asked.at = "asked"
      /\ \A v \in Nat : LET r == [at |-> "answered", version |-> v] IN r \in Request /\ r.version = v
  BY DEF Live!Idle, Live!Asked, Request
<1>b. /\ polls \in [Poll -> Request]
      /\ world \in Nat /\ served \in 0..world /\ shown \in Page /\ shown.version \in 0..served
  BY DEF LiveInv
<1>6. /\ shown.version \in shown.version..served /\ shown.version \in Nat
      /\ served \in served..world /\ served \in Nat
  BY <1>b DEF Page
<1>c. \A p \in Poll : polls[p].at = "answered" =>
        /\ polls[p].version \in 0..served
        /\ active = p => polls[p].version \in shown.version..served
  BY DEF LiveInv
\* One request changes, and with it perhaps the page.
<1>d. ASSUME NEW p \in Poll, NEW r \in Request, polls' = [polls EXCEPT ![p] = r],
             active' \in {active, p, Live!NoPoll}, world' = world, served' \in served..world,
             shown' \in Page, shown'.version \in shown.version..served,
             shown' = shown \/ active' = Live!NoPoll,
             r.at = "answered" => r.version = served'
      PROVE  Goal
  <2>1. polls' \in [Poll -> Request] /\ \A q \in Poll : polls'[q] = IF q = p THEN r ELSE polls[q]
    BY <1>b, <1>d
  <2>a. shown'.version \in 0..served' /\ served' \in 0..world' /\ 0..served \subseteq 0..served'
    BY <1>b, <1>d
  <2>2. ASSUME NEW q \in Poll, polls'[q].at = "answered" PROVE polls'[q].version \in 0..served'
    <3>1. CASE q = p
      BY <1>d, <2>1, <2>2, <2>a, <3>1
    <3>2. CASE q # p
      BY <1>c, <2>1, <2>2, <2>a, <3>2
    <3>. QED  BY <3>1, <3>2
  <2>3. ASSUME NEW q \in Poll, active' = q, polls'[q].at = "answered"
        PROVE  polls'[q].version \in shown'.version..served'
    <3>1. q # Live!NoPoll /\ shown' = shown
      BY <1>d, <1>n, <2>3
    <3>2. CASE q = p
      <4>1. polls'[q].version = served'
        BY <1>d, <2>1, <2>3, <3>2
      <4>. QED  BY <1>b, <1>d, <2>a, <3>1, <4>1
    <3>3. CASE q # p
      <4>1. polls'[q] = polls[q] /\ active = q
        BY <1>d, <2>1, <2>3, <3>1, <3>3
      <4>2. polls[q].version \in shown.version..served
        BY <1>c, <2>3, <4>1
      <4>. QED  BY <1>b, <1>d, <3>1, <4>1, <4>2
    <3>. QED  BY <3>2, <3>3
  <2>. QED  BY <1>b, <1>d, <2>1, <2>2, <2>3, <2>a DEF LiveInv
\* No request changes.
<1>1. ASSUME UNCHANGED <<served, polls>>, world' \in {world, world + 1},
             active' \in {active, Live!NoPoll},
             shown' \in Page,
             shown'.version = shown.version
      PROVE  Goal
  <2>1. shown'.version \in 0..served' /\ served' \in 0..world' /\ world' \in Nat
    BY <1>b, <1>1
  <2>2. \A q \in Poll : active' = q => active = q
    BY <1>1, <1>n
  <2>. QED  BY <1>1, <1>b, <1>c, <2>1, <2>2 DEF LiveInv
<1>. HIDE DEF Goal
<1>2. ASSUME Live!Starts, UNCHANGED <<world, served, shown>> PROVE Goal
  <2>1. PICK p \in Poll : polls' = [polls EXCEPT ![p] = Live!Asked] /\ active' = p
    BY <1>2 DEF Live!Starts
  <2>2. Live!Asked.at # "answered"
    BY DEF Live!Asked
  <2>. QED  BY <1>a, <1>b, <1>d, <1>2, <1>6, <2>1, <2>2
<1>3. ASSUME Live!Refetch, UNCHANGED <<world, served, shown>> PROVE Goal
  BY <1>1, <1>2, <1>3, <1>b DEF Live!Refetch
<1>4. ASSUME NEW p \in Poll, Live!Answers(p) PROVE Goal
  <2>1. /\ served' \in served..world /\ UNCHANGED <<world, active, shown>>
        /\ polls' = [polls EXCEPT ![p] = [at |-> "answered", version |-> served']]
    BY <1>4 DEF Live!Answers
  <2>2. served' \in Nat
    BY <1>b, <2>1
  <2>. DEFINE r == [at |-> "answered", version |-> served']
  <2>3. r \in Request /\ r.version = served' /\ polls' = [polls EXCEPT ![p] = r]
    BY <1>a, <2>1, <2>2
  <2>. HIDE DEF r
  <2>. QED  BY <1>b, <1>d, <1>6, <2>1, <2>3
<1>5. ASSUME NEW p \in Poll, Live!Ends(p), UNCHANGED <<world, served>>,
             shown' \in Page,
             shown'.version \in shown.version..served, shown' = shown \/ active = p
      PROVE  Goal
  <2>1. /\ polls' = [polls EXCEPT ![p] = Live!Idle]
        /\ active' = IF active = p THEN Live!NoPoll ELSE active
    BY <1>5 DEF Live!Ends
  <2>2. Live!Idle.at # "answered"
    BY DEF Live!Idle
  <2>. QED  BY <1>a, <1>b, <1>d, <1>5, <1>6, <2>1, <2>2
<1>7. ASSUME NEW p \in Poll, Live!Arrives(p) PROVE Goal
  <2>1. polls[p].at = "answered" /\ Live!Ends(p) /\ UNCHANGED <<world, served>>
    BY <1>7 DEF Live!Arrives
  <2>2. CASE active = p
    <3>. DEFINE new == [kind |-> "ready", version |-> polls[p].version]
    <3>1. shown' = new
      BY <1>7, <2>2 DEF Live!Arrives, Live!IsCurrent
    <3>2. polls[p].version \in Nat /\ polls[p].version \in shown.version..served
      BY <1>b, <1>c, <2>1, <2>2
    <3>3. /\ new \in Page
          /\ new.version \in shown.version..served
      BY <3>2 DEF Page
    <3>. QED  BY <1>5, <2>1, <2>2, <3>1, <3>3
  <2>3. CASE active # p
    BY <1>5, <1>6, <1>b, <1>7, <2>1, <2>3 DEF Live!Arrives, Live!IsCurrent
  <2>. QED  BY <2>2, <2>3
<1>8. ASSUME Live!Unavailable
      PROVE  /\ shown' \in Page
             /\ shown'.version = shown.version
  BY <1>b, <1>8 DEF Live!Unavailable, Page
<1>9. ASSUME NEW p \in Poll, Live!Fails(p) PROVE Goal
  <2>1. Live!Ends(p) /\ UNCHANGED <<world, served>>
    BY <1>9 DEF Live!Fails
  <2>2. CASE active = p
    <3>1. Live!Unavailable
      BY <1>9, <2>2 DEF Live!Fails, Live!IsCurrent
    <3>. QED  BY <1>5, <1>6, <1>8, <2>1, <2>2, <3>1
  <2>3. CASE active # p
    BY <1>5, <1>6, <1>b, <1>9, <2>1, <2>3 DEF Live!Fails, Live!IsCurrent
  <2>. QED  BY <2>2, <2>3
<1>10. ASSUME Live!Deadline PROVE Goal
  BY <1>1, <1>8, <1>10 DEF Live!Deadline
<1>11. ASSUME Live!Tick PROVE Goal
  BY <1>2, <1>11 DEF Live!Tick
<1>12. ASSUME Live!Changes \/ Live!GoesSilent \/ Live!QuickTimer
            \/ (\E a \in QuickAction : Live!Run(a))
            \/ (\E b \in Button : Live!Handle(b) \/ Live!Timer(b)) \/ UNCHANGED liveVars
       PROVE Goal
  BY <1>1, <1>b, <1>6, <1>12 DEF Live!Changes, Live!GoesSilent, Live!QuickTimer, Live!Run, Live!Handle,
     Live!Timer, Live!live, liveVars
<1>13. ASSUME NEW a \in QuickAction, Live!RunEnds(a) PROVE Goal
  BY <1>3, <1>13 DEF Live!RunEnds
<1>14. ASSUME NEW b \in Button, Live!HandleEnds(b) PROVE Goal
  BY <1>1, <1>3, <1>6, <1>b, <1>14 DEF Live!HandleEnds
<1>15. ASSUME Live!Remount PROVE Goal
  <2>1. PICK p \in Poll : polls' = [q \in Poll |-> IF q = p THEN Live!Asked ELSE Live!Idle]
    BY <1>15 DEF Live!Remount
  <2>2. /\ shown' = [shown EXCEPT !.kind = "loading"] /\ UNCHANGED <<world, served>>
    BY <1>15 DEF Live!Remount
  <2>3. shown' \in Page /\ shown'.version = shown.version
    BY <1>b, <2>2 DEF Page
  <2>4. polls' \in [Poll -> Request] /\ \A q \in Poll : polls'[q].at # "answered"
    BY <1>a, <2>1
  <2>. QED  BY <1>b, <1>6, <2>2, <2>3, <2>4 DEF LiveInv, Goal
<1>16. Goal
  BY <1>4, <1>7, <1>9, <1>10, <1>11, <1>12, <1>13, <1>14, <1>15 DEF Live!Next
<1>. QED  BY <1>16 DEF Goal

\* An answer that comes late never takes the page back (useSnapshot of lib/snapshot.ts).
THEOREM PageNeverGoesBack == Spec => ShownNeverGoesBack
<1>1. Init => LiveInv
  BY LiveInit
<1>2. LiveInv /\ [Next]_vars => LiveInv'
  BY StepOfPanels, LiveStep
<1>3. LiveInv /\ [Next]_vars => [shown'.version >= shown.version]_(Live!vars)
  BY StepOfPanels, LiveStep
<1>. QED  BY <1>1, <1>2, <1>3, PTL DEF Spec, ShownNeverGoesBack, Live!ShownNeverGoesBack

-----------------------------------------------------------------------------
(* The drafts: a row that is being edited follows no answer.                *)

RowsInv ==
    /\ rows = [k \in Key |-> rows[k]]
    /\ \A k \in Key :
         rows[k] = [editing |-> rows[k].editing, draft |-> rows[k].draft, save |-> rows[k].save]

LEMMA RowsInit == Init => RowsInv
<1>. SUFFICES ASSUME Parameters!Init PROVE RowsInv
  BY DEF Init
<1>. QED  BY DEF Parameters!Init, RowsInv, Parameters!Row

\* What a step may make of the rows: other rows, or none of a draft being typed.
LEMMA RowsStep ==
  ASSUME RowsInv, [Parameters!Next]_parametersVars
  PROVE  /\ RowsInv'
         /\ \/ UNCHANGED <<env, config, expanded, saves>>
            \/ \A k \in Key : rows[k].editing /\ rows'[k].editing => rows'[k].draft = rows[k].draft
<1>. DEFINE Kept == \A k \in Key : rows[k].editing /\ rows'[k].editing => rows'[k].draft = rows[k].draft
<1>. DEFINE Goal == RowsInv' /\ (UNCHANGED <<env, config, expanded, saves>> \/ Kept)
<1>1. ASSUME UNCHANGED rows PROVE RowsInv' /\ Kept
  BY <1>1 DEF RowsInv
<1>2. ASSUME (\E k \in Key, v \in Value : Parameters!OthersWrite(k, v)) \/ Parameters!Expand
           \/ (\E r \in saves : Parameters!SetConfigValue(r) \/ Parameters!GetConfigValues(r))
           \/ UNCHANGED parametersVars
      PROVE Goal
  BY <1>1, <1>2 DEF Parameters!OthersWrite, Parameters!Expand, Parameters!SetConfigValue,
     Parameters!GetConfigValues, parametersVars
<1>3. ASSUME NEW k \in Key, NEW v \in Value, Parameters!Type(k, v)
      PROVE  RowsInv' /\ UNCHANGED <<env, config, expanded, saves>>
  BY <1>3 DEF Parameters!Type, RowsInv
<1>4. ASSUME NEW k \in Key, Parameters!Edit(k) PROVE RowsInv' /\ Kept
  BY <1>4 DEF Parameters!Edit, RowsInv
<1>5. ASSUME NEW k \in Key, Parameters!Submit(k) PROVE RowsInv' /\ Kept
  BY <1>5 DEF Parameters!Submit, RowsInv
<1>6. ASSUME NEW k \in Key, Parameters!Cancel(k) PROVE RowsInv' /\ Kept
  BY <1>6 DEF Parameters!Cancel, Parameters!Row, RowsInv
<1>7. ASSUME Parameters!Collapse PROVE Goal
  BY <1>7 DEF Parameters!Collapse, Parameters!Row, RowsInv
<1>8. ASSUME NEW r \in saves, Parameters!Answered(r) PROVE RowsInv' /\ Kept
  BY <1>8 DEF Parameters!Answered, Parameters!Row, Parameters!Follows, Parameters!Follow, RowsInv
<1>9. ASSUME NEW r \in saves, Parameters!NotAnswered(r) PROVE RowsInv' /\ Kept
  BY <1>9 DEF Parameters!NotAnswered, RowsInv
<1>. HIDE DEF Kept
<1>10. ASSUME NEW k \in Key PROVE Parameters!Edit(k) \/ Parameters!Submit(k) \/ Parameters!Cancel(k) => Goal
  BY <1>4, <1>5, <1>6
<1>11. ASSUME NEW k \in Key, NEW v \in Value, Parameters!Type(k, v) PROVE Goal
  BY <1>3, <1>11
<1>12. ASSUME NEW r \in saves PROVE Parameters!Answered(r) \/ Parameters!NotAnswered(r) => Goal
  BY <1>8, <1>9
<1>. HIDE DEF Goal
<1>14. Goal
  BY <1>2, <1>10, <1>11, <1>7, <1>12 DEF Parameters!Next
<1>. QED  BY <1>14 DEF Goal, Kept

\* What is typed into a parameter of the Configure page (Configure.tsx) survives
\* every answer to another save.
THEOREM DraftAlwaysSurvives == Spec => DraftSurvives
<1>. DEFINE Step == \A k \in Key :
                      rows[k].editing /\ rows'[k].editing /\ rows'[k].draft # rows[k].draft
                      => UNCHANGED <<env, config, expanded, saves>>
<1>1. Init => RowsInv
  BY RowsInit
<1>2. RowsInv /\ [Next]_vars => RowsInv'
  BY StepOfPanels, RowsStep
<1>3. RowsInv /\ [Next]_vars => Step
  BY StepOfPanels, RowsStep
<1>4. RowsInv /\ [Next]_vars => [\A k \in Key :
         /\ rows[k].editing /\ rows'[k].editing
         /\ rows'[k].draft # rows[k].draft
         => UNCHANGED <<env, config, expanded, saves>>]_(Parameters!vars)
  BY <1>3
<1>. QED  BY <1>1, <1>2, <1>4, PTL DEF Spec, DraftSurvives, Parameters!DraftSurvives

-----------------------------------------------------------------------------
(* The log pane: what is sent, buffered and shown is of the pane's container*)

\* A sequence of the lines of one container, without lines while there is none.
LinesOf(s, c) == s \in Seq({c} \ {Logs!NoContainer})

LogsInv ==
    /\ source \in {containerName, Logs!NoContainer}
    /\ LinesOf(wire, containerName) /\ LinesOf(lines, containerName)
    /\ \E c : LinesOf(frozen, c)
    /\ ~logPaused => frozen = lines
    /\ containerName = Logs!NoContainer => ~logPaused

LEMMA LogsInit == Init => LogsInv
<1>. SUFFICES ASSUME Logs!Init PROVE LogsInv
  BY DEF Init
<1>1. LinesOf(<<>>, Logs!NoContainer)
  BY DEF LinesOf
<1>. QED  BY <1>1 DEF Logs!Init, LogsInv

LEMMA LogsStep ==
  ASSUME LogsInv, [Logs!Next]_logsVars
  PROVE  LogsInv'
<1>a. /\ source \in {containerName, Logs!NoContainer}
      /\ LinesOf(wire, containerName) /\ LinesOf(lines, containerName)
      /\ \E c : LinesOf(frozen, c)
      /\ ~logPaused => frozen = lines
      /\ containerName = Logs!NoContainer => ~logPaused
  BY DEF LogsInv
<1>b. \A c : LinesOf(<<>>, c)
  BY DEF LinesOf
\* The container stays, and the streams are of it; what is shown mirrors the buffer or
\* stays as it is.
<1>1. ASSUME UNCHANGED containerName, source' \in {containerName, Logs!NoContainer},
             LinesOf(wire', containerName), LinesOf(lines', containerName),
             frozen' = IF logPaused' THEN frozen ELSE lines',
             containerName # Logs!NoContainer \/ UNCHANGED logPaused
      PROVE  LogsInv'
  BY <1>1, <1>a DEF LogsInv
<1>2. ASSUME NEW c \in Container, Logs!OpenLogs(c) PROVE LogsInv'
  <2>1. /\ containerName' = c /\ lines' = <<>> /\ frozen' = IF logPaused THEN frozen ELSE <<>>
        /\ wire' = <<>> /\ source' = Logs!NoContainer /\ logPaused' = logPaused
    BY <1>2 DEF Logs!OpenLogs, Logs!Mirrors
  <2>2. c # Logs!NoContainer
    BY AdminAssumption DEF Logs!NoContainer
  <2>. QED  BY <1>a, <1>b, <2>1, <2>2 DEF LogsInv
<1>3. CASE Logs!Close
  <2>1. /\ containerName' = Logs!NoContainer /\ source' = Logs!NoContainer /\ wire' = <<>>
        /\ lines' = <<>> /\ frozen' = <<>> /\ ~logPaused'
    BY <1>3 DEF Logs!Close, Logs!Mirrors
  <2>. QED  BY <1>b, <2>1 DEF LogsInv
<1>4. CASE Logs!Connect
  BY <1>1, <1>4, <1>a DEF Logs!Connect
<1>5. CASE Logs!Sends
  <2>1. LinesOf(wire', containerName)
    <3>1. source \in {containerName} \ {Logs!NoContainer} /\ wire' = Append(wire, source)
      BY <1>5, <1>a DEF Logs!Sends
    <3>. QED  BY <1>a, <3>1 DEF LinesOf
  <2>. QED  BY <1>1, <1>5, <1>a, <2>1 DEF Logs!Sends
<1>6. CASE Logs!Lost
  BY <1>1, <1>6, <1>a, <1>b DEF Logs!Lost
<1>7. CASE Logs!Message
  <2>. DEFINE next == Append(lines, Head(wire))
              new == IF Len(next) > MaxLines THEN Tail(next) ELSE next
  <2>1. wire # <<>> /\ wire' = Tail(wire) /\ UNCHANGED <<containerName, source, logPaused>>
    BY <1>7 DEF Logs!Message
  <2>2. Head(wire) \in {containerName} \ {Logs!NoContainer} /\ LinesOf(wire', containerName)
    BY <1>a, <2>1 DEF LinesOf
  <2>3. LinesOf(next, containerName) /\ next # <<>>
    <3>. DEFINE X == {containerName} \ {Logs!NoContainer}
    <3>1. lines \in Seq(X) /\ Head(wire) \in X
      BY <1>a, <2>2 DEF LinesOf
    <3>. HIDE DEF X
    <3>2. next \in Seq(X) /\ Len(next) = Len(lines) + 1 /\ Len(lines) \in Nat
      BY <3>1
    <3>3. next # <<>>
      BY <3>2
    <3>. QED  BY <3>2, <3>3 DEF LinesOf, X
  <2>4. LinesOf(new, containerName)
    BY <2>3 DEF LinesOf
  <2>5. lines' = new /\ frozen' = IF logPaused THEN frozen ELSE new
    BY <1>7 DEF Logs!Message, Logs!Mirrors
  <2>. HIDE DEF new
  <2>. QED  BY <1>1, <1>a, <2>1, <2>2, <2>4, <2>5
<1>8. CASE Logs!Clear
  BY <1>1, <1>8, <1>a, <1>b DEF Logs!Clear, Logs!Mirrors
<1>9. CASE Logs!Pause
  BY <1>1, <1>9, <1>a DEF Logs!Pause, Logs!Mirrors
<1>10. CASE UNCHANGED logsVars
  BY <1>1, <1>10, <1>a DEF logsVars
<1>. QED  BY <1>2, <1>3, <1>4, <1>5, <1>6, <1>7, <1>8, <1>9, <1>10 DEF Logs!Next

-----------------------------------------------------------------------------
(* The feed: a query in the ring is not added again.                        *)

\* Queries that are all different.
Distinct(s) == \E S : s \in Seq(S) /\ Feed!IsInjective(s)

FeedInv == Distinct(events) /\ Distinct(snapshot)

LEMMA EmptyIsDistinct == Distinct(<<>>)
<1>. <<>> \in Seq({}) /\ Feed!IsInjective(<<>>)
  BY DEF Feed!IsInjective
<1>. QED  BY DEF Distinct

LEMMA FeedInit == Init => FeedInv
<1>. SUFFICES ASSUME Feed!Init PROVE FeedInv
  BY DEF Init
<1>. QED  BY EmptyIsDistinct DEF Feed!Init, FeedInv

LEMMA RingIsDistinct ==
  ASSUME NEW S, NEW s \in Seq(S), Feed!IsInjective(s), s # <<>>
  PROVE  Distinct(Feed!Ring(s))
<1>. DEFINE low == Feed!Max({1, Len(s) - MaxSize + 1})
<1>1. Len(s) \in Nat \ {0} /\ MaxSize \in Nat \ {0} /\ DOMAIN s = 1..Len(s)
  <2>1. MaxSize \in Nat /\ Batch \in 1..MaxSize
    BY AdminAssumption
  <2>2. MaxSize # 0
    BY <2>1
  <2>3. Len(s) \in Nat /\ Len(s) # 0 /\ DOMAIN s = 1..Len(s)
    OBVIOUS
  <2>. QED  BY <2>1, <2>2, <2>3
<1>2. low \in 1..Len(s)
  <2>1. \E x \in {1, Len(s) - MaxSize + 1} : \A y \in {1, Len(s) - MaxSize + 1} : x >= y
    BY <1>1
  <2>2. low \in {1, Len(s) - MaxSize + 1} /\ low >= 1
    BY <2>1 DEF Feed!Max
  <2>. QED  BY <1>1, <2>2
<1>. HIDE DEF low
<1>3. Feed!Ring(s) = SubSeq(s, low, Len(s))
  BY DEF Feed!Ring, low
<1>. DEFINE r == SubSeq(s, low, Len(s))
<1>4. /\ r \in Seq(S) /\ Len(r) = Len(s) - low + 1
      /\ \A i \in 1..Len(r) : r[i] = s[low + i - 1] /\ low + i - 1 \in DOMAIN s
  BY <1>1, <1>2
<1>. HIDE DEF r
<1>5. \A i, j \in 1..Len(r) : r[i] = r[j] => i = j
  <2>. SUFFICES ASSUME NEW i \in 1..Len(r), NEW j \in 1..Len(r), r[i] = r[j] PROVE i = j
    OBVIOUS
  <2>1. low + i - 1 = low + j - 1
    BY <1>4 DEF Feed!IsInjective
  <2>. QED  BY <1>1, <1>2, <1>4, <2>1
<1>6. Feed!IsInjective(r) /\ r \in Seq(S)
  BY <1>4, <1>5 DEF Feed!IsInjective
<1>. QED  BY <1>3, <1>6 DEF Distinct, r

LEMMA AppendedIsDistinct ==
  ASSUME Distinct(events), NEW e
  PROVE  Distinct(Feed!Appended(e))
<1>1. PICK S : events \in Seq(S) /\ Feed!IsInjective(events)
  BY DEF Distinct
<1>2. CASE Feed!Contains(events, e)
  BY <1>2 DEF Feed!Appended
<1>3. CASE ~Feed!Contains(events, e)
  <2>. DEFINE T == S \cup {e}
              s == Append(events, e)
  <2>1. events \in Seq(T)
    BY <1>1
  <2>2. /\ s \in Seq(T) /\ Len(s) = Len(events) + 1 /\ s[Len(s)] = e
        /\ \A i \in 1..Len(events) : s[i] = events[i] /\ events[i] # e
    BY <1>3, <2>1 DEF Feed!Contains
  <2>3. DOMAIN s = 1..Len(events) + 1 /\ DOMAIN events = 1..Len(events) /\ Len(events) \in Nat
    BY <2>1, <2>2
  <2>. HIDE DEF s
  <2>4. \A i, j \in DOMAIN s : s[i] = s[j] => i = j
    BY <1>1, <2>2, <2>3 DEF Feed!IsInjective
  <2>5. Feed!IsInjective(s) /\ s # <<>>
    BY <2>2, <2>3, <2>4 DEF Feed!IsInjective
  <2>. HIDE DEF T
  <2>6. Distinct(Feed!Ring(s))
    BY <2>2, <2>5, RingIsDistinct
  <2>. QED  BY <1>3, <2>6 DEF Feed!Appended, s
<1>. QED  BY <1>2, <1>3

LEMMA FeedStep ==
  ASSUME FeedInv, [Feed!Next]_feedVars
  PROVE  FeedInv'
<1>. USE DEF FeedInv
<1>1. ASSUME NEW s, Distinct(s), events' = s, snapshot' \in {snapshot, s} PROVE FeedInv'
  BY <1>1
<1>2. CASE Feed!Message
  BY <1>1, <1>2, AppendedIsDistinct DEF Feed!Message, Feed!Mirrors
<1>3. CASE Feed!Clear \/ Feed!Deactivate
  BY <1>1, <1>3, EmptyIsDistinct DEF Feed!Clear, Feed!Deactivate, Feed!Mirrors
<1>4. CASE Feed!Pause
  BY <1>1, <1>4 DEF Feed!Pause
<1>5. CASE (\E p \in Plane : Feed!Query(p) \/ Feed!LiveTail(p)) \/ Feed!Connect
           \/ Feed!Activate \/ Feed!Lost \/ UNCHANGED feedVars
  BY <1>1, <1>5 DEF Feed!Query, Feed!LiveTail, Feed!Connect, Feed!Activate, Feed!Lost, feedVars
<1>. QED  BY <1>2, <1>3, <1>4, <1>5 DEF Feed!Next

\* The feed (Privacy.tsx) shows no query twice, and the log pane (LogPane.tsx), unless it
\* is paused, no line of another container, whatever connections are made and lost.
THEOREM StreamsAlwaysShowTheirSource == Spec => []StreamsShowTheirSource
<1>. DEFINE Inv == LogsInv /\ FeedInv
<1>1. Init => Inv
  BY LogsInit, FeedInit
<1>2. Inv /\ [Next]_vars => Inv'
  BY StepOfPanels, LogsStep, FeedStep
<1>3. LogsInv => Logs!LogIsOfContainer
  <2>. SUFFICES ASSUME LogsInv PROVE Logs!LogIsOfContainer
    OBVIOUS
  <2>1. ASSUME NEW s, NEW c, LinesOf(s, c) PROVE \A i \in DOMAIN s : s[i] = c
    BY <2>1 DEF LinesOf
  <2>2. PICK c : LinesOf(frozen, c)
    BY DEF LogsInv
  <2>. QED  BY <2>1, <2>2 DEF LogsInv, Logs!LogIsOfContainer
<1>4. FeedInv => Feed!FeedHasNoDuplicates
  BY DEF FeedInv, Distinct, Feed!FeedHasNoDuplicates
<1>5. Inv => StreamsShowTheirSource
  BY <1>3, <1>4 DEF StreamsShowTheirSource
<1>. QED  BY <1>1, <1>2, <1>5, PTL DEF Spec

-----------------------------------------------------------------------------
(* The verdict: what a collection found healthy was healthy while it lasted.*)

FoundHealthy(f) == {e \in Overview!Evidence : f[e] = "healthy"}

VerdictInv ==
    /\ Overview!Healthy(facts) \subseteq met /\ FoundHealthy(found) \subseteq met
    /\ DOMAIN found = Overview!Elements(Overview!Looks)
    /\ met \subseteq Overview!Evidence
    /\ FoundHealthy(verdict.found) \subseteq verdict.met
    /\ verdict.met \subseteq Overview!Evidence

LEMMA ElementsOfBoth ==
  ASSUME NEW S, NEW s \in Seq(S), NEW t \in Seq(S)
  PROVE  Overview!Elements(s \o t) = Overview!Elements(s) \cup Overview!Elements(t)
<1>1. /\ Len(s \o t) = Len(s) + Len(t) /\ Len(s) \in Nat /\ Len(t) \in Nat
      /\ DOMAIN (s \o t) = 1..Len(s) + Len(t)
      /\ DOMAIN s = 1..Len(s) /\ DOMAIN t = 1..Len(t)
  OBVIOUS
<1>2. \A i \in 1..Len(s) : (s \o t)[i] = s[i]
  OBVIOUS
<1>3. \A i \in 1..Len(t) : (s \o t)[Len(s) + i] = t[i] /\ Len(s) + i \in DOMAIN (s \o t)
  BY <1>1
<1>4. \A i \in DOMAIN (s \o t) : i \in 1..Len(s) \/ i - Len(s) \in 1..Len(t)
  BY <1>1
<1>5. ASSUME NEW i \in DOMAIN (s \o t) PROVE (s \o t)[i] \in Overview!Elements(s) \cup Overview!Elements(t)
  <2>1. CASE i \in 1..Len(s)
    BY <1>1, <1>2, <2>1 DEF Overview!Elements
  <2>2. CASE i - Len(s) \in 1..Len(t)
    <3>1. i = Len(s) + (i - Len(s))
      BY <1>1
    <3>. QED  BY <1>1, <1>3, <2>2, <3>1 DEF Overview!Elements
  <2>. QED  BY <1>4, <2>1, <2>2
<1>6. Overview!Elements(s) \subseteq Overview!Elements(s \o t)
  <2>1. \A i \in DOMAIN s : i \in DOMAIN (s \o t) /\ (s \o t)[i] = s[i]
    BY <1>1, <1>2
  <2>. QED  BY <2>1 DEF Overview!Elements
<1>7. Overview!Elements(t) \subseteq Overview!Elements(s \o t)
  BY <1>1, <1>3 DEF Overview!Elements
<1>8. Overview!Elements(s \o t) \subseteq Overview!Elements(s) \cup Overview!Elements(t)
  BY <1>5 DEF Overview!Elements
<1>. QED  BY <1>6, <1>7, <1>8

LEMMA EvidenceIsLookedAt == Overview!Evidence \subseteq Overview!Elements(Overview!Looks)
<1>. DEFINE S == Plane \cup {"tor", "bootstrap", "isolation", "identities", "network_path"}
<1>1. Planes \in Seq(S) /\ Overview!Containers \in Seq(S) /\ Overview!Assurance \in Seq(S)
  <2>1. Planes \in Seq(Plane)
    BY AdminAssumption
  <2>. QED  BY <2>1 DEF Overview!Assurance, Overview!Containers
<1>. DEFINE p == Planes \o Overview!Containers
<1>. HIDE DEF S
<1>2. p \in Seq(S)
  BY <1>1
<1>3. Overview!Elements(Planes) \subseteq Overview!Elements(p)
  BY <1>1, ElementsOfBoth
<1>. HIDE DEF p
<1>4. Overview!Elements(p \o Overview!Assurance) = Overview!Elements(p) \cup Overview!Elements(Overview!Assurance)
  BY <1>1, <1>2, ElementsOfBoth
<1>. QED  BY <1>3, <1>4 DEF Overview!Evidence, Overview!Looks, p

LEMMA NothingFound ==
  /\ DOMAIN Overview!Unknown = Overview!Elements(Overview!Looks)
  /\ FoundHealthy(Overview!Unknown) = {}
  BY EvidenceIsLookedAt DEF Overview!Unknown, FoundHealthy

LEMMA VerdictInit == Init => VerdictInv
<1>. SUFFICES ASSUME Overview!Init PROVE VerdictInv
  BY DEF Init
<1>1. Overview!Healthy(facts) \subseteq Overview!Evidence
  BY DEF Overview!Healthy
<1>2. found = Overview!Unknown /\ met = Overview!Evidence
  BY DEF Overview!Init
<1>3. verdict.found = Overview!Unknown /\ verdict.met = {}
  BY DEF Overview!Init
<1>. QED  BY <1>1, <1>2, <1>3, NothingFound DEF VerdictInv

LEMMA VerdictStep ==
  ASSUME VerdictInv, [Overview!Next]_overviewVars
  PROVE  VerdictInv'
<1>1. CASE UNCHANGED overviewVars
  BY <1>1 DEF VerdictInv, overviewVars, Overview!Healthy, Overview!Seen, FoundHealthy
<1>2. ASSUME NEW e, NEW s, Overview!Change(e, s)
      PROVE  VerdictInv'
  <2>1. /\ facts' = [facts EXCEPT ![e] = s] /\ met' = met \cup Overview!Healthy(facts')
        /\ UNCHANGED <<found, verdict>>
    BY <1>2 DEF Overview!Change
  <2>2. Overview!Healthy(facts') \subseteq Overview!Evidence
    BY DEF Overview!Healthy
  <2>3. Overview!Healthy(facts)' = Overview!Healthy(facts')
    BY DEF Overview!Healthy, Overview!Seen
  <2>. QED  BY <2>1, <2>2, <2>3 DEF VerdictInv, FoundHealthy
<1>3. CASE Overview!Look
  <2>. DEFINE e == Overview!Looks[looked + 1]
  <2>1. found' = [found EXCEPT ![e] = Overview!Seen(facts, e)] /\ UNCHANGED <<facts, met, verdict>>
    BY <1>3 DEF Overview!Look
  <2>. HIDE DEF e
  <2>2. DOMAIN found' = Overview!Elements(Overview!Looks)
    BY <2>1 DEF VerdictInv
  <2>3. ASSUME NEW x \in Overview!Evidence, found'[x] = "healthy" PROVE x \in met
    <3>1. x \in DOMAIN found
      BY EvidenceIsLookedAt DEF VerdictInv
    <3>2. CASE x = e
      <4>1. Overview!Seen(facts, x) = "healthy"
        BY <2>1, <2>3, <3>1, <3>2
      <4>. QED  BY <4>1 DEF VerdictInv, Overview!Healthy
    <3>3. CASE x # e
      <4>1. found[x] = "healthy"
        BY <2>1, <2>3, <3>1, <3>3
      <4>. QED  BY <4>1 DEF VerdictInv, FoundHealthy
    <3>. QED  BY <3>2, <3>3
  <2>4. Overview!Healthy(facts)' = Overview!Healthy(facts)
    BY <2>1 DEF Overview!Healthy, Overview!Seen
  <2>. QED  BY <2>1, <2>2, <2>3, <2>4 DEF VerdictInv, FoundHealthy
<1>4. CASE Overview!Show
  <2>1. /\ found' = Overview!Unknown /\ met' = Overview!Healthy(facts) /\ facts' = facts
        /\ verdict' = [found |-> found, met |-> met]
    BY <1>4 DEF Overview!Show
  <2>2. verdict'.found = found /\ verdict'.met = met
    BY <2>1
  <2>3. Overview!Healthy(facts) \subseteq Overview!Evidence
    BY DEF Overview!Healthy
  <2>4. Overview!Healthy(facts)' = Overview!Healthy(facts)
    BY <2>1 DEF Overview!Healthy, Overview!Seen
  <2>5. FoundHealthy(found)' = {} /\ FoundHealthy(verdict.found)' = FoundHealthy(found)
    BY <2>1, <2>2, NothingFound DEF FoundHealthy
  <2>. QED  BY <2>1, <2>2, <2>3, <2>4, <2>5, NothingFound DEF VerdictInv
<1>. QED  BY <1>1, <1>2, <1>3, <1>4 DEF Overview!Next

\* A status is the healthy one exactly when all its signals are.
LEMMA CombinedIsHealthy ==
  ASSUME NEW f, NEW signals
  PROVE  Overview!Combined(f, signals) = "healthy" <=> \A e \in signals : f[e] = "healthy"
  BY DEF Overview!Combined

\* The tiles that bear the evidence agree with the verdict, whatever was found.
LEMMA TilesAgree ==
  ASSUME NEW f
  PROVE  Overview!PrivacyIntact(f)
         <=> Planes # <<>> /\ Overview!GlanceTiles(f)
               \cup {Overview!PrivacyTiles(f).bootstrap, Overview!PrivacyTiles(f).isolation} = {"healthy"}
<1>. DEFINE ofPlanes == Overview!Elements(Planes)
            ofTor == Overview!Elements(Overview!Assurance)
            tiles == Overview!GlanceTiles(f)
                       \cup {Overview!PrivacyTiles(f).bootstrap, Overview!PrivacyTiles(f).isolation}
<1>1. "bootstrap" \in ofTor /\ "isolation" \in ofTor
  <2>1. DOMAIN Overview!Assurance = 1..4 /\ Overview!Assurance[1] = "bootstrap" /\ Overview!Assurance[2] = "isolation"
    BY DEF Overview!Assurance
  <2>. QED  BY <2>1 DEF Overview!Elements
<1>2. Overview!TorUp(f) <=> \A e \in ofTor : f[e] = "healthy"
  BY CombinedIsHealthy DEF Overview!TorUp, Overview!TorTile
<1>3. tiles = {Overview!TorTile(f), Overview!DnsCheck(f), f["bootstrap"], f["isolation"]}
              \cup {Overview!PlaneRow(f, p) : p \in ofPlanes}
  BY DEF Overview!GlanceTiles, Overview!PrivacyTiles
<1>. HIDE DEF ofPlanes, ofTor, tiles
<1>4. ASSUME \A e \in ofPlanes \cup ofTor : f[e] = "healthy" PROVE tiles = {"healthy"}
  <2>1. Overview!TorUp(f) /\ Overview!TorTile(f) = "healthy"
    BY <1>2, <1>4 DEF Overview!TorUp
  <2>2. Overview!DnsCheck(f) = "healthy"
    BY <1>4, <2>1, CombinedIsHealthy DEF Overview!DnsCheck, ofPlanes
  <2>3. \A p \in ofPlanes : Overview!PlaneRow(f, p) = "healthy"
    BY <1>4, <2>1 DEF Overview!PlaneRow
  <2>. QED  BY <1>1, <1>3, <1>4, <2>1, <2>2, <2>3
<1>5. ASSUME tiles = {"healthy"} PROVE \A e \in ofPlanes \cup ofTor : f[e] = "healthy"
  <2>1. Overview!TorUp(f)
    BY <1>3, <1>5 DEF Overview!TorUp
  <2>2. \A p \in ofPlanes : f[p] = "healthy"
    BY <1>3, <1>5, <2>1 DEF Overview!PlaneRow
  <2>. QED  BY <1>2, <2>1, <2>2
<1>. QED  BY <1>4, <1>5 DEF Overview!PrivacyIntact, Overview!Evidence, ofPlanes, ofTor, tiles

\* "DNS routed through Tor" (Glance.tsx, Privacy.tsx) is said of evidence that was seen,
\* and together with the tiles that bear it, for any planes.
THEOREM VerdictIsAlwaysEvidenced == Spec => []VerdictIsEvidenced
<1>1. Init => VerdictInv
  BY VerdictInit
<1>2. VerdictInv /\ [Next]_vars => VerdictInv'
  BY StepOfPanels, VerdictStep
<1>3. VerdictInv => VerdictIsEvidenced
  <2>1. VerdictInv /\ Overview!PrivacyIntact(verdict.found) => verdict.met = Overview!Evidence
    BY DEF VerdictInv, Overview!PrivacyIntact, FoundHealthy
  <2>. QED  BY <2>1, TilesAgree DEF VerdictIsEvidenced, Overview!VerdictIsEvidenced
<1>. QED  BY <1>1, <1>2, <1>3, PTL DEF Spec

-----------------------------------------------------------------------------
(* Work: what says that it works has a request under way. The password, the *)
(* banner, the validation and the web access have it in their invariants;   *)
(* the other panels need little more than their own types.                  *)

LEMMA CertificateWorks ==
  /\ Init => Certificate!WorkIsUnderWay
  /\ Certificate!WorkIsUnderWay /\ [Certificate!Next]_certificateVars => Certificate!WorkIsUnderWay'
<1>1. Init => Certificate!WorkIsUnderWay
  BY DEF Init, Certificate!Init, Certificate!WorkIsUnderWay
<1>2. ASSUME Certificate!WorkIsUnderWay, [Certificate!Next]_certificateVars
      PROVE  Certificate!WorkIsUnderWay'
  <2>1. \/ UNCHANGED <<uploadState, uploads>>
        \/ uploadState' # "running"
        \/ \E u : uploads' = uploads \cup {u}
    BY <1>2 DEF Certificate!Next, certificateVars, Certificate!Expand, Certificate!OpenDialog,
       Certificate!Type, Certificate!Cancel, Certificate!Apply, Certificate!Reload,
       Certificate!Choose, Certificate!Read, Certificate!Accepted, Certificate!Refused
  <2>. QED  BY <1>2, <2>1 DEF Certificate!WorkIsUnderWay
<1>. QED  BY <1>1, <1>2

\* The answers of older loads bring rankings, too.
InsightsInv ==
    /\ rankings \in Nat \ {0}
    /\ loads \in [Load -> [at : {"idle", "asked", "answered"}, data : Nat]]
    /\ \A l \in Load : loads[l].at = "answered" => loads[l].data # 0
    /\ Insights!WorkIsUnderWay

LEMMA InsightsInit == Init => InsightsInv
<1>. SUFFICES ASSUME Insights!Init PROVE InsightsInv
  BY DEF Init
<1>. DEFINE first == CHOOSE l \in Load : TRUE
<1>1. first \in Load
  BY AdminAssumption
<1>2. loads = [[l \in Load |-> Insights!IdleLoad] EXCEPT ![first] = Insights!AskedLoad]
  BY DEF Insights!Init
<1>. HIDE DEF first
<1>3. \A l \in Load : loads[l] = IF l = first THEN Insights!AskedLoad ELSE Insights!IdleLoad
  BY <1>2
<1>4. loads \in [Load -> [at : {"idle", "asked", "answered"}, data : Nat]]
  BY <1>2 DEF Insights!IdleLoad, Insights!AskedLoad, Insights!NoData
<1>. QED
  BY <1>1, <1>3, <1>4 DEF InsightsInv, Insights!Init, Insights!WorkIsUnderWay,
     Insights!IdleLoad, Insights!AskedLoad

LEMMA InsightsStep ==
  ASSUME InsightsInv, [Insights!Next]_insightsVars
  PROVE  InsightsInv'
<1>. USE DEF InsightsInv, Insights!WorkIsUnderWay, Insights!IdleLoad, Insights!AskedLoad,
             Insights!NoData
<1>1. CASE Insights!RankingsChange \/ UNCHANGED insightsVars
  BY <1>1 DEF Insights!RankingsChange, insightsVars
<1>2. ASSUME NEW l \in Load, Insights!GetDnsInsights(l) PROVE InsightsInv'
  <2>1. PICK d \in 1 .. rankings : loads' = [loads EXCEPT ![l] = [at |-> "answered", data |-> d]]
    BY <1>2 DEF Insights!GetDnsInsights
  <2>2. d \in Nat /\ d # 0
    BY <2>1
  <2>3. loads'[l] = [at |-> "answered", data |-> d] /\ \A m \in Load \ {l} : loads'[m] = loads[m]
    BY <2>1
  <2>4. loads' \in [Load -> [at : {"idle", "asked", "answered"}, data : Nat]]
    BY <2>1, <2>2
  <2>5. UNCHANGED <<rankings, data, loadErr>>
    BY <1>2 DEF Insights!GetDnsInsights
  <2>. QED  BY <2>2, <2>3, <2>4, <2>5
<1>3. ASSUME NEW l \in Load, Insights!Reload(l) PROVE InsightsInv'
  BY <1>3 DEF Insights!Reload
<1>4. ASSUME NEW l \in Load, Insights!Loaded(l) PROVE InsightsInv'
  BY <1>4 DEF Insights!Loaded
<1>5. ASSUME NEW l \in Load, Insights!NotLoaded(l) PROVE InsightsInv'
  BY <1>5 DEF Insights!NotLoaded
<1>. QED  BY <1>1, <1>2, <1>3, <1>4, <1>5 DEF Insights!Next

\* A request of a button is what makes it "running", and ends it.
ButtonsInv ==
    /\ acting \in [QuickAction \cup Button -> Nat]
    /\ button = [b \in Button |-> button[b]]
    /\ Live!WorkIsUnderWay

LEMMA ButtonsInit == Init => ButtonsInv
  BY DEF Init, Live!Init, ButtonsInv, Live!WorkIsUnderWay

LEMMA ButtonsStep ==
  ASSUME ButtonsInv, [Live!Next]_liveVars
  PROVE  ButtonsInv'
<1>. DEFINE Action == QuickAction \cup Button
<1>1. /\ acting \in [Action -> Nat] /\ QuickAction \subseteq Action /\ Button \subseteq Action
      /\ \A b \in Button : b \notin QuickAction
      /\ quick = "running" => \E a \in QuickAction : acting[a] > 0
      /\ \A b \in Button : button[b] = "running" => acting[b] > 0
  BY AdminAssumption DEF ButtonsInv, Live!WorkIsUnderWay
<1>2. ASSUME acting' \in [Action -> Nat], button' = [b \in Button |-> button'[b]],
             quick' = "running" => \E a \in QuickAction : acting'[a] > 0,
             \A b \in Button : button'[b] = "running" => acting'[b] > 0
      PROVE  ButtonsInv'
  BY <1>2 DEF ButtonsInv, Live!WorkIsUnderWay
<1>3. button = [b \in Button |-> button[b]]
  BY DEF ButtonsInv
<1>. HIDE DEF Action
<1>4. ASSUME NEW a \in QuickAction, Live!Run(a) PROVE ButtonsInv'
  <2>1. /\ acting' = [acting EXCEPT ![a] = @ + 1] /\ UNCHANGED button
    BY <1>4 DEF Live!Run
  <2>2. /\ acting' \in [Action -> Nat] /\ acting'[a] > 0 /\ \A b \in Button : acting'[b] = acting[b]
    BY <1>1, <2>1, Counting
  <2>. QED  BY <1>1, <1>2, <1>3, <2>1, <2>2
<1>5. ASSUME NEW a \in QuickAction, Live!RunEnds(a) PROVE ButtonsInv'
  <2>1. /\ acting[a] > 0 /\ acting' = [acting EXCEPT ![a] = @ - 1] /\ quick' = "over"
        /\ UNCHANGED button
    BY <1>5 DEF Live!RunEnds
  <2>2. acting' \in [Action -> Nat] /\ \A b \in Button : acting'[b] = acting[b]
    BY <1>1, <2>1, Counting
  <2>. QED  BY <1>1, <1>2, <1>3, <2>1, <2>2
<1>6. ASSUME NEW b \in Button, Live!Handle(b) PROVE ButtonsInv'
  <2>1. /\ acting' = [acting EXCEPT ![b] = @ + 1] /\ UNCHANGED quick
        /\ button' = [button EXCEPT ![b] = "running"]
    BY <1>6 DEF Live!Handle
  <2>2. /\ acting' \in [Action -> Nat] /\ acting'[b] > 0 /\ \A a \in Action \ {b} : acting'[a] = acting[a]
    BY <1>1, <2>1, Counting
  <2>3. /\ button' = [c \in Button |-> button'[c]] /\ \A c \in Button \ {b} : button'[c] = button[c]
    BY <1>3, <2>1
  <2>. QED  BY <1>1, <1>2, <2>1, <2>2, <2>3
<1>7. ASSUME NEW b \in Button, Live!HandleEnds(b) PROVE ButtonsInv'
  <2>1. /\ acting[b] > 0 /\ acting' = [acting EXCEPT ![b] = @ - 1] /\ UNCHANGED quick
        /\ \E st \in {"idle", "over"} : button' = [button EXCEPT ![b] = st]
    BY <1>7 DEF Live!HandleEnds
  <2>2. /\ acting' \in [Action -> Nat] /\ \A a \in Action \ {b} : acting'[a] = acting[a]
    BY <1>1, <2>1, Counting
  <2>3. /\ button' = [c \in Button |-> button'[c]] /\ button'[b] # "running"
        /\ \A c \in Button \ {b} : button'[c] = button[c]
    BY <1>3, <2>1
  <2>. QED  BY <1>1, <1>2, <2>1, <2>2, <2>3
<1>8. ASSUME NEW b \in Button, Live!Timer(b) PROVE ButtonsInv'
  <2>1. UNCHANGED <<quick, acting>> /\ button' = [button EXCEPT ![b] = "idle"]
    BY <1>8 DEF Live!Timer
  <2>2. /\ button' = [c \in Button |-> button'[c]] /\ button'[b] # "running"
        /\ \A c \in Button \ {b} : button'[c] = button[c]
    BY <1>3, <2>1
  <2>. QED  BY <1>1, <1>2, <2>1, <2>2
<1>9. ASSUME UNCHANGED <<acting, button>>, quick' \in {quick, "idle"} PROVE ButtonsInv'
  BY <1>1, <1>2, <1>3, <1>9
<1>10. CASE Live!QuickTimer \/ Live!Changes \/ Live!GoesSilent \/ Live!Tick \/ Live!Deadline
            \/ UNCHANGED liveVars
  BY <1>9, <1>10 DEF Live!QuickTimer, Live!Changes, Live!GoesSilent, Live!Tick, Live!Deadline,
     Live!buttons, liveVars
<1>11. ASSUME NEW p \in Poll, Live!Answers(p) \/ Live!Arrives(p) \/ Live!Fails(p) PROVE ButtonsInv'
  BY <1>9, <1>11 DEF Live!Answers, Live!Arrives, Live!Fails, Live!buttons
<1>12. CASE Live!Remount
  <2>1. acting' = [a \in QuickAction \cup Button |-> 0] /\ quick' = "idle"
    BY <1>12 DEF Live!Remount
  <2>2. button' = [b \in Button |-> "idle"]
    BY <1>12 DEF Live!Remount
  <2>. QED  BY <2>1, <2>2 DEF ButtonsInv, Live!WorkIsUnderWay
<1>. QED  BY <1>4, <1>5, <1>6, <1>7, <1>8, <1>10, <1>11, <1>12 DEF Live!Next

\* Only values are written, read and typed: a configuration that is there is not the
\* one that is missing.
ValuesInv ==
    /\ env \in [Key -> Value] /\ config \in [Key -> Value] \cup {Parameters!Loading}
    /\ \A k \in Key : IF Parameters!Loaded THEN rows[k].draft \in Value ELSE ~rows[k].editing
    /\ \A r \in saves : /\ r.at = "asked" => r.value \in Value
                        /\ r.at = "read" => r.answer \in [Key -> Value]

\* A save is a record, whatever it carries.
SavesInv ==
    /\ RowsInv /\ ValuesInv
    /\ \A r \in saves : r = [keys |-> r.keys, value |-> r.value, at |-> r.at,
                             answer |-> r.answer, row |-> r.row]
    /\ Parameters!WorkIsUnderWay

LEMMA ValuesAreLoaded == \A f \in [Key -> Value] : f # Parameters!Loading
<1>. SUFFICES ASSUME NEW f \in [Key -> Value], f = Parameters!Loading PROVE FALSE
  OBVIOUS
<1>1. PICK k \in Key : TRUE
  BY AdminAssumption
<1>2. f[k] = "loading" /\ f[k] \in Value
  BY <1>1 DEF Parameters!Loading
<1>. QED  BY <1>2, AdminAssumption

LEMMA SavesInit == Init => SavesInv
<1>. SUFFICES ASSUME Parameters!Init PROVE SavesInv
  BY DEF Init
<1>1. RowsInv
  BY DEF Parameters!Init, RowsInv, Parameters!Row
<1>2. \A k \in Key : rows[k].save = "idle" /\ ~rows[k].editing
  BY DEF Parameters!Init, Parameters!Row
<1>3. env \in [Key -> Value]
  <2>1. (CHOOSE v \in Value : TRUE) \in Value
    BY AdminAssumption
  <2>. QED  BY <2>1 DEF Parameters!Init
<1>4. /\ saves = {Parameters!OnMount} /\ config = Parameters!Loading
      /\ Parameters!OnMount.at = "written" /\ Parameters!IsLoad(Parameters!OnMount)
  BY DEF Parameters!Init, Parameters!OnMount, Parameters!IsLoad
<1>5. ValuesInv
  BY <1>2, <1>3, <1>4 DEF ValuesInv, Parameters!Loaded
<1>. QED
  BY <1>1, <1>2, <1>4, <1>5 DEF SavesInv, Parameters!OnMount, Parameters!WorkIsUnderWay

LEMMA ValuesStep ==
  ASSUME RowsInv, ValuesInv, [Parameters!Next]_parametersVars,
         \A r \in saves : r = [keys |-> r.keys, value |-> r.value, at |-> r.at,
                               answer |-> r.answer, row |-> r.row]
  PROVE  ValuesInv'
<1>. USE DEF ValuesInv, Parameters!Loaded
<1>r. /\ rows = [k \in Key |-> rows[k]]
      /\ \A k \in Key : rows[k] = [editing |-> rows[k].editing, draft |-> rows[k].draft,
                                   save |-> rows[k].save]
  BY DEF RowsInv
<1>1. ASSUME NEW k \in Key, NEW v \in Value, Parameters!OthersWrite(k, v) PROVE ValuesInv'
  BY <1>1 DEF Parameters!OthersWrite
<1>2. ASSUME NEW k \in Key, NEW v \in Value, Parameters!Type(k, v) PROVE ValuesInv'
  BY <1>r, <1>2 DEF Parameters!Type
<1>3. ASSUME NEW k \in Key, Parameters!Edit(k) PROVE ValuesInv'
  BY <1>r, <1>3 DEF Parameters!Edit
<1>4. ASSUME NEW k \in Key, Parameters!Submit(k) PROVE ValuesInv'
  <2>. DEFINE new == Parameters!Save(k, rows[k].draft)
  <2>1. /\ saves' = saves \cup {new} /\ rows' = [rows EXCEPT ![k].save = "saving"]
        /\ UNCHANGED <<env, config>> /\ rows[k].draft \in Value
    BY <1>4 DEF Parameters!Submit
  <2>2. new.value \in Value /\ new.at = "asked"
    BY <2>1 DEF Parameters!Save
  <2>. HIDE DEF new
  <2>3. \A j \in Key : rows'[j].draft = rows[j].draft /\ rows'[j].editing = rows[j].editing
    BY <1>r, <2>1
  <2>. QED  BY <2>1, <2>2, <2>3
<1>5. ASSUME NEW k \in Key, Parameters!Cancel(k) PROVE ValuesInv'
  BY <1>r, <1>5 DEF Parameters!Cancel, Parameters!Row
<1>6. CASE Parameters!Collapse
  <2>1. /\ saves' = {[r EXCEPT !.row = FALSE] : r \in saves} /\ UNCHANGED <<env, config>>
        /\ \A k \in Key : rows'[k].draft = config[k] /\ config # Parameters!Loading
    BY <1>6 DEF Parameters!Collapse, Parameters!Row
  <2>2. \A r \in saves : LET t == [r EXCEPT !.row = FALSE] IN
                           t.at = r.at /\ t.value = r.value /\ t.answer = r.answer
    OBVIOUS
  <2>. QED  BY <2>1, <2>2
<1>7. ASSUME NEW r \in saves, Parameters!SetConfigValue(r) PROVE ValuesInv'
  <2>. DEFINE t == [r EXCEPT !.at = "written"]
  <2>1. saves' = (saves \ {r}) \cup {t} /\ UNCHANGED <<config, rows>>
    BY <1>7 DEF Parameters!SetConfigValue
  <2>2. t.at = "written"
    OBVIOUS
  <2>. HIDE DEF t
  <2>3. env' \in [Key -> Value]
    BY <1>7 DEF Parameters!SetConfigValue
  <2>. QED  BY <2>1, <2>2, <2>3
<1>8. ASSUME NEW r \in saves, Parameters!GetConfigValues(r) PROVE ValuesInv'
  <2>. DEFINE t == [r EXCEPT !.at = "read", !.answer = env]
  <2>1. saves' = (saves \ {r}) \cup {t} /\ UNCHANGED <<env, config, rows>>
    BY <1>8 DEF Parameters!GetConfigValues
  <2>2. t.at = "read" /\ t.answer = env
    OBVIOUS
  <2>. HIDE DEF t
  <2>. QED  BY <2>1, <2>2
<1>9. ASSUME NEW r \in saves, Parameters!Answered(r) PROVE ValuesInv'
  <2>1. /\ config' = r.answer /\ saves' = saves \ {r} /\ UNCHANGED env
        /\ rows' = [k \in Key |-> IF r.row /\ k \in r.keys THEN Parameters!Row(r.answer[k])
                                  ELSE Parameters!Follow(rows[k], r.answer[k])]
    BY <1>9 DEF Parameters!Answered, Parameters!Follows
  <2>2. r.answer \in [Key -> Value] /\ r.answer # Parameters!Loading
    BY <1>9, ValuesAreLoaded DEF Parameters!Answered
  <2>3. ASSUME NEW k \in Key PROVE rows'[k].draft \in Value
    <3>1. Parameters!Row(r.answer[k]).draft \in Value
      BY <2>2 DEF Parameters!Row
    <3>2. rows[k].editing => rows[k].draft \in Value
      BY <1>r
    <3>3. Parameters!Follow(rows[k], r.answer[k]).draft \in Value
      <4>1. [rows[k] EXCEPT !.draft = r.answer[k]].draft = r.answer[k]
        BY <1>r
      <4>. QED  BY <2>2, <3>2, <4>1 DEF Parameters!Follow
    <3>. QED  BY <2>1, <3>1, <3>3
  <2>. QED  BY <2>1, <2>2, <2>3
<1>10. ASSUME NEW r \in saves, Parameters!NotAnswered(r) PROVE ValuesInv'
  <2>1. /\ saves' = saves \ {r} /\ UNCHANGED <<env, config>>
        /\ \A k \in Key : rows'[k].draft = rows[k].draft /\ rows'[k].editing = rows[k].editing
    BY <1>r, <1>10 DEF Parameters!NotAnswered
  <2>. QED  BY <2>1
<1>11. CASE Parameters!Expand \/ UNCHANGED parametersVars
  BY <1>11 DEF Parameters!Expand, parametersVars
<1>. QED
  BY <1>1, <1>2, <1>3, <1>4, <1>5, <1>6, <1>7, <1>8, <1>9, <1>10, <1>11 DEF Parameters!Next

LEMMA SavesStep ==
  ASSUME SavesInv, [Parameters!Next]_parametersVars
  PROVE  SavesInv'
<1>. DEFINE IsSave(r) == r = [keys |-> r.keys, value |-> r.value, at |-> r.at,
                              answer |-> r.answer, row |-> r.row]
            Waits(k, S) == \E r \in S : r.row /\ k \in r.keys
            Loads(S) == \E r \in S : r.value = "loading"
            Excused == config # Parameters!Loading \/ configErr
<1>1. RowsInv' /\ RowsInv /\ ValuesInv /\ ValuesInv'
  BY RowsStep, ValuesStep DEF SavesInv
<1>2. /\ \A r \in saves : IsSave(r)
      /\ \A k \in Key : rows[k].save = "saving" => Waits(k, saves)
      /\ Excused \/ Loads(saves)
  BY DEF SavesInv, Parameters!WorkIsUnderWay, Parameters!Loaded, Parameters!IsLoad
<1>3. ASSUME \A r \in saves' : IsSave(r),
             \A k \in Key : rows'[k].save = "saving" => Waits(k, saves'),
             Excused' \/ Loads(saves')
      PROVE  SavesInv'
  BY <1>1, <1>3 DEF SavesInv, Parameters!WorkIsUnderWay, Parameters!Loaded, Parameters!IsLoad
\* A save goes on: it keeps its row, its keys and its value.
<1>4. ASSUME NEW r \in saves, NEW t, IsSave(t), t.keys = r.keys, t.row = r.row, t.value = r.value,
             saves' = (saves \ {r}) \cup {t}, UNCHANGED <<rows, config, configErr>>
      PROVE  SavesInv'
  BY <1>2, <1>3, <1>4
<1>5. ASSUME NEW r \in saves, Parameters!SetConfigValue(r) \/ Parameters!GetConfigValues(r)
      PROVE  SavesInv'
  <2>1. PICK t \in {[r EXCEPT !.at = "written"], [r EXCEPT !.at = "read", !.answer = env]} :
          saves' = (saves \ {r}) \cup {t} /\ UNCHANGED <<rows, config, configErr>>
    BY <1>5 DEF Parameters!SetConfigValue, Parameters!GetConfigValues
  <2>2. IsSave(t) /\ t.keys = r.keys /\ t.row = r.row /\ t.value = r.value
    BY <1>2
  <2>. QED  BY <1>4, <2>1, <2>2
\* A save ends: a row that waited for it does not say "saving" any more; and a load
\* leaves a configuration or its error.
<1>6. ASSUME NEW r \in saves, Parameters!Answered(r) \/ Parameters!NotAnswered(r)
      PROVE  SavesInv'
  <2>1. saves' = saves \ {r}
    BY <1>6 DEF Parameters!Answered, Parameters!NotAnswered
  <2>2. ASSUME NEW k \in Key, rows'[k].save = "saving"
        PROVE  rows[k].save = "saving" /\ ~(r.row /\ k \in r.keys)
    BY <1>1, <1>6, <2>2
    DEF Parameters!Answered, Parameters!NotAnswered, Parameters!Row, Parameters!Follows,
        Parameters!Follow, RowsInv
  <2>3. ASSUME NEW k \in Key, rows'[k].save = "saving" PROVE Waits(k, saves')
    BY <1>2, <2>1, <2>2, <2>3
  <2>4. Excused' \/ Loads(saves')
    <3>1. CASE Parameters!Answered(r)
      BY <1>1, <3>1, ValuesAreLoaded DEF Parameters!Answered, ValuesInv
    <3>2. CASE Parameters!NotAnswered(r)
      <4>1. configErr' = (configErr \/ r.value = "loading") /\ config' = config
        BY <3>2 DEF Parameters!NotAnswered, Parameters!IsLoad
      <4>. QED  BY <1>2, <2>1, <4>1
    <3>. QED  BY <1>6, <3>1, <3>2
  <2>. QED  BY <1>2, <1>3, <2>1, <2>3, <2>4
\* Only a row that is pressed begins to say "saving".
<1>7. ASSUME UNCHANGED <<saves, config, configErr>>,
             \A k \in Key : rows'[k].save = "saving" => rows[k].save = "saving"
      PROVE  SavesInv'
  BY <1>2, <1>3, <1>7
<1>8. ASSUME NEW k \in Key, NEW v \in Value, Parameters!OthersWrite(k, v) \/ Parameters!Type(k, v)
      PROVE  SavesInv'
  BY <1>1, <1>7, <1>8 DEF Parameters!OthersWrite, Parameters!Type, RowsInv
<1>9. ASSUME NEW k \in Key, Parameters!Edit(k) \/ Parameters!Cancel(k) PROVE SavesInv'
  BY <1>1, <1>7, <1>9 DEF Parameters!Edit, Parameters!Cancel, Parameters!Row, RowsInv
<1>10. ASSUME NEW k \in Key, Parameters!Submit(k) PROVE SavesInv'
  <2>. DEFINE new == Parameters!Save(k, rows[k].draft)
  <2>1. /\ saves' = saves \cup {new} /\ rows' = [rows EXCEPT ![k].save = "saving"]
        /\ UNCHANGED <<config, configErr>>
    BY <1>10 DEF Parameters!Submit
  <2>2. IsSave(new) /\ new.row /\ k \in new.keys
    BY DEF Parameters!Save
  <2>. HIDE DEF new
  <2>3. \A j \in Key \ {k} : rows'[j] = rows[j]
    BY <1>1, <2>1 DEF RowsInv
  <2>4. ASSUME NEW j \in Key, rows'[j].save = "saving" PROVE Waits(j, saves')
    BY <1>2, <2>1, <2>2, <2>3, <2>4
  <2>. QED  BY <1>2, <1>3, <2>1, <2>2, <2>4
<1>11. CASE Parameters!Collapse
  <2>1. (\A k \in Key : rows'[k].save = "idle") /\ Excused'
    BY <1>11 DEF Parameters!Collapse, Parameters!Row, Parameters!Loaded
  <2>2. saves' = {[r EXCEPT !.row = FALSE] : r \in saves}
    BY <1>11 DEF Parameters!Collapse
  <2>3. ASSUME NEW r \in saves PROVE IsSave([r EXCEPT !.row = FALSE])
    <3>1. IsSave(r)
      BY <1>2
    <3>. DEFINE t == [r EXCEPT !.row = FALSE]
    <3>2. t \in [keys : {r.keys}, value : {r.value}, at : {r.at}, answer : {r.answer}, row : {FALSE}]
      BY <3>1
    <3>. HIDE DEF t
    <3>3. IsSave(t)
      BY <3>2
    <3>. QED  BY <3>3 DEF t
  <2>. QED  BY <1>3, <2>1, <2>2, <2>3
<1>12. CASE Parameters!Expand \/ UNCHANGED parametersVars
  BY <1>7, <1>12 DEF Parameters!Expand, parametersVars
<1>. QED  BY <1>5, <1>6, <1>8, <1>9, <1>10, <1>11, <1>12 DEF Parameters!Next

\* The switches share one "pending", the tests of one button a count.
AlertsInv ==
    /\ \A r \in toggles : r = [channel |-> r.channel, to |-> r.to, answer |-> r.answer]
    /\ testing \in Nat /\ alertsLoading \in BOOLEAN
    /\ Alerts!WorkIsUnderWay

LEMMA AlertsInit == Init => AlertsInv
<1>. SUFFICES ASSUME Alerts!Init PROVE AlertsInv
  BY DEF Init
<1>1. toggles = {Alerts!First} /\ pending = Alerts!NoChannel /\ alertsLoading = TRUE
      /\ test = "idle" /\ testing = 0
  BY DEF Alerts!Init
<1>2. \A r \in toggles : r = [channel |-> r.channel, to |-> r.to, answer |-> r.answer]
                        /\ r.channel = Alerts!NoChannel
  BY <1>1 DEF Alerts!First, Alerts!Request
<1>3. \E r \in toggles : r.channel = Alerts!NoChannel
  BY <1>1, <1>2
<1>. QED  BY <1>1, <1>2, <1>3 DEF AlertsInv, Alerts!WorkIsUnderWay

LEMMA AlertsStep ==
  ASSUME AlertsInv, [Alerts!Next]_alertsVars
  PROVE  AlertsInv'
<1>. DEFINE IsRequest(r) == r = [channel |-> r.channel, to |-> r.to, answer |-> r.answer]
            Asks(c, S) == \E r \in S : r.channel = c
<1>1. /\ \A r \in toggles : IsRequest(r)
      /\ pending # Alerts!NoChannel => Asks(pending, toggles)
      /\ alertsLoading => Asks(Alerts!NoChannel, toggles)
      /\ Alerts!SaysLoading => alertsLoading \/ alertsFailed
      /\ testing \in Nat /\ alertsLoading \in BOOLEAN /\ (test = "running" => testing > 0)
  BY DEF AlertsInv, Alerts!WorkIsUnderWay
\* The list, while the test button is left alone.
<1>2. ASSUME \A r \in toggles' : IsRequest(r),
             pending' # Alerts!NoChannel => Asks(pending', toggles'),
             alertsLoading' => Asks(Alerts!NoChannel, toggles'),
             Alerts!SaysLoading' => alertsLoading' \/ alertsFailed',
             alertsLoading' \in BOOLEAN, UNCHANGED Alerts!tests
      PROVE  AlertsInv'
  BY <1>1, <1>2 DEF AlertsInv, Alerts!WorkIsUnderWay, Alerts!tests
\* The test button, while the list is left alone.
<1>3. ASSUME UNCHANGED Alerts!list, testing' \in Nat, test' = "running" => testing' > 0
      PROVE  AlertsInv'
  BY <1>3 DEF AlertsInv, Alerts!WorkIsUnderWay, Alerts!SaysLoading, Alerts!list
<1>4. ASSUME NEW c \in Configured, Alerts!OthersSet(c) PROVE AlertsInv'
  BY <1>1, <1>3, <1>4 DEF Alerts!OthersSet, Alerts!tests
<1>5. ASSUME NEW c \in Configured, Alerts!Toggle(c) PROVE AlertsInv'
  <2>. DEFINE new == Alerts!Request(c, Alerts!Switched(channels[c]))
  <2>1. /\ toggles' = toggles \cup {new} /\ pending' = c
        /\ UNCHANGED <<channels, alertsFailed, alertsLoading, Alerts!tests>>
    BY <1>5 DEF Alerts!Toggle
  <2>2. IsRequest(new) /\ new.channel = c
    BY DEF Alerts!Request
  <2>. HIDE DEF new
  <2>. QED  BY <1>1, <1>2, <2>1, <2>2 DEF Alerts!SaysLoading
<1>6. ASSUME NEW r \in toggles, Alerts!SetNotificationChannel(r) PROVE AlertsInv'
  <2>. DEFINE t == [r EXCEPT !.answer = enabled']
  <2>1. /\ toggles' = (toggles \ {r}) \cup {t}
        /\ UNCHANGED <<channels, alertsFailed, pending, alertsLoading, Alerts!tests>>
    BY <1>6 DEF Alerts!SetNotificationChannel
  <2>2. IsRequest(t) /\ t.channel = r.channel
    <3>1. t = [channel |-> r.channel, to |-> r.to, answer |-> enabled']
      BY <1>1
    <3>. QED  BY <3>1
  <2>. HIDE DEF t
  <2>3. \A c : Asks(c, toggles) => Asks(c, toggles')
    BY <2>1, <2>2
  <2>. QED  BY <1>1, <1>2, <2>1, <2>2, <2>3 DEF Alerts!SaysLoading
<1>7. ASSUME NEW r \in toggles, Alerts!Answered(r) \/ Alerts!NotAnswered(r) PROVE AlertsInv'
  <2>1. /\ toggles' = toggles \ {r} /\ UNCHANGED Alerts!tests
        /\ IF r.channel = Alerts!NoChannel THEN alertsLoading' = FALSE /\ UNCHANGED pending
                                    ELSE pending' = Alerts!NoChannel /\ UNCHANGED alertsLoading
    BY <1>7 DEF Alerts!Answered, Alerts!NotAnswered, Alerts!Over
  <2>2. \A c : Asks(c, toggles) /\ c # r.channel => Asks(c, toggles')
    BY <2>1
  <2>3. Alerts!SaysLoading' => alertsFailed'
    BY <1>7 DEF Alerts!Answered, Alerts!NotAnswered, Alerts!IsServed, Alerts!SaysLoading
  <2>. QED  BY <1>1, <1>2, <2>1, <2>2, <2>3
<1>8. CASE Alerts!HandleTest \/ Alerts!TestEnds \/ Alerts!TestTimer
  BY <1>1, <1>3, <1>8 DEF Alerts!HandleTest, Alerts!TestEnds, Alerts!TestTimer
<1>9. CASE UNCHANGED alertsVars
  BY <1>1, <1>3, <1>9 DEF alertsVars, Alerts!list
<1>. QED  BY <1>4, <1>5, <1>6, <1>7, <1>8, <1>9 DEF Alerts!Next

\* The button "create" waits for its own request, not for the list after it; a dialog
\* for the list as well.
CreationIsAsked ==
    /\ BackupsInv
    /\ create = "running" => Backups!Creation \in handlers
    /\ loading => \E r \in handlers : r.at = "listing"
    /\ \A k \in {"delete", "restore"} : dialogs[k].running => Backups!Of(k) # {}

LEMMA CreationInit == Init => CreationIsAsked
<1>. SUFFICES ASSUME Init PROVE CreationIsAsked
  OBVIOUS
<1>. QED
  BY BackupsInit DEF Init, Backups!Init, Backups!Kind, Backups!Closed, Backups!First,
     Backups!Request, CreationIsAsked

LEMMA CreationStep ==
  ASSUME CreationIsAsked, [Backups!Next]_backupsVars
  PROVE  CreationIsAsked'
<1>. DEFINE Kinds == {"delete", "restore"}
<1>1. /\ BackupsInv' /\ BackupsInv
      /\ create = "running" => Backups!Creation \in handlers
      /\ \A k \in Kinds : dialogs[k].running => \E r \in handlers : r.kind = k
      /\ loading => \E r \in handlers : r.at = "listing"
  BY BackupsStep DEF CreationIsAsked, Backups!Of
<1>2. ASSUME create' = "running" => Backups!Creation \in handlers',
             \A k \in Kinds : dialogs'[k].running => \E r \in handlers' : r.kind = k,
             loading' => \E r \in handlers' : r.at = "listing"
      PROVE  CreationIsAsked'
  BY <1>1, <1>2 DEF CreationIsAsked, Backups!Of
<1>3. /\ dialogs \in [Kinds -> Dialog(Target)] /\ handlers \in SUBSET Handler
  BY <1>1 DEF BackupsInv
<1>4. Backups!Creation.kind = "create" /\ Backups!First.kind = "load"
  BY DEF Backups!Creation, Backups!First, Backups!Request
\* Steps of the button and of the list: no request of a dialog comes or goes.
<1>5. ASSUME UNCHANGED dialogs, \A r \in handlers : r.kind \in Kinds => r \in handlers',
             create' = "running" => Backups!Creation \in handlers',
             loading' => \E r \in handlers' : r.at = "listing"
      PROVE  CreationIsAsked'
  BY <1>1, <1>2, <1>5
<1>6. CASE Backups!FirstLoaded \/ Backups!HandleCreate \/ Backups!CreateAnswered
           \/ Backups!CreateEnds \/ Backups!CreateFails \/ Backups!TimerFires
  <2>1. Backups!Listing(Backups!Creation).kind = "create" /\ Backups!Listing(Backups!Creation).at = "listing"
        /\ Backups!Creation.at = "asked"
    BY DEF Backups!Listing, Backups!Creation, Backups!Request
  <2>. QED
    BY <1>1, <1>4, <1>5, <1>6, <2>1
    DEF Backups!FirstLoaded, Backups!HandleCreate, Backups!CreateAnswered, Backups!CreateEnds,
        Backups!CreateFails, Backups!TimerFires, Backups!Loads
\* Steps of one dialog.
<1>7. ASSUME NEW k \in Kinds, NEW e, dialogs' = [dialogs EXCEPT ![k] = e], UNCHANGED create,
             \A r \in handlers : r.kind # k => r \in handlers',
             e.running => \E r \in handlers' : r.kind = k,
             loading' => \E r \in handlers' : r.at = "listing"
      PROVE  CreationIsAsked'
  BY <1>1, <1>2, <1>3, <1>4, <1>7
<1>8. ASSUME NEW k \in Kinds, NEW a \in Archive, Backups!OpenDialog(k, a) PROVE CreationIsAsked'
  <2>1. dialogs' = [dialogs EXCEPT ![k] = IF Backups!IsOpen(@) THEN Backups!Retarget(@, a)
                                          ELSE Backups!Open(@, a)]
        /\ UNCHANGED <<handlers, create, loading>>
    BY <1>8 DEF Backups!OpenDialog
  <2>2. /\ Backups!Retarget(dialogs[k], a).running = dialogs[k].running
        /\ ~Backups!Open(dialogs[k], a).running
    BY <1>3 DEF Backups!Retarget, Backups!Open, Backups!Closed, Dialog
  <2>. QED  BY <1>1, <1>7, <2>1, <2>2
<1>9. ASSUME NEW k \in Kinds, Backups!Type(k) \/ Backups!Cancel(k) PROVE CreationIsAsked'
  <2>1. Backups!TypeWord(dialogs[k]).running = dialogs[k].running
        /\ Backups!Close(dialogs[k]).running = dialogs[k].running
    BY <1>3 DEF Backups!TypeWord, Backups!Close, Dialog
  <2>. QED  BY <1>1, <1>7, <1>9, <2>1 DEF Backups!Type, Backups!Cancel
<1>10. ASSUME NEW k \in Kinds, Backups!Handle(k) PROVE CreationIsAsked'
  <2>. DEFINE r == Backups!Request(k, dialogs[k].target, Backups!TypedSince(dialogs[k]), "asked")
  <2>1. handlers' = handlers \cup {r} /\ r.kind = k
    BY <1>10 DEF Backups!Handle, Backups!Request
  <2>. QED  BY <1>1, <1>7, <1>10, <2>1 DEF Backups!Handle
<1>11. ASSUME NEW r \in handlers, Backups!Answered(r) PROVE CreationIsAsked'
  <2>1. Backups!Listing(r).kind = r.kind /\ Backups!Listing(r).at = "listing"
    BY <1>3 DEF Backups!Listing, Handler
  <2>. QED  BY <1>7, <1>11, <2>1 DEF Backups!Answered, Backups!Kind
<1>12. ASSUME NEW r \in handlers, Backups!Refused(r) \/ Backups!Ends(r) PROVE CreationIsAsked'
  <2>1. r.kind \in Kinds
    BY <1>12 DEF Backups!Refused, Backups!Ends, Backups!Kind
  <2>2. ~Backups!Finish(dialogs[r.kind]).running
    BY <1>3, <2>1 DEF Backups!Finish, Dialog
  <2>3. loading' => \E h \in handlers' : h.at = "listing"
    BY <1>1, <1>12 DEF Backups!Refused, Backups!Ends, Backups!Loads
  <2>. QED  BY <1>7, <1>12, <2>1, <2>2, <2>3 DEF Backups!Refused, Backups!Ends
<1>13. CASE UNCHANGED backupsVars
  BY <1>1, <1>5, <1>13 DEF backupsVars
<1>. QED
  BY <1>6, <1>8, <1>9, <1>10, <1>11, <1>12, <1>13 DEF Backups!Next, Backups!Kind

\* Every button, row, switch, dialog and list of the admin UI (Operate.tsx, Configure.tsx,
\* App.tsx) has a request under way while it says that it works; two places say "loading"
\* also after a load that failed.
THEOREM WorkIsAlwaysUnderWay == Spec => []WorkIsUnderWay
<1>. DEFINE Inv == /\ CreationIsAsked /\ SavesInv /\ BannerInv /\ Certificate!WorkIsUnderWay
                   /\ PasswordInv /\ ButtonsInv /\ ValidationInv /\ AlertsInv /\ InsightsInv
                   /\ WebAccessInv
<1>1. Init => Inv
  BY CreationInit, SavesInit, BannerInit, CertificateWorks, PasswordInit, ButtonsInit,
     ValidationInit, AlertsInit, InsightsInit, WebAccessInit
<1>2. Inv /\ [Next]_vars => Inv'
  BY StepOfPanels, CreationStep, SavesStep, BannerStep, CertificateWorks, PasswordStep,
     ButtonsStep, ValidationStep, AlertsStep, InsightsStep, WebAccessStep
<1>3. Inv => WorkIsUnderWay
  <2>1. BannerInv => Banner!WorkIsUnderWay
    <3>1. Banner!NoPut.field = "none"
      BY DEF Banner!NoPut
    <3>. QED  BY <3>1 DEF BannerInv, Banner!WorkIsUnderWay
  <2>2. PasswordInv => Secret!WorkIsUnderWay
    <3>1. Secret!NoRequest.at = "none"
      BY DEF Secret!NoRequest
    <3>. QED  BY <3>1 DEF PasswordInv, Secret!WorkIsUnderWay
  <2>3. ValidationInv => Validation!WorkIsUnderWay
    BY DEF ValidationInv, Validation!WorkIsUnderWay, Waited, Validation!NoRequest
  <2>4. CreationIsAsked => Backups!WorkIsUnderWay
    BY DEF CreationIsAsked, Backups!WorkIsUnderWay, Backups!SaysLoading, Backups!Kind, Backups!Of,
       Backups!Creation, Backups!Request
  <2>5. WebAccessInv => WebAccess!WorkIsUnderWay
    BY DEF WebAccessInv, WebAccess!WorkIsUnderWay, Mine
  <2>. QED
    BY <2>1, <2>2, <2>3, <2>4, <2>5 DEF SavesInv, ButtonsInv, AlertsInv, InsightsInv, WorkIsUnderWay
<1>. QED  BY <1>1, <1>2, <1>3, PTL DEF Spec
=============================================================================
