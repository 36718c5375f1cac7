-------------------------- MODULE HostInstallProofs ---------------------------
(***************************************************************************)
(* Proofs about HostInstall, for any number of launchers and installations: *)
(* a success on the page is a deployer's, and a deployer runs at most once  *)
(* per request.                                                             *)
(***************************************************************************)
EXTENDS HostInstall, FiniteSetTheorems, TLAPS

Launchers == [at : LauncherPlaces, token : 0 .. Sessions, id : Ids, ok : BOOLEAN]

\* The runners that have taken a request and not begun to deploy it.
Claiming == {s \in 1 .. Sessions : launcher[s].at = "claim"}

\* The threads of a service are gone with its container.
PostsAreServed == posts # {} => container # 0

\* The service never sets an Advanced success itself: that is the host's to report.
AdvancedIsRunning == wizard.edition = "advanced" => wizard.status = "running"

\* A success is reported of a request whose deployer exited with 0, by the runner
\* that waited for it, and in the status file.
SuccessIsReported ==
    /\ \A s \in 1 .. Sessions :
         launcher[s].at = "report" /\ launcher[s].ok => launcher[s].id \in succeeded
    /\ statusFile.status = "success" => statusFile.id \in succeeded

IInv ==
    /\ TypeOK /\ PostsAreServed /\ AdvancedIsRunning /\ SuccessIsReported
    /\ NoUnaskedDeployment

-----------------------------------------------------------------------------
(* Counting the runners that have taken a request *)

LEMMA ClaimingIsFinite ==
  /\ IsFiniteSet(Claiming) /\ Cardinality(Claiming) \in Nat
  /\ IsFiniteSet(Claiming') /\ Cardinality(Claiming') \in Nat
<1>1. IsFiniteSet(1 .. Sessions)
  BY HostAssumption, FS_Interval
<1>2. Claiming \subseteq 1 .. Sessions /\ Claiming' \subseteq 1 .. Sessions
  BY DEF Claiming
<1>. QED  BY <1>1, <1>2, FS_Subset, FS_CardinalityType

\* One launcher moves.
LEMMA OneMoves ==
  ASSUME NEW s \in 1 .. Sessions, \A q \in (1 .. Sessions) \ {s} : launcher'[q] = launcher[q]
  PROVE  /\ launcher'[s].at # "claim" => Cardinality(Claiming') <= Cardinality(Claiming)
         /\ launcher'[s].at # "claim" /\ launcher[s].at = "claim"
              => Cardinality(Claiming') = Cardinality(Claiming) - 1
         /\ launcher'[s].at = "claim" /\ launcher[s].at # "claim"
              => Cardinality(Claiming') = Cardinality(Claiming) + 1
<1>1. CASE launcher'[s].at # "claim"
  <2>1. Claiming' = Claiming \ {s}
    BY <1>1 DEF Claiming
  <2>2. s \in Claiming <=> launcher[s].at = "claim"
    BY DEF Claiming
  <2>3. s \in Claiming => Cardinality(Claiming \ {s}) = Cardinality(Claiming) - 1
    BY ClaimingIsFinite, FS_RemoveElement
  <2>4. s \notin Claiming => Claiming \ {s} = Claiming
    OBVIOUS
  <2>. QED  BY <1>1, <2>1, <2>2, <2>3, <2>4, ClaimingIsFinite
<1>2. CASE launcher'[s].at = "claim" /\ launcher[s].at # "claim"
  <2>1. Claiming' = Claiming \cup {s} /\ s \notin Claiming
    BY <1>2 DEF Claiming
  <2>. QED  BY <1>2, <2>1, ClaimingIsFinite, FS_AddElement
<1>. QED  BY <1>1, <1>2

\* Deployments, runners about to begin one and the request file against the requests
\* that were written.
Owed == started + Cardinality(Claiming) + (IF request = NoRequest THEN 0 ELSE 1)

LEMMA OwedIs == NoUnaskedDeployment <=> Owed <= written
  BY DEF NoUnaskedDeployment, Owed, Claiming

LEMMA InitIInv == Init => IInv
<1>. SUFFICES ASSUME Init PROVE IInv
  OBVIOUS
<1>1. TypeOK
  <2>1. 0 \in Ids /\ 0 \in 0 .. Sessions
    BY HostAssumption DEF Ids
  <2>2. launcher \in [1 .. Sessions -> [at : LauncherPlaces, token : 0 .. Sessions, id : Ids, ok : BOOLEAN]]
    BY <2>1 DEF Init, LauncherPlaces
  <2>. QED  BY <2>1, <2>2 DEF Init, TypeOK, Idle
<1>2. PostsAreServed /\ AdvancedIsRunning /\ SuccessIsReported
  BY DEF Init, PostsAreServed, AdvancedIsRunning, SuccessIsReported, Idle, NoStatus
<1>3. Claiming = {}
  BY DEF Init, Claiming
<1>4. NoUnaskedDeployment
  BY <1>3, OwedIs, FS_EmptySet DEF Init, Owed
<1>. QED  BY <1>1, <1>2, <1>4 DEF IInv

-----------------------------------------------------------------------------
(* The launcher and its runner *)

\* A launcher that goes to a place where it neither takes, deploys nor reports.
LEMMA QuietGo ==
  ASSUME IInv, NEW s \in 1 .. Sessions,
         NEW l \in Launchers, l.at \notin {"claim", "report"},
         launcher' = [launcher EXCEPT ![s] = l],
         request' \in {request, NoRequest}, statusFile' \in {statusFile, NoStatus, UnknownError},
         token' \in 0 .. Sessions, UNCHANGED history,
         UNCHANGED server \/ \E c \in 0 .. Sessions : Replace(c)
  PROVE  IInv'
<1>1. /\ launcher' \in [1 .. Sessions -> Launchers] /\ launcher'[s] = l
      /\ \A q \in (1 .. Sessions) \ {s} : launcher'[q] = launcher[q]
  BY DEF IInv, TypeOK, Launchers
<1>2. TypeOK'
  <2>1. /\ container' \in 0 .. Sessions /\ stopping' \in BOOLEAN
        /\ wizard' \in [status : {"idle", "running", "success", "error"},
                       edition : {"none", "home", "advanced"}, id : Ids]
        /\ posts' \subseteq [at : PostPlaces, edition : {"home", "advanced"}, id : 1 .. MaxInstalls]
    <3>1. 0 \in Ids
      BY HostAssumption DEF Ids
    <3>2. CASE UNCHANGED server
      BY <3>2 DEF IInv, TypeOK, server
    <3>3. ASSUME NEW c \in 0 .. Sessions, Replace(c)
          PROVE  /\ container' \in 0 .. Sessions /\ stopping' = FALSE
                 /\ wizard' = Idle /\ posts' = {}
      BY <3>3 DEF Replace
    <3>4. Idle \in [status : {"idle", "running", "success", "error"},
                    edition : {"none", "home", "advanced"}, id : Ids]
      BY <3>1 DEF Idle
    <3>. QED  BY <3>2, <3>3, <3>4
  <2>2. /\ request' \in RequestFiles \cup {NoRequest}
        /\ statusFile' \in [id : Ids, status : {"running", "success", "error"}] \cup {NoStatus}
    BY HostAssumption DEF IInv, TypeOK, UnknownError, Ids
  <2>. QED  BY <1>1, <2>1, <2>2 DEF IInv, TypeOK, Launchers, history
<1>3. PostsAreServed' /\ AdvancedIsRunning'
  BY DEF IInv, PostsAreServed, AdvancedIsRunning, Replace, Idle, server
<1>4. SuccessIsReported'
  BY <1>1 DEF IInv, SuccessIsReported, history, NoStatus, UnknownError
<1>5. Cardinality(Claiming') <= Cardinality(Claiming)
  BY <1>1, OneMoves
<1>6. Owed' <= Owed /\ Owed \in Nat /\ Owed' \in Nat
  BY <1>5, ClaimingIsFinite DEF Owed, IInv, TypeOK, history
<1>7. NoUnaskedDeployment'
  BY <1>6, OwedIs DEF IInv, TypeOK, history, NoUnaskedDeployment, Owed, Claiming
<1>. QED  BY <1>2, <1>3, <1>4, <1>7 DEF IInv

LEMMA GoIs ==
  ASSUME IInv, NEW s \in 1 .. Sessions, NEW place \in LauncherPlaces, Go(s, place)
  PROVE  LET l == [launcher[s] EXCEPT !.at = place] IN
           l \in Launchers /\ l.at = place /\ launcher' = [launcher EXCEPT ![s] = l]
<1>. DEFINE l == [launcher[s] EXCEPT !.at = place]
<1>1. l \in Launchers /\ l.at = place
  BY DEF IInv, TypeOK, Launchers
<1>2. launcher' = [launcher EXCEPT ![s] = l]
  BY DEF Go, IInv, TypeOK
<1>. QED  BY <1>1, <1>2

\* The same for a launcher whose place alone changes.
LEMMA QuietPlace ==
  ASSUME IInv, NEW s \in 1 .. Sessions,
         NEW place \in LauncherPlaces \ {"claim", "report"}, Go(s, place),
         request' \in {request, NoRequest}, statusFile' \in {statusFile, NoStatus, UnknownError},
         token' \in 0 .. Sessions, UNCHANGED history,
         UNCHANGED server \/ \E c \in 0 .. Sessions : Replace(c)
  PROVE  IInv'
<1>. DEFINE l == [launcher[s] EXCEPT !.at = place]
<1>1. l \in Launchers /\ l.at = place /\ launcher' = [launcher EXCEPT ![s] = l]
  BY GoIs
<1>. QED  BY <1>1, QuietGo

LEMMA LaunchStep ==
  ASSUME IInv, NEW s \in 1 .. Sessions, Launch(s) \/ SudoExpired(s) \/ Interrupt(s)
  PROVE  IInv'
<1>. USE DEF LauncherPlaces, RunnerPlaces
<1>1. token \in 0 .. Sessions /\ 0 \in 0 .. Sessions
  BY HostAssumption DEF IInv, TypeOK
<1>2. CASE Rotate(s)
  <2>1. token' \in 0 .. Sessions
    BY <1>2 DEF Rotate
  <2>. QED  BY <1>2, <2>1, QuietPlace DEF Rotate, files
<1>3. CASE Clear(s)
  BY <1>1, <1>3, QuietPlace DEF Clear
<1>4. CASE Up(s)
  BY <1>1, <1>4, QuietPlace DEF Up, files
<1>5. CASE StopEarly(s)
  BY <1>1, <1>5, QuietPlace DEF StopEarly, files
<1>6. CASE StartRunner(s)
  <2>. DEFINE l == [launcher[s] EXCEPT !.at = "inspect", !.token = token]
  <2>1. l \in Launchers /\ l.at = "inspect"
    BY <1>1 DEF IInv, TypeOK, Launchers
  <2>2. launcher' = [launcher EXCEPT ![s] = l]
    BY <1>6 DEF StartRunner, IInv, TypeOK
  <2>. QED  BY <1>1, <1>6, <2>1, <2>2, QuietGo DEF StartRunner, files
<1>7. CASE Cleanup(s)
  BY <1>1, <1>7, QuietPlace DEF Cleanup, files
<1>8. CASE SudoExpired(s)
  BY <1>1, <1>8, QuietPlace DEF SudoExpired
<1>9. CASE Interrupt(s)
  BY <1>1, <1>9, QuietPlace DEF Interrupt, files
<1>. QED  BY <1>2, <1>3, <1>4, <1>5, <1>6, <1>7, <1>8, <1>9 DEF Launch

\* The rename: the file goes, and a runner has it.
LEMMA TakeStep ==
  ASSUME IInv, NEW s \in 1 .. Sessions, Take(s)
  PROVE  IInv'
<1>1. CASE request = NoRequest
  <2>1. token' \in 0 .. Sessions
    BY DEF Take, IInv, TypeOK
  <2>. QED  BY <1>1, <2>1, QuietPlace DEF Take, LauncherPlaces, RunnerPlaces
<1>2. CASE request # NoRequest
  <2>1. /\ launcher' \in [1 .. Sessions -> Launchers]
        /\ launcher[s].at # "claim" /\ launcher'[s].at = "claim"
        /\ \A q \in (1 .. Sessions) \ {s} : launcher'[q] = launcher[q]
    <3>1. launcher' = [launcher EXCEPT ![s] = [launcher[s] EXCEPT !.at = "claim"]]
          /\ [launcher[s] EXCEPT !.at = "claim"] \in Launchers
          /\ [launcher[s] EXCEPT !.at = "claim"].at = "claim"
      BY <1>2, GoIs DEF Take, LauncherPlaces, RunnerPlaces
    <3>. QED  BY <3>1 DEF Take, IInv, TypeOK, Launchers
  <2>2. request' = NoRequest /\ UNCHANGED <<token, statusFile, server, history>>
    BY <1>2 DEF Take
  <2>3. TypeOK'
    BY <2>1, <2>2 DEF IInv, TypeOK, Launchers, server, history
  <2>4. PostsAreServed' /\ AdvancedIsRunning' /\ SuccessIsReported'
    BY <2>1, <2>2
    DEF IInv, PostsAreServed, AdvancedIsRunning, SuccessIsReported, server, history
  <2>5. Cardinality(Claiming') = Cardinality(Claiming) + 1
    BY <2>1, OneMoves
  <2>6. Owed' = Owed /\ written' = written
    BY <1>2, <2>2, <2>5, ClaimingIsFinite DEF Owed, IInv, TypeOK, history
  <2>7. NoUnaskedDeployment'
    BY <2>6 DEF IInv, NoUnaskedDeployment, Owed, Claiming
  <2>. QED  BY <2>3, <2>4, <2>7 DEF IInv
<1>. QED  BY <1>1, <1>2

\* The deployer starts for the request that was taken.
LEMMA ClaimStep ==
  ASSUME IInv, NEW s \in 1 .. Sessions, Claim(s)
  PROVE  IInv'
<1>1. /\ launcher' \in [1 .. Sessions -> Launchers]
      /\ launcher[s].at = "claim" /\ launcher'[s].at = "deploy"
      /\ \A q \in (1 .. Sessions) \ {s} : launcher'[q] = launcher[q]
      /\ launcher[s].id \in Ids
  BY DEF Claim, Go, IInv, TypeOK, Launchers, LauncherPlaces, RunnerPlaces
<1>2. /\ statusFile' = [id |-> launcher[s].id, status |-> "running"]
      /\ started' = started + 1
      /\ UNCHANGED <<token, request, server, accepted, written, succeeded>>
  BY DEF Claim
<1>3. TypeOK'
  BY <1>1, <1>2 DEF IInv, TypeOK, Launchers, server
<1>4. PostsAreServed' /\ AdvancedIsRunning' /\ SuccessIsReported'
  BY <1>1, <1>2 DEF IInv, PostsAreServed, AdvancedIsRunning, SuccessIsReported, server
<1>5. Cardinality(Claiming') = Cardinality(Claiming) - 1
  BY <1>1, OneMoves
<1>6. Owed' = Owed /\ written' = written
  BY <1>2, <1>5, ClaimingIsFinite DEF Owed, IInv, TypeOK
<1>7. NoUnaskedDeployment'
  BY <1>6 DEF IInv, NoUnaskedDeployment, Owed, Claiming
<1>. QED  BY <1>3, <1>4, <1>7 DEF IInv

\* What the deployer's exit says is kept with its request until it is reported.
LEMMA OutcomeStep ==
  ASSUME IInv, NEW s \in 1 .. Sessions, DeployerExits(s) \/ Report(s)
  PROVE  IInv'
<1>0. launcher[s].id \in Ids /\ launcher[s].ok \in BOOLEAN
  BY DEF IInv, TypeOK
<1>1. /\ launcher' \in [1 .. Sessions -> Launchers]
      /\ launcher'[s].at # "claim"
      /\ \A q \in (1 .. Sessions) \ {s} : launcher'[q] = launcher[q]
  <2>1. ASSUME NEW l \in Launchers, l.at # "claim", launcher' = [launcher EXCEPT ![s] = l]
        PROVE  /\ launcher' \in [1 .. Sessions -> Launchers] /\ launcher'[s].at # "claim"
               /\ \A q \in (1 .. Sessions) \ {s} : launcher'[q] = launcher[q]
    BY <2>1 DEF IInv, TypeOK, Launchers
  <2>2. 0 \in Ids
    BY HostAssumption DEF Ids
  <2>3. CASE DeployerExits(s)
    <3>1. PICK ok \in BOOLEAN : launcher' = [launcher EXCEPT ![s].at = "report", ![s].ok = ok]
      BY <2>3 DEF DeployerExits
    <3>. DEFINE l == [launcher[s] EXCEPT !.at = "report", !.ok = ok]
    <3>2. l \in Launchers /\ l.at = "report" /\ launcher' = [launcher EXCEPT ![s] = l]
      BY <3>1 DEF IInv, TypeOK, Launchers, LauncherPlaces, RunnerPlaces
    <3>. QED  BY <2>1, <3>2
  <2>4. CASE Report(s)
    <3>. DEFINE l == [launcher[s] EXCEPT !.at = "inspect", !.id = 0, !.ok = FALSE]
    <3>1. l \in Launchers /\ l.at = "inspect" /\ launcher' = [launcher EXCEPT ![s] = l]
      BY <2>2, <2>4 DEF Report, IInv, TypeOK, Launchers, LauncherPlaces, RunnerPlaces
    <3>. QED  BY <2>1, <3>1
  <2>. QED  BY <2>3, <2>4
<1>2. UNCHANGED <<token, request, server, accepted, written, started>>
  BY DEF DeployerExits, Report, files, history
<1>3. TypeOK' /\ SuccessIsReported'
  <2>1. CASE DeployerExits(s)
    <3>1. PICK ok \in BOOLEAN :
            /\ launcher' = [launcher EXCEPT ![s].at = "report", ![s].ok = ok]
            /\ succeeded' = IF ok THEN succeeded \cup {launcher[s].id} ELSE succeeded
            /\ UNCHANGED statusFile
      BY <2>1 DEF DeployerExits, files
    <3>2. launcher'[s].id = launcher[s].id /\ launcher'[s].ok = ok
      BY <3>1 DEF IInv, TypeOK
    <3>3. succeeded \subseteq succeeded' /\ succeeded' \subseteq Ids
      BY <1>0, <1>1, <3>1 DEF IInv, TypeOK
    <3>4. TypeOK'
      BY <1>0, <1>1, <1>2, <3>1, <3>3 DEF IInv, TypeOK, Launchers, server
    <3>5. SuccessIsReported'
      BY <1>0, <1>1, <3>1, <3>2, <3>3 DEF IInv, SuccessIsReported
    <3>. QED  BY <3>4, <3>5
  <2>2. CASE Report(s)
    <3>1. /\ statusFile' = [id |-> launcher[s].id,
                            status |-> IF launcher[s].ok THEN "success" ELSE "error"]
          /\ launcher[s].at = "report" /\ launcher'[s].at = "inspect" /\ UNCHANGED succeeded
      BY <2>2 DEF Report, IInv, TypeOK, history
    <3>2. TypeOK'
      BY <1>0, <1>1, <1>2, <3>1 DEF IInv, TypeOK, Launchers, server
    <3>3. SuccessIsReported'
      BY <1>0, <1>1, <3>1 DEF IInv, SuccessIsReported
    <3>. QED  BY <3>2, <3>3
  <2>. QED  BY <2>1, <2>2
<1>4. PostsAreServed' /\ AdvancedIsRunning'
  BY <1>2 DEF IInv, PostsAreServed, AdvancedIsRunning, server
<1>5. Cardinality(Claiming') <= Cardinality(Claiming)
  BY <1>1, OneMoves
<1>6. Owed' <= Owed /\ Owed \in Nat /\ Owed' \in Nat /\ written' = written
  BY <1>2, <1>5, ClaimingIsFinite DEF Owed, IInv, TypeOK
<1>7. NoUnaskedDeployment'
  BY <1>6 DEF IInv, TypeOK, NoUnaskedDeployment, Owed, Claiming
<1>. QED  BY <1>3, <1>4, <1>7 DEF IInv

LEMMA RunnerStep ==
  ASSUME IInv, NEW s \in 1 .. Sessions, Runner(s)
  PROVE  IInv'
<1>. USE DEF LauncherPlaces, RunnerPlaces
<1>1. token \in 0 .. Sessions
  BY DEF IInv, TypeOK
<1>2. CASE Inspect(s)
  BY <1>1, <1>2, QuietPlace DEF Inspect, files
<1>3. CASE CheckToken(s)
  BY <1>1, <1>3, QuietPlace DEF CheckToken, files
<1>4. CASE Look(s)
  <2>1. CASE Go(s, "inspect") \/ Go(s, "refuse")
    BY <1>1, <1>4, <2>1, QuietPlace DEF Look, files
  <2>2. CASE launcher' = [launcher EXCEPT ![s].at = "take", ![s].id = request.id]
    <3>. DEFINE l == [launcher[s] EXCEPT !.at = "take", !.id = request.id]
    <3>1. request.id \in Ids
      BY HostAssumption DEF IInv, TypeOK, RequestFiles, NoRequest, Ids
    <3>2. l \in Launchers /\ l.at = "take"
      BY <3>1 DEF IInv, TypeOK, Launchers
    <3>3. launcher' = [launcher EXCEPT ![s] = l]
      BY <2>2 DEF IInv, TypeOK
    <3>. QED  BY <1>1, <1>4, <3>2, <3>3, QuietGo DEF Look, files
  <2>. QED  BY <1>4, <2>1, <2>2 DEF Look
<1>5. CASE Refuse(s)
  BY <1>1, <1>5, QuietPlace DEF Refuse
<1>. QED  BY <1>2, <1>3, <1>4, <1>5, TakeStep, ClaimStep, OutcomeStep DEF Runner

-----------------------------------------------------------------------------
(* The service *)

\* A step that moves no launcher and writes at most one request.
LEMMA ServiceStep ==
  ASSUME IInv, TypeOK', PostsAreServed', AdvancedIsRunning',
         UNCHANGED <<launcher, started, succeeded>>, statusFile' \in {statusFile, NoStatus},
         \/ written' = written + 1
         \/ written' = written /\ (request = NoRequest => request' = NoRequest)
  PROVE  IInv'
<1>1. SuccessIsReported'
  BY DEF IInv, SuccessIsReported, NoStatus
<1>2. Claiming' = Claiming
  BY DEF Claiming
<1>3. Owed \in Nat /\ Owed' \in Nat /\ written \in Nat /\ written' \in Nat
  BY <1>2, ClaimingIsFinite DEF Owed, IInv, TypeOK
<1>4. \/ written' = written + 1 /\ Owed' <= Owed + 1
      \/ written' = written /\ Owed' <= Owed
  BY <1>2, ClaimingIsFinite DEF Owed, IInv, TypeOK
<1>5. Owed' <= written'
  <2>1. Owed <= written
    BY OwedIs DEF IInv
  <2>. QED  BY <1>3, <1>4, <2>1
<1>6. NoUnaskedDeployment'
  BY <1>5 DEF NoUnaskedDeployment, Owed, Claiming
<1>. QED  BY <1>1, <1>6 DEF IInv

Statuses == [status : {"idle", "running", "success", "error"},
             edition : {"none", "home", "advanced"}, id : Ids]

LEMMA WizardTypes ==
  /\ Idle \in Statuses /\ Idle.edition = "none"
  /\ \A st \in {"success", "error", "running"}, e \in {"none", "home", "advanced"}, i \in Ids :
       [status |-> st, edition |-> e, id |-> i] \in Statuses
  /\ 0 \in Ids /\ 0 \in 0 .. Sessions /\ 1 .. MaxInstalls \subseteq Ids
  BY HostAssumption DEF Idle, Statuses, Ids

\* What a thread of the service does to the wizard, the files and itself.
LEMMA PostStep ==
  ASSUME IInv, NEW p \in posts, Serve(p)
  PROVE  IInv'
<1>. DEFINE Post == [at : PostPlaces, edition : {"home", "advanced"}, id : 1 .. MaxInstalls]
<1>1. p \in Post /\ container # 0 /\ posts \subseteq Post
  BY DEF IInv, TypeOK, PostsAreServed
<1>2. \A place \in PostPlaces : [p EXCEPT !.at = place] \in Post
  BY <1>1
<1>3. UNCHANGED <<token, launcher, container, stopping, accepted, started, succeeded>>
  BY DEF Serve, StartHome, EndHome, Prepare, ClearQueue, WriteRequest, SetRunning, files, history
<1>4. posts' \subseteq Post
  BY <1>1, <1>2
  DEF Serve, StartHome, EndHome, Prepare, ClearQueue, WriteRequest, SetRunning, AtPost, Done,
      PostPlaces
<1>5. wizard' \in Statuses /\ (wizard'.edition = "advanced" => wizard'.status = "running")
  <2>1. wizard \in Statuses /\ (wizard.edition = "advanced" => wizard.status = "running")
    BY DEF IInv, TypeOK, AdvancedIsRunning, Statuses
  <2>2. p.id \in Ids
    BY <1>1, WizardTypes
  <2>. QED
    BY <2>1, <2>2, WizardTypes
    DEF Serve, StartHome, EndHome, Prepare, ClearQueue, WriteRequest, SetRunning
<1>6. /\ statusFile' \in {statusFile, NoStatus}
      /\ \/ written' = written + 1
         \/ written' = written /\ (request = NoRequest => request' = NoRequest)
  BY DEF Serve, StartHome, EndHome, Prepare, ClearQueue, WriteRequest, SetRunning, files, history
<1>7. request' \in RequestFiles \cup {NoRequest} /\ written' \in Nat
  <2>1. container \in 1 .. Sessions
    BY <1>1, HostAssumption DEF IInv, TypeOK
  <2>2. [id |-> p.id, session |-> container, fresh |-> TRUE] \in RequestFiles
    BY <1>1, <2>1 DEF RequestFiles
  <2>3. \/ request' = request \/ request' = NoRequest
        \/ request' = [id |-> p.id, session |-> container, fresh |-> TRUE]
    BY DEF Serve, StartHome, EndHome, Prepare, ClearQueue, WriteRequest, SetRunning, files
  <2>4. written \in Nat /\ request \in RequestFiles \cup {NoRequest}
    BY DEF IInv, TypeOK
  <2>5. written' \in Nat
    BY <1>6, <2>4
  <2>6. request' \in RequestFiles \cup {NoRequest}
    BY <2>2, <2>3, <2>4
  <2>. QED  BY <2>5, <2>6
<1>8. TypeOK'
  BY <1>3, <1>4, <1>5, <1>6, <1>7 DEF IInv, TypeOK, Statuses
<1>9. PostsAreServed' /\ AdvancedIsRunning'
  BY <1>1, <1>3, <1>5 DEF PostsAreServed, AdvancedIsRunning
<1>. QED  BY <1>3, <1>6, <1>8, <1>9, ServiceStep

LEMMA ArriveStep ==
  ASSUME IInv, Arrive
  PROVE  IInv'
<1>1. PICK e \in {"home", "advanced"} :
        posts' = posts \cup {[at |-> "accepted", edition |-> e, id |-> accepted + 1]}
  BY DEF Arrive
<1>2. accepted + 1 \in 1 .. MaxInstalls /\ accepted' \in Ids
  BY HostAssumption DEF Arrive, IInv, TypeOK, Ids
<1>3. TypeOK'
  BY <1>1, <1>2 DEF Arrive, IInv, TypeOK, files, PostPlaces
<1>4. PostsAreServed' /\ AdvancedIsRunning'
  BY DEF Arrive, IInv, PostsAreServed, AdvancedIsRunning
<1>. QED  BY <1>3, <1>4, ServiceStep DEF Arrive, files

LEMMA RestStep ==
  ASSUME IInv, Expire \/ Finish \/ StopContainer
  PROVE  IInv'
<1>1. CASE Expire
  <2>1. request' \in RequestFiles \cup {NoRequest}
    BY <1>1 DEF Expire, IInv, TypeOK, RequestFiles
  <2>2. TypeOK'
    BY <1>1, <2>1 DEF Expire, IInv, TypeOK, server, history
  <2>3. PostsAreServed' /\ AdvancedIsRunning'
    BY <1>1 DEF Expire, IInv, PostsAreServed, AdvancedIsRunning, server
  <2>. QED  BY <1>1, <2>2, <2>3, ServiceStep DEF Expire, server, history
<1>2. CASE Finish
  <2>1. TypeOK'
    BY <1>2 DEF Finish, IInv, TypeOK, files, history
  <2>2. PostsAreServed' /\ AdvancedIsRunning'
    BY <1>2 DEF Finish, IInv, PostsAreServed, AdvancedIsRunning
  <2>. QED  BY <1>2, <2>1, <2>2, ServiceStep DEF Finish, files, history
<1>3. CASE StopContainer
  <2>1. TypeOK'
    BY <1>3, WizardTypes DEF StopContainer, Replace, IInv, TypeOK, Statuses, files, history
  <2>2. PostsAreServed' /\ AdvancedIsRunning'
    BY <1>3, WizardTypes DEF StopContainer, Replace, PostsAreServed, AdvancedIsRunning
  <2>. QED  BY <1>3, <2>1, <2>2, ServiceStep DEF StopContainer, files, history
<1>. QED  BY <1>1, <1>2, <1>3

-----------------------------------------------------------------------------
LEMMA NextIInv == IInv /\ [Next]_vars => IInv'
<1>. SUFFICES ASSUME IInv, [Next]_vars PROVE IInv'
  OBVIOUS
<1>1. ASSUME NEW s \in 1 .. Sessions, Launch(s) \/ Runner(s) \/ SudoExpired(s) \/ Interrupt(s)
      PROVE  IInv'
  BY <1>1, LaunchStep, RunnerStep
<1>2. ASSUME NEW p \in posts, Serve(p) PROVE IInv'
  BY <1>2, PostStep
<1>3. CASE Arrive
  BY <1>3, ArriveStep
<1>4. CASE Expire \/ Finish \/ StopContainer
  BY <1>4, RestStep
<1>5. CASE UNCHANGED vars
  <2>1. TypeOK' /\ PostsAreServed' /\ AdvancedIsRunning'
    BY <1>5
    DEF IInv, TypeOK, PostsAreServed, AdvancedIsRunning, vars, files, server, history
  <2>. QED  BY <1>5, <2>1, ServiceStep DEF vars, files, history
<1>. QED  BY <1>1, <1>2, <1>3, <1>4, <1>5 DEF Next

\* Launchers, runners and service account for every request and every outcome.
THEOREM Invariant == Spec => []IInv
<1>. QED  BY InitIInv, NextIInv, PTL DEF Spec

\* A success of an Advanced installation on the page (do_GET of bootstrap/server.py)
\* is that of the deployer a runner started for the request on the page.
THEOREM SuccessIsAlwaysDeployed == Spec => []SuccessIsDeployed
<1>1. IInv => SuccessIsDeployed
  BY DEF IInv, AdvancedIsRunning, SuccessIsReported, SuccessIsDeployed, Shown
<1>. QED  BY <1>1, Invariant, PTL

\* process_request (host_runner.py) runs the deployer at most once per request file,
\* however many runners look at it.
THEOREM DeploymentsAreAsked == Spec => []NoUnaskedDeployment
<1>1. IInv => NoUnaskedDeployment
  BY DEF IInv
<1>. QED  BY <1>1, Invariant, PTL
=============================================================================
