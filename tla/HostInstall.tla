----------------------------- MODULE HostInstall -----------------------------
(***************************************************************************)
(* The guided installation: the launcher (install.sh start_wizard), the    *)
(* temporary setup service it starts in the container torhole-bootstrap    *)
(* (bootstrap/server.py) and the host runner (bootstrap/host_runner.py).   *)
(* The service and the runner talk through files of run/bootstrap:         *)
(* advanced-request.json and advanced-status.json.  A request that is taken *)
(* is renamed to a .processing file nobody reads: here it just goes away.   *)
(*                                                                         *)
(* A launcher that is still running when another one starts keeps its      *)
(* runner, and both use the same container name, files and token file.     *)
(* A session is a number; its token is that number.                        *)
(***************************************************************************)
EXTENDS Naturals, FiniteSets

CONSTANTS Sessions,     \* how many times the launcher is started
          MaxInstalls   \* how many installations are accepted, in all

ASSUME HostAssumption == Sessions \in Nat /\ MaxInstalls \in Nat

VARIABLES
    token,       \* TORHOLE_BOOTSTRAP_TOKEN in .env.bootstrap.local, 0 before
    container,   \* the token torhole-bootstrap runs with, 0: no container
    wizard,      \* _status of the service: status, edition and request id
    request,     \* advanced-request.json
    statusFile,  \* advanced-status.json
    launcher,    \* per session: where it is, its runner's token and request
    posts,       \* the threads of accepted POSTs: where each is and its request
    stopping,    \* Finish was accepted, the container is about to be removed
    accepted,    \* installations accepted so far; the source of the random ids
    written,     \* request files written so far (history)
    started,     \* how many times a runner started the deployer (history)
    succeeded    \* requests whose deployer exited with 0 (history)

files  == <<request, statusFile>>
server == <<container, wizard, posts, stopping>>
history == <<accepted, written, started, succeeded>>
vars == <<token, launcher, files, server, history>>

NoRequest == [id |-> 0, session |-> 0, fresh |-> FALSE]
NoStatus == [id |-> 0, status |-> "none"]
Idle == [status |-> "idle", edition |-> "none", id |-> 0]
UnknownError == [id |-> 0, status |-> "error"]   \* request_id "unknown"

RunnerPlaces == {"inspect", "token", "look", "refuse", "take", "claim", "deploy",
                 "report"}
LauncherPlaces == RunnerPlaces \cup {"off", "clear", "up", "ready", "cleanup", "gone"}
PostPlaces == {"accepted", "clear", "write", "set", "home"}

Ids == 0 .. MaxInstalls
RequestFiles == [id : 1 .. MaxInstalls, session : 1 .. Sessions, fresh : BOOLEAN]

TypeOK ==
    /\ token \in 0 .. Sessions
    /\ container \in 0 .. Sessions
    /\ wizard \in [status : {"idle", "running", "success", "error"},
                   edition : {"none", "home", "advanced"}, id : Ids]
    /\ request \in RequestFiles \cup {NoRequest}
    /\ statusFile \in [id : Ids, status : {"running", "success", "error"}] \cup {NoStatus}
    /\ launcher \in [1 .. Sessions -> [at : LauncherPlaces, token : 0 .. Sessions,
                                       id : Ids, ok : BOOLEAN]]
    /\ posts \subseteq [at : PostPlaces, edition : {"home", "advanced"},
                       id : 1 .. MaxInstalls]
    /\ stopping \in BOOLEAN
    /\ accepted \in Ids
    /\ written \in Nat /\ started \in Nat
    /\ succeeded \subseteq Ids

Init ==
    /\ token = 0 /\ container = 0 /\ wizard = Idle
    /\ request = NoRequest /\ statusFile = NoStatus
    /\ launcher = [s \in 1 .. Sessions |->
                     [at |-> "off", token |-> 0, id |-> 0, ok |-> FALSE]]
    /\ posts = {}
    /\ stopping = FALSE
    /\ accepted = 0 /\ written = 0 /\ started = 0 /\ succeeded = {}

Go(s, place) == launcher' = [launcher EXCEPT ![s].at = place]

\* A container starts with an empty memory: its threads are gone with the old one.
Replace(c) ==
    /\ container' = c
    /\ wizard' = Idle
    /\ posts' = {}
    /\ stopping' = FALSE

\* Mutant: the status file counts whatever request it is about.
ShownOfAny ==
    IF wizard.edition = "advanced" /\ wizard.id # 0 /\ statusFile # NoStatus
      THEN statusFile.status
      ELSE wizard.status

\* What GET /api/bootstrap/status answers: the host status counts only when it
\* is about the request the wizard is waiting for.
Shown ==
    IF wizard.edition = "advanced" /\ wizard.id # 0
         /\ statusFile.id = wizard.id
      THEN statusFile.status
      ELSE wizard.status

-----------------------------------------------------------------------------
(* install.sh start_wizard.                                                 *)

Rotate(s) ==
    /\ launcher[s].at = "off"
    /\ token = s - 1   \* the sessions are numbered as they start
    /\ token' = s
    /\ Go(s, "clear")
    /\ UNCHANGED <<files, server, history>>

\* prepare_bootstrap_runtime removes the files of the session before.
Clear(s) ==
    /\ launcher[s].at = "clear"
    /\ request' = NoRequest /\ statusFile' = NoStatus
    /\ Go(s, "up")
    /\ UNCHANGED <<token, server, history>>

\* compose up recreates the container when its token changed and otherwise
\* leaves it running.  It takes the token the file holds by now.
Up(s) ==
    /\ launcher[s].at = "up"
    /\ IF container = token THEN UNCHANGED server ELSE Replace(token)
    /\ Go(s, "ready")
    /\ UNCHANGED <<token, files, history>>

\* The health loop ended without an answer, a command failed or Ctrl-C came before
\* the trap was set: the launcher ends and a container that is up stays up.
StopEarly(s) ==
    /\ launcher[s].at \in {"clear", "up", "ready"}
    /\ Go(s, "gone")
    /\ UNCHANGED <<token, files, server, history>>

\* run_host_installer reads the token from the file again.
StartRunner(s) ==
    /\ launcher[s].at = "ready"
    /\ launcher' = [launcher EXCEPT ![s].at = "inspect", ![s].token = token]
    /\ UNCHANGED <<token, files, server, history>>

\* cleanup_wizard: compose down, whoever's container it is.
Cleanup(s) ==
    /\ launcher[s].at = "cleanup"
    /\ Replace(0)
    /\ Go(s, "gone")
    /\ UNCHANGED <<token, files, history>>

\* Mutant: the launcher has no trap.
InterruptLeaves(s) ==
    /\ launcher[s].at \in RunnerPlaces
    /\ Go(s, "gone")
    /\ UNCHANGED <<token, files, server, history>>

\* Ctrl-C or the end of the terminal stops runner and deployer; the trap cleans up.
Interrupt(s) ==
    /\ launcher[s].at \in RunnerPlaces
    /\ Go(s, "cleanup")
    /\ UNCHANGED <<token, files, server, history>>

-----------------------------------------------------------------------------
(* host_runner.py run_loop and process_request.                             *)

Inspect(s) ==
    /\ launcher[s].at = "inspect"
    /\ Go(s, IF container = 0 THEN "cleanup" ELSE "token")
    /\ UNCHANGED <<token, files, server, history>>

\* Mutant: the token file is not compared with the runner's token.
CheckTokenNot(s) ==
    /\ launcher[s].at = "token"
    /\ Go(s, "look")
    /\ UNCHANGED <<token, files, server, history>>

CheckToken(s) ==
    /\ launcher[s].at = "token"
    /\ Go(s, IF launcher[s].token = token THEN "look" ELSE "cleanup")
    /\ UNCHANGED <<token, files, server, history>>

\* sudo -n true fails after the token was found current.
SudoExpired(s) ==
    /\ launcher[s].at = "look"
    /\ statusFile' = UnknownError
    /\ Go(s, "cleanup")
    /\ UNCHANGED <<token, request, server, history>>

\* validated_request: nothing to do, another session's, expired, or valid.
Look(s) ==
    /\ launcher[s].at = "look"
    /\ \/ /\ request.session # launcher[s].token   \* also when there is none
          /\ Go(s, "inspect")
       \/ /\ request.session = launcher[s].token
          /\ ~request.fresh
          /\ Go(s, "refuse")
       \/ /\ request.session = launcher[s].token
          /\ request.fresh
          /\ launcher' = [launcher EXCEPT ![s].at = "take", ![s].id = request.id]
    /\ UNCHANGED <<token, files, server, history>>

\* Mutant: the request is copied, not renamed.
TakeCopies(s) ==
    /\ launcher[s].at = "take"
    /\ Go(s, "claim")
    /\ UNCHANGED <<token, files, server, history>>

\* os.replace moves whatever the path holds by now; without a file it fails.
Take(s) ==
    /\ launcher[s].at = "take"
    /\ \/ /\ request # NoRequest
          /\ request' = NoRequest
          /\ Go(s, "claim")
       \/ /\ request = NoRequest
          /\ Go(s, "refuse")
          /\ UNCHANGED request
    /\ UNCHANGED <<token, statusFile, server, history>>

\* The handler of a refused request unlinks whatever the path holds by now.
Refuse(s) ==
    /\ launcher[s].at = "refuse"
    /\ request' = NoRequest
    /\ statusFile' = UnknownError
    /\ Go(s, "inspect")
    /\ UNCHANGED <<token, server, history>>

Claim(s) ==
    /\ launcher[s].at = "claim"
    /\ statusFile' = [id |-> launcher[s].id, status |-> "running"]
    /\ started' = started + 1
    /\ Go(s, "deploy")
    /\ UNCHANGED <<token, request, server, accepted, written, succeeded>>

\* The deployer exits, or could not be started.
DeployerExits(s) ==
    /\ launcher[s].at = "deploy"
    /\ \E ok \in BOOLEAN :
         /\ launcher' = [launcher EXCEPT ![s].at = "report", ![s].ok = ok]
         /\ succeeded' = IF ok THEN succeeded \cup {launcher[s].id} ELSE succeeded
    /\ UNCHANGED <<token, files, server, accepted, written, started>>

Report(s) ==
    /\ launcher[s].at = "report"
    /\ statusFile' = [id |-> launcher[s].id,
                      status |-> IF launcher[s].ok THEN "success" ELSE "error"]
    /\ launcher' = [launcher EXCEPT ![s].at = "inspect", ![s].id = 0, ![s].ok = FALSE]
    /\ UNCHANGED <<token, request, server, history>>

\* Six hours pass before a runner looks at the request.
Expire ==
    /\ request # NoRequest
    /\ request.fresh
    /\ request' = [request EXCEPT !.fresh = FALSE]
    /\ UNCHANGED <<token, launcher, statusFile, server, history>>

-----------------------------------------------------------------------------
(* server.py: do_POST, queue_advanced_install, run_home_install, Finish.    *)

AtPost(p, place) == posts' = (posts \ {p}) \cup {[p EXCEPT !.at = place]}
Done(p) == posts' = posts \ {p}

\* The 409 check; the answer is used after the lock is released.
Arrive ==
    /\ container # 0
    /\ Shown # "running"
    /\ \E e \in {"home", "advanced"} :
         posts' = posts \cup {[at |-> "accepted", edition |-> e, id |-> accepted + 1]}
    /\ accepted < MaxInstalls   \* bound
    /\ accepted' = accepted + 1
    /\ UNCHANGED <<token, launcher, files, container, wizard, stopping,
                   written, started, succeeded>>

StartHome(p) ==
    /\ p.at = "accepted"
    /\ p.edition = "home"
    /\ wizard' = [status |-> "running", edition |-> "home", id |-> 0]
    /\ AtPost(p, "home")
    /\ UNCHANGED <<token, launcher, files, container, stopping, history>>

\* set_status drops what the caller does not name: a failure has no edition.
EndHome(p) ==
    /\ p.at = "home"
    /\ wizard' \in {[status |-> "success", edition |-> "home", id |-> 0],
                    [status |-> "error", edition |-> "none", id |-> 0]}
    /\ Done(p)
    /\ UNCHANGED <<token, launcher, files, container, stopping, history>>

\* prepare_advanced_config wrote .env, or failed.
Prepare(p) ==
    /\ p.at = "accepted"
    /\ p.edition = "advanced"
    /\ \/ /\ AtPost(p, "clear")
          /\ UNCHANGED wizard
       \/ /\ Done(p)
          /\ wizard' = [status |-> "error", edition |-> "none", id |-> 0]
    /\ UNCHANGED <<token, launcher, files, container, stopping, history>>

ClearQueue(p) ==
    /\ p.at = "clear"
    /\ request' = NoRequest /\ statusFile' = NoStatus
    /\ AtPost(p, "write")
    /\ UNCHANGED <<token, launcher, container, wizard, stopping, history>>

WriteRequest(p) ==
    /\ p.at = "write"
    /\ \/ /\ written' = written + 1
          /\ request' = [id |-> p.id, session |-> container, fresh |-> TRUE]
          /\ AtPost(p, "set")
          /\ UNCHANGED wizard
       \/ /\ wizard' = [status |-> "error", edition |-> "none", id |-> 0]
          /\ Done(p)
          /\ UNCHANGED <<written, request>>   \* the write failed
    /\ UNCHANGED <<token, launcher, statusFile, container,
                   stopping, accepted, started, succeeded>>

SetRunning(p) ==
    /\ p.at = "set"
    /\ wizard' = [status |-> "running", edition |-> "advanced", id |-> p.id]
    /\ Done(p)
    /\ UNCHANGED <<token, launcher, files, container, stopping, history>>

Finish ==
    /\ container # 0
    /\ ~stopping
    /\ Shown = "success"
    /\ stopping' = TRUE
    /\ UNCHANGED <<token, launcher, files, container, wizard, posts, history>>

\* stop_bootstrap_container, one second later.
StopContainer ==
    /\ stopping
    /\ Replace(0)
    /\ UNCHANGED <<token, launcher, files, history>>

-----------------------------------------------------------------------------
Runner(s) ==
    \/ Inspect(s) \/ CheckToken(s) \/ Look(s) \/ Refuse(s) \/ Take(s)
    \/ Claim(s) \/ DeployerExits(s) \/ Report(s)

Launch(s) ==
    \/ Rotate(s) \/ Clear(s) \/ Up(s) \/ StopEarly(s) \/ StartRunner(s) \/ Cleanup(s)

Serve(p) ==
    \/ StartHome(p) \/ EndHome(p) \/ Prepare(p)
    \/ ClearQueue(p) \/ WriteRequest(p) \/ SetRunning(p)

Next ==
    \/ \E s \in 1 .. Sessions : Launch(s) \/ Runner(s) \/ SudoExpired(s) \/ Interrupt(s)
    \/ \E p \in posts : Serve(p)
    \/ Arrive \/ Expire \/ Finish \/ StopContainer

Spec == Init /\ [][Next]_vars

\* The runner is a single-threaded loop, the launcher's trap always runs, and
\* the fixed deployer ends.  Nothing is assumed of the browser.
Fairness ==
    \A s \in 1 .. Sessions : WF_vars(Runner(s) \/ Cleanup(s))

FairSpec == Spec /\ Fairness

-----------------------------------------------------------------------------
(* Properties.                                                              *)

\* The page does not report an Advanced success before a deployer that a runner
\* started for the request on the page exited with 0: not with a status left by
\* an older request, by another session or by a rejected request.
SuccessIsDeployed ==
    container # 0 /\ wizard.edition = "advanced" /\ Shown = "success"
        => wizard.id \in succeeded

\* The deployer runs at most once per request written: the rename hands each
\* request file to one runner, also when two runners hold the same token.
NoUnaskedDeployment ==
    started + Cardinality({s \in 1 .. Sessions : launcher[s].at = "claim"})
        + (IF request = NoRequest THEN 0 ELSE 1) <= written

\* A runner whose session was superseded ends: the container it inspects has the
\* name of the new session's, so that only the token check can end it.
SupersededRunnerEnds ==
    \A s \in 1 .. Sessions :
        launcher[s].at \in RunnerPlaces /\ launcher[s].token # token
            ~> launcher[s].at = "gone"

\* While a runner deploys the request on the page, the page will not say
\* "running" for ever: it gets the outcome, or a new request, or the service
\* goes away, which an interrupted launcher takes care of.
DeploymentIsAnswered ==
    \A i \in 1 .. MaxInstalls :
        (/\ \E s \in 1 .. Sessions : launcher[s].at = "deploy" /\ launcher[s].id = i
         /\ container # 0 /\ wizard.edition = "advanced" /\ wizard.id = i)
            ~> container = 0 \/ wizard.id # i \/ Shown # "running"

\* A runner of an older session neither takes the new session's request nor
\* overwrites the status of the request on the new session's page.
StaleRunnerKeepsOut ==
    [][ \A s \in 1 .. Sessions :
          launcher'[s] # launcher[s] /\ launcher[s].at \in RunnerPlaces
              /\ launcher[s].token # token
          => /\ request.session = token => request' = request
             /\ wizard.id # 0 /\ statusFile.id = wizard.id
                    /\ container = token
                  => statusFile' = statusFile ]_vars
=============================================================================
