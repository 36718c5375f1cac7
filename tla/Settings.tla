------------------------------ MODULE Settings ------------------------------
(***************************************************************************)
(* The configuration requests of the backup-manager: generic keys, the     *)
(* setup wizard, the admin password, HTTPS and the notification channels   *)
(* (monitoring/backup-manager/{server,env_store}.py), with the scripts that *)
(* render what the services read (18-render-auth.sh, 17-render-            *)
(* alertmanager.sh) and the delayed activation (25-apply-web-access.sh).   *)
(*                                                                         *)
(* Each request runs in a thread of its own and keeps _ENV_LOCK from its    *)
(* first read to its answer.  .env, the rendered files and what the reverse *)
(* proxy has loaded are separate: a step may leave them in disagreement.    *)
(* Authelia and Alertmanager load their rendered file when they restart.    *)
(***************************************************************************)
EXTENDS Naturals

CONSTANTS
    Request,      \* threads of the server
    Password,
    Value,        \* values of the keys that nothing renders here
    Cert,         \* uploaded certificates with their keys
    None,         \* no certificate file, no copy
    Nobody,       \* _ENV_LOCK is free
    MaxQueued,    \* bound: activation helpers waiting at a time
    MaxServed,    \* bound: requests that get the lock
    AllowCrash    \* whether the backup-manager may be killed

ASSUME SettingsAssumption ==
    /\ Nobody \notin Request
    /\ None \notin Cert
    /\ MaxQueued \in Nat /\ MaxServed \in Nat
    /\ AllowCrash \in BOOLEAN

VARIABLES
    lock,         \* the owner of _ENV_LOCK
    served,       \* how many requests have had it
    pc,           \* where each request is
    op,           \* what each request wants
    undo,         \* the copies each request keeps for its rollback
    env,          \* .env
    crt, key,     \* monitoring/caddy/tls/custom.{crt,key}
    sound,        \* the certificates 18-render-auth.sh accepts: they expire
    users,        \* the password in the rendered users_database.yml
    tls,          \* the mode in the rendered tls-snippets.caddy
    alert,        \* the channel's state in the rendered alertmanager.yml
    proxy,        \* the mode and certificate the reverse proxy has loaded
    queued,       \* helper containers about to recreate the proxy
    passed,       \* history: the web configurations that passed validation
    before        \* history: the state when each request got the lock

requestVars == <<pc, op, undo, before>>
webVars     == <<crt, key, users, tls>>
fileVars    == <<env, webVars, alert>>
vars == <<lock, served, requestVars, fileVars, proxy, sound, queued, passed>>

\* The modes that 18-render-auth.sh knows; POST config takes any text.
Mode == {"http", "https-local", "https-custom"}

\* .env: two keys, edition and zone, stand for the four that the setup wizard
\* writes, and secrets for the three that 18-render-auth.sh generates.
Env == [password : Password, mode : Mode \cup {"other"}, scheme : {"http", "https"},
        secrets : BOOLEAN, edition : Value, zone : Value, channel : {"on", "off"}]

\* What one request writes: new values for some of the keys.
Https   == [mode : {"https-local", "https-custom"}, scheme : {"https"}]
Setup   == [edition : Value, zone : Value] \cup [edition : Value] \cup [zone : Value]
Channel == [channel : {"on", "off"}]
Single  == [password : Password] \cup [mode : Mode \cup {"other"}] \cup [zone : Value]
           \cup [scheme : {"http", "https"}] \cup [secrets : BOOLEAN] \cup Channel
Change  == Single \cup Https \cup Setup

\* A password request comes with the current password, an HTTPS request may come
\* with a certificate.
Operation ==
    [kind : {"config"}, change : Single, with : {None}]
    \cup [kind : {"setup"}, change : Setup, with : {None}]
    \cup [kind : {"password"}, change : [password : Password], with : Password]
    \cup [kind : {"https"}, change : [mode : {"https-local"}, scheme : {"https"}], with : {None}]
    \cup [kind : {"https"}, change : [mode : {"https-custom"}, scheme : {"https"}], with : Cert]
    \cup [kind : {"channel"}, change : Channel, with : {None}]

\* update_env_text: the keys of c, and no others.
Changed(e, c) == [k \in DOMAIN e |-> IF k \in DOMAIN c THEN c[k] ELSE e[k]]

\* 18-render-auth.sh writes .env as well: it generates the secrets that are
\* missing, then sets the scheme that goes with the mode.
Completed(e) == Changed(e, [secrets |-> TRUE,
                            scheme |-> IF e.mode = "http" THEN "http" ELSE "https"])
Completions(e) == {e, Changed(e, [secrets |-> TRUE])}
                  \cup (IF e.mode \in Mode THEN {Completed(e)} ELSE {})

\* What a proxy that starts now would load.
OnDisk == IF tls = "https-custom" THEN [mode |-> tls, crt |-> crt, key |-> key]
                                  ELSE [mode |-> tls, crt |-> None, key |-> None]

File == Cert \cup {None}
Web  == [mode : Mode, crt : File, key : File]
Disk == [env : Env, crt : File, key : File, users : Password, tls : Mode,
         alert : {"on", "off", "torn"}]
Now  == [env |-> env, crt |-> crt, key |-> key, users |-> users, tls |-> tls, alert |-> alert]

\* whole is a history: no step of the rollback has failed.
Copies   == [env : Env \cup {None}, crt : File, key : File, whole : BOOLEAN]
NoCopies == [env |-> None, crt |-> None, key |-> None, whole |-> TRUE]

\* Four ends: the request succeeded, failed and was rolled back, failed and kept
\* its change, or was broken by an exception or by a rollback that failed too.
\* The last three are all errors for the client.
End == {"ok", "failed", "kept", "broken"}
Location == {"idle", "check", "writeCrt", "writeKey", "write", "renderAuth", "restart",
             "validate", "schedule", "undoEnv", "undoCrt", "undoKey", "undoRender",
             "renderAlert", "checkAlert", "reload", "undoChannel", "undoAlert"} \cup End

\* None is not a copy of anything.
ASSUME NoneAssumption == None \notin Env \cup Disk \cup Operation \cup Change

TypeOK ==
    /\ lock \in Request \cup {Nobody}
    /\ served \in 0..MaxServed
    /\ pc \in [Request -> Location]
    /\ op \in [Request -> Operation \cup {None}]
    /\ undo \in [Request -> Copies]
    /\ before \in [Request -> Disk \cup {None}]
    /\ Now \in Disk
    /\ sound \subseteq Cert
    /\ proxy \in Web
    /\ queued \in 0..MaxQueued
    /\ passed \subseteq Web

Init ==
    /\ lock = Nobody /\ served = 0
    /\ pc = [r \in Request |-> "idle"]
    /\ op = [r \in Request |-> None]
    /\ undo = [r \in Request |-> NoCopies]
    /\ before = [r \in Request |-> None]
    /\ sound \in SUBSET Cert
    \* A deployment has rendered and started everything.
    /\ env \in Env /\ env.mode \in Mode /\ env = Completed(env)
    /\ IF env.mode = "https-custom" THEN crt \in sound ELSE crt = None
    /\ key = crt
    /\ users = env.password /\ tls = env.mode /\ alert = env.channel
    /\ proxy = OnDisk
    /\ queued = 0
    /\ passed = {OnDisk}

-----------------------------------------------------------------------------
(* Helpers *)

Goto(r, l) == pc' = [pc EXCEPT ![r] = l]

\* A step that moves request r and leaves its copies alone.
Moves(r, l) == Goto(r, l) /\ UNCHANGED <<op, undo, before, lock, served>>

Uses(r, kinds) == op[r] # None /\ op[r].kind \in kinds

\* .env with the request's change.
Asked(r) == Changed(before[r].env, op[r].change)

\* What the checks of 18-render-auth.sh ask of a custom certificate.
Acceptable == env.mode = "https-custom" => crt = key /\ crt \in sound

\* 18-render-auth.sh.
RenderSucceeds ==
    /\ env.mode \in Mode
    /\ Acceptable
    /\ env' = Completed(env)
    /\ users' = env.password
    /\ tls' = env.mode

\* It may fail anywhere: before or after each write of .env, after
\* users_database.yml (which it writes before it looks at the certificate), or
\* after everything.
RenderFails ==
    \/ env' \in Completions(env) /\ UNCHANGED <<users, tls>>
    \/ /\ env.mode \in Mode
       /\ env' = Completed(env)
       /\ users' = env.password
       /\ tls' = tls \/ (Acceptable /\ tls' = env.mode)

-----------------------------------------------------------------------------
(* Entry and answer *)

\* Mutant: the lock covers single writes, not the whole request.
BeginUnlocked(r, o) ==
    /\ pc[r] = "idle"
    /\ served < MaxServed
    /\ lock' = r /\ served' = served + 1
    /\ Goto(r, "check")
    /\ op' = [op EXCEPT ![r] = o]
    /\ before' = [before EXCEPT ![r] = Now]
    /\ UNCHANGED <<undo, fileVars, proxy, sound, queued, passed>>

\* serialized_env_operation.  A request that waits for the lock has done nothing
\* yet: it begins when it gets it.
Begin(r, o) ==
    /\ pc[r] = "idle"
    /\ lock = Nobody
    /\ served < MaxServed
    /\ lock' = r /\ served' = served + 1
    /\ Goto(r, "check")
    /\ op' = [op EXCEPT ![r] = o]
    /\ before' = [before EXCEPT ![r] = Now]
    /\ UNCHANGED <<undo, fileVars, proxy, sound, queued, passed>>

\* A wrong current password, a bad key, value or certificate, a channel that is
\* not configured.
Refuse(r) ==
    /\ pc[r] = "check"
    /\ Moves(r, "failed")
    /\ UNCHANGED <<fileVars, proxy, sound, queued, passed>>

\* apply_setup_config writes only what differs; generated HTTPS may be on already.
HasAlready(r) ==
    \/ Uses(r, {"setup"}) /\ Changed(env, op[r].change) = env
    \/ Uses(r, {"https"}) /\ op[r].with = None /\ env.mode = "https-local"

NothingToDo(r) ==
    /\ pc[r] = "check"
    /\ HasAlready(r)
    /\ Moves(r, "ok")
    /\ UNCHANGED <<fileVars, proxy, sound, queued, passed>>

Accept(r) ==
    /\ pc[r] = "check"
    /\ Uses(r, {"password"}) => op[r].with = env.password
    /\ ~HasAlready(r)
    /\ Goto(r, IF Uses(r, {"https"}) /\ op[r].with # None THEN "writeCrt" ELSE "write")
    \* previous_cert and previous_key are read before anything is written.
    /\ undo' = [undo EXCEPT ![r] = [NoCopies EXCEPT !.crt = crt, !.key = key]]
    /\ UNCHANGED <<op, before, lock, served, fileVars, proxy, sound, queued, passed>>

Answer(r) ==
    /\ pc[r] \in End
    /\ Goto(r, "idle")
    /\ lock' = Nobody
    /\ op' = [op EXCEPT ![r] = None]
    /\ undo' = [undo EXCEPT ![r] = NoCopies]
    /\ before' = [before EXCEPT ![r] = None]
    /\ UNCHANGED <<served, fileVars, proxy, sound, queued, passed>>

-----------------------------------------------------------------------------
(* update_env_keys: a private copy of the whole file, then an atomic rename *)

AfterWrite(r) == CASE Uses(r, {"password", "https"}) -> "renderAuth"
                   [] Uses(r, {"channel"})           -> "renderAlert"
                   [] OTHER                          -> "ok"

\* Mutant: the keys are written by separate calls, and the request goes on after the
\* first.
WriteEnvOneKey(r) ==
    /\ pc[r] = "write"
    /\ undo' = [undo EXCEPT ![r].env = env]
    /\ \E k \in DOMAIN op[r].change : env' = [env EXCEPT ![k] = op[r].change[k]]
    /\ Goto(r, AfterWrite(r))
    /\ UNCHANGED <<op, before, lock, served, webVars, alert, proxy, sound, queued, passed>>

WriteEnv(r) ==
    /\ pc[r] = "write"
    /\ undo' = [undo EXCEPT ![r].env = env]
    /\ env' = Changed(env, op[r].change)
    /\ Goto(r, AfterWrite(r))
    /\ UNCHANGED <<op, before, lock, served, webVars, alert, proxy, sound, queued, passed>>

\* Nothing is written; only configure_https has something to undo.
WriteEnvFails(r) ==
    /\ pc[r] = "write"
    /\ Moves(r, IF Uses(r, {"https"}) THEN "undoEnv" ELSE "failed")
    /\ UNCHANGED <<fileVars, proxy, sound, queued, passed>>

AfterRender(r) == IF Uses(r, {"password"}) THEN "restart" ELSE "validate"

\* Mutant: the return code of the render is not looked at.
RenderAuthIgnored(r) ==
    /\ pc[r] = "renderAuth"
    /\ RenderSucceeds \/ RenderFails
    /\ Moves(r, AfterRender(r))
    /\ UNCHANGED <<crt, key, alert, proxy, sound, queued, passed>>

\* A script that cannot be started is an exception, which update_admin_password
\* does not catch.
RenderAuth(r) ==
    /\ pc[r] = "renderAuth"
    /\ \/ RenderSucceeds /\ Moves(r, AfterRender(r))
       \/ RenderFails /\ Moves(r, "undoEnv")
       \/ UNCHANGED <<env, users, tls>> /\ Uses(r, {"password"}) /\ Moves(r, "broken")
    /\ UNCHANGED <<crt, key, alert, proxy, sound, queued, passed>>

\* restore_env_from_backup puts the whole file back, raises, or returns FALSE when
\* the copy is gone, which nobody looks at.  update_admin_password stops there;
\* configure_https goes on to the certificate and the files.
UndoEnv(r) ==
    /\ pc[r] = "undoEnv"
    /\ \/ /\ env' = IF undo[r].env = None THEN env ELSE undo[r].env
          /\ Moves(r, IF Uses(r, {"https"}) THEN "undoCrt" ELSE "failed")
       \/ /\ undo[r].env # None
          /\ UNCHANGED env
          /\ Moves(r, "broken")
       \/ /\ undo[r].env # None /\ Uses(r, {"https"})
          /\ undo' = [undo EXCEPT ![r].whole = FALSE]
          /\ Goto(r, "undoCrt")
          /\ UNCHANGED <<env, op, before, lock, served>>
    /\ UNCHANGED <<webVars, alert, proxy, sound, queued, passed>>

-----------------------------------------------------------------------------
(* update_admin_password, last step *)

\* restart_authelia_container; without it the change is kept and reported.
RestartAuthelia(r) ==
    /\ pc[r] = "restart"
    /\ \E l \in {"ok", "kept", "broken"} : Moves(r, l)
    /\ UNCHANGED <<fileVars, proxy, sound, queued, passed>>

-----------------------------------------------------------------------------
(* configure_https *)

WriteCrt(r) ==
    /\ pc[r] = "writeCrt"
    /\ \/ crt' = op[r].with /\ Moves(r, "writeKey")
       \/ UNCHANGED crt /\ Moves(r, "undoEnv")
    /\ UNCHANGED <<env, key, users, tls, alert, proxy, sound, queued, passed>>

WriteKey(r) ==
    /\ pc[r] = "writeKey"
    /\ \/ key' = op[r].with /\ Moves(r, "write")
       \/ UNCHANGED key /\ Moves(r, "undoEnv")
    /\ UNCHANGED <<env, crt, users, tls, alert, proxy, sound, queued, passed>>

\* 13-render-prometheus.sh, 14-render-caddy-topology.sh and
\* run_system_validation, which fails at once when another validation or a
\* recovery is running.
Validate(r) ==
    /\ pc[r] = "validate"
    /\ \/ passed' = passed \cup {OnDisk} /\ Moves(r, "schedule")
       \/ UNCHANGED passed /\ Moves(r, "undoEnv")
    /\ UNCHANGED <<fileVars, proxy, sound, queued>>

\* schedule_local_https_activation: a container that sleeps two seconds first.
Schedule(r) ==
    /\ pc[r] = "schedule"
    /\ \/ queued < MaxQueued /\ queued' = queued + 1 /\ Moves(r, "ok")
       \/ UNCHANGED queued /\ Moves(r, "undoEnv")
    /\ UNCHANGED <<fileVars, proxy, sound, passed>>

\* _restore_web_access_file raises when it cannot write: the rest is not undone.
UndoCrt(r) ==
    /\ pc[r] = "undoCrt"
    /\ \/ crt' = undo[r].crt /\ Moves(r, "undoKey")
       \/ UNCHANGED crt /\ Moves(r, "broken")
    /\ UNCHANGED <<env, key, users, tls, alert, proxy, sound, queued, passed>>

UndoKey(r) ==
    /\ pc[r] = "undoKey"
    /\ \/ key' = undo[r].key /\ Moves(r, "undoRender")
       \/ UNCHANGED key /\ Moves(r, "broken")
    /\ UNCHANGED <<env, crt, users, tls, alert, proxy, sound, queued, passed>>

\* "Best effort": the result of the render is not looked at.
UndoRender(r) ==
    /\ pc[r] = "undoRender"
    /\ RenderSucceeds \/ RenderFails
    /\ Moves(r, IF undo[r].whole THEN "failed" ELSE "broken")
    /\ UNCHANGED <<crt, key, alert, proxy, sound, queued, passed>>

-----------------------------------------------------------------------------
(* set_notification_channel *)

\* The script empties alertmanager.yml before it writes it.
RenderAlert(r) ==
    /\ pc[r] = "renderAlert"
    /\ \/ alert' = env.channel /\ Moves(r, "checkAlert")
       \/ alert' \in {alert, "torn"} /\ Moves(r, "undoChannel")
       \/ UNCHANGED alert /\ Moves(r, "broken")
    /\ UNCHANGED <<env, webVars, proxy, sound, queued, passed>>

\* validate_alertmanager_config.
CheckAlert(r) ==
    /\ pc[r] = "checkAlert"
    /\ \E l \in {"reload", "undoChannel", "broken"} : Moves(r, l)
    /\ UNCHANGED <<fileVars, proxy, sound, queued, passed>>

\* reload_alertmanager.
Reload(r) ==
    /\ pc[r] = "reload"
    /\ \E l \in {"ok", "undoChannel", "broken"} : Moves(r, l)
    /\ UNCHANGED <<fileVars, proxy, sound, queued, passed>>

\* rollback_notification_state: .env, then the old file, then a render of it,
\* whose result is not looked at, then a reload.
UndoChannel(r) ==
    /\ pc[r] = "undoChannel"
    /\ \/ env' = undo[r].env /\ Moves(r, "undoAlert")
       \/ UNCHANGED env /\ Moves(r, "broken")
    /\ UNCHANGED <<webVars, alert, proxy, sound, queued, passed>>

UndoAlert(r) ==
    /\ pc[r] = "undoAlert"
    /\ \/ alert' \in {before[r].alert, env.channel} /\ Moves(r, "failed")
       \/ alert' \in {alert, before[r].alert, env.channel, "torn"} /\ Moves(r, "broken")
    /\ UNCHANGED <<env, webVars, proxy, sound, queued, passed>>

-----------------------------------------------------------------------------
(* The rest of the system *)

\* 25-apply-web-access.sh recreates Authelia and the proxy, or fails.
Activate ==
    /\ queued > 0
    /\ queued' = queued - 1
    /\ proxy' \in {OnDisk, proxy}
    /\ UNCHANGED <<lock, served, requestVars, fileVars, sound, passed>>

\* /api/services/action, a crash of the proxy or a reboot: it starts with what is
\* on the disk.
RestartProxy ==
    /\ proxy' = OnDisk
    /\ UNCHANGED <<lock, served, requestVars, fileVars, sound, queued, passed>>

CertExpires ==
    /\ \E c \in sound : sound' = sound \ {c}
    /\ UNCHANGED <<lock, served, requestVars, fileVars, proxy, queued, passed>>

\* The backup-manager is killed: its threads and its lock are gone.
Kill ==
    /\ AllowCrash
    /\ \E r \in Request : pc[r] # "idle"
    /\ lock' = Nobody
    /\ pc' = [r \in Request |-> "idle"]
    /\ op' = [r \in Request |-> None]
    /\ undo' = [r \in Request |-> NoCopies]
    /\ before' = [r \in Request |-> None]
    /\ UNCHANGED <<served, fileVars, proxy, sound, queued, passed>>

-----------------------------------------------------------------------------
HttpsStep(r)   == \/ WriteCrt(r) \/ WriteKey(r) \/ Validate(r) \/ Schedule(r)
                  \/ UndoCrt(r) \/ UndoKey(r) \/ UndoRender(r)
ChannelStep(r) == RenderAlert(r) \/ CheckAlert(r) \/ Reload(r) \/ UndoChannel(r) \/ UndoAlert(r)
Holding(r)     == \/ Refuse(r) \/ NothingToDo(r) \/ Accept(r) \/ Answer(r)
                  \/ WriteEnv(r) \/ WriteEnvFails(r) \/ RenderAuth(r) \/ UndoEnv(r)
                  \/ RestartAuthelia(r) \/ HttpsStep(r) \/ ChannelStep(r)

Next ==
    \/ \E r \in Request, o \in Operation : Begin(r, o)
    \/ \E r \in Request : Holding(r)
    \/ Activate
    \/ RestartProxy
    \/ CertExpires
    \/ Kill

Spec == Init /\ [][Next]_vars

-----------------------------------------------------------------------------
(* Properties *)

\* A request that is refused, or whose rollback did its work, leaves every key of
\* .env and the two certificate files as it found them, whatever else was requested
\* meanwhile ("rollback cannot erase another save",
\* docs/maintenance-fixes-2026-09-13.md:15); the render that ends the rollback of
\* configure_https may only have filled in the secrets and the scheme.
\* alertmanager.yml has the old state or the one of .env.  Two kinds of errors are
\* outside: "kept" (server.py:979, SuccessApplies) and "broken" (AtomicSpec).
FailureRestores ==
    \A r \in Request : pc[r] = "failed" =>
        /\ \/ env = before[r].env
           \/ Uses(r, {"https"}) /\ env \in Completions(before[r].env)
        /\ crt = before[r].crt /\ key = before[r].key
        /\ Uses(r, {"channel"}) => alert \in {before[r].alert, env.channel}

\* A request that reports success, or that its change is kept, has written all its
\* keys and, but for the secrets and the scheme of a render, no other; the files
\* that are rendered from them follow; a certificate is there with its own key, and
\* a queued proxy will find a validated configuration.
SuccessApplies ==
    \A r \in Request : pc[r] \in {"ok", "kept"} =>
        /\ Uses(r, {"config", "setup", "channel"}) => env = Asked(r)
        /\ Uses(r, {"channel"}) => alert = env.channel
        /\ Uses(r, {"password"}) => env = Completed(Asked(r)) /\ users = env.password
        /\ Uses(r, {"https"}) =>
             \/ /\ env = before[r].env /\ env.mode = "https-local"
                /\ crt = before[r].crt /\ key = before[r].key
             \/ /\ env = Completed(Asked(r))
                /\ op[r].with # None => crt = op[r].with /\ key = op[r].with
                /\ tls = env.mode /\ OnDisk \in passed

\* .env as the last request that came to an end left it, and what the one that has
\* not come to its end wants.
UnderWay  == lock # Nobody /\ pc[lock] \notin End \cup {"idle"}
Committed == IF UnderWay THEN before[lock].env ELSE env
Wanted    == IF UnderWay THEN op[lock].change ELSE None

\* The requests implement AtomicSettings: nobody can tell that a change was
\* written, and taken back, step by step, and no part of a change is left alone.
\* A kill, an exception or a failing rollback may make the change of the request it
\* ends permanent, with all its keys.
Atomic == INSTANCE AtomicSettings WITH env <- Committed, asked <- Wanted

AtomicSpec == Atomic!Spec

\* "Any failure after step 3 triggers restoration from the pre-write backup so the
\* stack is left in a consistent state" (server.py:928): after a refused password
\* Authelia's file holds the password it held before.
RefusedPasswordIsUndone ==
    \A r \in Request : pc[r] = "failed" /\ Uses(r, {"password"}) => users = before[r].users

\* ".env and the rendered Caddy/Authelia files were validated before this helper
\* was queued" (25-apply-web-access.sh:10): the proxy is recreated with a web
\* configuration that has passed the validation.
ActivatesValidated == [][Activate => proxy' \in passed \cup {proxy}]_vars
=============================================================================
